-------------------------------- MODULE Mark --------------------------------
(***************************************************************************)
(* The first phase of both collectors, details::Mark: the slots of the     *)
(* shadow stacks are visited one by one, then the fields of the objects    *)
(* found, through a worklist of the addresses of fields.                   *)
(*                                                                         *)
(* ThreadsStacks::map is an unordered_map, so the stacks come in any order.*)
(* The worklist is a stack; here it is a set and pop() takes any element:  *)
(* no slot is pushed twice, and nothing depends on the order.              *)
(***************************************************************************)
EXTENDS HeapClient

VARIABLES
    phase,                  \* what collect() does: Phase
    roots,                  \* the slots of the stacks still to be visited
    worklist,               \* the fields still to be visited, <<c, f>>
    color                   \* MarkWord::color of what is in each cell

markVars == <<phase, roots, worklist, color>>

FieldSlots == Cells \X Fields

InitMark ==
    /\ phase = "idle"
    /\ roots = {}
    /\ worklist = {}
    /\ color = [c \in Cells |-> "White"]

(* trace() of the object in c pushes its fields that are not nullptr. *)
Trace(c) == {<<c, f>> : f \in {g \in Fields : field[c][g] # Null}}

(* Faulty forms, for mutation: process_pointer() that does not call trace, *)
(* a loop over the stacks that stops one slot early, and a worklist that   *)
(* is read without being popped.                                           *)
ProcessPointerShallow(c, kept) ==
    /\ color' = [color EXCEPT ![c] = "Black"]
    /\ worklist' = kept

BeginMarkShort ==
    /\ STW!BeginCollect
    /\ phase' = "roots"
    /\ roots' = {s \in StackSlots : s[2] < Len(stack[s[1]])}
    /\ UNCHANGED <<stack, oop, field, request, terminated, worklist, color>>

(* process_pointer of a pointer to c; the fields in kept stay pending. *)
ProcessPointer(c, kept) ==
    IF color[c] = "Black"
    THEN worklist' = kept /\ UNCHANGED color
    ELSE /\ color' = [color EXCEPT ![c] = "Black"]
         /\ worklist' = kept \cup Trace(c)

BeginMark ==
    /\ STW!BeginCollect
    /\ phase' = "roots"
    /\ roots' = StackSlots
    /\ UNCHANGED <<stack, oop, field, request, terminated, worklist, color>>

MarkRoot ==
    /\ phase = "roots"
    /\ \E s \in roots :
          /\ roots' = roots \ {s}
          /\ \/ /\ stack[s[1]][s[2]] = Null
                /\ UNCHANGED <<worklist, color>>
             \/ /\ stack[s[1]][s[2]] # Null
                /\ ProcessPointer(stack[s[1]][s[2]], worklist)
    /\ UNCHANGED <<clientVars, phase>>

RootsMarked ==
    /\ phase = "roots"
    /\ roots = {}
    /\ phase' = "drain"
    /\ UNCHANGED <<clientVars, roots, worklist, color>>

MarkFieldAgain ==
    /\ phase = "drain"
    /\ \E s \in worklist : ProcessPointer(field[s[1]][s[2]], worklist)
    /\ UNCHANGED <<clientVars, phase, roots>>

MarkField ==
    /\ phase = "drain"
    /\ \E s \in worklist : ProcessPointer(field[s[1]][s[2]], worklist \ {s})
    /\ UNCHANGED <<clientVars, phase, roots>>

=============================================================================
