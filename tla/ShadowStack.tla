----------------------------- MODULE ShadowStack -----------------------------
(***************************************************************************)
(* The shadow stack of one thread: a Buffer<ObjectPointer> whose slots are *)
(* the roots, Handles that keep the address of a slot, and HandleMarks that*)
(* truncate the stack to what it was when they were made.                  *)
(*                                                                         *)
(* The address of a slot is <<base, index>>, where base is the mapping that*)
(* holds the buffer.  mremap(MREMAP_MAYMOVE) is external: it may extend the*)
(* mapping where it is, or give a new one and take the old one away.       *)
(***************************************************************************)
EXTENDS Integers, SequencesExt

CONSTANTS
    INITIAL_SIZE,           \* Buffer::INITIAL_SIZE, 4096 in the code
    RATIO                   \* Buffer::RATIO, 2 in the code

ASSUME BufferAssumption == INITIAL_SIZE \in Nat \ {0} /\ RATIO \in Nat \ {0, 1}

VARIABLES
    base, capacity, slots,  \* the Buffer
    marks,                  \* saved_sp of the HandleMarks in scope
    handle                  \* oop_ptr of each Handle variable of the program

stackVars == <<base, capacity, slots, marks, handle>>

None == <<0, 0>>            \* no Handle of that name is in scope

InitStack(names) ==
    /\ base = 1
    /\ capacity = INITIAL_SIZE
    /\ slots = <<>>
    /\ marks = <<>>
    /\ handle = [h \in names |-> None]

(* Buffer::resize, which calls Page::realloc. *)
Resize ==
    /\ capacity' = capacity * RATIO
    /\ base' \in {base, base + 1}

(* Faulty form, for mutation: resize() comes one slot late. *)
PushLate(h, p) ==
    /\ IF Len(slots) > capacity THEN Resize ELSE UNCHANGED <<capacity, base>>
    /\ slots' = Append(slots, p)
    /\ handle' = [handle EXCEPT ![h] = <<base', Len(slots) + 1>>]

(* The constructor of Handle h: ShadowStack::push. *)
Push(h, p) ==
    /\ IF Len(slots) = capacity THEN Resize ELSE UNCHANGED <<capacity, base>>
    /\ slots' = Append(slots, p)
    /\ handle' = [handle EXCEPT ![h] = <<base', Len(slots) + 1>>]

(* The constructor of a HandleMark. *)
Mark == marks' = Append(marks, Len(slots))

(* Faulty form, for mutation: trunc() leaves a slot too many. *)
LeaveOne ==
    LET saved_sp == Last(marks) + 1
    IN  /\ slots' = SubSeq(slots, 1, saved_sp)
        /\ marks' = Front(marks)
        /\ UNCHANGED <<base, capacity, handle>>

(* The destructor of the last HandleMark; the Handles declared after it    *)
(* have gone out of scope with it.                                         *)
Leave ==
    LET saved_sp == Last(marks)
    IN  /\ slots' = SubSeq(slots, 1, saved_sp)
        /\ marks' = Front(marks)
        /\ handle' = [h \in DOMAIN handle |->
                         IF handle[h][2] > saved_sp THEN None ELSE handle[h]]
        /\ UNCHANGED <<base, capacity>>

(* h is in scope and what it points to is still a slot. *)
Valid(h) == handle[h][1] = base

(* Handle::oop: what is in the slot. *)
Read(h) == slots[handle[h][2]]

=============================================================================
