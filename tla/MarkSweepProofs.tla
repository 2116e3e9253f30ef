--------------------------- MODULE MarkSweepProofs ---------------------------
(***************************************************************************)
(* The mark-and-sweep heap is correct for every number of threads, cells   *)
(* and fields: IInv is inductive, no reference dangles, marking finds      *)
(* exactly the reachable objects, the statistics are those of the list,    *)
(* and the heap implements ManagedHeap.                                    *)
(***************************************************************************)
EXTENDS MarkSweepProperties, DataLemmas, TLAPS

-----------------------------------------------------------------------------
(* Client code, whatever heap it runs on: the set Reachable is closed and  *)
(* least, and a client refers to nothing but null pointers and the objects *)
(* there are, if it did so before.  MarkCompactProofs has the same lemmas. *)
(* A slot s of StackSlots is a pair of a thread and an index within that   *)
(* thread's stack.                                                         *)

LEMMA SlotTypes ==
    ASSUME ClientTypeOK, NEW s \in StackSlots
    PROVE  /\ s[1] \in Mutators
           /\ s[2] \in 1 .. Len(stack[s[1]])
           /\ stack[s[1]][s[2]] \in Pointers
BY DEF StackSlots, ClientTypeOK

LEMMA RootsAreCells == ASSUME ClientTypeOK PROVE Roots \subseteq Cells
BY SlotTypes DEF Roots, Pointers

(* Reachable contains the roots and every object they lead to, ... *)
LEMMA ReachableIsClosed ==
    ASSUME ClientTypeOK
    PROVE  Reachable \subseteq Cells /\ Roots \subseteq Reachable /\ Closed(Reachable)
<1>1. Reachable \subseteq Cells
  BY DEF Reachable
<1>2. Roots \subseteq Reachable
  BY RootsAreCells DEF Reachable
<1>3. ASSUME NEW c \in Reachable, NEW f \in Fields, field[c][f] # Null
      PROVE  field[c][f] \in Reachable
  <2>1. field[c][f] \in Cells
    BY <1>1, <1>3 DEF ClientTypeOK, Pointers
  <2>2. ASSUME NEW S \in SUBSET Cells, Roots \subseteq S, Closed(S)
        PROVE  field[c][f] \in S
    <3>1. c \in S
      BY <2>2 DEF Reachable
    <3>2. QED
      BY <1>3, <2>2, <3>1 DEF Closed
  <2>3. QED
    BY <2>1, <2>2 DEF Reachable
<1>4. QED
  BY <1>1, <1>2, <1>3 DEF Closed

(* ... and nothing more. *)
LEMMA ReachableIsLeast ==
    ASSUME NEW S \in SUBSET Cells, Roots \subseteq S, Closed(S)
    PROVE  Reachable \subseteq S
BY DEF Reachable

(* Only the stacks and the fields of objects decide what is reachable. *)
LEMMA ReachableIsKept ==
    ASSUME UNCHANGED <<stack, field>>
    PROVE  /\ StackSlots' = StackSlots
           /\ Roots' = Roots
           /\ Reachable' = Reachable
           /\ \A S : Closed(S)' <=> Closed(S)
BY DEF StackSlots, Roots, Reachable, Closed

-----------------------------------------------------------------------------
(* Client code, on a heap whose objects are those of A.                    *)

ClientInv(A) ==
    /\ ClientTypeOK
    /\ \A t \in Mutators \ managed : oop[t] = Null
    /\ \A s \in StackSlots : stack[s[1]][s[2]] \in A \cup {Null}
    /\ \A t \in Mutators : oop[t] \in A \cup {Null}
    /\ Closed(A)

LEMMA ClientKeepsClientInv ==
    ASSUME NEW A, ClientInv(A), NEW t \in Mutators, Client(t)
    PROVE  ClientInv(A)'
<1> USE NullAssumption, SizesAssumption, MaxStackAssumption
<1> USE DEF ClientInv, ClientTypeOK, Pointers, Ready, Running
<1>1. CASE Resume(t)
  BY <1>1 DEF Resume, STW!Enter, StackSlots, Closed
<1>2. CASE Stop(t)
  BY <1>2 DEF Stop, STW!Exit, StackSlots, Closed
<1>3. CASE ForceGc(t)
  BY <1>3 DEF ForceGc, STW!Request, StackSlots, Closed
<1>4. CASE Push(t)
  BY <1>4 DEF Push, StackSlots, Closed
<1>5. CASE Leave(t)
  BY <1>5 DEF Leave, StackSlots, Closed
<1>6. CASE LoadNull(t)
  BY <1>6 DEF LoadNull, StackSlots, Closed
<1>7. ASSUME NEW s \in StackSlots, Assign(t, s) PROVE ClientInv(A)'
  BY <1>7, SlotTypes DEF Assign, StackSlots, Closed
<1>8. ASSUME NEW s \in StackSlots, Load(t, s) PROVE ClientInv(A)'
  BY <1>8, SlotTypes DEF Load, StackSlots, Closed
<1>9. ASSUME NEW f \in Fields, LoadField(t, f) PROVE ClientInv(A)'
  BY <1>9 DEF LoadField, StackSlots, Closed
<1>10. ASSUME NEW s \in StackSlots, NEW f \in Fields, StoreField(t, s, f)
       PROVE  ClientInv(A)'
  BY <1>10, SlotTypes DEF StoreField, StackSlots, Closed
<1>11. QED
  BY <1>1, <1>2, <1>3, <1>4, <1>5, <1>6, <1>7, <1>8, <1>9, <1>10 DEF Client

(* An allocation adds the object it returns. *)
LEMMA AllocKeepsClientInv ==
    ASSUME NEW A \in SUBSET Cells, ClientInv(A), NEW t \in Mutators, NEW n \in Sizes,
           NEW c \in Cells, AllocSucceeds(t, n, c)
    PROVE  ClientInv(A \cup {c})'
BY NullAssumption, SizesAssumption
   DEF AllocSucceeds, Allocates, Running, Blank, ClientInv, ClientTypeOK, Pointers,
       StackSlots, Closed

LEMMA RefusalKeepsClientInv ==
    ASSUME NEW A, ClientInv(A), NEW t \in Mutators, NEW n \in Sizes,
           AllocFails(t, n) \/ OutOfMemory(t, n)
    PROVE  ClientInv(A)'
<1>1. t \in managed
  BY DEF AllocFails, OutOfMemory, Allocates, Running
<1>2. UNCHANGED <<managed, collecting, stack, oop, field>>
  BY DEF AllocFails, OutOfMemory, STW!Request
<1>3. /\ request' \in [Mutators -> Sizes \cup {0}] /\ pending' \subseteq Mutators
      /\ terminated' \in BOOLEAN
  <2>1. CASE AllocFails(t, n)
    BY <2>1 DEF AllocFails, STW!Request, ClientInv, ClientTypeOK
  <2>2. CASE OutOfMemory(t, n)
    <3>1. terminated' \in BOOLEAN
      BY <2>2, Zenon DEF OutOfMemory
    <3>2. QED
      BY <2>2, <3>1 DEF OutOfMemory, ClientInv, ClientTypeOK
  <2>3. QED
    BY <2>1, <2>2
<1>4. QED
  BY <1>2, <1>3 DEF ClientInv, ClientTypeOK, StackSlots, Closed

-----------------------------------------------------------------------------
LEMMA ReachableIsAllocated ==
    ASSUME IInv, phase # "sweep" PROVE Reachable \subseteq Allocated
<1>1. Allocated \in SUBSET Cells
  BY DEF IInv, TypeOK, Allocated, Range
<1>2. Roots \subseteq Allocated
  BY DEF IInv, NoDangling, Roots
<1>3. QED
  BY <1>1, <1>2, ReachableIsLeast DEF IInv, NoDangling

-----------------------------------------------------------------------------
(* The invariant holds at first, and client code keeps it.                 *)

LEMMA InitIInv == Init => IInv
<1> SUFFICES ASSUME Init PROVE IInv
  OBVIOUS
<1> USE SizesAssumption, MaxStackAssumption
<1> USE DEF Init, InitClient, InitMark, STW!Init, Blank, Pointers
<1>1. collecting \in BOOLEAN /\ terminated \in BOOLEAN
  BY Zenon
<1>2. StackSlots = {}
  BY DEF StackSlots
<1>3. ClientTypeOK /\ MarkTypeOK
  BY <1>1 DEF ClientTypeOK, MarkTypeOK
<1>4. TypeOK
  BY <1>3 DEF TypeOK
<1>5. Allocated = {}
  BY DEF Allocated, Range
<1>6. WorldIsStopped /\ NoBlackToWhite /\ MarkingIsBounded /\ SweepIsAhead
  BY DEF WorldIsStopped, NoBlackToWhite, MarkingIsBounded, SweepIsAhead
<1>7. NoDangling /\ MarkIsExact /\ ListIsExact
  BY <1>2, <1>5 DEF NoDangling, MarkIsExact, ListIsExact, Closed
<1>8. QED
  BY <1>4, <1>6, <1>7 DEF IInv

(* A thread that runs is one for which the collector is idle. *)
LEMMA RunningIsIdle ==
    ASSUME IInv, NEW t \in managed
    PROVE  ~collecting /\ phase = "idle" /\ roots = {} /\ worklist = {}
BY DEF IInv, WorldIsStopped, MarkingIsBounded

(* A mutator's step while the collector is idle: what remains of IInv. *)
LEMMA IdleStep ==
    ASSUME IInv, phase = "idle", UNCHANGED <<phase, roots, worklist>>,
           ClientInv(Allocated)', ~collecting',
           color' \in [Cells -> {"White", "Black"}],
           \A c \in Cells : color'[c] = "White",
           chunks' \in Seq(Cells), size' \in [Cells -> Nat],
           allocation_count' = Len(chunks'), allocated_size' \in Int,
           cursor' = cursor,
           \A i, j \in DOMAIN chunks' : chunks'[i] = chunks'[j] => i = j
    PROVE  IInv'
<1>1. roots' = {} /\ worklist' = {}
  BY DEF IInv, MarkingIsBounded
<1>2. TypeOK'
  BY <1>1 DEF IInv, TypeOK, MarkTypeOK, ClientInv
<1>3. WorldIsStopped' /\ NoDangling'
  BY DEF WorldIsStopped, NoDangling, ClientInv
<1>4. NoBlackToWhite' /\ MarkingIsBounded'
  BY <1>1 DEF NoBlackToWhite, MarkingIsBounded
<1>5. Allocated' \subseteq Cells
  BY DEF Allocated, Range
<1>6. MarkIsExact' /\ SweepIsAhead' /\ ListIsExact'
  BY <1>5 DEF MarkIsExact, SweepIsAhead, ListIsExact
<1>7. QED
  BY <1>2, <1>3, <1>4, <1>6 DEF IInv

LEMMA IdleFacts ==
    ASSUME IInv, NEW t \in managed
    PROVE  /\ ClientInv(Allocated) /\ ~collecting /\ phase = "idle"
           /\ color \in [Cells -> {"White", "Black"}]
           /\ \A c \in Cells : color[c] = "White"
           /\ chunks \in Seq(Cells) /\ size \in [Cells -> Nat]
           /\ allocation_count = Len(chunks) /\ allocated_size \in Int
           /\ \A i, j \in DOMAIN chunks : chunks[i] = chunks[j] => i = j
BY RunningIsIdle DEF IInv, TypeOK, MarkTypeOK, WorldIsStopped, NoDangling,
                     ClientInv, SweepIsAhead, ListIsExact

(* Client code takes a step only while no collection runs. *)
LEMMA ClientIsIdle ==
    ASSUME IInv, NEW t \in Mutators, Client(t)
    PROVE  ~collecting /\ ~collecting'
<1>1. CASE Resume(t)
  BY <1>1 DEF Resume, STW!Enter
<1>2. CASE ~Resume(t)
  <2>1. t \in managed
    BY <1>2 DEF Client, Stop, ForceGc, Push, Leave, LoadNull, Assign, Load,
         LoadField, StoreField, Ready, Running, STW!Exit
  <2>2. UNCHANGED collecting
    BY <1>2 DEF Client, Stop, ForceGc, Push, Leave, LoadNull, Assign, Load,
         LoadField, StoreField, STW!Exit, STW!Request
  <2>3. QED
    BY <2>1, <2>2, RunningIsIdle
<1>3. QED
  BY <1>1, <1>2

LEMMA MutateStep == ASSUME IInv, NEW t \in Mutators, Mutate(t) PROVE IInv'
<1>1. UNCHANGED <<phase, roots, worklist, color, allocVars, cursor>> /\ Client(t)
  BY DEF Mutate, markVars
<1>2. UNCHANGED Allocated
  BY <1>1 DEF Allocated, allocVars, Range
<1>3. ~collecting /\ ~collecting'
  BY <1>1, ClientIsIdle
<1>4. phase = "idle"
  BY <1>3 DEF IInv, WorldIsStopped
<1>5. PICK A : A = Allocated /\ ClientInv(A)
  BY <1>4 DEF IInv, TypeOK, WorldIsStopped, NoDangling, ClientInv
<1>6. ClientInv(Allocated)'
  <2>1. ClientInv(A)'
    BY <1>1, <1>5, ClientKeepsClientInv
  <2>2. QED
    BY <1>2, <1>5, <2>1 DEF ClientInv
<1>7. QED
  BY <1>1, <1>3, <1>4, <1>6, IdleStep
     DEF IInv, TypeOK, MarkTypeOK, SweepIsAhead, ListIsExact, allocVars

LEMMA AllocStep ==
    ASSUME IInv, NEW t \in Mutators, NEW n \in Sizes, Alloc(t, n) PROVE IInv'
<1> USE NullAssumption, SizesAssumption
<1>1. PICK c \in Cells \ Allocated :
         /\ AllocSucceeds(t, n, c)
         /\ chunks' = Append(chunks, c)
         /\ size' = [size EXCEPT ![c] = n]
         /\ color' = [color EXCEPT ![c] = "White"]
  BY DEF Alloc
<1>2. t \in managed
  BY <1>1 DEF AllocSucceeds, Allocates, Running
<1>3. /\ ClientInv(Allocated) /\ ~collecting /\ phase = "idle"
      /\ color \in [Cells -> {"White", "Black"}]
      /\ \A d \in Cells : color[d] = "White"
      /\ chunks \in Seq(Cells) /\ size \in [Cells -> Nat]
      /\ allocation_count = Len(chunks) /\ allocated_size \in Int
      /\ \A i, j \in DOMAIN chunks : chunks[i] = chunks[j] => i = j
  BY <1>2, IdleFacts
<1>4. Allocated' = Allocated \cup {c}
  BY <1>1, <1>3 DEF Allocated, Range
<1>5. ClientInv(Allocated)'
  <2>1. PICK A \in SUBSET Cells : A = Allocated /\ ClientInv(A)
    BY <1>3 DEF Allocated, Range
  <2>2. ClientInv(A \cup {c})'
    BY <1>1, <2>1, AllocKeepsClientInv
  <2>3. QED
    BY <1>4, <2>1, <2>2 DEF ClientInv
<1>6. \A i, j \in DOMAIN chunks' : chunks'[i] = chunks'[j] => i = j
  BY <1>1, <1>3 DEF Allocated, Range
<1>7. /\ color' \in [Cells -> {"White", "Black"}]
      /\ \A d \in Cells : color'[d] = "White"
      /\ chunks' \in Seq(Cells) /\ size' \in [Cells -> Nat]
      /\ allocation_count' = Len(chunks') /\ allocated_size' \in Int
  BY <1>1, <1>3 DEF Alloc
<1>8. ~collecting' /\ UNCHANGED <<phase, roots, worklist, cursor>>
  BY <1>1, <1>3 DEF Alloc, AllocSucceeds
<1>9. QED
  BY <1>3, <1>5, <1>6, <1>7, <1>8, IdleStep

LEMMA RefuseStep ==
    ASSUME IInv, NEW t \in Mutators, NEW n \in Sizes, Refuse(t, n) PROVE IInv'
<1>1. t \in managed
  BY DEF Refuse, AllocFails, OutOfMemory, Allocates, Running
<1>2. UNCHANGED <<phase, roots, worklist, color, chunks, size,
                  allocation_count, allocated_size, cursor>>
  BY DEF Refuse, markVars, allocVars
<1>3. UNCHANGED <<Allocated, collecting>>
  BY <1>2 DEF Allocated, Range, Refuse, AllocFails, OutOfMemory, STW!Request
<1>4. ClientInv(Allocated)'
  <2>1. PICK A : A = Allocated /\ ClientInv(A)
    BY <1>1, IdleFacts
  <2>2. ClientInv(A)'
    BY <2>1, RefusalKeepsClientInv DEF Refuse
  <2>3. QED
    BY <1>3, <2>1, <2>2 DEF ClientInv
<1>5. QED
  BY <1>1, <1>2, <1>3, <1>4, IdleFacts, IdleStep

-----------------------------------------------------------------------------
(* Marking keeps the invariant.                                            *)

LEMMA BeginMarkStep ==
    ASSUME IInv, BeginMark, UNCHANGED <<allocVars, cursor>> PROVE IInv'
<1> USE DEF BeginMark, STW!BeginCollect, allocVars
<1>1. /\ phase = "idle" /\ worklist = {}
      /\ \A c \in Cells : color[c] = "White"
  BY DEF IInv, WorldIsStopped, MarkingIsBounded, SweepIsAhead
<1>2. /\ StackSlots' = StackSlots /\ Roots' = Roots /\ Reachable' = Reachable
      /\ \A S : Closed(S)' <=> Closed(S)
  BY ReachableIsKept
<1>3. UNCHANGED Allocated
  BY DEF Allocated, Range
<1>4. TypeOK'
  <2>1. collecting' \in BOOLEAN
    BY Zenon
  <2>2. QED
    BY <1>2, <2>1 DEF IInv, TypeOK, ClientTypeOK, MarkTypeOK
<1>5. WorldIsStopped' /\ MarkIsExact' /\ SweepIsAhead' /\ ListIsExact'
  BY DEF IInv, WorldIsStopped, MarkIsExact, SweepIsAhead, ListIsExact
<1>6. NoDangling'
  BY <1>1, <1>2, <1>3 DEF IInv, NoDangling, Closed
<1>7. NoBlackToWhite' /\ MarkingIsBounded'
  BY <1>1, <1>2 DEF NoBlackToWhite, MarkingIsBounded
<1>8. QED
  BY <1>4, <1>5, <1>6, <1>7 DEF IInv

(* What process_pointer does to the colors and the worklist when c is      *)
(* reachable.                                                              *)
LEMMA ProcessPointerStep ==
    ASSUME IInv, phase \in {"roots", "drain"}, NEW c \in Reachable,
           NEW kept \in SUBSET worklist, ProcessPointer(c, kept),
           UNCHANGED <<stack, field>>
    PROVE  /\ color' \in [Cells -> {"White", "Black"}]
           /\ worklist' \subseteq FieldSlots
           /\ color'[c] = "Black"
           /\ \A d \in Cells : color[d] = "Black" => color'[d] = "Black"
           /\ \A d \in Cells : color'[d] = "Black" => d \in Reachable
           /\ \A s \in worklist' : /\ color'[s[1]] = "Black"
                                   /\ field[s[1]][s[2]] # Null
           /\ \A d \in Cells : color'[d] = "Black" =>
                 \A f \in Fields : \/ field[d][f] = Null
                                   \/ color'[field[d][f]] = "Black"
                                   \/ <<d, f>> \in worklist'
                                   \/ <<d, f>> \in worklist \ kept
<1>1. /\ color \in [Cells -> {"White", "Black"}] /\ worklist \subseteq FieldSlots
      /\ field \in [Cells -> [Fields -> Pointers]]
  BY DEF IInv, TypeOK, MarkTypeOK, ClientTypeOK
<1>2. c \in Cells
  BY DEF Reachable
<1>3. /\ \A d \in Cells : color[d] = "Black" => d \in Reachable
      /\ \A s \in worklist : color[s[1]] = "Black" /\ field[s[1]][s[2]] # Null
  BY DEF IInv, MarkingIsBounded
<1>4. \A d \in Cells : color[d] = "Black" =>
         \A f \in Fields : \/ field[d][f] = Null
                           \/ color[field[d][f]] = "Black"
                           \/ <<d, f>> \in worklist
  BY DEF IInv, NoBlackToWhite
<1>5. CASE color[c] = "Black"
  BY <1>1, <1>2, <1>3, <1>4, <1>5 DEF ProcessPointer
<1>6. CASE color[c] # "Black"
  <2>1. /\ color' = [color EXCEPT ![c] = "Black"]
        /\ worklist' = kept \cup Trace(c)
    BY <1>6 DEF ProcessPointer
  <2>2. Trace(c) = {s \in FieldSlots : s[1] = c /\ field[c][s[2]] # Null}
    BY <1>2 DEF Trace, FieldSlots
  <2>3. \A d \in Cells : color'[d] = IF d = c THEN "Black" ELSE color[d]
    BY <1>1, <2>1
  <2>4. color' \in [Cells -> {"White", "Black"}] /\ worklist' \subseteq FieldSlots
    BY <1>1, <2>1, <2>2
  <2>5. \A s \in worklist' : color'[s[1]] = "Black" /\ field[s[1]][s[2]] # Null
    BY <1>1, <1>2, <1>3, <2>1, <2>2, <2>3 DEF FieldSlots
  <2>6. ASSUME NEW d \in Cells, color'[d] = "Black", NEW f \in Fields
        PROVE  \/ field[d][f] = Null
               \/ color'[field[d][f]] = "Black"
               \/ <<d, f>> \in worklist'
               \/ <<d, f>> \in worklist \ kept
    <3>1. CASE d = c
      BY <2>1, <3>1 DEF Trace
    <3>2. CASE d # c
      BY <1>1, <1>4, <2>1, <2>3, <2>6, <3>2 DEF Pointers
    <3>3. QED
      BY <3>1, <3>2
  <2>7. QED
    BY <1>2, <1>3, <2>3, <2>4, <2>5, <2>6
<1>7. QED
  BY <1>5, <1>6

LEMMA MarkRootStep ==
    ASSUME IInv, MarkRoot, UNCHANGED <<allocVars, cursor>> PROVE IInv'
<1> USE DEF allocVars
<1>1. /\ phase = "roots" /\ phase' = "roots"
      /\ UNCHANGED <<managed, collecting, pending, stack, oop, field, request,
                     terminated>>
  BY DEF MarkRoot, clientVars
<1>2. PICK s \in roots :
         /\ roots' = roots \ {s}
         /\ \/ /\ stack[s[1]][s[2]] = Null
               /\ UNCHANGED <<worklist, color>>
            \/ /\ stack[s[1]][s[2]] # Null
               /\ ProcessPointer(stack[s[1]][s[2]], worklist)
  BY DEF MarkRoot
<1>3. /\ StackSlots' = StackSlots /\ Roots' = Roots /\ Reachable' = Reachable
      /\ \A S : Closed(S)' <=> Closed(S)
  BY <1>1, ReachableIsKept
<1>4. UNCHANGED Allocated
  BY DEF Allocated, Range
<1>5. ClientTypeOK /\ ClientTypeOK' /\ roots \subseteq StackSlots
  BY <1>1 DEF IInv, TypeOK, ClientTypeOK, MarkTypeOK
<1>6. WorldIsStopped' /\ MarkIsExact' /\ SweepIsAhead' /\ ListIsExact'
  BY <1>1 DEF IInv, WorldIsStopped, MarkIsExact, SweepIsAhead, ListIsExact
<1>7. NoDangling'
  BY <1>1, <1>3, <1>4 DEF IInv, NoDangling, Closed
<1>8. CASE stack[s[1]][s[2]] = Null
  <2>1. UNCHANGED <<worklist, color>>
    BY <1>2, <1>8
  <2>2. TypeOK'
    BY <1>1, <1>2, <1>3, <1>5, <2>1 DEF IInv, TypeOK, MarkTypeOK
  <2>3. MarkingIsBounded'
    BY <1>1, <1>3, <2>1 DEF IInv, MarkingIsBounded
  <2>4. NoBlackToWhite'
    BY <1>1, <1>2, <1>3, <1>8, <2>1 DEF IInv, NoBlackToWhite
  <2>5. QED
    BY <1>6, <1>7, <2>2, <2>3, <2>4 DEF IInv
<1>9. CASE stack[s[1]][s[2]] # Null
  <2> DEFINE c == stack[s[1]][s[2]]
  <2>1. c \in Reachable
    BY <1>5, <1>9, ReachableIsClosed DEF Roots
  <2>2. ProcessPointer(c, worklist)
    BY <1>2, <1>9
  <2> HIDE DEF c
  <2>3. /\ color' \in [Cells -> {"White", "Black"}]
        /\ worklist' \subseteq FieldSlots
        /\ color'[c] = "Black"
        /\ \A d \in Cells : color[d] = "Black" => color'[d] = "Black"
        /\ \A d \in Cells : color'[d] = "Black" => d \in Reachable
        /\ \A w \in worklist' : color'[w[1]] = "Black" /\ field[w[1]][w[2]] # Null
        /\ \A d \in Cells : color'[d] = "Black" =>
              \A f \in Fields : \/ field[d][f] = Null
                                \/ color'[field[d][f]] = "Black"
                                \/ <<d, f>> \in worklist'
    BY <1>1, <2>1, <2>2, ProcessPointerStep
  <2>4. TypeOK'
    BY <1>1, <1>2, <1>3, <1>5, <2>3 DEF IInv, TypeOK, MarkTypeOK
  <2>5. MarkingIsBounded'
    BY <1>1, <1>3, <2>3 DEF MarkingIsBounded
  <2>6. NoBlackToWhite'
    <3>1. ASSUME NEW r \in StackSlots \ roots'
          PROVE  stack[r[1]][r[2]] = Null \/ color'[stack[r[1]][r[2]]] = "Black"
      <4>1. CASE r = s
        BY <2>3, <4>1 DEF c
      <4>2. CASE r # s
        BY <1>1, <1>2, <1>5, <2>3, <4>2, SlotTypes DEF IInv, NoBlackToWhite, Pointers
      <4>3. QED
        BY <4>1, <4>2
    <3>2. QED
      BY <1>1, <1>3, <2>3, <3>1 DEF NoBlackToWhite
  <2>7. QED
    BY <1>6, <1>7, <2>4, <2>5, <2>6 DEF IInv
<1>10. QED
  BY <1>8, <1>9

LEMMA RootsMarkedStep ==
    ASSUME IInv, RootsMarked, UNCHANGED <<allocVars, cursor>> PROVE IInv'
<1> USE DEF RootsMarked, allocVars, clientVars
<1>1. /\ StackSlots' = StackSlots /\ Roots' = Roots /\ Reachable' = Reachable
      /\ \A S : Closed(S)' <=> Closed(S)
  BY ReachableIsKept
<1>2. UNCHANGED Allocated
  BY DEF Allocated, Range
<1>3. TypeOK'
  BY <1>1 DEF IInv, TypeOK, ClientTypeOK, MarkTypeOK
<1>4. WorldIsStopped' /\ MarkIsExact' /\ SweepIsAhead' /\ ListIsExact'
  BY DEF IInv, WorldIsStopped, MarkIsExact, SweepIsAhead, ListIsExact
<1>5. NoDangling'
  BY <1>1, <1>2 DEF IInv, NoDangling, Closed
<1>6. NoBlackToWhite' /\ MarkingIsBounded'
  BY <1>1 DEF IInv, NoBlackToWhite, MarkingIsBounded
<1>7. QED
  BY <1>3, <1>4, <1>5, <1>6 DEF IInv

LEMMA MarkFieldStep ==
    ASSUME IInv, MarkField, UNCHANGED <<allocVars, cursor>> PROVE IInv'
<1> USE DEF allocVars
<1>1. /\ phase = "drain" /\ phase' = "drain" /\ roots' = roots
      /\ UNCHANGED <<managed, collecting, pending, stack, oop, field, request,
                     terminated>>
  BY DEF MarkField, clientVars
<1>2. PICK s \in worklist : ProcessPointer(field[s[1]][s[2]], worklist \ {s})
  BY DEF MarkField
<1>3. /\ StackSlots' = StackSlots /\ Roots' = Roots /\ Reachable' = Reachable
      /\ \A S : Closed(S)' <=> Closed(S)
  BY <1>1, ReachableIsKept
<1>4. UNCHANGED Allocated
  BY DEF Allocated, Range
<1>5. ClientTypeOK /\ ClientTypeOK'
  BY <1>1 DEF IInv, TypeOK, ClientTypeOK
<1>6. WorldIsStopped' /\ MarkIsExact' /\ SweepIsAhead' /\ ListIsExact'
  BY <1>1 DEF IInv, WorldIsStopped, MarkIsExact, SweepIsAhead, ListIsExact
<1>7. NoDangling'
  BY <1>1, <1>3, <1>4 DEF IInv, NoDangling, Closed
<1> DEFINE c == field[s[1]][s[2]]
           kept == worklist \ {s}
<1>8. s \in FieldSlots /\ s = <<s[1], s[2]>>
  BY DEF IInv, TypeOK, MarkTypeOK, FieldSlots
<1>9. c \in Reachable
  <2>1. s[1] \in Reachable /\ c # Null /\ s[2] \in Fields
    BY <1>1, <1>8 DEF IInv, MarkingIsBounded, FieldSlots
  <2>2. QED
    BY <1>5, <2>1, ReachableIsClosed DEF Closed
<1>10. ProcessPointer(c, kept) /\ kept \in SUBSET worklist
  BY <1>2
<1> HIDE DEF c, kept
<1>11. /\ color' \in [Cells -> {"White", "Black"}]
       /\ worklist' \subseteq FieldSlots
       /\ color'[c] = "Black"
       /\ \A d \in Cells : color[d] = "Black" => color'[d] = "Black"
       /\ \A d \in Cells : color'[d] = "Black" => d \in Reachable
       /\ \A w \in worklist' : color'[w[1]] = "Black" /\ field[w[1]][w[2]] # Null
       /\ \A d \in Cells : color'[d] = "Black" =>
             \A f \in Fields : \/ field[d][f] = Null
                               \/ color'[field[d][f]] = "Black"
                               \/ <<d, f>> \in worklist'
                               \/ <<d, f>> \in worklist \ kept
  BY <1>1, <1>9, <1>10, ProcessPointerStep
<1>12. TypeOK'
  BY <1>1, <1>3, <1>5, <1>11 DEF IInv, TypeOK, MarkTypeOK
<1>13. MarkingIsBounded'
  BY <1>1, <1>3, <1>11 DEF IInv, MarkingIsBounded
<1>14. NoBlackToWhite'
  <2>1. ASSUME NEW d \in Cells, color'[d] = "Black", NEW f \in Fields
        PROVE  \/ field[d][f] = Null
               \/ color'[field[d][f]] = "Black"
               \/ <<d, f>> \in worklist'
    <3>1. CASE <<d, f>> = s
      BY <1>11, <3>1 DEF c
    <3>2. CASE <<d, f>> # s
      BY <1>11, <2>1, <3>2 DEF kept
    <3>3. QED
      BY <3>1, <3>2
  <2>2. ASSUME NEW r \in StackSlots \ roots'
        PROVE  stack[r[1]][r[2]] = Null \/ color'[stack[r[1]][r[2]]] = "Black"
    BY <1>1, <1>5, <1>11, SlotTypes DEF IInv, NoBlackToWhite, Pointers
  <2>3. QED
    BY <1>1, <1>3, <2>1, <2>2 DEF NoBlackToWhite
<1>15. QED
  BY <1>6, <1>7, <1>12, <1>13, <1>14 DEF IInv

-----------------------------------------------------------------------------
(* Sweeping keeps the invariant.                                           *)

(* When the worklist is empty the black cells are closed, so marking has   *)
(* found every reachable object, and no other.                             *)
LEMMA MarkingIsDone ==
    ASSUME IInv, phase = "drain", worklist = {}
    PROVE  \A c \in Cells : color[c] = "Black" <=> c \in Reachable
<1> DEFINE S == {c \in Cells : color[c] = "Black"}
<1>1. ClientTypeOK /\ roots = {}
  BY DEF IInv, TypeOK, MarkingIsBounded
<1>2. Roots \subseteq S
  BY <1>1, SlotTypes DEF IInv, NoBlackToWhite, Roots, Pointers
<1>3. Closed(S)
  BY <1>1 DEF IInv, NoBlackToWhite, Closed, ClientTypeOK, Pointers
<1>4. Reachable \subseteq S
  BY <1>2, <1>3, ReachableIsLeast
<1>5. S \subseteq Reachable
  BY DEF IInv, MarkingIsBounded
<1>6. QED
  BY <1>4, <1>5

LEMMA BeginSweepStep == ASSUME IInv, BeginSweep PROVE IInv'
<1> USE DEF BeginSweep, allocVars, clientVars
<1>1. /\ StackSlots' = StackSlots /\ Roots' = Roots /\ Reachable' = Reachable
      /\ \A S : Closed(S)' <=> Closed(S)
  BY ReachableIsKept
<1>2. UNCHANGED Allocated /\ Allocated \subseteq Cells /\ chunks \in Seq(Cells)
  BY DEF Allocated, Range, IInv, TypeOK
<1>3. \A c \in Cells : color[c] = "Black" <=> c \in Reachable
  BY MarkingIsDone
<1>4. Reachable \subseteq Allocated
  BY ReachableIsAllocated
<1>5. TypeOK'
  BY <1>1 DEF IInv, TypeOK, ClientTypeOK, MarkTypeOK
<1>6. WorldIsStopped' /\ NoBlackToWhite' /\ MarkingIsBounded' /\ ListIsExact'
  BY DEF IInv, WorldIsStopped, NoBlackToWhite, MarkingIsBounded, ListIsExact
<1>7. NoDangling'
  BY <1>1, <1>2 DEF IInv, NoDangling
<1>8. MarkIsExact'
  BY <1>1, <1>2, <1>3 DEF MarkIsExact
<1>9. SweepIsAhead'
  BY <1>1, <1>2, <1>3, <1>4 DEF SweepIsAhead, Allocated, Range
<1>10. QED
  BY <1>5, <1>6, <1>7, <1>8, <1>9 DEF IInv

LEMMA SweepWhiteStep == ASSUME IInv, SweepWhite PROVE IInv'
<1> DEFINE k == cursor
           n == Len(chunks)
<1>1. /\ phase = "sweep" /\ k \in 1 .. n /\ n \in Nat /\ DOMAIN chunks = 1 .. n
      /\ chunks \in Seq(Cells) /\ color[chunks[k]] = "White"
      /\ chunks' = RemoveAt(chunks, k)
  BY DEF SweepWhite, IInv, TypeOK
<1>2. UNCHANGED <<managed, collecting, pending, stack, oop, field, request,
                  terminated, phase, roots, worklist, color, size, cursor>>
  BY DEF SweepWhite, clientVars, markVars
<1>3. /\ StackSlots' = StackSlots /\ Roots' = Roots /\ Reachable' = Reachable
      /\ \A S : Closed(S)' <=> Closed(S)
  BY <1>2, ReachableIsKept
<1>4. \A i, j \in DOMAIN chunks : chunks[i] = chunks[j] => i = j
  BY DEF IInv, ListIsExact
<1> DEFINE r == chunks'
<1>5. /\ r \in Seq(Cells) /\ Len(r) = n - 1
      /\ \A j \in 1 .. n - 1 : r[j] = IF j < k THEN chunks[j] ELSE chunks[j + 1]
  BY ONLY <1>1, RemoveAtShifts
<1>6. /\ r \in Seq(Cells)
      /\ \A i, j \in DOMAIN r : r[i] = r[j] => i = j
      /\ \A c \in Cells : (\E i \in DOMAIN r : r[i] = c)
                       <=> c # chunks[k] /\ \E i \in DOMAIN chunks : chunks[i] = c
  <2>1. chunks \in Seq(Cells) /\ k \in DOMAIN chunks /\ chunks' = RemoveAt(chunks, k)
    BY <1>1
  <2>2. QED
    BY ONLY <1>4, <2>1, RemoveAtErases
<1>7. Allocated' = Allocated \ {chunks[k]} /\ Allocated \subseteq Cells
  BY <1>1, <1>6 DEF Allocated, Range
<1>8. chunks[k] \notin Reachable /\ chunks[k] \in Cells
  BY <1>1 DEF IInv, MarkIsExact
<1>9. ClientTypeOK /\ ClientTypeOK'
  BY <1>2 DEF IInv, TypeOK, ClientTypeOK
<1>10. TypeOK'
  <2>1. /\ allocation_count' = allocation_count - 1 /\ allocation_count = n
        /\ allocated_size' = allocated_size - size[chunks[k]]
        /\ allocated_size \in Int /\ size \in [Cells -> Nat]
    BY DEF SweepWhite, IInv, TypeOK, ListIsExact
  <2>2. allocation_count' \in Nat /\ allocated_size' \in Int
    BY <1>1, <1>8, <2>1
  <2>3. cursor' <= Len(chunks') + 1
    BY <1>1, <1>2, <1>5
  <2>4. QED
    BY <1>2, <1>3, <1>5, <1>9, <2>2, <2>3 DEF IInv, TypeOK, MarkTypeOK
<1>11. WorldIsStopped' /\ NoBlackToWhite' /\ MarkingIsBounded'
  BY <1>1, <1>2 DEF IInv, WorldIsStopped, NoBlackToWhite, MarkingIsBounded
<1>12. ListIsExact'
  BY <1>5, <1>6 DEF IInv, ListIsExact, SweepWhite
<1>13. NoDangling'
  <2>1. \A s \in StackSlots : stack[s[1]][s[2]] \in Reachable \cup {Null}
    BY <1>9, ReachableIsClosed DEF Roots
  <2>2. \A t \in Mutators : oop[t] = Null
    BY <1>1 DEF IInv, WorldIsStopped
  <2>3. QED
    BY <1>1, <1>2, <1>3, <1>7, <1>8, <2>1, <2>2 DEF IInv, NoDangling, SweepIsAhead
<1>14. MarkIsExact'
  BY <1>1, <1>2, <1>3, <1>5 DEF IInv, MarkIsExact
<1>15. SweepIsAhead'
  <2>1. Reachable \subseteq Allocated'
    BY <1>1, <1>7, <1>8 DEF IInv, SweepIsAhead
  <2>2. ASSUME NEW c \in Cells, color[c] = "Black"
        PROVE  \E i \in k .. n - 1 : r[i] = c
    <3>1. PICK i \in k .. n : chunks[i] = c
      BY <1>1, <2>2 DEF IInv, SweepIsAhead
    <3>2. i # k
      BY <1>1, <2>2, <3>1
    <3>3. i - 1 \in k .. n - 1 /\ r[i - 1] = c
      BY <1>1, <1>5, <3>1, <3>2
    <3>4. QED
      BY <3>3
  <2>3. QED
    BY <1>1, <1>2, <1>3, <1>5, <2>1, <2>2 DEF SweepIsAhead
<1>16. QED
  BY <1>10, <1>11, <1>12, <1>13, <1>14, <1>15 DEF IInv

LEMMA SweepBlackStep == ASSUME IInv, SweepBlack PROVE IInv'
<1> DEFINE k == cursor
           n == Len(chunks)
<1>1. /\ phase = "sweep" /\ k \in 1 .. n /\ n \in Nat /\ DOMAIN chunks = 1 .. n
      /\ chunks \in Seq(Cells) /\ chunks[k] \in Cells
      /\ color \in [Cells -> {"White", "Black"}] /\ color[chunks[k]] = "Black"
      /\ color' = [color EXCEPT ![chunks[k]] = "White"] /\ cursor' = k + 1
  BY DEF SweepBlack, IInv, TypeOK, MarkTypeOK
<1>2. UNCHANGED <<managed, collecting, pending, stack, oop, field, request,
                  terminated, phase, roots, worklist, chunks, size,
                  allocation_count, allocated_size>>
  BY DEF SweepBlack, clientVars, allocVars
<1>3. /\ StackSlots' = StackSlots /\ Roots' = Roots /\ Reachable' = Reachable
      /\ \A S : Closed(S)' <=> Closed(S)
  BY <1>2, ReachableIsKept
<1>4. \A i, j \in 1 .. n : chunks[i] = chunks[j] => i = j
  BY <1>1 DEF IInv, ListIsExact
<1>5. UNCHANGED Allocated
  BY <1>2 DEF Allocated, Range
<1>6. TypeOK'
  BY <1>1, <1>2, <1>3 DEF IInv, TypeOK, ClientTypeOK, MarkTypeOK
<1>7. WorldIsStopped' /\ NoBlackToWhite' /\ MarkingIsBounded' /\ ListIsExact'
  BY <1>1, <1>2 DEF IInv, WorldIsStopped, NoBlackToWhite, MarkingIsBounded, ListIsExact
<1>8. NoDangling'
  BY <1>1, <1>2, <1>3, <1>5 DEF IInv, NoDangling
<1>9. \A i \in 1 .. n : color'[chunks[i]] = IF i = k THEN "White" ELSE color[chunks[i]]
  BY <1>1, <1>4
<1>10. MarkIsExact'
  <2>1. ASSUME NEW i \in 1 .. n
        PROVE  IF i < k + 1
               THEN color'[chunks[i]] = "White" /\ chunks[i] \in Reachable
               ELSE color'[chunks[i]] = "Black" <=> chunks[i] \in Reachable
    <3>1. IF i < k
          THEN color[chunks[i]] = "White" /\ chunks[i] \in Reachable
          ELSE color[chunks[i]] = "Black" <=> chunks[i] \in Reachable
      BY <1>1 DEF IInv, MarkIsExact
    <3>2. QED
      BY <1>1, <1>9, <3>1
  <2>2. QED
    BY <1>1, <1>2, <1>3, <2>1 DEF MarkIsExact
<1>11. SweepIsAhead'
  <2>1. ASSUME NEW c \in Cells, color'[c] = "Black"
        PROVE  \E i \in k + 1 .. n : chunks[i] = c
    <3>1. c # chunks[k] /\ color[c] = "Black"
      BY <1>1, <2>1
    <3>2. PICK i \in k .. n : chunks[i] = c
      BY <1>1, <3>1 DEF IInv, SweepIsAhead
    <3>3. i \in k + 1 .. n
      BY <1>1, <3>1, <3>2
    <3>4. QED
      BY <3>2, <3>3
  <2>2. QED
    BY <1>1, <1>2, <1>3, <1>5, <2>1 DEF IInv, SweepIsAhead
<1>12. QED
  BY <1>6, <1>7, <1>8, <1>10, <1>11 DEF IInv

(* At the end of the walk what is left is what is reachable. *)
LEMMA SweepIsDone ==
    ASSUME IInv, phase = "sweep", cursor > Len(chunks)
    PROVE  /\ Allocated = Reachable
           /\ \A c \in Cells : color[c] = "White"
<1>1. chunks \in Seq(Cells) /\ cursor \in Nat /\ color \in [Cells -> {"White", "Black"}]
  BY DEF IInv, TypeOK, MarkTypeOK
<1>2. Allocated \subseteq Reachable
  BY <1>1 DEF IInv, MarkIsExact, Allocated, Range
<1>3. QED
  BY <1>1, <1>2 DEF IInv, SweepIsAhead

LEMMA EndSweepStep == ASSUME IInv, EndSweep PROVE IInv'
<1> USE DEF EndSweep, STW!EndCollect, allocVars
<1>1. /\ StackSlots' = StackSlots /\ Roots' = Roots /\ Reachable' = Reachable
      /\ \A S : Closed(S)' <=> Closed(S)
  BY ReachableIsKept
<1>2. UNCHANGED Allocated
  BY DEF Allocated, Range
<1>3. Allocated = Reachable /\ \A c \in Cells : color[c] = "White"
  BY SweepIsDone
<1>4. ClientTypeOK
  BY DEF IInv, TypeOK
<1>5. TypeOK'
  <2>1. collecting' \in BOOLEAN
    BY Zenon
  <2>2. QED
    BY <1>1, <2>1 DEF IInv, TypeOK, ClientTypeOK, MarkTypeOK
<1>6. WorldIsStopped' /\ NoBlackToWhite' /\ MarkingIsBounded' /\ ListIsExact'
  BY DEF IInv, WorldIsStopped, NoBlackToWhite, MarkingIsBounded, ListIsExact
<1>7. NoDangling'
  BY <1>1, <1>2, <1>3, <1>4, ReachableIsClosed DEF IInv, NoDangling
<1>8. MarkIsExact' /\ SweepIsAhead'
  BY <1>2, <1>3, ReachableIsClosed, <1>4 DEF MarkIsExact, SweepIsAhead
<1>9. QED
  BY <1>5, <1>6, <1>7, <1>8 DEF IInv

-----------------------------------------------------------------------------
(* The theorems.                                                           *)

LEMMA StutterStep == ASSUME IInv, UNCHANGED vars PROVE IInv'
<1> USE DEF vars, clientVars, markVars, allocVars
<1>1. /\ StackSlots' = StackSlots /\ Roots' = Roots /\ Reachable' = Reachable
      /\ \A S : Closed(S)' <=> Closed(S)
  BY ReachableIsKept
<1>2. UNCHANGED Allocated
  BY DEF Allocated, Range
<1>3. TypeOK'
  BY <1>1 DEF IInv, TypeOK, ClientTypeOK, MarkTypeOK
<1>4. NoDangling' /\ NoBlackToWhite'
  BY <1>1, <1>2 DEF IInv, NoDangling, NoBlackToWhite
<1>5. MarkIsExact' /\ MarkingIsBounded' /\ SweepIsAhead'
  BY <1>1, <1>2 DEF IInv, MarkIsExact, MarkingIsBounded, SweepIsAhead
<1>6. WorldIsStopped' /\ ListIsExact'
  BY DEF IInv, WorldIsStopped, ListIsExact
<1>7. QED
  BY <1>3, <1>4, <1>5, <1>6 DEF IInv

LEMMA NextIInv == ASSUME IInv, [Next]_vars PROVE IInv'
<1>1. ASSUME NEW t \in Mutators, Mutate(t) PROVE IInv'
  BY <1>1, MutateStep
<1>2. ASSUME NEW t \in Mutators, NEW n \in Sizes, Alloc(t, n) PROVE IInv'
  BY <1>2, AllocStep
<1>3. ASSUME NEW t \in Mutators, NEW n \in Sizes, Refuse(t, n) PROVE IInv'
  BY <1>3, RefuseStep
<1>4. CASE Marking
  BY <1>4, BeginMarkStep, MarkRootStep, RootsMarkedStep, MarkFieldStep DEF Marking
<1>5. CASE BeginSweep
  BY <1>5, BeginSweepStep
<1>6. CASE SweepWhite
  BY <1>6, SweepWhiteStep
<1>7. CASE SweepBlack
  BY <1>7, SweepBlackStep
<1>8. CASE EndSweep
  BY <1>8, EndSweepStep
<1>9. CASE UNCHANGED vars
  BY <1>9, StutterStep
<1>10. QED
  BY <1>1, <1>2, <1>3, <1>4, <1>5, <1>6, <1>7, <1>8, <1>9 DEF Next, Collector

(* IInv holds in every reachable state. *)
THEOREM Invariance == Spec => []IInv
BY InitIInv, NextIInv, PTL DEF Spec

(* Every variable keeps its type. *)
THEOREM TypeCorrect == Spec => []TypeOK
<1>1. IInv => TypeOK
  BY DEF IInv
<1>2. QED
  BY <1>1, Invariance, PTL

(* A collection never frees what a thread can still get at. *)
THEOREM NothingDangles == Spec => []NoDangling
<1>1. IInv => NoDangling
  BY DEF IInv
<1>2. QED
  BY <1>1, Invariance, PTL

(* Mark never loses an edge of the graph of objects. *)
THEOREM EdgesAreKept == Spec => []NoBlackToWhite
<1>1. IInv => NoBlackToWhite
  BY DEF IInv
<1>2. QED
  BY <1>1, Invariance, PTL

(* Mark finds the reachable objects and no others, and Sweep leaves the    *)
(* mark words as it found them.                                            *)
THEOREM MarkingIsExact == Spec => []MarkIsExact
<1>1. IInv => MarkIsExact
  BY DEF IInv
<1>2. QED
  BY <1>1, Invariance, PTL

-----------------------------------------------------------------------------
(* The statistics.  Their sum changes where the list does, by the size of  *)
(* the chunk that is appended or freed.                                    *)

LEMMA ChunksAreFinite == ASSUME TypeOK PROVE IsFiniteSet(Allocated)
<1>1. chunks \in Seq(Cells) /\ Len(chunks) \in Nat /\ DOMAIN chunks = 1 .. Len(chunks)
  BY DEF TypeOK
<1>2. IsFiniteSet(DOMAIN chunks)
  BY <1>1, FS_Interval
<1>3. chunks \in Surjection(DOMAIN chunks, Allocated)
  BY <1>1 DEF Surjection, Allocated, Range
<1>4. QED
  BY <1>2, <1>3, FS_Surjection

(* The statistics in terms of the lemmas about sums. *)
LEMMA StatisticsAreTotals ==
    StatisticsAreExact <=> /\ allocation_count = Len(chunks)
                           /\ allocated_size = Total(size, Allocated)
                           /\ allocated_size <= MaxSize
BY DEF StatisticsAreExact, Total, MapThenSumSet, MapThenFoldSet

LEMMA InitStatistics == Init => StatisticsAreExact
<1> SUFFICES ASSUME Init PROVE StatisticsAreExact
  OBVIOUS
<1>1. Allocated = {}
  BY DEF Init, Allocated, Range
<1>2. Total(size, {}) = 0
  BY TotalEmpty
<1>3. QED
  BY <1>1, <1>2, MaxSizeAssumption, StatisticsAreTotals DEF Init

LEMMA AllocStatistics ==
    ASSUME IInv, StatisticsAreExact, NEW t \in Mutators, NEW n \in Sizes, Alloc(t, n)
    PROVE  StatisticsAreExact'
<1>1. PICK c \in Cells \ Allocated : /\ chunks' = Append(chunks, c)
                                     /\ size' = [size EXCEPT ![c] = n]
  BY DEF Alloc
<1>2. /\ chunks \in Seq(Cells) /\ size \in [Cells -> Nat] /\ n \in Nat
      /\ IsFiniteSet(Allocated) /\ Allocated \subseteq Cells
  BY ChunksAreFinite, SizesAssumption DEF IInv, TypeOK, Allocated, Range
<1>3. Allocated' = Allocated \cup {c}
  <2>1. chunks \in Seq(Cells) /\ c \in Cells /\ chunks' = Append(chunks, c)
    BY <1>1, <1>2
  <2>2. QED
    BY ONLY <2>1 DEF Allocated, Range
<1> DEFINE A == Allocated
           B == Allocated \cup {c}
           g == size'
<1>4. /\ c \in B /\ B \ {c} = A /\ g[c] = n
      /\ \A d \in B : g[d] \in Int
      /\ \A d \in A : g[d] = size[d]
  BY <1>1, <1>2
<1>5. IsFiniteSet(A) /\ IsFiniteSet(B)
  BY <1>2, FS_AddElement
<1> HIDE DEF A, B, g
<1>6. Total(g, B) = n + Total(g, A)
  BY <1>4, <1>5, TotalRemove
<1>7. Total(g, A) = Total(size, A)
  BY <1>4, <1>5, TotalAgrees
<1>8. /\ allocation_count = Len(chunks) /\ allocated_size = Total(size, A)
      /\ allocated_size \in Int
  BY StatisticsAreTotals DEF A, IInv, TypeOK
<1>9. /\ allocation_count' = allocation_count + 1
      /\ allocated_size' = allocated_size + n
      /\ allocated_size + n <= MaxSize
  BY DEF Alloc, Fits
<1>10. allocation_count' = Len(chunks')
  BY <1>1, <1>2, <1>8, <1>9
<1>11. allocated_size' = Total(size, Allocated)'
  <2>1. Total(size, Allocated)' = Total(g, B)
    BY <1>3 DEF g, B
  <2>2. QED
    BY <1>2, <1>6, <1>7, <1>8, <1>9, <2>1
<1>12. allocated_size' <= MaxSize
  BY <1>9
<1>13. QED
  BY <1>10, <1>11, <1>12
     DEF StatisticsAreExact, Total, MapThenSumSet, MapThenFoldSet

LEMMA SweepWhiteStatistics ==
    ASSUME IInv, StatisticsAreExact, SweepWhite
    PROVE  StatisticsAreExact'
<1> DEFINE A == Allocated
           c == chunks[cursor]
<1>1. /\ chunks \in Seq(Cells) /\ cursor \in DOMAIN chunks
      /\ chunks' = RemoveAt(chunks, cursor)
      /\ \A i, j \in DOMAIN chunks : chunks[i] = chunks[j] => i = j
  BY DEF SweepWhite, IInv, TypeOK, ListIsExact
<1>2. /\ IsFiniteSet(A) /\ c \in A /\ A \subseteq Cells
      /\ size \in [Cells -> Nat] /\ allocated_size \in Int
  BY <1>1, ChunksAreFinite DEF IInv, TypeOK, Allocated, Range
<1>3. Allocated' = A \ {c}
  <2>1. PICK r : r = chunks'
    OBVIOUS
  <2>2. /\ r \in Seq(Cells)
        /\ \A u \in Cells : (\E j \in DOMAIN r : r[j] = u)
                         <=> u # c /\ \E j \in DOMAIN chunks : chunks[j] = u
    BY <1>1, <2>1, RemoveAtErases
  <2>3. Allocated' = {r[j] : j \in DOMAIN r} /\ A = {chunks[j] : j \in DOMAIN chunks}
    BY <2>1 DEF Allocated, Range
  <2>4. \A j \in DOMAIN r : r[j] \in Cells
    BY <2>2
  <2>5. QED
    BY ONLY <1>2, <2>2, <2>3, <2>4
<1>4. Len(chunks') = Len(chunks) - 1
  BY <1>1, RemoveAtShifts
<1> HIDE DEF A, c
<1>5. /\ Total(size, A) = size[c] + Total(size, A \ {c})
      /\ Total(size, A \ {c}) \in Int
  BY <1>2, TotalRemove
<1>6. /\ allocation_count = Len(chunks) /\ allocated_size = Total(size, A)
      /\ allocated_size <= MaxSize
  BY StatisticsAreTotals DEF A
<1>7. /\ allocation_count' = allocation_count - 1
      /\ allocated_size' = allocated_size - size[c] /\ size' = size
  BY DEF SweepWhite, c
<1>8. allocation_count' = Len(chunks')
  BY <1>4, <1>6, <1>7
<1>9. allocated_size' = Total(size, Allocated)'
  <2>1. Total(size, Allocated)' = Total(size, A \ {c})
    BY <1>3, <1>7
  <2>2. size[c] \in Nat
    BY <1>2
  <2>3. QED
    BY <1>2, <1>5, <1>6, <1>7, <2>1, <2>2
<1>10. allocated_size' <= MaxSize
  <2>1. size[c] \in Nat
    BY <1>2
  <2>2. QED
    BY <1>2, <1>6, <1>7, <2>1, MaxSizeAssumption
<1>11. QED
  BY <1>8, <1>9, <1>10
     DEF StatisticsAreExact, Total, MapThenSumSet, MapThenFoldSet

LEMMA OtherStatistics ==
    ASSUME StatisticsAreExact, UNCHANGED allocVars
    PROVE  StatisticsAreExact'
<1>1. UNCHANGED <<chunks, size, allocation_count, allocated_size, Allocated>>
  BY DEF allocVars, Allocated, Range
<1>2. QED
  BY <1>1 DEF StatisticsAreExact, MapThenSumSet, MapThenFoldSet

LEMMA NextStatistics ==
    ASSUME IInv, StatisticsAreExact, [Next]_vars
    PROVE  StatisticsAreExact'
<1>1. ASSUME NEW t \in Mutators, NEW n \in Sizes, Alloc(t, n)
      PROVE  StatisticsAreExact'
  BY <1>1, AllocStatistics
<1>2. CASE SweepWhite
  BY <1>2, SweepWhiteStatistics
<1>3. ASSUME NEW t \in Mutators, NEW n \in Sizes, Mutate(t) \/ Refuse(t, n)
      PROVE  StatisticsAreExact'
  BY <1>3, OtherStatistics DEF Mutate, Refuse
<1>4. CASE \E t \in Mutators : Mutate(t)
  BY <1>4, OtherStatistics DEF Mutate
<1>5. CASE Marking \/ BeginSweep \/ SweepBlack \/ EndSweep
  BY <1>5, OtherStatistics DEF Marking, BeginSweep, SweepBlack, EndSweep, allocVars
<1>6. CASE UNCHANGED vars
  BY <1>6, OtherStatistics DEF vars
<1>7. QED
  BY <1>1, <1>2, <1>3, <1>4, <1>5, <1>6 DEF Next, Collector

(* What is subtracted when a chunk is freed is what was added when it was  *)
(* allocated, however the two are interleaved with collections, and the    *)
(* limit of the heap is never exceeded.                                    *)
THEOREM StatisticsFollow == Spec => []StatisticsAreExact
BY InitStatistics, NextStatistics, Invariance, PTL DEF Spec

-----------------------------------------------------------------------------
(* The heap implements ManagedHeap.                                        *)

LEMMA MutateImplements ==
    ASSUME IInv, NEW t \in Mutators, Mutate(t) PROVE Heap!Mutate(t)
<1>1. Client(t) /\ UNCHANGED chunks
  BY DEF Mutate, allocVars
<1>2. UNCHANGED Allocated
  BY <1>1 DEF Allocated, Range
<1>3. ~collecting /\ ~collecting'
  BY <1>1, ClientIsIdle
<1>4. Heap!Client(t)
  BY <1>1 DEF Client, Heap!Client, Resume, Heap!Resume, Stop, Heap!Stop, ForceGc,
       Heap!ForceGc, Push, Heap!Push, Leave, Heap!Leave, Assign, Heap!Assign,
       Load, Heap!Load, LoadField, Heap!LoadField, LoadNull, Heap!LoadNull,
       StoreField, Heap!StoreField, Ready, Heap!Ready, Running, Heap!Running,
       StackSlots, Heap!StackSlots, STW!Enter, Heap!STW!Enter, STW!Exit,
       Heap!STW!Exit, STW!Request, Heap!STW!Request
<1>5. QED
  BY <1>2, <1>3, <1>4 DEF Heap!Mutate

LEMMA AllocImplements ==
    ASSUME IInv, NEW t \in Mutators, NEW n \in Sizes, Alloc(t, n)
    PROVE  Heap!Alloc(t, n)
<1>1. PICK c \in Cells \ Allocated :
         AllocSucceeds(t, n, c) /\ chunks' = Append(chunks, c)
  BY DEF Alloc
<1>2. t \in managed /\ UNCHANGED collecting
  BY <1>1 DEF AllocSucceeds, Allocates, Running
<1>3. ~collecting /\ chunks \in Seq(Cells)
  BY <1>2, IdleFacts
<1>4. Allocated' = Allocated \cup {c}
  BY <1>1, <1>3 DEF Allocated, Range
<1>5. Heap!AllocSucceeds(t, n, c)
  BY <1>1 DEF AllocSucceeds, Heap!AllocSucceeds, Allocates, Heap!Allocates,
       Running, Heap!Running, Blank, Heap!Blank
<1>6. QED
  BY <1>2, <1>3, <1>4, <1>5 DEF Heap!Alloc

LEMMA RefuseImplements ==
    ASSUME IInv, NEW t \in Mutators, NEW n \in Sizes, Refuse(t, n)
    PROVE  Heap!Refuse(t, n)
<1>1. Heap!AllocFails(t, n) \/ Heap!OutOfMemory(t, n)
  BY DEF Refuse, AllocFails, Heap!AllocFails, OutOfMemory, Heap!OutOfMemory,
     Allocates, Heap!Allocates, Running, Heap!Running, STW!Request,
     Heap!STW!Request
<1>2. t \in managed /\ UNCHANGED <<chunks, collecting>>
  BY DEF Refuse, AllocFails, OutOfMemory, Allocates, Running, allocVars, STW!Request
<1>3. ~collecting /\ UNCHANGED Allocated
  BY <1>2, IdleFacts DEF Allocated, Range
<1>4. QED
  BY <1>1, <1>2, <1>3 DEF Heap!Refuse

(* A collection begins and ends as ManagedHeap says, and its other steps   *)
(* change nothing that ManagedHeap speaks of.                              *)
LEMMA CollectorImplements ==
    ASSUME IInv, Collector
    PROVE  Heap!BeginCollect \/ Heap!EndCollect \/ UNCHANGED Heap!vars
<1>1. UNCHANGED <<stack, field>>
  BY DEF Collector, Marking, BeginMark, MarkRoot, RootsMarked, MarkField,
     BeginSweep, SweepWhite, SweepBlack, EndSweep, clientVars
<1>2. Reachable' = Reachable
  BY <1>1, ReachableIsKept
<1>3. Heap!Reachable = Reachable
  BY DEF Heap!Reachable, Reachable, Heap!Roots, Roots, Heap!StackSlots,
     StackSlots, Heap!Closed, Closed
<1>4. CASE BeginMark
  <2>1. Heap!STW!BeginCollect /\ ~collecting /\ collecting'
    BY <1>4 DEF BeginMark, STW!BeginCollect, Heap!STW!BeginCollect
  <2>2. QED
    BY <1>2, <1>3, <1>4, <2>1 DEF BeginMark, Heap!BeginCollect
<1>5. CASE EndSweep
  <2>1. Heap!STW!EndCollect /\ collecting /\ ~collecting'
    BY <1>5 DEF EndSweep, STW!EndCollect, Heap!STW!EndCollect
  <2>2. UNCHANGED Allocated /\ Allocated = Reachable
    BY <1>5, SweepIsDone DEF EndSweep, allocVars, Allocated, Range
  <2>3. QED
    BY <1>5, <2>1, <2>2 DEF EndSweep, Heap!EndCollect
<1>6. CASE MarkRoot \/ RootsMarked \/ MarkField \/ BeginSweep \/ SweepWhite \/ SweepBlack
  <2>1. UNCHANGED clientVars
    BY <1>6 DEF MarkRoot, RootsMarked, MarkField, BeginSweep, SweepWhite, SweepBlack
  <2>2. collecting
    BY <1>6 DEF MarkRoot, RootsMarked, MarkField, BeginSweep, SweepWhite,
       SweepBlack, IInv, WorldIsStopped
  <2>3. QED
    BY <1>2, <2>1, <2>2 DEF clientVars, Heap!vars
<1>7. QED
  BY <1>4, <1>5, <1>6 DEF Collector, Marking

(* Every behaviour of the mark-and-sweep heap is one of ManagedHeap: an    *)
(* allocation returns memory that no one uses, and a collection takes away *)
(* exactly the objects that no Handle reaches.                             *)
THEOREM Implementation == Spec => ImplementsManagedHeap
<1>1. Init => Heap!Init
  <2> SUFFICES ASSUME Init PROVE Heap!Init
    OBVIOUS
  <2>1. Heap!InitClient
    BY DEF Init, InitClient, Heap!InitClient, STW!Init, Heap!STW!Init, Blank,
       Heap!Blank
  <2>2. ~collecting /\ Allocated = {}
    BY DEF Init, InitClient, STW!Init, Allocated, Range
  <2>3. QED
    BY <2>1, <2>2 DEF Heap!Init
<1>2. IInv /\ [Next]_vars => [Heap!Next]_Heap!vars
  <2> SUFFICES ASSUME IInv, [Next]_vars PROVE [Heap!Next]_Heap!vars
    OBVIOUS
  <2>1. CASE UNCHANGED vars
    <3>1. UNCHANGED Allocated /\ Reachable' = Reachable
      BY <2>1, ReachableIsKept DEF vars, clientVars, allocVars, Allocated, Range
    <3>2. QED
      BY <2>1, <3>1 DEF vars, clientVars, Heap!vars
  <2>2. CASE Next
    BY <2>2, MutateImplements, AllocImplements, RefuseImplements,
       CollectorImplements DEF Next, Heap!Next
  <2>3. QED
    BY <2>1, <2>2
<1>3. QED
  BY <1>1, <1>2, Invariance, PTL DEF Spec, ImplementsManagedHeap, Heap!Spec

=============================================================================
