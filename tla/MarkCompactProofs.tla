------------------------- MODULE MarkCompactProofs -------------------------
(***************************************************************************)
(* The mark-and-compact heap, for every number of threads, cells, fields   *)
(* and sizes.  HeapInv is inductive whatever compact() does: types, spaces *)
(* that stay tiled, fingers that copy over nothing that is in use.         *)
(* GraphInv adds what the objects and their references are at each moment  *)
(* of a collection; it is inductive as long as compact() moves nothing,    *)
(* and then the assertions hold and the graph is preserved.  For programs  *)
(* without small objects the heap implements MovingHeap, where no pointer  *)
(* ever dangles.                                                           *)
(***************************************************************************)
EXTENDS MarkCompactProperties, DataLemmas

-----------------------------------------------------------------------------
(* Client code, whatever heap it runs on: the set Reachable is closed and  *)
(* least, and a client refers to nothing but null pointers and the objects *)
(* there are, if it did so before.  MarkSweepProofs has the same lemmas.   *)
(* A slot s of StackSlots is a pair of a thread and an index within that   *)
(* thread's stack.                                                         *)

LEMMA SlotTypes ==
    ASSUME ClientTypeOK, NEW s \in StackSlots
    PROVE  /\ s[1] \in Mutators
           /\ s[2] \in 1 .. Len(stack[s[1]])
           /\ stack[s[1]][s[2]] \in Pointers
BY DEF StackSlots, ClientTypeOK

LEMMA RootsAreCells == ASSUME ClientTypeOK PROVE Roots \subseteq Cells
BY SlotTypes DEF Roots, Pointers

(* Reachable contains the roots and every object they lead to, ... *)
LEMMA ReachableIsClosed ==
    ASSUME ClientTypeOK
    PROVE  Reachable \subseteq Cells /\ Roots \subseteq Reachable /\ Closed(Reachable)
<1>1. Reachable \subseteq Cells
  BY DEF Reachable
<1>2. Roots \subseteq Reachable
  BY RootsAreCells DEF Reachable
<1>3. ASSUME NEW c \in Reachable, NEW f \in Fields, field[c][f] # Null
      PROVE  field[c][f] \in Reachable
  <2>1. field[c][f] \in Cells
    BY <1>1, <1>3 DEF ClientTypeOK, Pointers
  <2>2. ASSUME NEW S \in SUBSET Cells, Roots \subseteq S, Closed(S)
        PROVE  field[c][f] \in S
    <3>1. c \in S
      BY <2>2 DEF Reachable
    <3>2. QED
      BY <1>3, <2>2, <3>1 DEF Closed
  <2>3. QED
    BY <2>1, <2>2 DEF Reachable
<1>4. QED
  BY <1>1, <1>2, <1>3 DEF Closed

(* ... and nothing more. *)
LEMMA ReachableIsLeast ==
    ASSUME NEW S \in SUBSET Cells, Roots \subseteq S, Closed(S)
    PROVE  Reachable \subseteq S
BY DEF Reachable

(* Only the stacks and the fields of objects decide what is reachable. *)
LEMMA ReachableIsKept ==
    ASSUME UNCHANGED <<stack, field>>
    PROVE  /\ StackSlots' = StackSlots
           /\ Roots' = Roots
           /\ Reachable' = Reachable
           /\ \A S : Closed(S)' <=> Closed(S)
BY DEF StackSlots, Roots, Reachable, Closed

-----------------------------------------------------------------------------
(* Client code, on a heap whose objects are those of A.                    *)

ClientInv(A) ==
    /\ ClientTypeOK
    /\ \A t \in Mutators \ managed : oop[t] = Null
    /\ \A s \in StackSlots : stack[s[1]][s[2]] \in A \cup {Null}
    /\ \A t \in Mutators : oop[t] \in A \cup {Null}
    /\ Closed(A)

LEMMA ClientKeepsClientInv ==
    ASSUME NEW A, ClientInv(A), NEW t \in Mutators, Client(t)
    PROVE  ClientInv(A)'
<1> USE NullAssumption, SizesAssumption, MaxStackAssumption
<1> USE DEF ClientInv, ClientTypeOK, Pointers, Ready, Running
<1>1. CASE Resume(t)
  BY <1>1 DEF Resume, STW!Enter, StackSlots, Closed
<1>2. CASE Stop(t)
  BY <1>2 DEF Stop, STW!Exit, StackSlots, Closed
<1>3. CASE ForceGc(t)
  BY <1>3 DEF ForceGc, STW!Request, StackSlots, Closed
<1>4. CASE Push(t)
  BY <1>4 DEF Push, StackSlots, Closed
<1>5. CASE Leave(t)
  BY <1>5 DEF Leave, StackSlots, Closed
<1>6. CASE LoadNull(t)
  BY <1>6 DEF LoadNull, StackSlots, Closed
<1>7. ASSUME NEW s \in StackSlots, Assign(t, s) PROVE ClientInv(A)'
  BY <1>7, SlotTypes DEF Assign, StackSlots, Closed
<1>8. ASSUME NEW s \in StackSlots, Load(t, s) PROVE ClientInv(A)'
  BY <1>8, SlotTypes DEF Load, StackSlots, Closed
<1>9. ASSUME NEW f \in Fields, LoadField(t, f) PROVE ClientInv(A)'
  BY <1>9 DEF LoadField, StackSlots, Closed
<1>10. ASSUME NEW s \in StackSlots, NEW f \in Fields, StoreField(t, s, f)
       PROVE  ClientInv(A)'
  BY <1>10, SlotTypes DEF StoreField, StackSlots, Closed
<1>11. QED
  BY <1>1, <1>2, <1>3, <1>4, <1>5, <1>6, <1>7, <1>8, <1>9, <1>10 DEF Client

(* An allocation adds the object it returns. *)
LEMMA AllocKeepsClientInv ==
    ASSUME NEW A \in SUBSET Cells, ClientInv(A), NEW t \in Mutators, NEW n \in Sizes,
           NEW c \in Cells, AllocSucceeds(t, n, c)
    PROVE  ClientInv(A \cup {c})'
BY NullAssumption, SizesAssumption
   DEF AllocSucceeds, Allocates, Running, Blank, ClientInv, ClientTypeOK, Pointers,
       StackSlots, Closed

LEMMA RefusalKeepsClientInv ==
    ASSUME NEW A, ClientInv(A), NEW t \in Mutators, NEW n \in Sizes,
           AllocFails(t, n) \/ OutOfMemory(t, n)
    PROVE  ClientInv(A)'
<1>1. t \in managed
  BY DEF AllocFails, OutOfMemory, Allocates, Running
<1>2. UNCHANGED <<managed, collecting, stack, oop, field>>
  BY DEF AllocFails, OutOfMemory, STW!Request
<1>3. /\ request' \in [Mutators -> Sizes \cup {0}] /\ pending' \subseteq Mutators
      /\ terminated' \in BOOLEAN
  <2>1. CASE AllocFails(t, n)
    BY <2>1 DEF AllocFails, STW!Request, ClientInv, ClientTypeOK
  <2>2. CASE OutOfMemory(t, n)
    <3>1. terminated' \in BOOLEAN
      BY <2>2, Zenon DEF OutOfMemory
    <3>2. QED
      BY <2>2, <3>1 DEF OutOfMemory, ClientInv, ClientTypeOK
  <2>3. QED
    BY <2>1, <2>2
<1>4. QED
  BY <1>2, <1>3 DEF ClientInv, ClientTypeOK, StackSlots, Closed

-----------------------------------------------------------------------------
(* What holds whatever compact() does.                                     *)

(* The worker has the heap for itself; no stopped thread has a raw Oop.    *)
WorldIsStopped ==
    /\ collecting <=> phase # "idle"
    /\ collecting => managed = {}
    /\ \A t \in Mutators \ managed : oop[t] = Null

(* The worklist has no slot with nullptr, and both lists are used up when  *)
(* a phase ends.                                                           *)
ListsAreCurrent ==
    /\ \A s \in worklist : field[s[1]][s[2]] # Null
    /\ phase \notin {"roots", "drain", "update_roots", "update_fields"} =>
          worklist = {}
    /\ phase \notin {"roots", "update_roots"} => roots = {}

(* Nothing is behind the offset; visit() is at a chunk or at the end; what *)
(* has been copied is no longer than what visit() has walked along.        *)
WalkIsOnChunks ==
    /\ \A r \in Spaces : \A i \in offset[r] .. SpaceSize - 1 :
          chunk_size[<<r, i>>] = 0
    /\ phase \in {"reallocate", "relocate"} =>
          cursor = offset[active] \/ Visited \in Heads(active)
    /\ phase = "reallocate" => offset[Free] <= cursor

(* The left finger is at a white slot, the right one at a black one.       *)
FingersAreOnSlots ==
    phase = "compact" =>
        /\ freed \in 0 .. offset["small"]
        /\ freed < offset["small"] => color[Small(freed)] = "White"
        /\ dirty \in 1 .. offset["small"] - 1
        /\ color[Small(dirty)] = "Black"

(* The heap is what it was until the first reference is led away. *)
HistoryIsExact ==
    /\ phase \in {"roots", "drain", "reallocate"} =>
          /\ before.live = Reachable
          /\ before.stack = stack
          /\ before.field = field
    /\ phase = "compact" => before.live \subseteq Cells

(* What Mark has found, unless an object was black before it began. *)
MarkingIsComplete ==
    before.marked = {} =>
        /\ phase \in {"roots", "drain"} =>
              /\ \A c \in before.live, f \in Fields :
                    color[c] = "Black" /\ field[c][f] # Null =>
                        color[field[c][f]] = "Black" \/ <<c, f>> \in worklist
              /\ \A s \in StackSlots \ roots :
                    stack[s[1]][s[2]] # Null => color[stack[s[1]][s[2]]] = "Black"
        /\ phase \in {"reallocate", "compact"} =>
              \A c \in before.live : color[c] = "Black" /\ field[c] = before.field[c]

HeapInv ==
    /\ TypeOK
    /\ SpacesAreTiled
    /\ WorldIsStopped
    /\ ListsAreCurrent
    /\ WalkIsOnChunks
    /\ FingersAreOnSlots
    /\ HistoryIsExact
    /\ MarkingIsComplete

-----------------------------------------------------------------------------
(* What holds as long as compact() moves nothing.                          *)

(* UpdateReferences is at work. *)
Updating == phase \in {"update_roots", "update_fields"}

(* The objects that Relocate will move, and those that Reallocate has been *)
(* at: what has a forwarding pointer.                                      *)
Survivors == Heads(active) \cap before.live

Copied == IF phase = "reallocate" THEN {c \in Survivors : c[2] < cursor}
          ELSE Survivors

(* Between two collections no pointer leaves the objects there are; in one *)
(* the history is a heap like that, and Reachable what it was.             *)
ClientsAreSafe ==
    /\ phase = "idle" => \E A \in SUBSET Allocated : ClientInv(A)
    /\ phase # "idle" =>
          /\ before.live \subseteq Allocated
          /\ before.live = Heap!Reachable
          /\ before.marked = {}
          /\ before.field \in [Cells -> [Fields -> Pointers]]
          /\ before.stack \in [Mutators -> Seq(Pointers)]
          /\ \A t \in Mutators : Len(before.stack[t]) = Len(stack[t])

(* What Mark found is black, at its old place, until the end. *)
ColorsAreExact ==
    /\ phase = "idle" => \A c \in Allocated : color[c] = "White"
    /\ phase # "idle" => \A c \in Allocated \ before.live : color[c] = "White"
    /\ phase \in {"roots", "drain"} \/ Updating => worklist \subseteq before.live \X Fields
    /\ phase \in {"reallocate", "relocate"} \/ Updating =>
          \A c \in Survivors : color[c] = "Black"

(* The forwarding pointers lead to the chunks of the free space, one each, *)
(* and there are no others.                                                *)
ForwardingIsExact ==
    /\ phase \in {"idle", "roots", "drain"} => \A c \in Allocated : forward[c] = Null
    /\ \A c \in SmallAllocated : forward[c] = Null
    /\ phase = "reallocate" => \A c \in Heads(active) \ Copied : forward[c] = Null
    /\ phase \in {"reallocate", "relocate"} \/ Updating =>
          /\ {forward[c] : c \in Copied} = Heads(Free)
          /\ \A c, d \in Copied : forward[c] = forward[d] => c = d

(* Field f of c refers to the new place of what it referred to, and that   *)
(* is an object whose mark process_pointer has cleared.                    *)
IsLed(c, f) ==
    LET d == before.field[c][f]
    IN  field[c][f] = Moved(d) /\ (d # Null => color[Moved(d)] = "White")

(* process_pointer has been at d: its fields are led, or in the worklist.  *)
IsVisited(d) ==
    d # Null => /\ color[Moved(d)] = "White"
                /\ \A f \in Fields : IsLed(d, f) \/ <<d, f>> \in worklist

(* Each slot and each field is led or as it was, and what a led one leads  *)
(* to has been visited.                                                    *)
UpdatesAreExact ==
    Updating =>
        /\ \A s \in StackSlots :
              LET p == before.stack[s[1]][s[2]]
              IN  \/ s \in roots /\ stack[s[1]][s[2]] = p
                  \/ s \notin roots /\ stack[s[1]][s[2]] = Moved(p) /\ IsVisited(p)
        /\ \A c \in before.live, f \in Fields :
              \/ IsLed(c, f) /\ IsVisited(before.field[c][f])
              \/ ~IsLed(c, f) /\ field[c][f] = before.field[c][f]

(* All references are led, and the copies made so far are exact and clean. *)
RelocationIsExact ==
    phase = "relocate" =>
        /\ \A s \in StackSlots : stack[s[1]][s[2]] = Moved(before.stack[s[1]][s[2]])
        /\ \A c \in before.live, f \in Fields :
              field[c][f] = Moved(before.field[c][f])
        /\ \A c \in before.live \ Survivors : color[c] = "White"
        /\ \A c \in Survivors : c[2] < cursor =>
              /\ field[forward[c]] = field[c]
              /\ color[forward[c]] = "White"
              /\ forward[forward[c]] = Null

GraphInv ==
    /\ ClientsAreSafe
    /\ ColorsAreExact
    /\ ForwardingIsExact
    /\ UpdatesAreExact
    /\ RelocationIsExact

(* compact() moves nothing. *)
NothingIsCompacted == phase # "compact"

(* No object goes to the FixedSizeAllocator. *)
NoSmallObjects == Sizes \cap SmallSizes = {} \/ SmallSlots = 0

-----------------------------------------------------------------------------
(* The two spaces and their chunks.                                        *)

LEMMA OtherSpace ==
    ASSUME NEW r \in Spaces
    PROVE  /\ Other(r) \in Spaces /\ Other(r) # r
           /\ \A q \in Spaces : q # r => q = Other(r)
           /\ Other(Other(r)) = r
<1>1. PICK a, b \in Spaces : a # b /\ Spaces = {a, b}
  BY SpacesAssumption
<1>2. ASSUME NEW p \in Spaces
      PROVE  Other(p) \in Spaces /\ Other(p) # p
  <2>1. \E other \in Spaces : other # p
    BY <1>1
  <2>2. QED
    BY <2>1 DEF Other
<1>3. \A q \in Spaces : q # r => q = Other(r)
  BY <1>1, <1>2
<1>4. QED
  BY <1>1, <1>2

LEMMA SpacesAreCells ==
    ASSUME NEW r \in Spaces, NEW i \in 0 .. SpaceSize - 1
    PROVE  <<r, i>> \in Cells
BY CellsAssumption

LEMMA SlotsAreCells ==
    ASSUME NEW i \in 0 .. SmallSlots - 1
    PROVE  /\ Small(i) \in Cells
           /\ \A j : Small(i) = Small(j) => i = j
           /\ \A r \in Spaces : \A j : Small(i) # <<r, j>>
BY CellsAssumption, SpacesAssumption DEF Small

LEMMA HeadsAreCells ==
    ASSUME TypeOK, NEW r \in Spaces, NEW c \in Heads(r)
    PROVE  /\ c = <<r, c[2]>> /\ c[1] = r /\ c \in Cells
           /\ c[2] \in 0 .. offset[r] - 1
           /\ chunk_size[c] \in Sizes /\ chunk_size[c] \in Nat \ {0}
<1>1. /\ c = <<r, c[2]>> /\ c[1] = r /\ c[2] \in 0 .. offset[r] - 1
      /\ chunk_size[c] # 0
  BY DEF Heads
<1>2. offset[r] \in 0 .. SpaceSize
  BY DEF TypeOK
<1>3. c \in Cells
  BY <1>1, <1>2, SpacesAreCells, CellsAssumption
<1>4. QED
  BY <1>1, <1>3, SizesAssumption DEF TypeOK

(* Heads depends on the offset and on the chunk sizes alone. *)
LEMMA HeadsAreKept ==
    ASSUME NEW r, UNCHANGED <<offset[r], chunk_size>>
    PROVE  Heads(r)' = Heads(r) /\ (SpaceIsTiled(r)' <=> SpaceIsTiled(r))
BY DEF Heads, SpaceIsTiled

(* alloc() of a LinearAllocator: one chunk more, at the end. *)
LEMMA ChunkIsAppended ==
    ASSUME TypeOK, NEW r \in Spaces, NEW n \in Sizes, FitsIn(r, n), SpaceIsTiled(r),
           \A i \in offset[r] .. SpaceSize - 1 : chunk_size[<<r, i>>] = 0,
           offset' = [offset EXCEPT ![r] = @ + n],
           chunk_size' = [chunk_size EXCEPT ![<<r, offset[r]>>] = n]
    PROVE  /\ <<r, offset[r]>> \in Cells /\ <<r, offset[r]>> \notin Heads(r)
           /\ Heads(r)' = Heads(r) \cup {<<r, offset[r]>>}
           /\ \A q : q # r => Heads(q)' = Heads(q)
           /\ SpaceIsTiled(r)'
           /\ \A q \in Spaces \ {r} : SpaceIsTiled(q)' <=> SpaceIsTiled(q)
           /\ offset' \in [Spaces \cup {"small"} -> Nat]
           /\ offset'[r] = offset[r] + n
           /\ offset'["small"] = offset["small"]
           /\ \A q \in Spaces : offset'[q] <= SpaceSize
           /\ chunk_size' \in [Cells -> Sizes \cup {0}]
           /\ \A i \in offset'[r] .. SpaceSize - 1 : chunk_size'[<<r, i>>] = 0
<1> DEFINE o == offset[r]
           new == <<r, o>>
<1>1. /\ o \in 0 .. SpaceSize /\ n \in Nat \ {0} /\ o + n <= SpaceSize
      /\ offset \in [Spaces \cup {"small"} -> Nat] /\ SpaceSize \in Nat
      /\ chunk_size \in [Cells -> Sizes \cup {0}] /\ r # "small"
  BY SizesAssumption, CellsAssumption, SpacesAssumption DEF TypeOK, FitsIn
<1>2. new \in Cells
  BY <1>1, SpacesAreCells
<1>3. /\ offset' \in [Spaces \cup {"small"} -> Nat]
      /\ offset'[r] = o + n
      /\ \A q \in (Spaces \cup {"small"}) \ {r} : offset'[q] = offset[q]
      /\ \A q \in Spaces : offset'[q] <= SpaceSize
  BY <1>1 DEF TypeOK
<1>4. /\ chunk_size' \in [Cells -> Sizes \cup {0}]
      /\ \A c \in Cells : chunk_size'[c] = IF c = new THEN n ELSE chunk_size[c]
      /\ \A c : c # new => chunk_size'[c] = chunk_size[c]
  BY <1>1, <1>2
<1>5. new \notin Heads(r)
  BY <1>1 DEF Heads
<1>6. Heads(r)' = Heads(r) \cup {new}
  <2>1. ASSUME NEW c \in Heads(r)' PROVE c \in Heads(r) \cup {new}
    <3>1. c = <<r, c[2]>> /\ c[2] \in 0 .. o + n - 1 /\ chunk_size'[c] # 0
      <4>1. c \in {r} \X (0 .. offset'[r] - 1) /\ chunk_size'[c] # 0
        BY DEF Heads
      <4>2. QED
        BY <1>1, <1>3, <4>1
    <3>2. CASE c # new
      <4>1. chunk_size[<<r, c[2]>>] # 0
        BY <1>4, <3>1, <3>2
      <4>2. ~ c[2] \in o .. SpaceSize - 1
        BY <4>1
      <4>3. c[2] \in 0 .. o - 1
        BY <1>1, <3>1, <4>2
      <4>4. QED
        BY <3>1, <4>1, <4>3 DEF Heads
    <3>3. QED
      BY <3>2
  <2>2. ASSUME NEW c \in Heads(r) PROVE c \in Heads(r)'
    <3>1. c \in {r} \X (0 .. o - 1) /\ c # new /\ chunk_size[c] # 0
      BY <1>1 DEF Heads
    <3>2. c \in {r} \X (0 .. o + n - 1) /\ chunk_size'[c] # 0
      BY <1>1, <1>4, <3>1
    <3>3. QED
      BY <1>1, <1>3, <3>2 DEF Heads
  <2>3. new \in Heads(r)'
    BY <1>1, <1>2, <1>3, <1>4 DEF Heads
  <2>4. QED
    BY <2>1, <2>2, <2>3
<1>7. ASSUME NEW q, q # r PROVE Heads(q)' = Heads(q)
  BY <1>1, <1>4, <1>7 DEF Heads
<1>8. SpaceIsTiled(r)'
  <2>1. ASSUME offset'[r] # 0 PROVE <<r, 0>> \in Heads(r)'
    BY <1>1, <1>6 DEF SpaceIsTiled
  <2>2. ASSUME NEW c \in Heads(r)'
        PROVE  LET next == c[2] + chunk_size'[c]
               IN  /\ next = offset'[r] \/ <<r, next>> \in Heads(r)'
                   /\ \A i \in c[2] + 1 .. next - 1 : <<r, i>> \notin Heads(r)'
    <3>1. CASE c = new
      <4>1. c[2] + chunk_size'[c] = offset'[r] /\ c[2] = o
        BY <1>1, <1>2, <1>3, <1>4, <3>1
      <4>2. ASSUME NEW i \in o + 1 .. o + n - 1 PROVE <<r, i>> \notin Heads(r)'
        BY <1>1, <1>6 DEF Heads
      <4>3. \A i \in c[2] + 1 .. (c[2] + chunk_size'[c]) - 1 : <<r, i>> \notin Heads(r)'
        BY <1>1, <1>3, <4>1, <4>2
      <4>4. QED
        BY <4>1, <4>3
    <3>2. CASE c # new
      <4> DEFINE next == c[2] + chunk_size[c]
      <4>1. c \in Heads(r) /\ chunk_size'[c] = chunk_size[c]
        BY <1>4, <1>6, <3>2
      <4>2. c[2] \in 0 .. o - 1 /\ chunk_size[c] \in Nat \ {0}
        BY <4>1, HeadsAreCells
      <4>3. next = o \/ <<r, next>> \in Heads(r)
        BY <4>1 DEF SpaceIsTiled
      <4>4. next <= o
        BY <1>1, <4>2, <4>3 DEF Heads
      <4>5. <<r, next>> \in Heads(r)'
        BY <1>6, <4>3
      <4>6. ASSUME NEW i \in c[2] + 1 .. next - 1 PROVE <<r, i>> \notin Heads(r)'
        <5>1. <<r, i>> \notin Heads(r)
          BY <4>1 DEF SpaceIsTiled
        <5>2. i # o
          BY <1>1, <4>2, <4>4
        <5>3. QED
          BY <1>6, <5>1, <5>2
      <4>7. QED
        BY <4>1, <4>5, <4>6
    <3>3. QED
      BY <3>1, <3>2
  <2>3. QED
    BY <2>1, <2>2 DEF SpaceIsTiled
<1>9. ASSUME NEW q \in Spaces \ {r} PROVE SpaceIsTiled(q)' <=> SpaceIsTiled(q)
  <2>1. /\ Heads(q)' = Heads(q) /\ offset'[q] = offset[q]
        /\ \A c \in Heads(q) : chunk_size'[c] = chunk_size[c]
    BY <1>3, <1>4, <1>7 DEF Heads
  <2>2. QED
    BY <2>1 DEF SpaceIsTiled
<1>10. \A i \in offset'[r] .. SpaceSize - 1 : chunk_size'[<<r, i>>] = 0
  BY <1>1, <1>3, <1>4
<1>11. QED
  BY <1>1, <1>2, <1>3, <1>4, <1>5, <1>6, <1>7, <1>8, <1>9, <1>10

-----------------------------------------------------------------------------
(* HeapInv holds at first, and client code keeps it.                       *)

LEMMA InitHeapInv == Init => HeapInv
<1> SUFFICES ASSUME Init PROVE HeapInv
  OBVIOUS
<1> USE SizesAssumption, MaxStackAssumption, SpacesAssumption, CellsAssumption
<1> USE DEF Init, InitClient, InitMark, STW!Init, Blank, Pointers
<1>1. collecting \in BOOLEAN /\ terminated \in BOOLEAN
  BY Zenon
<1>2. ClientTypeOK
  BY <1>1 DEF ClientTypeOK
<1>3. TypeOK
  BY <1>2 DEF TypeOK
<1>4. Free \in Spaces
  BY OtherSpace DEF Free
<1>5. \A r \in Spaces : offset[r] = 0 /\ Heads(r) = {}
  BY DEF Heads
<1>6. SpacesAreTiled
  BY <1>4, <1>5 DEF SpacesAreTiled, SpaceIsTiled
<1>7. WorldIsStopped /\ ListsAreCurrent
  BY DEF WorldIsStopped, ListsAreCurrent
<1>8. WalkIsOnChunks /\ FingersAreOnSlots /\ HistoryIsExact /\ MarkingIsComplete
  BY SpacesAreCells
     DEF WalkIsOnChunks, FingersAreOnSlots, HistoryIsExact, MarkingIsComplete
<1>9. QED
  BY <1>3, <1>6, <1>7, <1>8 DEF HeapInv

LEMMA PointersAreTyped == ASSUME HeapInv PROVE ClientInv(Cells)
<1>1. ClientTypeOK /\ \A t \in Mutators \ managed : oop[t] = Null
  BY DEF HeapInv, TypeOK, WorldIsStopped
<1>2. \A s \in StackSlots : stack[s[1]][s[2]] \in Cells \cup {Null}
  BY <1>1, SlotTypes DEF Pointers
<1>3. QED
  BY <1>1, <1>2 DEF ClientInv, ClientTypeOK, Closed, Pointers

(* A thread that runs is one for which the collector is idle. *)
LEMMA RunningIsIdle ==
    ASSUME HeapInv, NEW t \in managed
    PROVE  ~collecting /\ phase = "idle"
BY DEF HeapInv, WorldIsStopped

(* Client code takes a step only while no collection runs. *)
LEMMA ClientIsIdle ==
    ASSUME HeapInv, NEW t \in Mutators, Client(t)
    PROVE  ~collecting /\ ~collecting' /\ phase = "idle"
<1>1. CASE Resume(t)
  BY <1>1 DEF Resume, STW!Enter, HeapInv, WorldIsStopped
<1>2. CASE ~Resume(t)
  <2>1. t \in managed
    BY <1>2 DEF Client, Stop, ForceGc, Push, Leave, LoadNull, Assign, Load,
         LoadField, StoreField, Ready, Running, STW!Exit
  <2>2. UNCHANGED collecting
    BY <1>2 DEF Client, Stop, ForceGc, Push, Leave, LoadNull, Assign, Load,
         LoadField, StoreField, STW!Exit, STW!Request
  <2>3. QED
    BY <2>1, <2>2, RunningIsIdle
<1>3. QED
  BY <1>1, <1>2

(* A mutator's step while the collector is idle: what remains of HeapInv.  *)
LEMMA IdleStep ==
    ASSUME HeapInv, phase = "idle", ~collecting', ClientInv(Cells)',
           UNCHANGED <<phase, roots, worklist, active, cursor, freed, dirty>>,
           color' \in [Cells -> {"White", "Black"}],
           forward' \in [Cells -> Pointers],
           chunk_size' \in [Cells -> Sizes \cup {0}],
           offset' \in [Spaces \cup {"small"} -> Nat],
           offset'["small"] <= SmallSlots,
           offset'[Free] = 0,
           \A r \in Spaces :
              /\ offset'[r] <= SpaceSize
              /\ SpaceIsTiled(r)'
              /\ \A i \in offset'[r] .. SpaceSize - 1 : chunk_size'[<<r, i>>] = 0
    PROVE  HeapInv'
<1>1. roots' = {} /\ worklist' = {} /\ phase' = "idle"
  BY DEF HeapInv, ListsAreCurrent
<1>2. ClientTypeOK'
  BY DEF ClientInv
<1>3. TypeOK'
  BY <1>1, <1>2 DEF HeapInv, TypeOK
<1>4. SpacesAreTiled'
  BY DEF SpacesAreTiled, Free
<1>5. WorldIsStopped' /\ ListsAreCurrent'
  BY <1>1 DEF WorldIsStopped, ListsAreCurrent, ClientInv
<1>6. WalkIsOnChunks' /\ FingersAreOnSlots' /\ HistoryIsExact' /\ MarkingIsComplete'
  BY <1>1 DEF WalkIsOnChunks, FingersAreOnSlots, HistoryIsExact, MarkingIsComplete
<1>7. QED
  BY <1>3, <1>4, <1>5, <1>6 DEF HeapInv

(* What IdleStep asks for holds before the step. *)
LEMMA IdleFacts ==
    ASSUME HeapInv, phase = "idle"
    PROVE  /\ color \in [Cells -> {"White", "Black"}]
           /\ forward \in [Cells -> Pointers]
           /\ chunk_size \in [Cells -> Sizes \cup {0}]
           /\ offset \in [Spaces \cup {"small"} -> Nat]
           /\ offset["small"] <= SmallSlots
           /\ active \in Spaces /\ Free \in Spaces /\ Free # active
           /\ offset[Free] = 0
           /\ \A r \in Spaces :
                 /\ offset[r] <= SpaceSize
                 /\ SpaceIsTiled(r)
                 /\ \A i \in offset[r] .. SpaceSize - 1 : chunk_size[<<r, i>>] = 0
BY OtherSpace DEF HeapInv, TypeOK, SpacesAreTiled, WalkIsOnChunks, Free

LEMMA MutateStep == ASSUME HeapInv, NEW t \in Mutators, Mutate(t) PROVE HeapInv'
<1>1. Client(t) /\ UNCHANGED <<markVars, spaceVars, compactVars>>
  BY DEF Mutate
<1>2. phase = "idle" /\ ~collecting'
  BY <1>1, ClientIsIdle
<1>3. ClientInv(Cells)'
  BY <1>1, PointersAreTyped, ClientKeepsClientInv
<1>4. UNCHANGED <<phase, roots, worklist, color, active, offset, chunk_size, forward,
                  cursor, freed, dirty>>
  BY <1>1 DEF markVars, spaceVars, compactVars
<1>5. \A r \in Spaces : SpaceIsTiled(r)'
  BY <1>2, <1>4, IdleFacts, HeadsAreKept
<1>6. QED
  BY <1>2, <1>3, <1>4, <1>5, IdleFacts, IdleStep

LEMMA RefuseStep ==
    ASSUME HeapInv, NEW t \in Mutators, NEW n \in Sizes, Refuse(t, n) PROVE HeapInv'
<1>1. /\ AllocFails(t, n) \/ OutOfMemory(t, n)
      /\ UNCHANGED <<phase, roots, worklist, color, active, offset, chunk_size, forward,
                     cursor, freed, dirty>>
  BY DEF Refuse, markVars, spaceVars, compactVars
<1>2. t \in managed /\ UNCHANGED collecting
  BY <1>1 DEF AllocFails, OutOfMemory, Allocates, Running, STW!Request
<1>3. phase = "idle" /\ ~collecting'
  BY <1>2, RunningIsIdle
<1>4. ClientInv(Cells)'
  BY <1>1, PointersAreTyped, RefusalKeepsClientInv
<1>5. \A r \in Spaces : SpaceIsTiled(r)'
  BY <1>1, <1>3, IdleFacts, HeadsAreKept
<1>6. QED
  BY <1>1, <1>3, <1>4, <1>5, IdleFacts, IdleStep

(* What the two kinds of allocation have in common. *)
LEMMA AllocFacts ==
    ASSUME HeapInv, NEW t \in Mutators, NEW n \in Sizes, NEW c \in Cells, AllocAt(t, n, c)
    PROVE  /\ phase = "idle" /\ ~collecting /\ ~collecting' /\ ClientInv(Cells)'
           /\ UNCHANGED <<phase, roots, worklist, active, cursor, freed, dirty>>
           /\ color' \in [Cells -> {"White", "Black"}]
           /\ forward' \in [Cells -> Pointers]
           /\ color'[c] = "White" /\ forward'[c] = Null
           /\ \A d \in Cells \ {c} : color'[d] = color[d] /\ forward'[d] = forward[d]
<1>1. AllocSucceeds(t, n, c) /\ UNCHANGED collecting
  BY DEF AllocAt, AllocSucceeds
<1>2. t \in managed
  BY <1>1 DEF AllocSucceeds, Allocates, Running
<1>3. phase = "idle" /\ ~collecting /\ ~collecting'
  BY <1>1, <1>2, RunningIsIdle
<1>4. ClientInv(Cells)'
  <2>1. PICK A \in SUBSET Cells : A = Cells /\ ClientInv(A)
    BY PointersAreTyped
  <2>2. ClientInv(A \cup {c})'
    BY <1>1, <2>1, AllocKeepsClientInv
  <2>3. A \cup {c} = Cells
    BY <2>1
  <2>4. QED
    BY <2>2, <2>3 DEF ClientInv, Closed
<1>5. QED
  BY <1>3, <1>4, IdleFacts DEF AllocAt, Pointers

LEMMA AllocSmallStep ==
    ASSUME HeapInv, NEW t \in Mutators, NEW n \in Sizes, AllocSmall(t, n) PROVE HeapInv'
<1> DEFINE c == Small(offset["small"])
<1>1. offset["small"] \in Nat /\ offset["small"] < SmallSlots
  BY DEF AllocSmall, FitsSmall, HeapInv, TypeOK
<1>2. c \in Cells
  BY <1>1, CellsAssumption, SlotsAreCells
<1>3. AllocAt(t, n, c)
  BY DEF AllocSmall, Small
<1> HIDE DEF c
<1>4. /\ phase = "idle" /\ ~collecting' /\ ClientInv(Cells)'
      /\ UNCHANGED <<phase, roots, worklist, active, cursor, freed, dirty>>
      /\ color' \in [Cells -> {"White", "Black"}]
      /\ forward' \in [Cells -> Pointers]
  BY <1>2, <1>3, AllocFacts
<1>5. /\ offset' = [offset EXCEPT !["small"] = offset["small"] + 1]
      /\ chunk_size' = chunk_size
  BY DEF AllocSmall
<1>6. /\ offset' \in [Spaces \cup {"small"} -> Nat]
      /\ offset'["small"] <= SmallSlots
      /\ \A r \in Spaces : offset'[r] = offset[r]
  BY <1>1, <1>4, <1>5, IdleFacts, SpacesAssumption, CellsAssumption
<1>7. \A r \in Spaces : SpaceIsTiled(r)'
  BY <1>4, <1>5, <1>6, IdleFacts, HeadsAreKept
<1>8. QED
  BY <1>4, <1>5, <1>6, <1>7, IdleFacts, IdleStep

LEMMA AllocLinearStep ==
    ASSUME HeapInv, NEW t \in Mutators, NEW n \in Sizes, AllocLinear(t, n) PROVE HeapInv'
<1> PICK r \in Spaces : r = active
  BY DEF HeapInv, TypeOK
<1> DEFINE c == <<r, offset[r]>>
<1>1. /\ TypeOK /\ FitsIn(r, n) /\ SpaceIsTiled(r)
      /\ \A i \in offset[r] .. SpaceSize - 1 : chunk_size[<<r, i>>] = 0
      /\ offset' = [offset EXCEPT ![r] = @ + n]
      /\ chunk_size' = [chunk_size EXCEPT ![<<r, offset[r]>>] = n]
  BY DEF AllocLinear, HeapInv, TypeOK, SpacesAreTiled, WalkIsOnChunks
<1>2. /\ c \in Cells
      /\ SpaceIsTiled(r)'
      /\ \A q \in Spaces \ {r} : SpaceIsTiled(q)' <=> SpaceIsTiled(q)
      /\ offset' \in [Spaces \cup {"small"} -> Nat]
      /\ offset'["small"] = offset["small"]
      /\ \A q \in Spaces : offset'[q] <= SpaceSize
      /\ chunk_size' \in [Cells -> Sizes \cup {0}]
      /\ \A i \in offset'[r] .. SpaceSize - 1 : chunk_size'[<<r, i>>] = 0
  BY <1>1, ChunkIsAppended
<1>3. AllocAt(t, n, c)
  BY DEF AllocLinear
<1> HIDE DEF c
<1>4. /\ phase = "idle" /\ ~collecting' /\ ClientInv(Cells)'
      /\ UNCHANGED <<phase, roots, worklist, active, cursor, freed, dirty>>
      /\ color' \in [Cells -> {"White", "Black"}]
      /\ forward' \in [Cells -> Pointers]
  BY <1>2, <1>3, AllocFacts
<1>5. \A q \in Spaces \ {r} :
         /\ offset'[q] = offset[q]
         /\ \A i : chunk_size'[<<q, i>>] = chunk_size[<<q, i>>]
  BY <1>1, <1>4, IdleFacts
<1>6. /\ offset'[Free] = 0
      /\ \A q \in Spaces :
            /\ SpaceIsTiled(q)'
            /\ \A i \in offset'[q] .. SpaceSize - 1 : chunk_size'[<<q, i>>] = 0
  BY <1>2, <1>4, <1>5, IdleFacts
<1>7. offset'["small"] <= SmallSlots
  BY <1>2, <1>4, IdleFacts
<1>8. QED
  BY <1>2, <1>4, <1>6, <1>7, IdleStep

-----------------------------------------------------------------------------
(* Marking keeps HeapInv.                                                  *)

(* The parts of HeapInv that a step of the collector leaves alone when it  *)
(* allocates nothing.                                                      *)
LEMMA SpacesAreKept ==
    ASSUME HeapInv, UNCHANGED <<active, offset, chunk_size>>
    PROVE  /\ active' \in Spaces /\ Free' = Free
           /\ \A r : Heads(r)' = Heads(r)
           /\ \A r \in Spaces : SpaceIsTiled(r)'
           /\ \A r \in Spaces : \A i \in offset'[r] .. SpaceSize - 1 :
                 chunk_size'[<<r, i>>] = 0
           /\ offset' \in [Spaces \cup {"small"} -> Nat]
           /\ \A r \in Spaces : offset'[r] <= SpaceSize
           /\ offset'["small"] <= SmallSlots
           /\ chunk_size' \in [Cells -> Sizes \cup {0}]
BY HeadsAreKept DEF HeapInv, TypeOK, SpacesAreTiled, WalkIsOnChunks, Free

LEMMA BeginMarkStep ==
    ASSUME HeapInv, BeginMark, Marking PROVE HeapInv'
<1>1. /\ ~collecting /\ collecting' = TRUE /\ managed = {} /\ phase' = "roots"
      /\ roots' = StackSlots
      /\ UNCHANGED <<managed, pending, stack, oop, field, request, terminated,
                     worklist, color, active, offset, chunk_size, forward, cursor,
                     freed, dirty>>
  BY DEF BeginMark, STW!BeginCollect, Marking, spaceVars
<1>2. phase = "idle"
  BY <1>1 DEF HeapInv, WorldIsStopped
<1>3. before' = [stack |-> stack, field |-> field, live |-> Reachable,
                 marked |-> {c \in Reachable : color[c] = "Black"}]
  BY <1>1, <1>2 DEF Marking, MarkRoot, RootsMarked, MarkField
<1>4. StackSlots' = StackSlots /\ Reachable' = Reachable
  BY <1>1, ReachableIsKept
<1>5. worklist = {}
  BY <1>2 DEF HeapInv, ListsAreCurrent
<1>6. TypeOK'
  <2>1. collecting' \in BOOLEAN
    BY <1>1
  <2>2. ClientTypeOK'
    BY <1>1, <2>1 DEF HeapInv, TypeOK, ClientTypeOK
  <2>3. QED
    BY <1>1, <1>4, <2>2 DEF HeapInv, TypeOK
<1>7. SpacesAreTiled'
  BY <1>1, <1>2, SpacesAreKept DEF HeapInv, SpacesAreTiled
<1>8. WorldIsStopped' /\ ListsAreCurrent'
  BY <1>1, <1>5 DEF HeapInv, WorldIsStopped, ListsAreCurrent
<1>9. WalkIsOnChunks' /\ FingersAreOnSlots'
  BY <1>1, SpacesAreKept DEF WalkIsOnChunks, FingersAreOnSlots
<1>10. HistoryIsExact'
  BY <1>1, <1>3, <1>4 DEF HistoryIsExact
<1>11. MarkingIsComplete'
  BY <1>1, <1>3, <1>4 DEF MarkingIsComplete
<1>12. QED
  BY <1>6, <1>7, <1>8, <1>9, <1>10, <1>11 DEF HeapInv

(* What process_pointer does to the colors and the worklist. *)
LEMMA ProcessPointerStep ==
    ASSUME HeapInv, phase \in {"roots", "drain"}, NEW c \in Cells,
           NEW kept \in SUBSET worklist, ProcessPointer(c, kept)
    PROVE  /\ color' \in [Cells -> {"White", "Black"}]
           /\ worklist' \subseteq FieldSlots
           /\ color'[c] = "Black"
           /\ \A d \in Cells : color[d] = "Black" => color'[d] = "Black"
           /\ \A s \in worklist' : field[s[1]][s[2]] # Null
           /\ before.marked = {} =>
                 \A d \in before.live, f \in Fields :
                    color'[d] = "Black" /\ field[d][f] # Null =>
                       \/ color'[field[d][f]] = "Black"
                       \/ <<d, f>> \in worklist'
                       \/ <<d, f>> \in worklist \ kept
<1>1. /\ color \in [Cells -> {"White", "Black"}] /\ worklist \subseteq FieldSlots
      /\ field \in [Cells -> [Fields -> Pointers]] /\ ClientTypeOK
  BY DEF HeapInv, TypeOK, ClientTypeOK
<1>2. \A s \in worklist : field[s[1]][s[2]] # Null
  BY DEF HeapInv, ListsAreCurrent
<1>3. before.live \subseteq Cells
  BY <1>1, ReachableIsClosed DEF HeapInv, HistoryIsExact
<1>4. before.marked = {} =>
         \A d \in before.live, f \in Fields :
            color[d] = "Black" /\ field[d][f] # Null =>
               color[field[d][f]] = "Black" \/ <<d, f>> \in worklist
  BY DEF HeapInv, MarkingIsComplete
<1>5. CASE color[c] = "Black"
  BY <1>1, <1>2, <1>4, <1>5 DEF ProcessPointer
<1>6. CASE color[c] # "Black"
  <2>1. /\ color' = [color EXCEPT ![c] = "Black"]
        /\ worklist' = kept \cup Trace(c)
    BY <1>6 DEF ProcessPointer
  <2>2. Trace(c) = {s \in FieldSlots : s[1] = c /\ field[c][s[2]] # Null}
    BY DEF Trace, FieldSlots
  <2>3. \A d \in Cells : color'[d] = IF d = c THEN "Black" ELSE color[d]
    BY <1>1, <2>1
  <2>4. color' \in [Cells -> {"White", "Black"}] /\ worklist' \subseteq FieldSlots
    BY <1>1, <2>1, <2>2
  <2>5. \A s \in worklist' : field[s[1]][s[2]] # Null
    BY <1>2, <2>1, <2>2
  <2>6. ASSUME before.marked = {}, NEW d \in before.live, NEW f \in Fields,
               color'[d] = "Black", field[d][f] # Null
        PROVE  \/ color'[field[d][f]] = "Black"
               \/ <<d, f>> \in worklist'
               \/ <<d, f>> \in worklist \ kept
    <3>1. d \in Cells /\ field[d][f] \in Cells
      BY <1>1, <1>3, <2>6 DEF Pointers
    <3>2. CASE d = c
      BY <2>1, <2>6, <3>2 DEF Trace
    <3>3. CASE d # c
      <4>1. color[field[d][f]] = "Black" \/ <<d, f>> \in worklist
        BY <1>4, <2>3, <2>6, <3>1, <3>3
      <4>2. QED
        BY <2>1, <2>3, <3>1, <4>1
    <3>4. QED
      BY <3>2, <3>3
  <2>7. QED
    BY <2>3, <2>4, <2>5, <2>6
<1>7. QED
  BY <1>5, <1>6

(* What the steps of Mark but the first have in common. *)
LEMMA MarkingStep ==
    ASSUME HeapInv, phase \in {"roots", "drain"}, phase' \in {"roots", "drain"},
           UNCHANGED <<managed, collecting, pending, stack, oop, field, request,
                       terminated, active, offset, chunk_size, forward, cursor,
                       freed, dirty, before>>,
           color' \in [Cells -> {"White", "Black"}],
           worklist' \subseteq FieldSlots,
           roots' \subseteq StackSlots, phase' = "drain" => roots' = {},
           \A s \in worklist' : field[s[1]][s[2]] # Null,
           before.marked = {} =>
              /\ \A c \in before.live, f \in Fields :
                    color'[c] = "Black" /\ field[c][f] # Null =>
                       color'[field[c][f]] = "Black" \/ <<c, f>> \in worklist'
              /\ \A s \in StackSlots \ roots' :
                    stack[s[1]][s[2]] # Null => color'[stack[s[1]][s[2]]] = "Black"
    PROVE  HeapInv'
<1>1. StackSlots' = StackSlots /\ Reachable' = Reachable
  BY ReachableIsKept
<1>2. TypeOK'
  <2>1. ClientTypeOK'
    BY DEF HeapInv, TypeOK, ClientTypeOK
  <2>2. QED
    BY <1>1, <2>1 DEF HeapInv, TypeOK
<1>3. SpacesAreTiled'
  BY SpacesAreKept DEF HeapInv, SpacesAreTiled
<1>4. WorldIsStopped' /\ ListsAreCurrent'
  BY DEF HeapInv, WorldIsStopped, ListsAreCurrent
<1>5. WalkIsOnChunks' /\ FingersAreOnSlots'
  BY SpacesAreKept DEF WalkIsOnChunks, FingersAreOnSlots
<1>6. HistoryIsExact' /\ MarkingIsComplete'
  BY <1>1 DEF HeapInv, HistoryIsExact, MarkingIsComplete
<1>7. QED
  BY <1>2, <1>3, <1>4, <1>5, <1>6 DEF HeapInv

LEMMA MarkRootStep ==
    ASSUME HeapInv, MarkRoot, Marking PROVE HeapInv'
<1>1. /\ phase = "roots" /\ phase' = "roots"
      /\ UNCHANGED <<managed, collecting, pending, stack, oop, field, request,
                     terminated, active, offset, chunk_size, forward, cursor,
                     freed, dirty>>
  BY DEF MarkRoot, Marking, clientVars, spaceVars
<1>2. UNCHANGED before
  BY <1>1 DEF Marking, BeginMark, STW!BeginCollect
<1>3. PICK s \in roots :
         /\ roots' = roots \ {s}
         /\ \/ /\ stack[s[1]][s[2]] = Null
               /\ UNCHANGED <<worklist, color>>
            \/ /\ stack[s[1]][s[2]] # Null
               /\ ProcessPointer(stack[s[1]][s[2]], worklist)
  BY DEF MarkRoot
<1>4. /\ color \in [Cells -> {"White", "Black"}] /\ worklist \subseteq FieldSlots
      /\ ClientTypeOK /\ roots \subseteq StackSlots
      /\ \A w \in worklist : field[w[1]][w[2]] # Null
      /\ before.marked = {} =>
            /\ \A d \in before.live, f \in Fields :
                  color[d] = "Black" /\ field[d][f] # Null =>
                     color[field[d][f]] = "Black" \/ <<d, f>> \in worklist
            /\ \A r \in StackSlots \ roots :
                  stack[r[1]][r[2]] # Null => color[stack[r[1]][r[2]]] = "Black"
  BY <1>1 DEF HeapInv, TypeOK, ListsAreCurrent, MarkingIsComplete
<1>5. CASE stack[s[1]][s[2]] = Null
  <2>1. UNCHANGED <<worklist, color>>
    BY <1>3, <1>5
  <2>2. QED
    BY <1>1, <1>2, <1>3, <1>4, <1>5, <2>1, MarkingStep
<1>6. CASE stack[s[1]][s[2]] # Null
  <2>1. PICK c \in Cells : c = stack[s[1]][s[2]]
    BY <1>4, <1>6, SlotTypes DEF Pointers
  <2>2. PICK kept \in SUBSET worklist : kept = worklist
    OBVIOUS
  <2>3. ProcessPointer(c, kept)
    BY <1>3, <1>6, <2>1, <2>2
  <2>4. /\ color' \in [Cells -> {"White", "Black"}]
        /\ worklist' \subseteq FieldSlots
        /\ color'[c] = "Black"
        /\ \A d \in Cells : color[d] = "Black" => color'[d] = "Black"
        /\ \A w \in worklist' : field[w[1]][w[2]] # Null
        /\ before.marked = {} =>
              \A d \in before.live, f \in Fields :
                 color'[d] = "Black" /\ field[d][f] # Null =>
                    \/ color'[field[d][f]] = "Black"
                    \/ <<d, f>> \in worklist'
    BY <1>1, <2>2, <2>3, ProcessPointerStep
  <2>5. ASSUME before.marked = {}, NEW r \in StackSlots \ roots',
               stack[r[1]][r[2]] # Null
        PROVE  color'[stack[r[1]][r[2]]] = "Black"
    <3>1. stack[r[1]][r[2]] \in Cells
      BY <1>4, <2>5, SlotTypes DEF Pointers
    <3>2. QED
      BY <1>3, <1>4, <2>1, <2>4, <2>5, <3>1
  <2>6. QED
    BY <1>1, <1>2, <1>3, <1>4, <2>4, <2>5, MarkingStep
<1>7. QED
  BY <1>5, <1>6

LEMMA RootsMarkedStep ==
    ASSUME HeapInv, RootsMarked, Marking PROVE HeapInv'
<1>1. /\ phase = "roots" /\ phase' = "drain" /\ roots = {}
      /\ UNCHANGED <<managed, collecting, pending, stack, oop, field, request,
                     terminated, roots, worklist, color, active, offset, chunk_size,
                     forward, cursor, freed, dirty>>
  BY DEF RootsMarked, Marking, clientVars, spaceVars
<1>2. UNCHANGED before
  BY <1>1 DEF Marking, BeginMark, STW!BeginCollect
<1>3. /\ color' \in [Cells -> {"White", "Black"}] /\ worklist' \subseteq FieldSlots
      /\ roots' \subseteq StackSlots
      /\ \A w \in worklist' : field[w[1]][w[2]] # Null
      /\ before.marked = {} =>
            /\ \A d \in before.live, f \in Fields :
                  color'[d] = "Black" /\ field[d][f] # Null =>
                     color'[field[d][f]] = "Black" \/ <<d, f>> \in worklist'
            /\ \A r \in StackSlots \ roots' :
                  stack[r[1]][r[2]] # Null => color'[stack[r[1]][r[2]]] = "Black"
  BY <1>1 DEF HeapInv, TypeOK, ListsAreCurrent, MarkingIsComplete
<1>4. QED
  BY <1>1, <1>2, <1>3, MarkingStep

LEMMA MarkFieldStep ==
    ASSUME HeapInv, MarkField, Marking PROVE HeapInv'
<1>1. /\ phase = "drain" /\ phase' = "drain"
      /\ UNCHANGED <<managed, collecting, pending, stack, oop, field, request,
                     terminated, roots, active, offset, chunk_size, forward, cursor,
                     freed, dirty>>
  BY DEF MarkField, Marking, clientVars, spaceVars
<1>2. UNCHANGED before
  BY <1>1 DEF Marking, BeginMark, STW!BeginCollect
<1>3. PICK s \in worklist : ProcessPointer(field[s[1]][s[2]], worklist \ {s})
  BY DEF MarkField
<1>4. /\ color \in [Cells -> {"White", "Black"}] /\ worklist \subseteq FieldSlots
      /\ ClientTypeOK /\ roots \subseteq StackSlots /\ roots = {}
      /\ field[s[1]][s[2]] # Null
      /\ before.marked = {} =>
            \A r \in StackSlots \ roots :
               stack[r[1]][r[2]] # Null => color[stack[r[1]][r[2]]] = "Black"
  BY <1>1 DEF HeapInv, TypeOK, ListsAreCurrent, MarkingIsComplete
<1>5. PICK c \in Cells : c = field[s[1]][s[2]]
  BY <1>4 DEF FieldSlots, ClientTypeOK, Pointers
<1>6. PICK kept \in SUBSET worklist : kept = worklist \ {s}
  OBVIOUS
<1>7. ProcessPointer(c, kept)
  BY <1>3, <1>5, <1>6
<1>8. /\ color' \in [Cells -> {"White", "Black"}]
      /\ worklist' \subseteq FieldSlots
      /\ color'[c] = "Black"
      /\ \A d \in Cells : color[d] = "Black" => color'[d] = "Black"
      /\ \A w \in worklist' : field[w[1]][w[2]] # Null
      /\ before.marked = {} =>
            \A d \in before.live, f \in Fields :
               color'[d] = "Black" /\ field[d][f] # Null =>
                  \/ color'[field[d][f]] = "Black"
                  \/ <<d, f>> \in worklist'
                  \/ <<d, f>> \in worklist \ kept
  BY <1>1, <1>7, ProcessPointerStep
<1>9. ASSUME before.marked = {}, NEW d \in before.live, NEW f \in Fields,
             color'[d] = "Black", field[d][f] # Null
      PROVE  color'[field[d][f]] = "Black" \/ <<d, f>> \in worklist'
  <2>1. CASE <<d, f>> = s
    BY <1>5, <1>8, <2>1
  <2>2. CASE <<d, f>> # s
    BY <1>6, <1>8, <1>9, <2>2
  <2>3. QED
    BY <2>1, <2>2
<1>10. ASSUME before.marked = {}, NEW r \in StackSlots \ roots', stack[r[1]][r[2]] # Null
       PROVE  color'[stack[r[1]][r[2]]] = "Black"
  BY <1>1, <1>4, <1>8, <1>10, SlotTypes DEF Pointers
<1>11. QED
  BY <1>1, <1>2, <1>4, <1>8, <1>9, <1>10, MarkingStep

-----------------------------------------------------------------------------
(* Reallocate and compact() keep HeapInv.                                  *)

(* When the worklist is empty the black survivors are closed, so marking   *)
(* has found them all - but for marks that were there before it began.     *)
LEMMA MarkingIsDone ==
    ASSUME HeapInv, phase = "drain", worklist = {}, before.marked = {}
    PROVE  \A c \in before.live : color[c] = "Black"
<1> DEFINE S == {c \in before.live : color[c] = "Black"}
<1>1. ClientTypeOK /\ roots = {} /\ before.live = Reachable
  BY DEF HeapInv, TypeOK, ListsAreCurrent, HistoryIsExact
<1>2. Reachable \subseteq Cells /\ Roots \subseteq Reachable /\ Closed(Reachable)
  BY <1>1, ReachableIsClosed
<1>3. /\ \A c \in before.live, f \in Fields :
            color[c] = "Black" /\ field[c][f] # Null => color[field[c][f]] = "Black"
      /\ \A s \in StackSlots :
            stack[s[1]][s[2]] # Null => color[stack[s[1]][s[2]]] = "Black"
  BY <1>1 DEF HeapInv, MarkingIsComplete
<1>4. Roots \subseteq S
  BY <1>1, <1>2, <1>3 DEF Roots
<1>5. Closed(S)
  BY <1>1, <1>2, <1>3 DEF Closed
<1>6. Reachable \subseteq S
  BY <1>1, <1>2, <1>4, <1>5, ReachableIsLeast
<1>7. QED
  BY <1>1, <1>6

(* What the steps between Mark and UpdateReferences leave alone. *)
LEMMA BeginReallocateStep ==
    ASSUME HeapInv, BeginReallocate PROVE HeapInv'
<1>1. /\ phase = "drain" /\ worklist = {} /\ phase' = "reallocate" /\ cursor' = 0
      /\ UNCHANGED <<managed, collecting, pending, stack, oop, field, request,
                     terminated, roots, worklist, color, active, offset, chunk_size,
                     forward, freed, dirty, before>>
  BY DEF BeginReallocate, clientVars, spaceVars
<1>2. StackSlots' = StackSlots /\ Reachable' = Reachable
  BY <1>1, ReachableIsKept
<1>3. roots = {} /\ offset[Free] = 0 /\ Free \in Spaces /\ active \in Spaces
  BY <1>1, OtherSpace DEF HeapInv, TypeOK, ListsAreCurrent, SpacesAreTiled, Free
<1>4. TypeOK'
  <2>1. ClientTypeOK'
    BY <1>1 DEF HeapInv, TypeOK, ClientTypeOK
  <2>2. cursor' \in 0 .. SpaceSize
    BY <1>1, CellsAssumption
  <2>3. QED
    BY <1>1, <1>3, <2>1, <2>2 DEF HeapInv, TypeOK
<1>5. SpacesAreTiled'
  BY <1>1, SpacesAreKept DEF HeapInv, SpacesAreTiled
<1>6. WorldIsStopped' /\ ListsAreCurrent'
  BY <1>1, <1>3 DEF HeapInv, WorldIsStopped, ListsAreCurrent
<1>7. WalkIsOnChunks'
  <2>1. SpaceIsTiled(active)
    BY <1>3 DEF HeapInv, SpacesAreTiled
  <2>2. offset[active] = 0 \/ <<active, 0>> \in Heads(active)
    BY <2>1 DEF SpaceIsTiled
  <2>3. offset[active]' = offset[active] /\ Heads(active)' = Heads(active)
    BY <1>1 DEF Heads
  <2>4. cursor' = offset[active]' \/ Visited' \in Heads(active)'
    BY <1>1, <2>2, <2>3 DEF Visited
  <2>5. offset[Free]' <= cursor'
    BY <1>1, <1>3, SpacesAreKept
  <2>6. QED
    BY <1>1, <2>4, <2>5, SpacesAreKept DEF WalkIsOnChunks
<1>8. FingersAreOnSlots' /\ HistoryIsExact'
  BY <1>1, <1>2 DEF HeapInv, FingersAreOnSlots, HistoryIsExact
<1>9. MarkingIsComplete'
  BY <1>1, MarkingIsDone DEF HeapInv, HistoryIsExact, MarkingIsComplete
<1>10. QED
  BY <1>4, <1>5, <1>6, <1>7, <1>8, <1>9 DEF HeapInv

(* visit() goes from a chunk to the next one, or to the end. *)
LEMMA VisitStep ==
    ASSUME HeapInv, NEW p \in {"reallocate", "relocate"}, Visit(p)
    PROVE  /\ phase = p /\ Visited \in Heads(active) /\ Visited \in Cells
           /\ active \in Spaces /\ Visited[2] = cursor
           /\ chunk_size[Visited] \in Sizes /\ chunk_size[Visited] \in Nat \ {0}
           /\ cursor \in Nat /\ cursor' = cursor + chunk_size[Visited]
           /\ cursor' \in 0 .. SpaceSize
           /\ cursor' = offset[active] \/ <<active, cursor'>> \in Heads(active)
           /\ cursor' <= offset[active] /\ offset[active] \in Nat
           /\ \A c \in Heads(active) : c[2] < cursor' <=> c[2] < cursor \/ c = Visited
<1>1. /\ phase = p /\ cursor < offset[active] /\ cursor' = cursor + chunk_size[Visited]
      /\ TypeOK /\ cursor \in 0 .. SpaceSize /\ active \in Spaces
      /\ offset[active] \in Nat /\ offset[active] <= SpaceSize /\ SpaceSize \in Nat
  BY CellsAssumption DEF Visit, HeapInv, TypeOK
<1>2. Visited \in Heads(active)
  BY <1>1 DEF HeapInv, WalkIsOnChunks
<1>3. PICK r \in Spaces : r = active
  BY <1>1
<1>4. PICK v \in Heads(r) : v = Visited
  BY <1>2, <1>3
<1>5. /\ v \in Cells /\ v[2] = cursor
      /\ chunk_size[v] \in Sizes /\ chunk_size[v] \in Nat \ {0}
  BY <1>1, <1>4, HeadsAreCells DEF Visited
<1>6. SpaceIsTiled(r)
  BY DEF HeapInv, SpacesAreTiled
<1>7. /\ cursor' = v[2] + chunk_size[v]
      /\ cursor' = offset[r] \/ <<r, cursor'>> \in Heads(r)
      /\ \A i \in v[2] + 1 .. cursor' - 1 : <<r, i>> \notin Heads(r)
  BY <1>1, <1>4, <1>5, <1>6 DEF SpaceIsTiled
<1>8. cursor' <= offset[r]
  BY <1>1, <1>3, <1>5, <1>7 DEF Heads
<1>9. ASSUME NEW c \in Heads(r)
      PROVE  c[2] < cursor' <=> c[2] < cursor \/ c = v
  <2>1. c = <<r, c[2]>> /\ c[2] \in Nat /\ v = <<r, v[2]>>
    BY <1>1, HeadsAreCells
  <2>2. ~ c[2] \in v[2] + 1 .. cursor' - 1
    BY <1>7, <2>1
  <2>3. CASE c[2] = cursor
    BY <1>1, <1>5, <1>7, <2>1, <2>3
  <2>4. CASE c[2] # cursor
    BY <1>1, <1>5, <1>7, <2>1, <2>2, <2>4
  <2>5. QED
    BY <2>3, <2>4
<1>10. cursor' \in 0 .. SpaceSize
  BY <1>1, <1>3, <1>5, <1>7, <1>8
<1>11. QED
  BY <1>1, <1>3, <1>4, <1>5, <1>7, <1>8, <1>9, <1>10

LEMMA SkipWhiteStep ==
    ASSUME HeapInv, SkipWhite PROVE HeapInv'
<1>1. PICK p \in {"reallocate", "relocate"} : Visit(p)
  BY DEF SkipWhite
<1>2. UNCHANGED <<managed, collecting, pending, stack, oop, field, request,
                  terminated, phase, roots, worklist, color, active, offset,
                  chunk_size, forward, freed, dirty, before>>
  BY DEF SkipWhite, clientVars, markVars, spaceVars
<1>3. /\ phase = p /\ cursor \in Nat /\ cursor' \in 0 .. SpaceSize
      /\ cursor' = offset[active] \/ <<active, cursor'>> \in Heads(active)
      /\ cursor' >= cursor
  BY <1>1, VisitStep
<1>4. StackSlots' = StackSlots /\ Reachable' = Reachable
  BY <1>2, ReachableIsKept
<1>5. TypeOK'
  <2>1. ClientTypeOK'
    BY <1>2 DEF HeapInv, TypeOK, ClientTypeOK
  <2>2. QED
    BY <1>2, <1>3, <1>4, <2>1 DEF HeapInv, TypeOK
<1>6. SpacesAreTiled'
  BY <1>2, SpacesAreKept DEF HeapInv, SpacesAreTiled
<1>7. WorldIsStopped' /\ ListsAreCurrent'
  BY <1>2 DEF HeapInv, WorldIsStopped, ListsAreCurrent
<1>8. WalkIsOnChunks'
  <2>1. offset[active]' = offset[active] /\ Heads(active)' = Heads(active)
    BY <1>2 DEF Heads
  <2>2. cursor' = offset[active]' \/ Visited' \in Heads(active)'
    BY <1>2, <1>3, <2>1 DEF Visited
  <2>3. ASSUME phase' = "reallocate" PROVE offset[Free]' <= cursor'
    <3>1. offset[Free] <= cursor /\ offset[Free] \in Nat
      BY <1>2, <2>3, OtherSpace DEF HeapInv, TypeOK, WalkIsOnChunks, Free
    <3>2. offset[Free]' = offset[Free]
      BY <1>2, SpacesAreKept
    <3>3. QED
      BY <1>3, <3>1, <3>2
  <2>4. QED
    BY <1>2, <2>2, <2>3, SpacesAreKept DEF WalkIsOnChunks
<1>9. FingersAreOnSlots' /\ HistoryIsExact' /\ MarkingIsComplete'
  BY <1>2, <1>3, <1>4 DEF HeapInv, FingersAreOnSlots, HistoryIsExact, MarkingIsComplete
<1>10. QED
  BY <1>5, <1>6, <1>7, <1>8, <1>9 DEF HeapInv

(* What Reallocate does to the two spaces. *)
LEMMA ReallocateFacts ==
    ASSUME HeapInv, Reallocate
    PROVE  /\ phase = "reallocate" /\ Visit("reallocate") /\ color[Visited] = "Black"
           /\ Free' = Free /\ Free \in Spaces /\ Free # active
           /\ <<Free, offset[Free]>> \in Cells /\ <<Free, offset[Free]>> \notin Heads(Free)
           /\ Heads(Free)' = Heads(Free) \cup {<<Free, offset[Free]>>}
           /\ Heads(active)' = Heads(active)
           /\ \A r \in Spaces : SpaceIsTiled(r)'
           /\ offset' \in [Spaces \cup {"small"} -> Nat]
           /\ offset'[Free] = offset[Free] + chunk_size[Visited]
           /\ offset'[active] = offset[active]
           /\ offset'["small"] = offset["small"]
           /\ \A q \in Spaces : offset'[q] <= SpaceSize
           /\ chunk_size' \in [Cells -> Sizes \cup {0}]
           /\ \A r \in Spaces : \A i \in offset'[r] .. SpaceSize - 1 :
                 chunk_size'[<<r, i>>] = 0
           /\ forward' = [forward EXCEPT ![Visited] = <<Free, offset[Free]>>]
           /\ UNCHANGED <<managed, collecting, pending, stack, oop, field, request,
                          terminated, phase, roots, worklist, color, active, freed,
                          dirty, before>>
<1>1. /\ phase = "reallocate" /\ Visit("reallocate") /\ color[Visited] = "Black"
      /\ UNCHANGED <<managed, collecting, pending, stack, oop, field, request,
                     terminated, phase, roots, worklist, color, active, freed,
                     dirty, before>>
      /\ forward' = [forward EXCEPT ![Visited] = <<Free, offset[Free]>>]
  BY DEF Reallocate, Visit, clientVars, markVars
<1>2. /\ active \in Spaces /\ Free \in Spaces /\ Free # active /\ Free' = Free
      /\ \A q \in Spaces : q = active \/ q = Free
  BY <1>1, OtherSpace DEF HeapInv, TypeOK, Free
<1>3. PICK r \in Spaces : r = Free
  BY <1>2
<1>4. PICK n \in Sizes : n = chunk_size[Visited]
  BY <1>1, VisitStep
<1>5. PICK a \in Spaces : a = active
  BY <1>2
<1>6. /\ TypeOK /\ FitsIn(r, n)
      /\ \A q \in Spaces : SpaceIsTiled(q)
      /\ \A q \in Spaces : \A i \in offset[q] .. SpaceSize - 1 : chunk_size[<<q, i>>] = 0
      /\ offset' = [offset EXCEPT ![r] = @ + n]
      /\ chunk_size' = [chunk_size EXCEPT ![<<r, offset[r]>>] = n]
  BY <1>3, <1>4 DEF Reallocate, HeapInv, SpacesAreTiled, WalkIsOnChunks
<1>7. /\ <<r, offset[r]>> \in Cells /\ <<r, offset[r]>> \notin Heads(r)
      /\ Heads(r)' = Heads(r) \cup {<<r, offset[r]>>}
      /\ \A q : q # r => Heads(q)' = Heads(q)
      /\ SpaceIsTiled(r)'
      /\ \A q \in Spaces \ {r} : SpaceIsTiled(q)' <=> SpaceIsTiled(q)
      /\ offset' \in [Spaces \cup {"small"} -> Nat]
      /\ offset'[r] = offset[r] + n
      /\ offset'["small"] = offset["small"]
      /\ \A q \in Spaces : offset'[q] <= SpaceSize
      /\ chunk_size' \in [Cells -> Sizes \cup {0}]
      /\ \A i \in offset'[r] .. SpaceSize - 1 : chunk_size'[<<r, i>>] = 0
  BY <1>6, ChunkIsAppended
<1>8. Heads(a)' = Heads(a) /\ SpaceIsTiled(a)'
  BY <1>2, <1>3, <1>5, <1>6, <1>7
<1>9. /\ offset'[a] = offset[a]
      /\ \A i : chunk_size'[<<a, i>>] = chunk_size[<<a, i>>]
  BY <1>2, <1>3, <1>5, <1>6 DEF TypeOK
<1>10. \A q \in Spaces : /\ SpaceIsTiled(q)'
                         /\ \A i \in offset'[q] .. SpaceSize - 1 : chunk_size'[<<q, i>>] = 0
  BY <1>2, <1>3, <1>5, <1>6, <1>7, <1>8, <1>9
<1>11. Heads(active)' = Heads(active) /\ Heads(Free)' = Heads(Free) \cup {<<Free, offset[Free]>>}
  BY <1>1, <1>2, <1>3, <1>5, <1>7, <1>8 DEF Heads
<1>12. QED
  BY <1>1, <1>2, <1>3, <1>4, <1>5, <1>7, <1>9, <1>10, <1>11

LEMMA ReallocateStep ==
    ASSUME HeapInv, Reallocate PROVE HeapInv'
<1>1. /\ phase = "reallocate" /\ Visit("reallocate")
      /\ Free' = Free /\ Free \in Spaces
      /\ <<Free, offset[Free]>> \in Cells
      /\ Heads(active)' = Heads(active)
      /\ \A r \in Spaces : SpaceIsTiled(r)'
      /\ offset' \in [Spaces \cup {"small"} -> Nat]
      /\ offset'[Free] = offset[Free] + chunk_size[Visited]
      /\ offset'[active] = offset[active]
      /\ offset'["small"] = offset["small"]
      /\ \A q \in Spaces : offset'[q] <= SpaceSize
      /\ chunk_size' \in [Cells -> Sizes \cup {0}]
      /\ \A r \in Spaces : \A i \in offset'[r] .. SpaceSize - 1 :
            chunk_size'[<<r, i>>] = 0
      /\ forward' = [forward EXCEPT ![Visited] = <<Free, offset[Free]>>]
      /\ UNCHANGED <<managed, collecting, pending, stack, oop, field, request,
                     terminated, phase, roots, worklist, color, active, freed,
                     dirty, before>>
  BY ReallocateFacts
<1>2. /\ cursor \in Nat /\ cursor' \in 0 .. SpaceSize
      /\ cursor' = offset[active] \/ <<active, cursor'>> \in Heads(active)
      /\ cursor' = cursor + chunk_size[Visited] /\ chunk_size[Visited] \in Nat
  BY <1>1, VisitStep
<1>3. StackSlots' = StackSlots /\ Reachable' = Reachable
  BY <1>1, ReachableIsKept
<1>4. TypeOK'
  <2>1. ClientTypeOK'
    BY <1>1 DEF HeapInv, TypeOK, ClientTypeOK
  <2>2. forward' \in [Cells -> Pointers]
    BY <1>1 DEF HeapInv, TypeOK, Pointers
  <2>3. QED
    BY <1>1, <1>2, <1>3, <2>1, <2>2 DEF HeapInv, TypeOK
<1>5. SpacesAreTiled'
  BY <1>1 DEF SpacesAreTiled
<1>6. WorldIsStopped' /\ ListsAreCurrent'
  BY <1>1 DEF HeapInv, WorldIsStopped, ListsAreCurrent
<1>7. WalkIsOnChunks'
  <2>1. Heads(active)' = Heads(active)
    BY <1>1 DEF Heads
  <2>2. cursor' = offset[active]' \/ Visited' \in Heads(active)'
    BY <1>1, <1>2, <2>1 DEF Visited
  <2>3. offset[Free] <= cursor /\ offset[Free] \in Nat
    BY <1>1 DEF HeapInv, TypeOK, WalkIsOnChunks
  <2>4. offset[Free]' <= cursor'
    BY <1>1, <1>2, <2>3
  <2>5. QED
    BY <1>1, <2>2, <2>4 DEF WalkIsOnChunks
<1>8. FingersAreOnSlots' /\ HistoryIsExact' /\ MarkingIsComplete'
  BY <1>1, <1>3 DEF HeapInv, FingersAreOnSlots, HistoryIsExact, MarkingIsComplete
<1>9. QED
  BY <1>4, <1>5, <1>6, <1>7, <1>8 DEF HeapInv

(* LeftFinger::next and RightFinger::next. *)
LEMMA LeftFinger ==
    ASSUME offset["small"] \in Nat, NEW col, NEW i \in 0 .. offset["small"]
    PROVE  /\ NextWhite(col, i) \in i .. offset["small"]
           /\ NextWhite(col, i) < offset["small"] =>
                 col[Small(NextWhite(col, i))] = "White"
<1> DEFINE S == {j \in i .. offset["small"] :
                    j = offset["small"] \/ col[Small(j)] = "White"}
<1>1. S \in SUBSET Nat /\ offset["small"] \in S
  OBVIOUS
<1>2. Min(S) \in S
  <2> HIDE DEF S
  <2>1. QED
    BY <1>1, MinIsLeast
<1>3. NextWhite(col, i) = Min(S)
  BY DEF NextWhite
<1>4. QED
  BY <1>2, <1>3

LEMMA RightFinger ==
    ASSUME NEW col, NEW i \in Int, i >= -1
    PROVE  /\ NextBlack(col, i) \in -1 .. i
           /\ NextBlack(col, i) # -1 => col[Small(NextBlack(col, i))] = "Black"
           /\ col[Small(i)] = "Black" => NextBlack(col, i) = i
<1> DEFINE S == {j \in -1 .. i : j = -1 \/ col[Small(j)] = "Black"}
<1>1. S \in SUBSET Int /\ -1 \in S /\ \A j \in S : j <= i
  OBVIOUS
<1>2. Max(S) \in S /\ \A j \in S : Max(S) >= j
  <2> HIDE DEF S
  <2>1. QED
    BY <1>1, MaxIsGreatest
<1>3. NextBlack(col, i) = Max(S)
  BY DEF NextBlack
<1>4. ASSUME col[Small(i)] = "Black" PROVE Max(S) = i
  <2>1. i \in S
    BY <1>4
  <2>2. QED
    BY <1>2, <2>1
<1>5. QED
  BY <1>2, <1>3, <1>4

LEMMA BeginCompactStep ==
    ASSUME HeapInv, BeginCompact PROVE HeapInv'
<1>1. /\ phase = "reallocate" /\ phase' \in {"compact", "update_roots"}
      /\ freed' = NextWhite(color, 0)
      /\ dirty' = NextBlack(color, offset["small"] - 1)
      /\ phase' = "compact" => freed' < dirty' /\ roots' = roots
      /\ phase' = "update_roots" => roots' = StackSlots
      /\ UNCHANGED <<managed, collecting, pending, stack, oop, field, request,
                     terminated, worklist, color, active, offset, chunk_size,
                     forward, cursor, before>>
  BY DEF BeginCompact, BeginUpdate, VisitDone, clientVars, spaceVars
<1>2. /\ offset["small"] \in Nat /\ offset["small"] <= SmallSlots
      /\ SmallSlots \in Nat /\ ClientTypeOK
  BY CellsAssumption, SpacesAssumption DEF HeapInv, TypeOK
<1>3. /\ freed' \in 0 .. offset["small"]
      /\ freed' < offset["small"] => color[Small(freed')] = "White"
      /\ dirty' \in -1 .. offset["small"] - 1
      /\ dirty' # -1 => color[Small(dirty')] = "Black"
  <2>1. PICK col : col = color
    OBVIOUS
  <2>2. PICK i \in Int : i = offset["small"] - 1
    BY <1>2
  <2>3. /\ NextWhite(col, 0) \in 0 .. offset["small"]
        /\ NextWhite(col, 0) < offset["small"] => col[Small(NextWhite(col, 0))] = "White"
    BY <1>2, LeftFinger
  <2>4. /\ NextBlack(col, i) \in -1 .. i
        /\ NextBlack(col, i) # -1 => col[Small(NextBlack(col, i))] = "Black"
    BY <1>2, <2>2, RightFinger
  <2>5. QED
    BY <1>1, <2>1, <2>2, <2>3, <2>4
<1>4. StackSlots' = StackSlots /\ Reachable' = Reachable
  BY <1>1, ReachableIsKept
<1>5. roots = {} /\ worklist = {}
  BY <1>1 DEF HeapInv, ListsAreCurrent
<1>6. TypeOK'
  <2>1. ClientTypeOK'
    BY <1>1 DEF HeapInv, TypeOK, ClientTypeOK
  <2>2. freed' \in 0 .. SmallSlots /\ dirty' \in -1 .. SmallSlots - 1
    BY <1>2, <1>3
  <2>3. roots' \subseteq StackSlots'
    BY <1>1, <1>4, <1>5
  <2>4. QED
    BY <1>1, <2>1, <2>2, <2>3 DEF HeapInv, TypeOK
<1>7. SpacesAreTiled'
  BY <1>1, SpacesAreKept DEF SpacesAreTiled
<1>8. WorldIsStopped' /\ ListsAreCurrent'
  BY <1>1, <1>5 DEF HeapInv, WorldIsStopped, ListsAreCurrent
<1>9. WalkIsOnChunks'
  BY <1>1, SpacesAreKept DEF WalkIsOnChunks
<1>10. FingersAreOnSlots'
  BY <1>1, <1>2, <1>3 DEF FingersAreOnSlots, Small
<1>11. HistoryIsExact'
  BY <1>1, <1>2, ReachableIsClosed DEF HeapInv, HistoryIsExact
<1>12. MarkingIsComplete'
  BY <1>1 DEF HeapInv, MarkingIsComplete
<1>13. QED
  BY <1>6, <1>7, <1>8, <1>9, <1>10, <1>11, <1>12 DEF HeapInv

LEMMA CompactStep ==
    ASSUME HeapInv, Compact PROVE HeapInv'
<1> DEFINE new == Small(freed)
           old == Small(dirty)
<1>1. /\ phase = "compact" /\ freed < dirty
      /\ field' = [field EXCEPT ![new] = field[old]]
      /\ color' = [color EXCEPT ![new] = color[old]]
      /\ forward' = [forward EXCEPT ![new] = forward[old], ![old] = new]
      /\ freed' = NextWhite(color', freed)
      /\ dirty' = NextBlack(color', dirty)
      /\ UNCHANGED <<managed, collecting, pending, stack, oop, request, terminated,
                     phase, roots, worklist, active, offset, chunk_size, cursor, before>>
  BY DEF Compact, spaceVars
<1>2. /\ offset["small"] \in Nat /\ offset["small"] <= SmallSlots
      /\ freed \in Nat /\ dirty \in 1 .. offset["small"] - 1
      /\ freed \in 0 .. offset["small"] /\ freed < offset["small"]
      /\ color[new] = "White" /\ color[old] = "Black"
  BY <1>1, SpacesAssumption DEF HeapInv, TypeOK, FingersAreOnSlots
<1>3. new \in Cells /\ old \in Cells /\ new # old
  BY <1>1, <1>2, CellsAssumption, SlotsAreCells
<1>4. /\ field \in [Cells -> [Fields -> Pointers]]
      /\ color \in [Cells -> {"White", "Black"}]
      /\ forward \in [Cells -> Pointers]
      /\ worklist = {} /\ roots = {}
  BY <1>1 DEF HeapInv, TypeOK, ClientTypeOK, ListsAreCurrent
<1>5. /\ field' \in [Cells -> [Fields -> Pointers]]
      /\ color' \in [Cells -> {"White", "Black"}]
      /\ color'[old] = "Black"
      /\ \A c \in Cells : color[c] = "Black" => color'[c] = "Black"
      /\ \A c \in Cells \ {new} : field'[c] = field[c]
  BY <1>1, <1>2, <1>3, <1>4
<1>6. forward' \in [Cells -> Pointers]
  BY <1>1, <1>3, <1>4 DEF Pointers
<1> HIDE DEF new, old
<1>7. /\ freed' \in 0 .. offset["small"]
      /\ freed' < offset["small"] => color'[Small(freed')] = "White"
      /\ dirty' = dirty
  <2>1. PICK col : col = color'
    OBVIOUS
  <2>2. PICK i \in 0 .. offset["small"], j \in Int : i = freed /\ j = dirty
    BY <1>2
  <2>3. /\ NextWhite(col, i) \in i .. offset["small"]
        /\ NextWhite(col, i) < offset["small"] => col[Small(NextWhite(col, i))] = "White"
    BY <1>2, LeftFinger
  <2>4. col[Small(j)] = "Black" /\ j >= -1
    BY <1>2, <1>5, <2>1, <2>2 DEF old
  <2>5. NextBlack(col, j) = j
    BY <2>4, RightFinger
  <2>6. freed' = NextWhite(col, i) /\ dirty' = NextBlack(col, j)
    BY <1>1, <2>1, <2>2
  <2>7. QED
    BY ONLY <1>2, <2>1, <2>2, <2>3, <2>5, <2>6
<1>8. TypeOK'
  <2>1. ClientTypeOK'
    BY <1>1, <1>5 DEF HeapInv, TypeOK, ClientTypeOK
  <2>2. freed' \in 0 .. SmallSlots
    BY <1>2, <1>7, CellsAssumption
  <2>3. roots' \subseteq StackSlots' /\ worklist' \subseteq FieldSlots
    BY <1>1, <1>4
  <2>4. QED
    BY <1>1, <1>5, <1>6, <1>7, <2>1, <2>2, <2>3 DEF HeapInv, TypeOK
<1>9. SpacesAreTiled'
  BY <1>1, SpacesAreKept DEF SpacesAreTiled
<1>10. WorldIsStopped' /\ ListsAreCurrent'
  BY <1>1, <1>4 DEF HeapInv, WorldIsStopped, ListsAreCurrent
<1>11. WalkIsOnChunks'
  BY <1>1, SpacesAreKept DEF WalkIsOnChunks
<1>12. FingersAreOnSlots'
  BY <1>1, <1>2, <1>5, <1>7 DEF FingersAreOnSlots, Small, old
<1>13. HistoryIsExact'
  BY <1>1 DEF HeapInv, HistoryIsExact
<1>14. MarkingIsComplete'
  <2>1. ASSUME before.marked = {}, NEW c \in before.live
        PROVE  color'[c] = "Black" /\ field'[c] = before.field[c]
    <3>1. c \in Cells /\ color[c] = "Black" /\ field[c] = before.field[c]
      BY <1>1, <2>1 DEF HeapInv, HistoryIsExact, MarkingIsComplete
    <3>2. c # new
      BY <1>2, <3>1 DEF new
    <3>3. QED
      BY <1>5, <3>1, <3>2
  <2>2. QED
    BY <1>1, <2>1 DEF MarkingIsComplete
<1>15. QED
  BY <1>8, <1>9, <1>10, <1>11, <1>12, <1>13, <1>14 DEF HeapInv

LEMMA EndCompactStep ==
    ASSUME HeapInv, EndCompact PROVE HeapInv'
<1>1. /\ phase = "compact" /\ phase' = "update_roots" /\ roots' = StackSlots
      /\ offset' = [offset EXCEPT !["small"] = dirty - 1]
      /\ UNCHANGED <<managed, collecting, pending, stack, oop, field, request,
                     terminated, worklist, color, active, chunk_size, forward,
                     cursor, freed, dirty, before>>
  BY DEF EndCompact, BeginUpdate, clientVars, compactVars
<1>2. /\ offset["small"] \in Nat /\ offset["small"] <= SmallSlots /\ SmallSlots \in Nat
      /\ offset \in [Spaces \cup {"small"} -> Nat]
      /\ dirty \in 1 .. offset["small"] - 1 /\ worklist = {}
  BY <1>1, CellsAssumption, SpacesAssumption
     DEF HeapInv, TypeOK, FingersAreOnSlots, ListsAreCurrent
<1>3. /\ offset' \in [Spaces \cup {"small"} -> Nat]
      /\ offset'["small"] <= SmallSlots
      /\ \A r \in Spaces : offset'[r] = offset[r]
  BY <1>1, <1>2, SpacesAssumption
<1>4. StackSlots' = StackSlots
  BY <1>1, ReachableIsKept
<1>5. \A r \in Spaces : Heads(r)' = Heads(r) /\ (SpaceIsTiled(r)' <=> SpaceIsTiled(r))
  BY <1>1, <1>3, HeadsAreKept
<1>6. TypeOK'
  <2>1. ClientTypeOK'
    BY <1>1 DEF HeapInv, TypeOK, ClientTypeOK
  <2>2. QED
    BY <1>1, <1>3, <1>4, <2>1 DEF HeapInv, TypeOK
<1>7. SpacesAreTiled'
  BY <1>1, <1>5 DEF HeapInv, SpacesAreTiled
<1>8. WorldIsStopped' /\ ListsAreCurrent'
  BY <1>1, <1>2 DEF HeapInv, WorldIsStopped, ListsAreCurrent
<1>9. WalkIsOnChunks'
  BY <1>1, <1>3 DEF HeapInv, WalkIsOnChunks
<1>10. FingersAreOnSlots' /\ HistoryIsExact' /\ MarkingIsComplete'
  BY <1>1 DEF FingersAreOnSlots, HistoryIsExact, MarkingIsComplete
<1>11. QED
  BY <1>6, <1>7, <1>8, <1>9, <1>10 DEF HeapInv

-----------------------------------------------------------------------------
(* UpdateReferences and Relocate keep HeapInv.                             *)

LEMMA TargetIsCell ==
    ASSUME HeapInv, NEW c \in Cells PROVE Target(c) \in Cells
BY DEF HeapInv, TypeOK, Target, Pointers

(* What the steps of UpdateReferences have in common. *)
LEMMA UpdatingStep ==
    ASSUME HeapInv, Updating, phase' \in {"update_roots", "update_fields"},
           UNCHANGED <<managed, collecting, pending, oop, request, terminated, active,
                       offset, chunk_size, forward, cursor, freed, dirty, before>>,
           stack' \in [Mutators -> Seq(Pointers)],
           \A t \in Mutators : Len(stack'[t]) = Len(stack[t]),
           field' \in [Cells -> [Fields -> Pointers]],
           color' \in [Cells -> {"White", "Black"}],
           worklist' \subseteq FieldSlots,
           \A s \in worklist' : field'[s[1]][s[2]] # Null,
           roots' \subseteq StackSlots, phase' = "update_fields" => roots' = {}
    PROVE  HeapInv' /\ StackSlots' = StackSlots
<1>1. ClientTypeOK'
  BY DEF HeapInv, TypeOK, ClientTypeOK
<1>2. StackSlots' = StackSlots
  BY DEF StackSlots
<1>3. TypeOK'
  BY <1>1, <1>2 DEF HeapInv, TypeOK
<1>4. SpacesAreTiled'
  BY SpacesAreKept DEF SpacesAreTiled
<1>5. WorldIsStopped' /\ ListsAreCurrent'
  BY DEF Updating, HeapInv, WorldIsStopped, ListsAreCurrent
<1>6. WalkIsOnChunks' /\ FingersAreOnSlots' /\ HistoryIsExact' /\ MarkingIsComplete'
  BY SpacesAreKept
     DEF WalkIsOnChunks, FingersAreOnSlots, HistoryIsExact, MarkingIsComplete
<1>7. QED
  BY <1>2, <1>3, <1>4, <1>5, <1>6 DEF HeapInv

(* What process_pointer does to the colors and the worklist. *)
LEMMA UpdatePointerStep ==
    ASSUME HeapInv, NEW c \in Cells, NEW kept \in SUBSET worklist,
           UpdatePointer(c, kept)
    PROVE  /\ color' = [color EXCEPT ![Target(c)] = "White"]
           /\ color' \in [Cells -> {"White", "Black"}]
           /\ worklist' \subseteq FieldSlots
           /\ \A s : s \in worklist' <=>
                 s \in kept \/ (\E f \in Fields : s = <<c, f>> /\ field[c][f] # Null)
           /\ \A s \in worklist' : field[s[1]][s[2]] # Null
<1>1. /\ color' = [color EXCEPT ![Target(c)] = "White"]
      /\ worklist' = kept \cup Trace(c)
  BY DEF UpdatePointer, Updated
<1>2. /\ color \in [Cells -> {"White", "Black"}] /\ worklist \subseteq FieldSlots
      /\ \A s \in worklist : field[s[1]][s[2]] # Null
  BY DEF HeapInv, TypeOK, ListsAreCurrent
<1>3. Trace(c) = {s \in FieldSlots : s[1] = c /\ field[c][s[2]] # Null}
  BY DEF Trace, FieldSlots
<1>4. color' \in [Cells -> {"White", "Black"}] /\ worklist' \subseteq FieldSlots
  BY <1>1, <1>2, <1>3
<1>5. \A s \in worklist' : field[s[1]][s[2]] # Null
  BY <1>1, <1>2, <1>3
<1>6. \A s : s \in worklist' <=>
         s \in kept \/ (\E f \in Fields : s = <<c, f>> /\ field[c][f] # Null)
  BY <1>1 DEF Trace
<1>7. QED
  BY <1>1, <1>4, <1>5, <1>6

(* UpdateRoot, with what its choice of a slot comes to. *)
LEMMA UpdateRootFacts ==
    ASSUME HeapInv, UpdateRoot
    PROVE  /\ phase = "update_roots" /\ phase' = "update_roots"
           /\ UNCHANGED <<managed, collecting, pending, oop, field, request,
                          terminated, active, offset, chunk_size, forward, cursor,
                          freed, dirty, before>>
           /\ ClientTypeOK
           /\ \E s \in roots :
                 /\ s \in StackSlots /\ roots' = roots \ {s}
                 /\ \/ /\ stack[s[1]][s[2]] = Null
                       /\ UNCHANGED <<stack, worklist, color>>
                    \/ \E c \in Cells :
                          /\ stack[s[1]][s[2]] = c
                          /\ UpdatePointer(c, worklist)
                          /\ stack' = [stack EXCEPT ![s[1]][s[2]] = Target(c)]
<1>1. /\ phase = "update_roots" /\ phase' = "update_roots"
      /\ UNCHANGED <<managed, collecting, pending, oop, field, request,
                     terminated, active, offset, chunk_size, forward, cursor,
                     freed, dirty, before>>
      /\ ClientTypeOK /\ roots \subseteq StackSlots
  BY DEF UpdateRoot, spaceVars, compactVars, HeapInv, TypeOK
<1>2. PICK s \in roots :
         LET c == stack[s[1]][s[2]]
         IN  /\ roots' = roots \ {s}
             /\ \/ /\ c = Null
                   /\ UNCHANGED <<stack, worklist, color>>
                \/ /\ c # Null
                   /\ UpdatePointer(c, worklist)
                   /\ stack' = [stack EXCEPT ![s[1]][s[2]] = Target(c)]
  BY DEF UpdateRoot
<1>3. s \in StackSlots /\ stack[s[1]][s[2]] \in Pointers
  BY <1>1, SlotTypes
<1>4. \/ /\ stack[s[1]][s[2]] = Null
         /\ UNCHANGED <<stack, worklist, color>>
      \/ \E c \in Cells :
            /\ stack[s[1]][s[2]] = c
            /\ UpdatePointer(c, worklist)
            /\ stack' = [stack EXCEPT ![s[1]][s[2]] = Target(c)]
  <2>1. CASE stack[s[1]][s[2]] = Null
    BY <1>2, <2>1
  <2>2. CASE stack[s[1]][s[2]] # Null
    <3>1. PICK c \in Cells : c = stack[s[1]][s[2]]
      BY <1>3, <2>2 DEF Pointers
    <3>2. UpdatePointer(c, worklist) /\ stack' = [stack EXCEPT ![s[1]][s[2]] = Target(c)]
      BY <1>2, <2>2, <3>1
    <3>3. QED
      BY <3>1, <3>2
  <2>3. QED
    BY <2>1, <2>2
<1>5. roots' = roots \ {s}
  BY <1>2
<1>6. QED
  BY <1>1, <1>3, <1>4, <1>5

(* A slot of a stack is overwritten. *)
LEMMA SlotIsSet ==
    ASSUME ClientTypeOK, NEW s \in StackSlots, NEW p \in Pointers,
           stack' = [stack EXCEPT ![s[1]][s[2]] = p]
    PROVE  /\ stack' \in [Mutators -> Seq(Pointers)]
           /\ \A t \in Mutators : Len(stack'[t]) = Len(stack[t])
           /\ stack'[s[1]][s[2]] = p
           /\ \A r \in StackSlots : r # s => stack'[r[1]][r[2]] = stack[r[1]][r[2]]
<1>1. /\ stack \in [Mutators -> Seq(Pointers)]
      /\ s = <<s[1], s[2]>> /\ s[1] \in Mutators /\ s[2] \in 1 .. Len(stack[s[1]])
  BY SlotTypes DEF ClientTypeOK, StackSlots
<1>2. \A t \in Mutators : stack'[t] = IF t = s[1] THEN [stack[t] EXCEPT ![s[2]] = p]
                                      ELSE stack[t]
  BY <1>1
<1>3. [stack[s[1]] EXCEPT ![s[2]] = p] \in Seq(Pointers)
  BY <1>1
<1>4. /\ Len(stack'[s[1]]) = Len(stack[s[1]])
      /\ stack'[s[1]][s[2]] = p
      /\ \A i \in 1 .. Len(stack[s[1]]) : i # s[2] => stack'[s[1]][i] = stack[s[1]][i]
  BY <1>1, <1>2
<1>5. stack' \in [Mutators -> Seq(Pointers)]
  BY <1>1, <1>3
<1>6. ASSUME NEW r \in StackSlots, r # s
      PROVE  stack'[r[1]][r[2]] = stack[r[1]][r[2]]
  <2>1. /\ r = <<r[1], r[2]>> /\ r[1] \in Mutators /\ r[2] \in 1 .. Len(stack[r[1]])
    BY SlotTypes DEF StackSlots
  <2>2. QED
    BY <1>1, <1>2, <1>4, <1>6, <2>1
<1>7. QED
  BY <1>2, <1>4, <1>5, <1>6

LEMMA UpdateRootStep == ASSUME HeapInv, UpdateRoot PROVE HeapInv' /\ StackSlots' = StackSlots
<1>1. /\ Updating /\ phase' = "update_roots"
      /\ UNCHANGED <<managed, collecting, pending, oop, field, request,
                     terminated, active, offset, chunk_size, forward, cursor,
                     freed, dirty, before>>
      /\ ClientTypeOK
  BY UpdateRootFacts DEF Updating
<1>2. PICK s \in roots :
         /\ s \in StackSlots /\ roots' = roots \ {s}
         /\ \/ /\ stack[s[1]][s[2]] = Null
               /\ UNCHANGED <<stack, worklist, color>>
            \/ \E c \in Cells :
                  /\ stack[s[1]][s[2]] = c
                  /\ UpdatePointer(c, worklist)
                  /\ stack' = [stack EXCEPT ![s[1]][s[2]] = Target(c)]
  BY UpdateRootFacts
<1>3. /\ roots' \subseteq StackSlots /\ color \in [Cells -> {"White", "Black"}]
      /\ worklist \subseteq FieldSlots
      /\ \A w \in worklist : field[w[1]][w[2]] # Null
      /\ field \in [Cells -> [Fields -> Pointers]]
      /\ stack \in [Mutators -> Seq(Pointers)]
  BY <1>2 DEF HeapInv, TypeOK, ClientTypeOK, ListsAreCurrent
<1>4. CASE UNCHANGED <<stack, worklist, color>>
  BY <1>1, <1>3, <1>4, UpdatingStep
<1>5. ASSUME NEW c \in Cells, UpdatePointer(c, worklist),
             stack' = [stack EXCEPT ![s[1]][s[2]] = Target(c)]
      PROVE  HeapInv' /\ StackSlots' = StackSlots
  <2>1. PICK kept \in SUBSET worklist : kept = worklist
    OBVIOUS
  <2>2. PICK p \in Pointers : p = Target(c)
    BY TargetIsCell DEF Pointers
  <2>3. /\ stack' \in [Mutators -> Seq(Pointers)]
        /\ \A t \in Mutators : Len(stack'[t]) = Len(stack[t])
    BY <1>1, <1>2, <1>5, <2>2, SlotIsSet
  <2>4. UpdatePointer(c, kept)
    BY <1>5, <2>1
  <2>5. /\ color' \in [Cells -> {"White", "Black"}] /\ worklist' \subseteq FieldSlots
        /\ \A w \in worklist' : field[w[1]][w[2]] # Null
    BY <2>4, UpdatePointerStep
  <2>6. QED
    BY <1>1, <1>3, <2>3, <2>5, UpdatingStep
<1>6. QED
  BY <1>2, <1>4, <1>5

LEMMA RootsUpdatedStep ==
    ASSUME HeapInv, RootsUpdated PROVE HeapInv' /\ StackSlots' = StackSlots
<1>1. /\ Updating /\ phase' = "update_fields" /\ roots' = {}
      /\ UNCHANGED <<managed, collecting, pending, stack, oop, field, request,
                     terminated, worklist, color, active, offset, chunk_size, forward,
                     cursor, freed, dirty, before>>
  BY DEF RootsUpdated, Updating, clientVars, spaceVars, compactVars
<1>2. /\ color \in [Cells -> {"White", "Black"}]
      /\ worklist \subseteq FieldSlots
      /\ \A w \in worklist : field[w[1]][w[2]] # Null
      /\ field \in [Cells -> [Fields -> Pointers]]
      /\ stack \in [Mutators -> Seq(Pointers)]
  BY DEF HeapInv, TypeOK, ClientTypeOK, ListsAreCurrent
<1>3. QED
  BY <1>1, <1>2, UpdatingStep

(* UpdateField, with what its choice of a field comes to. *)
LEMMA UpdateFieldFacts ==
    ASSUME HeapInv, UpdateField
    PROVE  /\ phase = "update_fields" /\ phase' = "update_fields"
           /\ UNCHANGED <<managed, collecting, pending, stack, oop, request,
                          terminated, roots, active, offset, chunk_size, forward,
                          cursor, freed, dirty, before>>
           /\ roots = {}
           /\ \E b, c \in Cells, f \in Fields :
                 /\ <<b, f>> \in worklist /\ field[b][f] = c
                 /\ \/ /\ color[c] = "White"
                       /\ worklist' = worklist \ {<<b, f>>}
                       /\ UNCHANGED <<field, color>>
                    \/ /\ color[c] = "Black"
                       /\ UpdatePointer(c, worklist \ {<<b, f>>})
                       /\ field' = [field EXCEPT ![b][f] = Target(c)]
<1>1. /\ phase = "update_fields" /\ phase' = "update_fields"
      /\ UNCHANGED <<managed, collecting, pending, stack, oop, request,
                     terminated, roots, active, offset, chunk_size, forward,
                     cursor, freed, dirty, before>>
  BY DEF UpdateField, spaceVars, compactVars
<1>2. /\ roots = {} /\ worklist \subseteq FieldSlots
      /\ field \in [Cells -> [Fields -> Pointers]]
      /\ color \in [Cells -> {"White", "Black"}]
      /\ \A s \in worklist : field[s[1]][s[2]] # Null
  BY <1>1 DEF HeapInv, TypeOK, ClientTypeOK, ListsAreCurrent
<1>3. PICK s \in worklist :
         LET c == field[s[1]][s[2]]
         IN  \/ /\ color[c] # "Black"
                /\ worklist' = worklist \ {s}
                /\ UNCHANGED <<field, color>>
             \/ /\ color[c] = "Black"
                /\ UpdatePointer(c, worklist \ {s})
                /\ field' = [field EXCEPT ![s[1]][s[2]] = Target(c)]
  BY DEF UpdateField
<1>4. PICK b \in Cells, f \in Fields : s = <<b, f>>
  BY <1>2 DEF FieldSlots
<1>5. PICK c \in Cells : c = field[b][f]
  BY <1>2, <1>4 DEF Pointers
<1>6. \/ /\ color[c] = "White"
         /\ worklist' = worklist \ {<<b, f>>}
         /\ UNCHANGED <<field, color>>
      \/ /\ color[c] = "Black"
         /\ UpdatePointer(c, worklist \ {<<b, f>>})
         /\ field' = [field EXCEPT ![b][f] = Target(c)]
  BY <1>2, <1>3, <1>4, <1>5
<1>7. QED
  BY <1>1, <1>2, <1>4, <1>5, <1>6

LEMMA UpdateFieldStep ==
    ASSUME HeapInv, UpdateField PROVE HeapInv' /\ StackSlots' = StackSlots
<1>1. /\ Updating /\ phase' = "update_fields" /\ roots' = {}
      /\ UNCHANGED <<managed, collecting, pending, stack, oop, request,
                     terminated, active, offset, chunk_size, forward,
                     cursor, freed, dirty, before>>
  BY UpdateFieldFacts DEF Updating
<1>2. PICK b \in Cells, c \in Cells, f \in Fields :
         /\ <<b, f>> \in worklist /\ field[b][f] = c
         /\ \/ /\ color[c] = "White"
               /\ worklist' = worklist \ {<<b, f>>}
               /\ UNCHANGED <<field, color>>
            \/ /\ color[c] = "Black"
               /\ UpdatePointer(c, worklist \ {<<b, f>>})
               /\ field' = [field EXCEPT ![b][f] = Target(c)]
  BY UpdateFieldFacts
<1>3. /\ color \in [Cells -> {"White", "Black"}]
      /\ worklist \subseteq FieldSlots
      /\ \A w \in worklist : field[w[1]][w[2]] # Null
      /\ field \in [Cells -> [Fields -> Pointers]]
      /\ stack \in [Mutators -> Seq(Pointers)]
  BY DEF HeapInv, TypeOK, ClientTypeOK, ListsAreCurrent
<1>4. CASE worklist' = worklist \ {<<b, f>>} /\ UNCHANGED <<field, color>>
  BY <1>1, <1>3, <1>4, UpdatingStep
<1>5. CASE UpdatePointer(c, worklist \ {<<b, f>>}) /\ field' = [field EXCEPT ![b][f] = Target(c)]
  <2>1. PICK kept \in SUBSET worklist : kept = worklist \ {<<b, f>>}
    OBVIOUS
  <2>2. PICK d \in Cells : d = Target(c)
    BY TargetIsCell
  <2>3. UpdatePointer(c, kept)
    BY <1>5, <2>1
  <2>4. /\ color' \in [Cells -> {"White", "Black"}] /\ worklist' \subseteq FieldSlots
        /\ \A w \in worklist' : field[w[1]][w[2]] # Null
    BY <2>3, UpdatePointerStep
  <2>5. /\ field' \in [Cells -> [Fields -> Pointers]]
        /\ \A e \in Cells, g \in Fields :
              field'[e][g] = IF e = b /\ g = f THEN d ELSE field[e][g]
    BY <1>3, <1>5, <2>2 DEF Pointers
  <2>6. \A w \in worklist' : field'[w[1]][w[2]] # Null
    BY <2>4, <2>5, NullAssumption DEF FieldSlots
  <2>7. QED
    BY <1>1, <1>3, <2>4, <2>5, <2>6, UpdatingStep
<1>6. QED
  BY <1>2, <1>4, <1>5

(* The steps of Relocate but the last. *)
LEMMA RelocatingStep ==
    ASSUME HeapInv, phase' = "relocate", phase \in {"update_fields", "relocate"},
           worklist = {},
           UNCHANGED <<managed, collecting, pending, stack, oop, request, terminated,
                       roots, worklist, active, offset, chunk_size, freed, dirty, before>>,
           field' \in [Cells -> [Fields -> Pointers]],
           color' \in [Cells -> {"White", "Black"}],
           forward' \in [Cells -> Pointers],
           cursor' \in 0 .. SpaceSize,
           cursor' = offset[active] \/ <<active, cursor'>> \in Heads(active)
    PROVE  HeapInv'
<1>1. ClientTypeOK' /\ StackSlots' = StackSlots
  BY DEF HeapInv, TypeOK, ClientTypeOK, StackSlots
<1>2. TypeOK'
  BY <1>1 DEF HeapInv, TypeOK
<1>3. SpacesAreTiled'
  BY SpacesAreKept DEF SpacesAreTiled
<1>4. WorldIsStopped' /\ ListsAreCurrent'
  BY DEF HeapInv, WorldIsStopped, ListsAreCurrent
<1>5. WalkIsOnChunks'
  <2>1. Heads(active)' = Heads(active)
    BY DEF Heads
  <2>2. QED
    BY <2>1, SpacesAreKept DEF WalkIsOnChunks, Visited
<1>6. FingersAreOnSlots' /\ HistoryIsExact' /\ MarkingIsComplete'
  BY DEF FingersAreOnSlots, HistoryIsExact, MarkingIsComplete
<1>7. QED
  BY <1>2, <1>3, <1>4, <1>5, <1>6 DEF HeapInv

LEMMA BeginRelocateStep == ASSUME HeapInv, BeginRelocate PROVE HeapInv'
<1>1. /\ phase = "update_fields" /\ worklist = {} /\ phase' = "relocate" /\ cursor' = 0
      /\ UNCHANGED <<managed, collecting, pending, stack, oop, field, request,
                     terminated, roots, worklist, color, active, offset, chunk_size,
                     forward, freed, dirty, before>>
  BY DEF BeginRelocate, clientVars, spaceVars
<1>2. /\ field \in [Cells -> [Fields -> Pointers]]
      /\ color \in [Cells -> {"White", "Black"}]
      /\ forward \in [Cells -> Pointers]
      /\ cursor' \in 0 .. SpaceSize
      /\ SpaceIsTiled(active)
  BY <1>1, CellsAssumption DEF HeapInv, TypeOK, ClientTypeOK, SpacesAreTiled
<1>3. cursor' = offset[active] \/ <<active, cursor'>> \in Heads(active)
  BY <1>1, <1>2 DEF SpaceIsTiled
<1>4. QED
  BY <1>1, <1>2, <1>3, RelocatingStep

LEMMA RelocateFacts ==
    ASSUME HeapInv, Relocate
    PROVE  /\ phase = "relocate" /\ phase' = "relocate" /\ Visit("relocate")
           /\ color[Visited] = "Black"
           /\ worklist = {} /\ forward[Visited] \in Cells
           /\ UNCHANGED <<managed, collecting, pending, stack, oop, request, terminated,
                          roots, worklist, active, offset, chunk_size, freed, dirty,
                          before>>
           /\ field' = [field EXCEPT ![forward[Visited]] = field[Visited]]
           /\ color' = [color EXCEPT ![forward[Visited]] = "White"]
           /\ forward' = [forward EXCEPT ![forward[Visited]] = Null]
<1>1. Visited \in Cells /\ phase = "relocate"
  BY VisitStep DEF Relocate
<1>2. forward[Visited] \in Cells /\ worklist = {}
  BY <1>1 DEF Relocate, HeapInv, TypeOK, Pointers, ListsAreCurrent
<1>3. QED
  BY <1>1, <1>2 DEF Relocate, spaceVars

LEMMA RelocateStep == ASSUME HeapInv, Relocate PROVE HeapInv'
<1>1. /\ phase = "relocate" /\ phase' = "relocate" /\ Visit("relocate")
      /\ worklist = {} /\ forward[Visited] \in Cells
      /\ UNCHANGED <<managed, collecting, pending, stack, oop, request, terminated,
                     roots, worklist, active, offset, chunk_size, freed, dirty, before>>
      /\ field' = [field EXCEPT ![forward[Visited]] = field[Visited]]
      /\ color' = [color EXCEPT ![forward[Visited]] = "White"]
      /\ forward' = [forward EXCEPT ![forward[Visited]] = Null]
  BY RelocateFacts
<1>2. /\ Visited \in Cells /\ cursor' \in 0 .. SpaceSize
      /\ cursor' = offset[active] \/ <<active, cursor'>> \in Heads(active)
  BY <1>1, VisitStep
<1>3. /\ field' \in [Cells -> [Fields -> Pointers]]
      /\ color' \in [Cells -> {"White", "Black"}]
      /\ forward' \in [Cells -> Pointers]
  BY <1>1, <1>2 DEF HeapInv, TypeOK, ClientTypeOK, Pointers
<1>4. QED
  BY <1>1, <1>2, <1>3, RelocatingStep

(* The spaces change places, and the one that is released is empty. *)
LEMMA EndRelocateFacts ==
    ASSUME HeapInv, EndRelocate
    PROVE  /\ active' = Free /\ Free' = active /\ Free # active
           /\ active \in Spaces /\ Free \in Spaces
           /\ offset' \in [Spaces \cup {"small"} -> Nat]
           /\ offset'[active] = 0 /\ offset'[Free] = offset[Free]
           /\ offset'["small"] = offset["small"]
           /\ chunk_size' \in [Cells -> Sizes \cup {0}]
           /\ \A i \in 0 .. SpaceSize - 1 :
                 /\ chunk_size'[<<active, i>>] = 0
                 /\ chunk_size'[<<Free, i>>] = chunk_size[<<Free, i>>]
           /\ offset[Free] \in 0 .. SpaceSize
           /\ field' \in [Cells -> [Fields -> Pointers]]
           /\ \A c \in Cells : field'[c] = IF c[1] = active THEN Blank ELSE field[c]
<1>1. /\ active' = Free /\ offset' = [offset EXCEPT ![active] = 0]
      /\ chunk_size' = [c \in Cells |-> IF c[1] = active THEN 0 ELSE chunk_size[c]]
      /\ field' = [c \in Cells |-> IF c[1] = active THEN Blank ELSE field[c]]
  BY DEF EndRelocate
<1>2. /\ active \in Spaces /\ Free \in Spaces /\ Free # active /\ Free' = active
      /\ offset \in [Spaces \cup {"small"} -> Nat] /\ offset[Free] \in 0 .. SpaceSize
      /\ chunk_size \in [Cells -> Sizes \cup {0}]
      /\ field \in [Cells -> [Fields -> Pointers]]
  BY <1>1, OtherSpace, CellsAssumption DEF HeapInv, TypeOK, ClientTypeOK, Free
<1>3. /\ offset' \in [Spaces \cup {"small"} -> Nat]
      /\ offset'[active] = 0 /\ offset'[Free] = offset[Free]
      /\ offset'["small"] = offset["small"]
  BY <1>1, <1>2, SpacesAssumption
<1>4. \A i \in 0 .. SpaceSize - 1 :
         /\ chunk_size'[<<active, i>>] = 0
         /\ chunk_size'[<<Free, i>>] = chunk_size[<<Free, i>>]
  BY <1>1, <1>2, SpacesAreCells
<1>5. chunk_size' \in [Cells -> Sizes \cup {0}]
  BY <1>1, <1>2
<1>6. /\ field' \in [Cells -> [Fields -> Pointers]]
      /\ \A c \in Cells : field'[c] = IF c[1] = active THEN Blank ELSE field[c]
  BY <1>1, <1>2 DEF Blank, Pointers
<1>7. QED
  BY <1>1, <1>2, <1>3, <1>4, <1>5, <1>6

LEMMA EndRelocateStep == ASSUME HeapInv, EndRelocate PROVE HeapInv'
<1>1. /\ phase = "relocate" /\ phase' = "idle" /\ collecting' = FALSE /\ pending' = {}
      /\ managed = {} /\ cursor' = 0 /\ freed' = 0 /\ dirty' = -1
      /\ UNCHANGED <<managed, stack, oop, request, terminated, roots, worklist,
                     color, forward>>
  BY DEF EndRelocate, VisitDone, STW!EndCollect, HeapInv, WorldIsStopped
<1>2. PICK a \in Spaces, b \in Spaces : a = active /\ b = Free /\ a # b
  BY EndRelocateFacts
<1>3. /\ active' = b /\ Free' = a
      /\ offset' \in [Spaces \cup {"small"} -> Nat]
      /\ offset'[a] = 0 /\ offset'[b] = offset[b]
      /\ offset'["small"] = offset["small"]
      /\ chunk_size' \in [Cells -> Sizes \cup {0}]
      /\ \A i \in 0 .. SpaceSize - 1 :
            /\ chunk_size'[<<a, i>>] = 0
            /\ chunk_size'[<<b, i>>] = chunk_size[<<b, i>>]
      /\ offset[b] \in 0 .. SpaceSize
      /\ field' \in [Cells -> [Fields -> Pointers]]
      /\ SpaceSize \in Nat
  BY <1>2, EndRelocateFacts, CellsAssumption
<1>4. \A r \in Spaces : r = a \/ r = b
  BY <1>2, OtherSpace DEF Free
<1>5. TypeOK'
  <2>1. collecting' \in BOOLEAN
    BY <1>1
  <2>2. ClientTypeOK'
    BY <1>1, <1>3, <2>1 DEF HeapInv, TypeOK, ClientTypeOK
  <2>3. cursor' \in 0 .. SpaceSize /\ freed' \in 0 .. SmallSlots
        /\ dirty' \in -1 .. SmallSlots - 1
    BY <1>1, CellsAssumption
  <2>4. roots' \subseteq StackSlots'
    BY <1>1 DEF HeapInv, TypeOK, StackSlots
  <2>5. \A r \in Spaces : offset'[r] <= SpaceSize
    BY <1>3, <1>4
  <2>6. offset'["small"] <= SmallSlots
    BY <1>3 DEF HeapInv, TypeOK
  <2>7. phase' = "idle" /\ active' \in Spaces
    BY <1>1, <1>3
  <2>8. QED
    BY <1>1, <1>3, <2>2, <2>3, <2>4, <2>5, <2>6, <2>7 DEF HeapInv, TypeOK
<1>6. Heads(a)' = {} /\ Heads(b)' = Heads(b)
  <2>1. Heads(a)' = {}
    BY <1>3 DEF Heads
  <2>2. Heads(b)' = {c \in {b} \X (0 .. offset'[b] - 1) : chunk_size'[c] # 0}
    BY DEF Heads
  <2>3. ASSUME NEW c \in {b} \X (0 .. offset[b] - 1)
        PROVE  chunk_size'[c] = chunk_size[c]
    <3>1. c = <<b, c[2]>> /\ c[2] \in 0 .. SpaceSize - 1
      BY <1>3
    <3>2. QED
      BY <1>3, <3>1
  <2>4. QED
    BY <1>3, <2>1, <2>2, <2>3 DEF Heads
<1>7. SpacesAreTiled'
  <2>1. SpaceIsTiled(a)'
    BY <1>3, <1>6 DEF SpaceIsTiled
  <2>2. SpaceIsTiled(b)'
    <3>1. SpaceIsTiled(b)
      BY DEF HeapInv, SpacesAreTiled
    <3>2. ASSUME NEW c \in Heads(b)
          PROVE  chunk_size'[c] = chunk_size[c]
      <4>1. c = <<b, c[2]>> /\ c[2] \in 0 .. SpaceSize - 1
        BY <1>3 DEF Heads
      <4>2. QED
        BY <1>3, <4>1
    <3>3. QED
      BY <1>3, <1>6, <3>1, <3>2 DEF SpaceIsTiled
  <2>3. offset[Free]' = 0
    BY <1>3
  <2>4. QED
    BY <1>4, <2>1, <2>2, <2>3 DEF SpacesAreTiled
<1>8. WorldIsStopped' /\ ListsAreCurrent'
  BY <1>1 DEF HeapInv, WorldIsStopped, ListsAreCurrent
<1>9. WalkIsOnChunks'
  <2>1. \A i \in offset'[b] .. SpaceSize - 1 : chunk_size'[<<b, i>>] = 0
    <3>1. \A i \in offset[b] .. SpaceSize - 1 : chunk_size[<<b, i>>] = 0
      BY DEF HeapInv, WalkIsOnChunks
    <3>2. offset'[b] = offset[b] /\ \A i \in offset[b] .. SpaceSize - 1 : i \in 0 .. SpaceSize - 1
      BY <1>3
    <3>3. QED
      BY <1>3, <3>1, <3>2
  <2>2. \A i \in offset'[a] .. SpaceSize - 1 : chunk_size'[<<a, i>>] = 0
    BY <1>3
  <2>3. QED
    BY <1>1, <1>4, <2>1, <2>2 DEF WalkIsOnChunks
<1>10. FingersAreOnSlots' /\ HistoryIsExact' /\ MarkingIsComplete'
  BY <1>1 DEF FingersAreOnSlots, HistoryIsExact, MarkingIsComplete
<1>11. QED
  BY <1>5, <1>7, <1>8, <1>9, <1>10 DEF HeapInv

-----------------------------------------------------------------------------
(* What holds of every heap, whatever compact() does.                      *)

LEMMA StutterStep == ASSUME HeapInv, UNCHANGED vars PROVE HeapInv'
<1>1. UNCHANGED <<managed, collecting, pending, stack, oop, field, request,
                  terminated, phase, roots, worklist, color, active, offset,
                  chunk_size, forward, cursor, freed, dirty, before>>
  BY DEF vars, clientVars, markVars, spaceVars, compactVars
<1>2. StackSlots' = StackSlots /\ Reachable' = Reachable
  BY <1>1, ReachableIsKept
<1>3. TypeOK'
  BY <1>1, <1>2 DEF HeapInv, TypeOK, ClientTypeOK
<1>4. SpacesAreTiled'
  BY <1>1, SpacesAreKept DEF HeapInv, SpacesAreTiled
<1>5. WorldIsStopped' /\ ListsAreCurrent'
  BY <1>1 DEF HeapInv, WorldIsStopped, ListsAreCurrent
<1>6. WalkIsOnChunks'
  <2>1. Heads(active)' = Heads(active) /\ Visited' = Visited /\ Free' = Free
    BY <1>1 DEF Heads, Visited, Free
  <2>2. QED
    BY <1>1, <2>1 DEF HeapInv, WalkIsOnChunks
<1>7. FingersAreOnSlots'
  BY <1>1 DEF HeapInv, FingersAreOnSlots
<1>8. HistoryIsExact' /\ MarkingIsComplete'
  BY <1>1, <1>2 DEF HeapInv, HistoryIsExact, MarkingIsComplete
<1>9. QED
  BY <1>3, <1>4, <1>5, <1>6, <1>7, <1>8 DEF HeapInv

LEMMA NextHeapInv == ASSUME HeapInv, [Next]_vars PROVE HeapInv'
<1>1. ASSUME NEW t \in Mutators, Mutate(t) PROVE HeapInv'
  BY <1>1, MutateStep
<1>2. ASSUME NEW t \in Mutators, NEW n \in Sizes,
             AllocSmall(t, n) \/ AllocLinear(t, n) \/ Refuse(t, n)
      PROVE  HeapInv'
  BY <1>2, AllocSmallStep, AllocLinearStep, RefuseStep
<1>3. CASE Marking
  BY <1>3, BeginMarkStep, MarkRootStep, RootsMarkedStep, MarkFieldStep DEF Marking
<1>4. CASE BeginReallocate \/ SkipWhite \/ Reallocate
  BY <1>4, BeginReallocateStep, SkipWhiteStep, ReallocateStep
<1>5. CASE BeginCompact \/ Compact \/ EndCompact
  BY <1>5, BeginCompactStep, CompactStep, EndCompactStep
<1>6. CASE UpdateRoot \/ RootsUpdated \/ UpdateField
  BY <1>6, UpdateRootStep, RootsUpdatedStep, UpdateFieldStep
<1>7. CASE BeginRelocate \/ Relocate \/ EndRelocate
  BY <1>7, BeginRelocateStep, RelocateStep, EndRelocateStep
<1>8. CASE UNCHANGED vars
  BY <1>8, StutterStep
<1>9. QED
  BY <1>1, <1>2, <1>3, <1>4, <1>5, <1>6, <1>7, <1>8 DEF Next, Collector

(* HeapInv holds in every reachable state. *)
THEOREM Invariance == Spec => []HeapInv
BY InitHeapInv, NextHeapInv, PTL DEF Spec

(* Every variable keeps its type, and no space runs over. *)
THEOREM TypeCorrect == Spec => []TypeOK
<1>1. HeapInv => TypeOK
  BY DEF HeapInv
<1>2. QED
  BY <1>1, Invariance, PTL

(* visit() walks along chunks that tile each space, at every moment, and a *)
(* collection finds the free space empty.                                  *)
THEOREM SpacesTiled == Spec => []SpacesAreTiled
<1>1. HeapInv => SpacesAreTiled
  BY DEF HeapInv
<1>2. QED
  BY <1>1, Invariance, PTL

(* compact() never copies over an object that Mark was to find.            *)
THEOREM SurvivorsKept == Spec => []SurvivorsAreIntact
<1>1. HeapInv => SurvivorsAreIntact
  BY DEF HeapInv, MarkingIsComplete, SurvivorsAreIntact
<1>2. QED
  BY <1>1, Invariance, PTL

-----------------------------------------------------------------------------
(* The heap that a collection began with.                                  *)

LEMMA CollectingPhase ==
    ASSUME HeapInv PROVE collecting <=> phase # "idle"
BY DEF HeapInv, WorldIsStopped

(* before.live is closed and has the roots, ... *)
LEMMA LiveIsClosed ==
    ASSUME HeapInv, ClientsAreSafe, phase # "idle"
    PROVE  /\ before.live \subseteq Cells
           /\ \A s \in StackSlots : before.stack[s[1]][s[2]] \in before.live \cup {Null}
           /\ \A c \in before.live, f \in Fields :
                 before.field[c][f] \in before.live \cup {Null}
<1>1. /\ collecting /\ before.live = Heap!Reachable
      /\ before.field \in [Cells -> [Fields -> Pointers]]
      /\ before.stack \in [Mutators -> Seq(Pointers)]
      /\ \A t \in Mutators : Len(before.stack[t]) = Len(stack[t])
      /\ ClientTypeOK
  BY CollectingPhase DEF ClientsAreSafe, HeapInv, TypeOK
<1>2. /\ Heap!StackSlots = StackSlots
      /\ Heap!Roots = {before.stack[s[1]][s[2]] : s \in StackSlots} \ {Null}
      /\ \A S : Heap!Closed(S) <=>
            \A c \in S, f \in Fields : before.field[c][f] \in S \cup {Null}
  <2>1. Heap!StackSlots = StackSlots
    BY <1>1 DEF Heap!StackSlots, StackSlots
  <2>2. QED
    BY <1>1, <2>1 DEF Heap!Roots, Heap!Closed
<1>3. before.live = {c \in Cells : \A S \in SUBSET Cells :
                                      Heap!Roots \subseteq S /\ Heap!Closed(S) => c \in S}
  BY <1>1 DEF Heap!Reachable
<1>4. ASSUME NEW s \in StackSlots
      PROVE  before.stack[s[1]][s[2]] \in before.live \cup {Null}
  <2>1. before.stack[s[1]][s[2]] \in Pointers
    BY <1>1, SlotTypes
  <2>2. QED
    BY <1>2, <1>3, <2>1 DEF Pointers
<1>5. ASSUME NEW c \in before.live, NEW f \in Fields
      PROVE  before.field[c][f] \in before.live \cup {Null}
  <2>1. c \in Cells
    BY <1>3
  <2>2. before.field[c][f] \in Pointers
    BY <1>1, <2>1
  <2>3. \A S \in SUBSET Cells :
           Heap!Roots \subseteq S /\ Heap!Closed(S) =>
              c \in S /\ before.field[c][f] \in S \cup {Null}
    BY <1>2, <1>3
  <2>4. QED
    BY <1>3, <2>2, <2>3 DEF Pointers
<1>6. before.live \subseteq Cells
  BY <1>3
<1>7. QED
  BY <1>4, <1>5, <1>6

(* ... and nothing more. *)
LEMMA LiveIsLeast ==
    ASSUME HeapInv, ClientsAreSafe, phase # "idle", NEW S \in SUBSET Cells,
           \A s \in StackSlots : before.stack[s[1]][s[2]] \in S \cup {Null},
           \A c \in S, f \in Fields : before.field[c][f] \in S \cup {Null}
    PROVE  before.live \subseteq S
<1>1. /\ collecting /\ before.live = Heap!Reachable
      /\ \A t \in Mutators : Len(before.stack[t]) = Len(stack[t])
  BY CollectingPhase DEF ClientsAreSafe
<1>2. Heap!StackSlots = StackSlots
  BY <1>1 DEF Heap!StackSlots, StackSlots
<1>3. Heap!Roots \subseteq S /\ Heap!Closed(S)
  BY <1>1, <1>2 DEF Heap!Roots, Heap!Closed
<1>4. QED
  BY <1>1, <1>3 DEF Heap!Reachable

(* No object is in two of the three places where objects can be.           *)
LEMMA PlacesAreApart ==
    ASSUME HeapInv
    PROVE  /\ active \in Spaces /\ Free \in Spaces /\ Free # active
           /\ Heads(active) \subseteq Cells /\ Heads(Free) \subseteq Cells
           /\ SmallAllocated \subseteq Cells /\ Allocated \subseteq Cells
           /\ Heads(active) \cap Heads(Free) = {}
           /\ Heads(active) \cap SmallAllocated = {}
           /\ Heads(Free) \cap SmallAllocated = {}
           /\ \A c \in Heads(active) : c[1] = active
           /\ \A c \in Heads(Free) \cup SmallAllocated : c[1] # active
<1>1. PICK a \in Spaces, b \in Spaces : a = active /\ b = Free /\ a # b
  BY OtherSpace DEF HeapInv, TypeOK, Free
<1>2. TypeOK /\ a # "small" /\ b # "small"
  BY SpacesAssumption DEF HeapInv
<1>3. /\ \A c \in Heads(a) : c \in Cells /\ c[1] = a
      /\ \A c \in Heads(b) : c \in Cells /\ c[1] = b
  BY <1>2, HeadsAreCells
<1>4. \A c \in SmallAllocated : c \in Cells /\ c[1] = "small"
  <2>1. offset["small"] \in Nat /\ offset["small"] <= SmallSlots /\ SmallSlots \in Nat
    BY CellsAssumption DEF HeapInv, TypeOK
  <2>2. \A i \in 0 .. offset["small"] - 1 : Small(i) \in Cells /\ Small(i)[1] = "small"
    BY <2>1, CellsAssumption DEF Small
  <2>3. QED
    BY <2>2 DEF SmallAllocated
<1>5. QED
  BY <1>1, <1>2, <1>3, <1>4 DEF Allocated

(* Where the survivors go. *)
LEMMA MovedIsExact ==
    ASSUME HeapInv, GraphInv, Updating \/ phase = "relocate"
    PROVE  /\ before.live \subseteq Cells
           /\ \A c \in Survivors : Moved(c) = forward[c] /\ Moved(c) \in Heads(Free)
           /\ \A c \in before.live \ Survivors : c \in SmallAllocated /\ Moved(c) = c
           /\ \A c, d \in before.live : Moved(c) = Moved(d) => c = d
           /\ \A c \in before.live : Moved(c) = Target(c) /\ Moved(c) \in Cells
           /\ {Moved(c) : c \in Survivors} = Heads(Free)
           /\ Moved(Null) = Null
<1>1. /\ phase # "idle" /\ phase # "reallocate" /\ ClientsAreSafe /\ ForwardingIsExact
      /\ phase \in {"reallocate", "relocate"} \/ Updating
  BY DEF GraphInv, Updating
<1>2. before.live \subseteq Cells /\ before.live \subseteq Allocated
  BY <1>1, LiveIsClosed DEF ClientsAreSafe
<1>3. /\ {forward[c] : c \in Survivors} = Heads(Free)
      /\ \A c, d \in Survivors : forward[c] = forward[d] => c = d
      /\ \A c \in SmallAllocated : forward[c] = Null
  BY <1>1 DEF ForwardingIsExact, Copied
<1>4. /\ Heads(Free) \subseteq Cells /\ Heads(Free) \cap SmallAllocated = {}
      /\ SmallAllocated \subseteq Cells
  BY PlacesAreApart
<1>5. \A c \in Survivors : Moved(c) = forward[c] /\ Moved(c) \in Heads(Free)
  BY <1>2, <1>3, <1>4, NullAssumption DEF Moved, Target, Survivors
<1>6. \A c \in before.live \ Survivors : c \in SmallAllocated /\ Moved(c) = c
  BY <1>2, <1>3, <1>4, NullAssumption DEF Moved, Target, Survivors, Allocated
<1>7. \A c, d \in before.live : Moved(c) = Moved(d) => c = d
  BY <1>3, <1>4, <1>5, <1>6
<1>8. \A c \in before.live : Moved(c) = Target(c) /\ Moved(c) \in Cells
  BY <1>2, <1>4, <1>5, <1>6, NullAssumption DEF Moved
<1>9. {Moved(c) : c \in Survivors} = Heads(Free)
  BY <1>3, <1>5
<1>10. QED
  BY <1>2, <1>5, <1>6, <1>7, <1>8, <1>9 DEF Moved

(* The parts of GraphInv that a step of the collector leaves alone. *)
LEMMA PlacesAreKept ==
    ASSUME UNCHANGED <<active, offset, chunk_size, before>>
    PROVE  /\ Heads(active)' = Heads(active) /\ Heads(Free)' = Heads(Free)
           /\ SmallAllocated' = SmallAllocated /\ Allocated' = Allocated
           /\ Survivors' = Survivors
BY DEF Heads, Free, SmallAllocated, Allocated, Survivors, Small

LEMMA HistoryIsKept ==
    ASSUME HeapInv, HeapInv', ClientsAreSafe, phase # "idle", phase' # "idle",
           UNCHANGED before, Allocated' = Allocated,
           \A t \in Mutators : Len(stack'[t]) = Len(stack[t])
    PROVE  ClientsAreSafe'
<1>1. collecting /\ collecting'
  BY DEF HeapInv, WorldIsStopped
<1>2. Heap!Reachable' = Heap!Reachable
  BY <1>1 DEF Heap!Reachable, Heap!Roots, Heap!StackSlots, Heap!Closed
<1>3. QED
  BY <1>2 DEF ClientsAreSafe

-----------------------------------------------------------------------------
(* Client code and Mark keep GraphInv.                                     *)

LEMMA InitGraphInv == Init => GraphInv
<1> SUFFICES ASSUME Init PROVE GraphInv
  OBVIOUS
<1>1. HeapInv /\ phase = "idle" /\ ~Updating
  BY InitHeapInv DEF Init, InitMark, Updating
<1>2. Allocated = {} /\ SmallAllocated = {}
  <2>1. active \in Spaces /\ offset[active] = 0 /\ offset["small"] = 0
    BY SpacesAssumption DEF Init
  <2>2. QED
    BY <2>1 DEF Allocated, Heads, SmallAllocated
<1>3. ClientInv({})
  <2>1. ClientTypeOK
    BY <1>1 DEF HeapInv, TypeOK
  <2>2. StackSlots = {} /\ \A t \in Mutators : oop[t] = Null
    BY DEF Init, InitClient, StackSlots
  <2>3. QED
    BY <2>1, <2>2 DEF ClientInv, Closed
<1>4. ClientsAreSafe
  BY <1>1, <1>3 DEF ClientsAreSafe
<1>5. ColorsAreExact /\ ForwardingIsExact /\ UpdatesAreExact /\ RelocationIsExact
  BY <1>1, <1>2
     DEF ColorsAreExact, ForwardingIsExact, UpdatesAreExact, RelocationIsExact
<1>6. QED
  BY <1>4, <1>5 DEF GraphInv

(* What GraphInv says while the collector is idle, and no more. *)
LEMMA IdleGraph ==
    ASSUME HeapInv, phase = "idle"
    PROVE  GraphInv <=> /\ \E A \in SUBSET Allocated : ClientInv(A)
                        /\ \A c \in Allocated : color[c] = "White" /\ forward[c] = Null
BY DEF GraphInv, ClientsAreSafe, ColorsAreExact, ForwardingIsExact, UpdatesAreExact,
       RelocationIsExact, Updating, Allocated

LEMMA IdleGraphStep ==
    ASSUME phase' = "idle",
           (\E A \in SUBSET Allocated : ClientInv(A))',
           \A c \in Allocated' : color'[c] = "White" /\ forward'[c] = Null
    PROVE  GraphInv'
BY DEF GraphInv, ClientsAreSafe, ColorsAreExact, ForwardingIsExact, UpdatesAreExact,
       RelocationIsExact, Updating, Allocated

LEMMA MutateGraph ==
    ASSUME HeapInv, GraphInv, NEW t \in Mutators, Mutate(t) PROVE GraphInv'
<1>1. Client(t) /\ UNCHANGED <<phase, color, forward, active, offset, chunk_size, before>>
  BY DEF Mutate, markVars, spaceVars, compactVars
<1>2. phase = "idle"
  BY <1>1, ClientIsIdle
<1>3. PICK A \in SUBSET Allocated : ClientInv(A)
  BY <1>2, IdleGraph
<1>4. ClientInv(A)' /\ Allocated' = Allocated
  BY <1>1, <1>3, ClientKeepsClientInv, PlacesAreKept
<1>5. QED
  BY <1>1, <1>2, <1>3, <1>4, IdleGraph, IdleGraphStep

LEMMA RefuseGraph ==
    ASSUME HeapInv, GraphInv, NEW t \in Mutators, NEW n \in Sizes, Refuse(t, n)
    PROVE  GraphInv'
<1>1. /\ AllocFails(t, n) \/ OutOfMemory(t, n)
      /\ UNCHANGED <<phase, color, forward, active, offset, chunk_size, before>>
  BY DEF Refuse, markVars, spaceVars, compactVars
<1>2. t \in managed
  BY <1>1 DEF AllocFails, OutOfMemory, Allocates, Running
<1>3. phase = "idle"
  BY <1>2, RunningIsIdle
<1>4. PICK A \in SUBSET Allocated : ClientInv(A)
  BY <1>3, IdleGraph
<1>5. ClientInv(A)' /\ Allocated' = Allocated
  BY <1>1, <1>4, RefusalKeepsClientInv, PlacesAreKept
<1>6. QED
  BY <1>1, <1>3, <1>4, <1>5, IdleGraph, IdleGraphStep

(* What the two kinds of allocation have in common. *)
LEMMA AllocGraph ==
    ASSUME HeapInv, GraphInv, NEW t \in Mutators, NEW n \in Sizes, NEW c \in Cells,
           AllocAt(t, n, c), Allocated' = Allocated \cup {c}
    PROVE  GraphInv'
<1>1. /\ phase = "idle" /\ phase' = "idle"
      /\ color'[c] = "White" /\ forward'[c] = Null
      /\ \A d \in Cells \ {c} : color'[d] = color[d] /\ forward'[d] = forward[d]
  BY AllocFacts
<1>2. Allocated \subseteq Cells
  BY PlacesAreApart
<1>3. PICK A \in SUBSET Cells : A \subseteq Allocated /\ ClientInv(A)
  BY <1>1, <1>2, IdleGraph
<1>4. ClientInv(A \cup {c})'
  BY <1>3, AllocKeepsClientInv DEF AllocAt
<1>5. (\E B \in SUBSET Allocated : ClientInv(B))'
  <2>1. PICK B : B = A \cup {c} /\ B \subseteq Allocated'
    BY <1>3
  <2>2. ClientInv(B)'
    BY <1>4, <2>1
  <2>3. QED
    BY <2>1, <2>2
<1>6. QED
  BY <1>1, <1>2, <1>5, IdleGraph, IdleGraphStep

LEMMA AllocSmallAllocates ==
    ASSUME HeapInv, NEW t \in Mutators, NEW n \in Sizes, AllocSmall(t, n)
    PROVE  /\ Small(offset["small"]) \in Cells \ Allocated
           /\ AllocAt(t, n, Small(offset["small"]))
           /\ Allocated' = Allocated \cup {Small(offset["small"])}
<1>1. /\ offset["small"] \in Nat /\ offset["small"] < SmallSlots /\ SmallSlots \in Nat
      /\ offset \in [Spaces \cup {"small"} -> Nat] /\ active \in Spaces
      /\ AllocAt(t, n, Small(offset["small"]))
      /\ offset' = [offset EXCEPT !["small"] = offset["small"] + 1]
      /\ chunk_size' = chunk_size
  BY CellsAssumption DEF AllocSmall, FitsSmall, HeapInv, TypeOK, Small
<1>2. active' = active
  BY <1>1 DEF AllocAt
<1>3. offset'["small"] = offset["small"] + 1 /\ offset'[active] = offset[active]
  BY <1>1, SpacesAssumption
<1>4. Heads(active)' = Heads(active)
  BY <1>1, <1>2, <1>3 DEF Heads
<1>5. SmallAllocated' = SmallAllocated \cup {Small(offset["small"])}
  <2>1. 0 .. offset'["small"] - 1 = 0 .. offset["small"] - 1 \cup {offset["small"]}
    BY <1>1, <1>3
  <2>2. SmallAllocated' = {Small(i) : i \in 0 .. offset'["small"] - 1}
    BY DEF SmallAllocated, Small
  <2>3. QED
    BY <2>1, <2>2 DEF SmallAllocated
<1>6. Small(offset["small"]) \in Cells
  BY <1>1, SlotsAreCells
<1>7. Small(offset["small"]) \notin SmallAllocated
  BY <1>1 DEF SmallAllocated, Small
<1>8. Small(offset["small"]) \notin Heads(active)
  BY <1>1, SpacesAssumption DEF Heads, Small
<1>9. QED
  BY <1>1, <1>4, <1>5, <1>6, <1>7, <1>8 DEF Allocated

LEMMA AllocLinearAllocates ==
    ASSUME HeapInv, NEW t \in Mutators, NEW n \in Sizes, AllocLinear(t, n)
    PROVE  /\ <<active, offset[active]>> \in Cells \ Allocated
           /\ AllocAt(t, n, <<active, offset[active]>>)
           /\ Allocated' = Allocated \cup {<<active, offset[active]>>}
<1>1. PICK r \in Spaces : r = active
  BY DEF HeapInv, TypeOK
<1>2. /\ TypeOK /\ FitsIn(r, n) /\ SpaceIsTiled(r)
      /\ \A i \in offset[r] .. SpaceSize - 1 : chunk_size[<<r, i>>] = 0
      /\ offset' = [offset EXCEPT ![r] = @ + n]
      /\ chunk_size' = [chunk_size EXCEPT ![<<r, offset[r]>>] = n]
      /\ AllocAt(t, n, <<active, offset[active]>>) /\ active' = active
  BY <1>1 DEF AllocLinear, AllocAt, HeapInv, SpacesAreTiled, WalkIsOnChunks
<1>3. /\ <<r, offset[r]>> \in Cells /\ <<r, offset[r]>> \notin Heads(r)
      /\ Heads(r)' = Heads(r) \cup {<<r, offset[r]>>}
      /\ offset'["small"] = offset["small"]
  BY <1>2, ChunkIsAppended
<1>4. SmallAllocated' = SmallAllocated
  BY <1>3 DEF SmallAllocated, Small
<1>5. <<r, offset[r]>> \notin SmallAllocated
  BY SpacesAssumption DEF SmallAllocated, Small
<1>6. Heads(active)' = Heads(r)'
  BY <1>1, <1>2 DEF Heads
<1>7. QED
  BY <1>1, <1>2, <1>3, <1>4, <1>5, <1>6 DEF Allocated

(* A collection begins: only what is allocated is reachable, and nothing   *)
(* of it is marked.                                                        *)
LEMMA BeginMarkGraph ==
    ASSUME HeapInv, GraphInv, BeginMark, Marking PROVE GraphInv'
<1>1. /\ ~collecting /\ collecting' = TRUE /\ phase' = "roots"
      /\ UNCHANGED <<stack, field, worklist, color, active, offset, chunk_size, forward>>
  BY DEF BeginMark, STW!BeginCollect, Marking, spaceVars
<1>2. phase = "idle"
  BY <1>1, CollectingPhase
<1>3. before' = [stack |-> stack, field |-> field, live |-> Reachable,
                 marked |-> {c \in Reachable : color[c] = "Black"}]
  BY <1>1, <1>2 DEF Marking, MarkRoot, RootsMarked, MarkField
<1>4. PICK A \in SUBSET Cells : A \subseteq Allocated /\ ClientInv(A)
  BY <1>2, IdleGraph, PlacesAreApart
<1>5. Reachable \subseteq Allocated
  BY <1>4, ReachableIsLeast DEF ClientInv, Roots
<1>6. \A c \in Allocated : color[c] = "White" /\ forward[c] = Null
  BY <1>2, IdleGraph
<1>7. worklist = {} /\ ClientTypeOK
  BY <1>2 DEF HeapInv, ListsAreCurrent, TypeOK
<1>8. Allocated' = Allocated /\ SmallAllocated' = SmallAllocated
  BY <1>1 DEF Allocated, SmallAllocated, Heads, Small
<1>9. ClientsAreSafe'
  <2>1. Heap!Reachable' = Reachable
    BY <1>1, <1>3 DEF Heap!Reachable, Heap!Roots, Heap!StackSlots, Heap!Closed,
       Reachable, Roots, StackSlots, Closed
  <2>2. /\ before'.live = Reachable /\ before'.marked = {}
        /\ before'.stack = stack /\ before'.field = field
    BY <1>3, <1>5, <1>6
  <2>3. QED
    BY <1>1, <1>5, <1>7, <1>8, <2>1, <2>2 DEF ClientsAreSafe, ClientTypeOK
<1>10. ColorsAreExact' /\ ForwardingIsExact'
  BY <1>1, <1>6, <1>7, <1>8 DEF ColorsAreExact, ForwardingIsExact, Updating, Allocated
<1>11. UpdatesAreExact' /\ RelocationIsExact'
  BY <1>1 DEF UpdatesAreExact, RelocationIsExact, Updating
<1>12. QED
  BY <1>9, <1>10, <1>11 DEF GraphInv

(* The steps of Mark but the first: only what is reachable is marked.      *)
LEMMA MarkingGraph ==
    ASSUME HeapInv, HeapInv', GraphInv,
           phase \in {"roots", "drain"}, phase' \in {"roots", "drain"},
           UNCHANGED <<stack, active, offset, chunk_size, forward, before>>,
           worklist' \subseteq before.live \X Fields,
           \A d \in Cells \ before.live : color'[d] = color[d]
    PROVE  GraphInv'
<1>1. Allocated' = Allocated /\ SmallAllocated' = SmallAllocated /\ Allocated \subseteq Cells
  BY PlacesAreKept, PlacesAreApart
<1>2. ClientsAreSafe'
  BY <1>1, HistoryIsKept DEF GraphInv
<1>3. ColorsAreExact'
  BY <1>1 DEF GraphInv, ColorsAreExact, Updating
<1>4. ForwardingIsExact'
  BY <1>1 DEF GraphInv, ForwardingIsExact, Updating
<1>5. UpdatesAreExact' /\ RelocationIsExact'
  BY DEF UpdatesAreExact, RelocationIsExact, Updating
<1>6. QED
  BY <1>2, <1>3, <1>4, <1>5 DEF GraphInv

(* process_pointer of a reachable object. *)
LEMMA ProcessPointerGraph ==
    ASSUME HeapInv, GraphInv, phase \in {"roots", "drain"}, NEW c \in before.live,
           NEW kept \in SUBSET worklist, ProcessPointer(c, kept)
    PROVE  /\ worklist' \subseteq before.live \X Fields
           /\ \A d \in Cells \ before.live : color'[d] = color[d]
<1>1. worklist \subseteq before.live \X Fields /\ color \in [Cells -> {"White", "Black"}]
  BY DEF GraphInv, ColorsAreExact, HeapInv, TypeOK
<1>2. QED
  BY <1>1 DEF ProcessPointer, Trace

LEMMA MarkRootGraph ==
    ASSUME HeapInv, HeapInv', GraphInv, MarkRoot, Marking PROVE GraphInv'
<1>1. /\ phase = "roots" /\ phase' = "roots"
      /\ UNCHANGED <<collecting, stack, active, offset, chunk_size, forward>>
  BY DEF MarkRoot, Marking, clientVars, spaceVars
<1>2. UNCHANGED before
  BY <1>1 DEF Marking, BeginMark, STW!BeginCollect
<1>3. PICK s \in roots :
         \/ UNCHANGED <<worklist, color>>
         \/ /\ stack[s[1]][s[2]] # Null
            /\ ProcessPointer(stack[s[1]][s[2]], worklist)
  BY DEF MarkRoot
<1>4. CASE UNCHANGED <<worklist, color>>
  <2>1. worklist \subseteq before.live \X Fields
    BY <1>1 DEF GraphInv, ColorsAreExact
  <2>2. QED
    BY <1>1, <1>2, <1>4, <2>1, MarkingGraph
<1>5. CASE stack[s[1]][s[2]] # Null /\ ProcessPointer(stack[s[1]][s[2]], worklist)
  <2>1. ClientTypeOK /\ s \in StackSlots /\ before.live = Reachable
    BY <1>1 DEF HeapInv, TypeOK, HistoryIsExact
  <2>2. stack[s[1]][s[2]] \in Reachable
    BY <1>5, <2>1, ReachableIsClosed DEF Roots
  <2>3. PICK c \in before.live, kept \in SUBSET worklist :
           c = stack[s[1]][s[2]] /\ kept = worklist
    BY <2>1, <2>2
  <2>4. ProcessPointer(c, kept)
    BY <1>5, <2>3
  <2>5. /\ worklist' \subseteq before.live \X Fields
        /\ \A d \in Cells \ before.live : color'[d] = color[d]
    BY <1>1, <2>4, ProcessPointerGraph
  <2>6. QED
    BY <1>1, <1>2, <2>5, MarkingGraph
<1>6. QED
  BY <1>3, <1>4, <1>5

LEMMA RootsMarkedGraph ==
    ASSUME HeapInv, HeapInv', GraphInv, RootsMarked, Marking PROVE GraphInv'
<1>1. /\ phase = "roots" /\ phase' = "drain"
      /\ UNCHANGED <<stack, worklist, color, active, offset, chunk_size, forward>>
  BY DEF RootsMarked, Marking, clientVars, spaceVars
<1>2. UNCHANGED before
  BY <1>1 DEF Marking, BeginMark, STW!BeginCollect
<1>3. worklist \subseteq before.live \X Fields
  BY <1>1 DEF GraphInv, ColorsAreExact
<1>4. QED
  BY <1>1, <1>2, <1>3, MarkingGraph

LEMMA MarkFieldGraph ==
    ASSUME HeapInv, HeapInv', GraphInv, MarkField, Marking PROVE GraphInv'
<1>1. /\ phase = "drain" /\ phase' = "drain"
      /\ UNCHANGED <<stack, active, offset, chunk_size, forward>>
  BY DEF MarkField, Marking, clientVars, spaceVars
<1>2. UNCHANGED before
  BY <1>1 DEF Marking, BeginMark, STW!BeginCollect
<1>3. PICK s \in worklist : ProcessPointer(field[s[1]][s[2]], worklist \ {s})
  BY DEF MarkField
<1>4. /\ worklist \subseteq before.live \X Fields /\ before.live = Reachable
      /\ ClientTypeOK /\ field[s[1]][s[2]] # Null
  BY <1>1 DEF GraphInv, ColorsAreExact, HeapInv, HistoryIsExact, TypeOK, ListsAreCurrent
<1>5. field[s[1]][s[2]] \in before.live
  BY <1>4, ReachableIsClosed DEF Closed
<1>6. PICK c \in before.live, kept \in SUBSET worklist :
         c = field[s[1]][s[2]] /\ kept = worklist \ {s}
  BY <1>5
<1>7. ProcessPointer(c, kept)
  BY <1>3, <1>6
<1>8. /\ worklist' \subseteq before.live \X Fields
      /\ \A d \in Cells \ before.live : color'[d] = color[d]
  BY <1>1, <1>7, ProcessPointerGraph
<1>9. QED
  BY <1>1, <1>2, <1>8, MarkingGraph

-----------------------------------------------------------------------------
(* Reallocate keeps GraphInv.                                              *)

LEMMA BeginReallocateGraph ==
    ASSUME HeapInv, HeapInv', GraphInv, BeginReallocate PROVE GraphInv'
<1>1. /\ phase = "drain" /\ phase' = "reallocate" /\ worklist = {} /\ cursor' = 0
      /\ UNCHANGED <<stack, color, active, offset, chunk_size, forward, before>>
  BY DEF BeginReallocate, clientVars, spaceVars
<1>2. /\ Heads(active)' = Heads(active) /\ Heads(Free)' = Heads(Free)
      /\ SmallAllocated' = SmallAllocated /\ Allocated' = Allocated
      /\ Survivors' = Survivors
  BY <1>1, PlacesAreKept
<1>3. ClientsAreSafe' /\ ClientsAreSafe
  BY <1>1, <1>2, HistoryIsKept DEF GraphInv
<1>4. before.marked = {}
  BY <1>1, <1>3 DEF ClientsAreSafe
<1>5. \A c \in before.live : color[c] = "Black"
  BY <1>1, <1>4, MarkingIsDone
<1>6. ColorsAreExact'
  BY <1>1, <1>2, <1>5 DEF GraphInv, ColorsAreExact, Updating, Survivors
<1>7. ForwardingIsExact'
  <2>1. \A c \in Heads(active) : c[2] \in Nat
    <3>1. PICK r \in Spaces : r = active
      BY PlacesAreApart
    <3>2. \A c \in Heads(r) : c[2] \in 0 .. offset[r] - 1
      BY HeadsAreCells DEF HeapInv
    <3>3. QED
      BY <3>1, <3>2
  <2>2. Copied' = {}
    BY <1>1, <1>2, <2>1 DEF Copied, Survivors
  <2>3. offset[Free] = 0
    BY <1>1 DEF HeapInv, SpacesAreTiled
  <2>4. Heads(Free) = {}
    BY <2>3 DEF Heads
  <2>5. \A c \in Allocated : forward[c] = Null
    BY <1>1 DEF GraphInv, ForwardingIsExact
  <2>6. QED
    BY <1>1, <1>2, <2>2, <2>4, <2>5 DEF ForwardingIsExact, Updating, Allocated
<1>8. UpdatesAreExact' /\ RelocationIsExact'
  BY <1>1 DEF UpdatesAreExact, RelocationIsExact, Updating
<1>9. QED
  BY <1>3, <1>6, <1>7, <1>8 DEF GraphInv

(* visit() is at a survivor when the chunk is black, and only then. *)
LEMMA BlackIsSurvivor ==
    ASSUME HeapInv, GraphInv, NEW p \in {"reallocate", "relocate"}, Visit(p)
    PROVE  /\ color[Visited] = "Black" <=> Visited \in Survivors
           /\ \A c \in Survivors : c[2] < cursor' <=> c[2] < cursor \/ c = Visited
           /\ ~ Visited[2] < cursor
<1>1. /\ phase = p /\ Visited \in Heads(active) /\ Visited[2] = cursor /\ cursor \in Nat
      /\ \A c \in Heads(active) : c[2] < cursor' <=> c[2] < cursor \/ c = Visited
  BY VisitStep
<1>2. color[Visited] = "Black" <=> Visited \in Survivors
  BY <1>1 DEF GraphInv, ColorsAreExact, Survivors, Allocated
<1>3. QED
  BY <1>1, <1>2 DEF Survivors

LEMMA SkipWhiteGraph ==
    ASSUME HeapInv, HeapInv', GraphInv, SkipWhite PROVE GraphInv'
<1>1. PICK p \in {"reallocate", "relocate"} : Visit(p)
  BY DEF SkipWhite
<1>2. /\ phase = p /\ phase' = p /\ color[Visited] # "Black"
      /\ UNCHANGED <<stack, field, color, active, offset, chunk_size, forward, before>>
  BY <1>1 DEF SkipWhite, Visit, clientVars, markVars, spaceVars
<1>3. /\ Heads(active)' = Heads(active) /\ Heads(Free)' = Heads(Free)
      /\ SmallAllocated' = SmallAllocated /\ Allocated' = Allocated
      /\ Survivors' = Survivors
  BY <1>2, PlacesAreKept
<1>4. \A c \in Survivors : c[2] < cursor' <=> c[2] < cursor
  BY <1>1, <1>2, BlackIsSurvivor
<1>5. Copied' = Copied
  BY <1>2, <1>3, <1>4 DEF Copied
<1>6. ClientsAreSafe'
  BY <1>2, <1>3, HistoryIsKept DEF GraphInv
<1>7. ColorsAreExact'
  BY <1>2, <1>3 DEF GraphInv, ColorsAreExact, Updating
<1>8. ForwardingIsExact'
  BY <1>2, <1>3, <1>5 DEF GraphInv, ForwardingIsExact, Updating
<1>9. UpdatesAreExact'
  BY <1>2 DEF UpdatesAreExact, Updating
<1>10. RelocationIsExact'
  <2>1. UNCHANGED StackSlots
    BY <1>2, ReachableIsKept
  <2>2. \A x : Moved(x)' = Moved(x)
    BY <1>2 DEF Moved, Target
  <2>3. QED
    BY <1>2, <1>3, <1>4, <2>1, <2>2 DEF GraphInv, RelocationIsExact
<1>11. QED
  BY <1>6, <1>7, <1>8, <1>9, <1>10 DEF GraphInv

LEMMA ReallocateGraph ==
    ASSUME HeapInv, HeapInv', GraphInv, Reallocate PROVE GraphInv'
<1> DEFINE new == <<Free, offset[Free]>>
<1>1. /\ phase = "reallocate" /\ phase' = "reallocate"
      /\ Visit("reallocate") /\ color[Visited] = "Black"
      /\ new \in Cells /\ new \notin Heads(Free)
      /\ Heads(Free)' = Heads(Free) \cup {new}
      /\ Heads(active)' = Heads(active)
      /\ offset'["small"] = offset["small"]
      /\ forward' = [forward EXCEPT ![Visited] = new]
      /\ UNCHANGED <<stack, field, worklist, color, active, before>>
  BY ReallocateFacts
<1>2. Visited \in Cells
  BY <1>1, VisitStep
<1>3. /\ Visited \in Survivors
      /\ \A c \in Survivors : c[2] < cursor' <=> c[2] < cursor \/ c = Visited
      /\ ~ Visited[2] < cursor
  BY <1>1, BlackIsSurvivor
<1>4. SmallAllocated' = SmallAllocated
  BY <1>1 DEF SmallAllocated, Small
<1>5. Allocated' = Allocated /\ Survivors' = Survivors
  BY <1>1, <1>4 DEF Allocated, Survivors
<1>6. Copied' = Copied \cup {Visited} /\ Visited \notin Copied /\ Copied \subseteq Survivors
  BY <1>1, <1>3, <1>5 DEF Copied
<1> HIDE DEF new
<1>7. /\ forward'[Visited] = new
      /\ \A c \in Cells : c # Visited => forward'[c] = forward[c]
  BY <1>1, <1>2 DEF HeapInv, TypeOK
<1>8. /\ Survivors \subseteq Heads(active)
      /\ Heads(active) \subseteq Cells /\ SmallAllocated \subseteq Cells
      /\ Heads(active) \cap SmallAllocated = {}
  BY PlacesAreApart DEF Survivors
<1>9. ClientsAreSafe'
  BY <1>1, <1>5, HistoryIsKept DEF GraphInv
<1>10. ColorsAreExact'
  BY <1>1, <1>5 DEF GraphInv, ColorsAreExact, Updating
<1>11. ForwardingIsExact'
  <2>1. /\ \A c \in SmallAllocated : forward[c] = Null
        /\ \A c \in Heads(active) \ Copied : forward[c] = Null
        /\ {forward[c] : c \in Copied} = Heads(Free)
        /\ \A c, d \in Copied : forward[c] = forward[d] => c = d
    BY <1>1 DEF GraphInv, ForwardingIsExact
  <2>2. \A c \in Copied : forward'[c] = forward[c] /\ forward[c] \in Heads(Free)
    BY <1>6, <1>7, <1>8, <2>1
  <2>3. {forward'[c] : c \in Copied'} = Heads(Free) \cup {new}
    BY <1>6, <1>7, <2>1, <2>2
  <2>4. \A c, d \in Copied' : forward'[c] = forward'[d] => c = d
    BY <1>1, <1>6, <1>7, <2>1, <2>2
  <2>5. \A c \in SmallAllocated : forward'[c] = Null
    BY <1>3, <1>7, <1>8, <2>1
  <2>6. \A c \in Heads(active) \ Copied' : forward'[c] = Null
    BY <1>6, <1>7, <1>8, <2>1
  <2>7. QED
    BY <1>1, <1>4, <2>3, <2>4, <2>5, <2>6 DEF ForwardingIsExact, Updating
<1>12. UpdatesAreExact' /\ RelocationIsExact'
  BY <1>1 DEF UpdatesAreExact, RelocationIsExact, Updating
<1>13. QED
  BY <1>9, <1>10, <1>11, <1>12 DEF GraphInv

(* UpdateReferences begins, and no small object is to be moved. *)
LEMMA BeginCompactGraph ==
    ASSUME HeapInv, HeapInv', GraphInv, BeginCompact, phase' # "compact" PROVE GraphInv'
<1>1. /\ phase = "reallocate" /\ phase' = "update_roots" /\ roots' = StackSlots
      /\ cursor >= offset[active]
      /\ UNCHANGED <<stack, field, worklist, color, active, offset, chunk_size, forward,
                     before>>
  BY DEF BeginCompact, BeginUpdate, VisitDone, clientVars, spaceVars
<1>2. /\ Heads(active)' = Heads(active) /\ Heads(Free)' = Heads(Free)
      /\ SmallAllocated' = SmallAllocated /\ Allocated' = Allocated
      /\ Survivors' = Survivors
  BY <1>1, PlacesAreKept
<1>3. ClientsAreSafe' /\ ClientsAreSafe
  BY <1>1, <1>2, HistoryIsKept DEF GraphInv
<1>4. Copied = Survivors
  <2>1. PICK r \in Spaces : r = active
    BY PlacesAreApart
  <2>2. \A c \in Heads(r) : c[2] \in 0 .. offset[r] - 1
    BY HeadsAreCells DEF HeapInv
  <2>3. offset[active] \in Nat /\ cursor \in Nat
    BY DEF HeapInv, TypeOK
  <2>4. \A c \in Heads(active) : c[2] < cursor
    BY <1>1, <2>1, <2>2, <2>3
  <2>5. QED
    BY <1>1, <2>4 DEF Copied, Survivors
<1>5. Copied' = Survivors
  BY <1>1, <1>2 DEF Copied
<1>6. worklist = {}
  BY <1>1 DEF HeapInv, ListsAreCurrent
<1>7. ColorsAreExact'
  BY <1>1, <1>2, <1>6 DEF GraphInv, ColorsAreExact, Updating
<1>8. ForwardingIsExact'
  BY <1>1, <1>2, <1>4, <1>5 DEF GraphInv, ForwardingIsExact, Updating
<1>9. UpdatesAreExact'
  <2>1. /\ before.stack = stack /\ before.field = field
        /\ \A c \in before.live : color[c] = "Black"
    BY <1>1, <1>3 DEF HeapInv, HistoryIsExact, MarkingIsComplete, ClientsAreSafe
  <2>2. StackSlots' = StackSlots
    BY <1>1, ReachableIsKept
  <2>3. ASSUME NEW c \in before.live, NEW f \in Fields
        PROVE  (\/ IsLed(c, f) /\ IsVisited(before.field[c][f])
                \/ ~IsLed(c, f) /\ field[c][f] = before.field[c][f])'
    <3> DEFINE d == before.field[c][f]
    <3>1. d \in before.live \cup {Null}
      BY <1>1, <1>3, LiveIsClosed
    <3>2. CASE d = Null
      BY <1>1, <2>1, <3>2 DEF IsLed, IsVisited, Moved
    <3>3. CASE d # Null
      <4>1. color[d] = "Black" /\ field[c][f] = d
        BY <2>1, <3>1, <3>3
      <4>2. ~ IsLed(c, f)'
        BY <1>1, <3>3, <4>1 DEF IsLed
      <4>3. QED
        BY <1>1, <4>1, <4>2
    <3>4. QED
      BY <3>2, <3>3
  <2>4. QED
    BY <1>1, <2>1, <2>2, <2>3 DEF UpdatesAreExact
<1>10. RelocationIsExact'
  BY <1>1 DEF RelocationIsExact
<1>11. QED
  BY <1>3, <1>7, <1>8, <1>9, <1>10 DEF GraphInv

-----------------------------------------------------------------------------
(* UpdateReferences keeps GraphInv.                                        *)

(* The parts of GraphInv that a step of UpdateReferences leaves alone.     *)
LEMMA UpdatingFrame ==
    ASSUME HeapInv, HeapInv', GraphInv, Updating, Updating',
           UNCHANGED <<active, offset, chunk_size, forward, before>>,
           \A t \in Mutators : Len(stack'[t]) = Len(stack[t])
    PROVE  /\ ClientsAreSafe' /\ ForwardingIsExact' /\ RelocationIsExact'
           /\ StackSlots' = StackSlots
           /\ Survivors' = Survivors /\ Allocated' = Allocated
           /\ \A x : Moved(x)' = Moved(x)
<1>1. /\ Heads(active)' = Heads(active) /\ Heads(Free)' = Heads(Free)
      /\ SmallAllocated' = SmallAllocated /\ Allocated' = Allocated
      /\ Survivors' = Survivors
  BY PlacesAreKept
<1>2. /\ phase \notin {"idle", "roots", "drain", "reallocate", "relocate"}
      /\ phase' \notin {"idle", "roots", "drain", "reallocate", "relocate"}
  BY DEF Updating
<1>3. ClientsAreSafe'
  BY <1>1, <1>2, HistoryIsKept DEF GraphInv
<1>4. ForwardingIsExact'
  <2>1. Copied' = Survivors /\ Copied = Survivors
    BY <1>1, <1>2 DEF Copied
  <2>2. QED
    BY <1>1, <1>2, <2>1 DEF GraphInv, ForwardingIsExact
<1>5. RelocationIsExact' /\ \A x : Moved(x)' = Moved(x)
  BY <1>2 DEF RelocationIsExact, Moved, Target
<1>6. StackSlots' = StackSlots
  BY DEF StackSlots
<1>7. QED
  BY <1>1, <1>3, <1>4, <1>5, <1>6

(* process_pointer of a pointer to a survivor, d.  The field that is led   *)
(* to the new place of d, if there is one, is the one that was popped.     *)
LEMMA PointerIsLed ==
    ASSUME HeapInv, HeapInv', GraphInv, Updating, Updating',
           UNCHANGED <<active, offset, chunk_size, forward, before>>,
           \A t \in Mutators : Len(stack'[t]) = Len(stack[t]),
           NEW d \in before.live, NEW kept \in SUBSET worklist, UpdatePointer(d, kept),
           \A c \in before.live, f \in Fields :
              \/ /\ field'[c][f] = field[c][f]
                 /\ <<c, f>> \in worklist => <<c, f>> \in kept
              \/ before.field[c][f] = d /\ field'[c][f] = Moved(d)
    PROVE  /\ ColorsAreExact'
           /\ \A c \in before.live, f \in Fields :
                 (\/ IsLed(c, f) /\ IsVisited(before.field[c][f])
                  \/ ~IsLed(c, f) /\ field[c][f] = before.field[c][f])'
           /\ IsVisited(d)'
           /\ \A x \in before.live \cup {Null} : IsVisited(x) => IsVisited(x)'
<1>1. /\ before.live \subseteq Cells
      /\ \A c \in before.live \ Survivors : c \in SmallAllocated /\ Moved(c) = c
      /\ \A c \in Survivors : Moved(c) \in Heads(Free)
      /\ \A c, e \in before.live : Moved(c) = Moved(e) => c = e
      /\ \A c \in before.live : Moved(c) = Target(c) /\ Moved(c) \in Cells
      /\ Moved(Null) = Null
  BY MovedIsExact
<1>2. /\ \A c \in before.live, f \in Fields : before.field[c][f] \in before.live \cup {Null}
      /\ \A c \in before.live, f \in Fields :
            \/ IsLed(c, f) /\ IsVisited(before.field[c][f])
            \/ ~IsLed(c, f) /\ field[c][f] = before.field[c][f]
  BY LiveIsClosed DEF GraphInv, UpdatesAreExact, Updating
<1>3. /\ color' = [color EXCEPT ![Moved(d)] = "White"]
      /\ \A s : s \in worklist' <=>
            s \in kept \/ (\E f \in Fields : s = <<d, f>> /\ field[d][f] # Null)
  <2>1. d \in Cells
    BY <1>1
  <2>2. /\ color' = [color EXCEPT ![Target(d)] = "White"]
        /\ \A s : s \in worklist' <=>
              s \in kept \/ (\E f \in Fields : s = <<d, f>> /\ field[d][f] # Null)
    BY <2>1, UpdatePointerStep
  <2>3. QED
    BY <1>1, <2>2
<1>4. \A c \in Cells : color'[c] = IF c = Moved(d) THEN "White" ELSE color[c]
  BY <1>3 DEF HeapInv, TypeOK
<1>5. /\ Survivors' = Survivors /\ Allocated' = Allocated
      /\ \A x : Moved(x)' = Moved(x)
  BY UpdatingFrame
<1>6. d # Null /\ \A x \in before.live : x # Null
  BY <1>1, NullAssumption
<1>7. ASSUME NEW c \in before.live, NEW f \in Fields, IsLed(c, f)
      PROVE  IsLed(c, f)'
  <2>1. before.field[c][f] \in before.live \cup {Null}
    BY <1>2
  <2>2. QED
    BY <1>1, <1>4, <1>5, <1>7, <2>1 DEF IsLed
<1>8. ASSUME NEW c \in before.live, NEW f \in Fields, <<c, f>> \in worklist
      PROVE  IsLed(c, f)' \/ <<c, f>> \in worklist'
  <2>1. CASE <<c, f>> \in kept
    BY <1>3, <2>1
  <2>2. CASE before.field[c][f] = d /\ field'[c][f] = Moved(d)
    <3>1. color'[Moved(d)] = "White"
      BY <1>1, <1>4
    <3>2. QED
      BY <1>5, <2>2, <3>1 DEF IsLed
  <2>3. QED
    BY <1>8, <2>1, <2>2
<1>9. ASSUME NEW x \in before.live \cup {Null}, IsVisited(x)
      PROVE  IsVisited(x)'
  <2>1. ASSUME x # Null PROVE color'[Moved(x)] = "White"
    BY <1>1, <1>4, <1>9, <2>1 DEF IsVisited
  <2>2. ASSUME x # Null, NEW f \in Fields
        PROVE  IsLed(x, f)' \/ <<x, f>> \in worklist'
    BY <1>7, <1>8, <1>9, <2>2 DEF IsVisited
  <2>3. QED
    BY <1>5, <2>1, <2>2 DEF IsVisited
<1>10. IsVisited(d)'
  <2>1. color'[Moved(d)] = "White"
    BY <1>1, <1>4
  <2>2. ASSUME NEW g \in Fields PROVE IsLed(d, g)' \/ <<d, g>> \in worklist'
    <3>1. CASE field[d][g] # Null
      BY <1>3, <3>1
    <3>2. CASE field[d][g] = Null
      <4>1. before.field[d][g] = Null
        <5>1. CASE IsLed(d, g)
          <6>1. Moved(before.field[d][g]) = Null
            BY <3>2, <5>1 DEF IsLed
          <6>2. QED
            BY <1>1, <1>2, <6>1, NullAssumption
        <5>2. CASE ~IsLed(d, g)
          BY <1>2, <3>2, <5>2
        <5>3. QED
          BY <5>1, <5>2
      <4>2. field'[d][g] = Null
        BY <1>6, <3>2, <4>1
      <4>3. QED
        BY <1>1, <1>5, <4>1, <4>2 DEF IsLed
    <3>3. QED
      BY <3>1, <3>2
  <2>3. QED
    BY <1>5, <2>1, <2>2 DEF IsVisited
<1>11. ASSUME NEW c \in before.live, NEW f \in Fields
       PROVE  (\/ IsLed(c, f) /\ IsVisited(before.field[c][f])
               \/ ~IsLed(c, f) /\ field[c][f] = before.field[c][f])'
  <2> DEFINE b == before.field[c][f]
  <2>1. b \in before.live \cup {Null}
    BY <1>2
  <2>2. CASE IsLed(c, f)
    <3>1. IsLed(c, f)' /\ IsVisited(b)'
      BY <1>2, <1>7, <1>9, <2>1, <2>2
    <3>2. QED
      BY <3>1
  <2>3. CASE ~IsLed(c, f)
    <3>1. field[c][f] = b
      BY <1>2, <2>3
    <3>2. CASE b = d /\ field'[c][f] = Moved(d)
      BY <1>1, <1>4, <1>5, <1>10, <3>2 DEF IsLed
    <3>3. CASE field'[c][f] = field[c][f]
      <4>1. ASSUME IsLed(c, f)' PROVE b = d
        <5>1. b = Moved(b) /\ (b # Null => color'[Moved(b)] = "White")
          BY <1>5, <3>1, <3>3, <4>1 DEF IsLed
        <5>2. b # Null /\ color[Moved(b)] # "White"
          BY <2>3, <3>1, <5>1 DEF IsLed
        <5>3. Moved(b) \in Cells
          BY <1>1, <2>1, <5>2
        <5>4. Moved(b) = Moved(d)
          BY <1>4, <5>1, <5>2, <5>3
        <5>5. QED
          BY <1>1, <2>1, <5>2, <5>4
      <4>2. QED
        BY <1>10, <3>1, <3>3, <4>1
    <3>4. QED
      BY <3>2, <3>3
  <2>4. QED
    BY <2>2, <2>3
<1>12. ColorsAreExact'
  <2>1. /\ phase \notin {"idle", "roots", "drain"} /\ phase' \notin {"idle", "roots", "drain"}
    BY DEF Updating
  <2>2. /\ \A c \in Allocated \ before.live : color[c] = "White"
        /\ worklist \subseteq before.live \X Fields
        /\ \A c \in Survivors : color[c] = "Black"
    BY <2>1 DEF GraphInv, ColorsAreExact
  <2>3. worklist' \subseteq before.live \X Fields
    BY <1>3, <2>2
  <2>4. /\ Allocated \subseteq Cells /\ Survivors \subseteq Heads(active)
        /\ Heads(active) \subseteq Cells
        /\ Heads(active) \cap Heads(Free) = {} /\ Heads(active) \cap SmallAllocated = {}
    BY PlacesAreApart DEF Survivors
  <2>5. \A c \in Allocated \ before.live : color'[c] = "White"
    BY <1>4, <2>2, <2>4
  <2>6. \A c \in Survivors : color'[c] = "Black"
    BY <1>1, <1>4, <2>2, <2>4
  <2>7. QED
    BY <1>5, <2>1, <2>3, <2>5, <2>6 DEF ColorsAreExact
<1>13. QED
  BY <1>9, <1>10, <1>11, <1>12

LEMMA UpdateRootGraph ==
    ASSUME HeapInv, HeapInv', GraphInv, UpdateRoot PROVE GraphInv'
<1>1. /\ phase = "update_roots" /\ phase' = "update_roots" /\ ClientTypeOK
      /\ UNCHANGED <<field, active, offset, chunk_size, forward, before>>
  BY UpdateRootFacts
<1>2. Updating /\ Updating' /\ StackSlots' = StackSlots
  BY <1>1, UpdateRootStep DEF Updating
<1>3. PICK s \in roots :
         /\ s \in StackSlots /\ roots' = roots \ {s}
         /\ \/ /\ stack[s[1]][s[2]] = Null
               /\ UNCHANGED <<stack, worklist, color>>
            \/ \E c \in Cells :
                  /\ stack[s[1]][s[2]] = c
                  /\ UpdatePointer(c, worklist)
                  /\ stack' = [stack EXCEPT ![s[1]][s[2]] = Target(c)]
  BY UpdateRootFacts
<1>4. /\ \A r \in StackSlots :
            \/ r \in roots /\ stack[r[1]][r[2]] = before.stack[r[1]][r[2]]
            \/ /\ r \notin roots
               /\ stack[r[1]][r[2]] = Moved(before.stack[r[1]][r[2]])
               /\ IsVisited(before.stack[r[1]][r[2]])
      /\ \A c \in before.live, f \in Fields :
            \/ IsLed(c, f) /\ IsVisited(before.field[c][f])
            \/ ~IsLed(c, f) /\ field[c][f] = before.field[c][f]
  BY <1>2 DEF GraphInv, UpdatesAreExact
<1>5. \A r \in StackSlots : before.stack[r[1]][r[2]] \in before.live \cup {Null}
  BY <1>1, LiveIsClosed DEF GraphInv
<1>6. CASE stack[s[1]][s[2]] = Null /\ UNCHANGED <<stack, worklist, color>>
  <2>1. /\ ClientsAreSafe' /\ ForwardingIsExact' /\ RelocationIsExact'
        /\ Survivors' = Survivors /\ Allocated' = Allocated
        /\ \A x : Moved(x)' = Moved(x)
    BY <1>1, <1>2, <1>6, UpdatingFrame
  <2>2. ColorsAreExact'
    BY <1>1, <1>2, <1>6, <2>1 DEF GraphInv, ColorsAreExact
  <2>3. /\ \A c, f : IsLed(c, f)' <=> IsLed(c, f)
        /\ \A x : IsVisited(x)' <=> IsVisited(x)
    BY <1>1, <1>6, <2>1 DEF IsLed, IsVisited
  <2>4. before.stack[s[1]][s[2]] = Null
    BY <1>3, <1>4, <1>6
  <2>5. IsVisited(Null) /\ Moved(Null) = Null
    BY DEF IsVisited, Moved
  <2>6. UpdatesAreExact'
    BY <1>1, <1>2, <1>3, <1>4, <1>6, <2>1, <2>3, <2>4, <2>5 DEF UpdatesAreExact
  <2>7. QED
    BY <2>1, <2>2, <2>6 DEF GraphInv
<1>7. ASSUME NEW c \in Cells, stack[s[1]][s[2]] = c, UpdatePointer(c, worklist),
             stack' = [stack EXCEPT ![s[1]][s[2]] = Target(c)]
      PROVE  GraphInv'
  <2>1. PICK p \in Pointers : p = Target(c)
    BY TargetIsCell DEF Pointers
  <2>2. /\ \A t \in Mutators : Len(stack'[t]) = Len(stack[t])
        /\ stack'[s[1]][s[2]] = p
        /\ \A r \in StackSlots : r # s => stack'[r[1]][r[2]] = stack[r[1]][r[2]]
    BY <1>1, <1>3, <1>7, <2>1, SlotIsSet
  <2>3. before.stack[s[1]][s[2]] = c
    BY <1>3, <1>4, <1>7
  <2>4. PICK d \in before.live, kept \in SUBSET worklist : d = c /\ kept = worklist
    BY <1>3, <1>5, <2>3, NullAssumption
  <2>5. p = Moved(d)
    BY <1>2, <2>1, <2>4, MovedIsExact
  <2>6. /\ ColorsAreExact'
        /\ \A e \in before.live, f \in Fields :
              (\/ IsLed(e, f) /\ IsVisited(before.field[e][f])
               \/ ~IsLed(e, f) /\ field[e][f] = before.field[e][f])'
        /\ IsVisited(d)'
        /\ \A x \in before.live \cup {Null} : IsVisited(x) => IsVisited(x)'
    <3>1. UpdatePointer(d, kept)
      BY <1>7, <2>4
    <3>2. \A e \in before.live, f \in Fields :
             field'[e][f] = field[e][f] /\ (<<e, f>> \in worklist => <<e, f>> \in kept)
      BY <1>1, <2>4
    <3>3. QED
      BY <1>1, <1>2, <2>2, <3>1, <3>2, PointerIsLed
  <2>7. /\ ClientsAreSafe' /\ ForwardingIsExact' /\ RelocationIsExact'
        /\ \A x : Moved(x)' = Moved(x)
    BY <1>1, <1>2, <2>2, UpdatingFrame
  <2>8. ASSUME NEW r \in StackSlots
        PROVE  \/ /\ r \in roots'
                  /\ stack'[r[1]][r[2]] = before.stack[r[1]][r[2]]
               \/ /\ r \notin roots'
                  /\ stack'[r[1]][r[2]] = Moved(before.stack[r[1]][r[2]])
                  /\ IsVisited(before.stack[r[1]][r[2]])'
    <3>1. PICK q \in before.live \cup {Null} : q = before.stack[r[1]][r[2]]
      BY <1>5
    <3>2. CASE r = s
      <4>1. r \notin roots' /\ q = d
        BY <1>3, <2>3, <2>4, <3>1, <3>2
      <4>2. QED
        BY <1>1, <2>2, <2>5, <2>6, <3>1, <3>2, <4>1
    <3>3. CASE r # s
      <4>1. /\ r \in roots' <=> r \in roots
            /\ stack'[r[1]][r[2]] = stack[r[1]][r[2]]
        BY <1>3, <2>2, <3>3
      <4>2. IsVisited(q) => IsVisited(q)'
        BY <2>6
      <4>3. QED
        BY <1>1, <1>4, <3>1, <4>1, <4>2
    <3>4. QED
      BY <3>2, <3>3
  <2>9. UpdatesAreExact'
    BY <1>1, <1>2, <2>6, <2>7, <2>8 DEF UpdatesAreExact
  <2>10. QED
    BY <2>6, <2>7, <2>9 DEF GraphInv
<1>8. QED
  BY <1>3, <1>6, <1>7

LEMMA RootsUpdatedGraph ==
    ASSUME HeapInv, HeapInv', GraphInv, RootsUpdated PROVE GraphInv'
<1>1. /\ phase = "update_roots" /\ phase' = "update_fields"
      /\ UNCHANGED <<stack, field, roots, worklist, color, active, offset, chunk_size,
                     forward, before>>
  BY DEF RootsUpdated, clientVars, spaceVars, compactVars
<1>2. Updating /\ Updating'
  BY <1>1 DEF Updating
<1>3. /\ ClientsAreSafe' /\ ForwardingIsExact' /\ RelocationIsExact'
      /\ StackSlots' = StackSlots
      /\ Survivors' = Survivors /\ Allocated' = Allocated
      /\ \A x : Moved(x)' = Moved(x)
  BY <1>1, <1>2, UpdatingFrame
<1>4. ColorsAreExact'
  BY <1>1, <1>2, <1>3 DEF GraphInv, ColorsAreExact
<1>5. UpdatesAreExact'
  <2>1. /\ \A c, f : IsLed(c, f)' <=> IsLed(c, f)
        /\ \A x : IsVisited(x)' <=> IsVisited(x)
    BY <1>1, <1>3 DEF IsLed, IsVisited
  <2>2. QED
    BY <1>1, <1>2, <1>3, <2>1 DEF GraphInv, UpdatesAreExact
<1>6. QED
  BY <1>3, <1>4, <1>5 DEF GraphInv

LEMMA UpdateFieldGraph ==
    ASSUME HeapInv, HeapInv', GraphInv, UpdateField PROVE GraphInv'
<1>1. /\ phase = "update_fields" /\ phase' = "update_fields" /\ roots = {}
      /\ UNCHANGED <<stack, roots, active, offset, chunk_size, forward, before>>
  BY UpdateFieldFacts
<1>2. Updating /\ Updating'
  BY <1>1 DEF Updating
<1>3. PICK b \in Cells, c \in Cells, f \in Fields :
         /\ <<b, f>> \in worklist /\ field[b][f] = c
         /\ \/ /\ color[c] = "White"
               /\ worklist' = worklist \ {<<b, f>>}
               /\ UNCHANGED <<field, color>>
            \/ /\ color[c] = "Black"
               /\ UpdatePointer(c, worklist \ {<<b, f>>})
               /\ field' = [field EXCEPT ![b][f] = Target(c)]
  BY UpdateFieldFacts
<1>4. /\ ClientsAreSafe' /\ ForwardingIsExact' /\ RelocationIsExact'
      /\ StackSlots' = StackSlots
      /\ Survivors' = Survivors /\ Allocated' = Allocated
      /\ \A x : Moved(x)' = Moved(x)
  BY <1>1, <1>2, UpdatingFrame
<1>5. /\ worklist \subseteq before.live \X Fields
      /\ \A e \in Survivors : color[e] = "Black"
      /\ color \in [Cells -> {"White", "Black"}]
      /\ field \in [Cells -> [Fields -> Pointers]]
  BY <1>2 DEF GraphInv, ColorsAreExact, HeapInv, TypeOK, ClientTypeOK
<1>6. /\ \A r \in StackSlots :
            /\ stack[r[1]][r[2]] = Moved(before.stack[r[1]][r[2]])
            /\ IsVisited(before.stack[r[1]][r[2]])
            /\ before.stack[r[1]][r[2]] \in before.live \cup {Null}
      /\ \A e \in before.live, g \in Fields :
            /\ before.field[e][g] \in before.live \cup {Null}
            /\ \/ IsLed(e, g) /\ IsVisited(before.field[e][g])
               \/ ~IsLed(e, g) /\ field[e][g] = before.field[e][g]
  BY <1>1, <1>2, LiveIsClosed DEF GraphInv, UpdatesAreExact
<1>7. /\ before.live \subseteq Cells
      /\ \A e \in before.live \ Survivors : Moved(e) = e
      /\ \A e \in before.live : Moved(e) = Target(e) /\ Moved(e) \in Cells
      /\ Moved(Null) = Null
  BY <1>2, MovedIsExact
<1>8. b \in before.live /\ c # Null
  BY <1>3, <1>5, NullAssumption
<1>9. CASE color[c] = "White" /\ worklist' = worklist \ {<<b, f>>} /\ UNCHANGED <<field, color>>
  <2>1. IsLed(b, f)
    <3>1. ASSUME ~IsLed(b, f) PROVE FALSE
      <4>1. before.field[b][f] = c /\ c \in before.live
        BY <1>3, <1>6, <1>8, <3>1
      <4>2. c \notin Survivors
        BY <1>5, <1>9
      <4>3. QED
        BY <1>3, <1>7, <1>9, <3>1, <4>1, <4>2 DEF IsLed
    <3>2. QED
      BY <3>1
  <2>2. \A e, g : IsLed(e, g)' <=> IsLed(e, g)
    BY <1>1, <1>4, <1>9 DEF IsLed
  <2>3. \A x : IsVisited(x)' <=> IsVisited(x)
    BY <1>4, <1>9, <2>1, <2>2 DEF IsVisited
  <2>4. ColorsAreExact'
    BY <1>1, <1>2, <1>4, <1>5, <1>9 DEF GraphInv, ColorsAreExact
  <2>5. UpdatesAreExact'
    BY <1>1, <1>4, <1>6, <1>9, <2>2, <2>3 DEF UpdatesAreExact
  <2>6. QED
    BY <1>4, <2>4, <2>5 DEF GraphInv
<1>10. CASE /\ color[c] = "Black"
            /\ UpdatePointer(c, worklist \ {<<b, f>>})
            /\ field' = [field EXCEPT ![b][f] = Target(c)]
  <2>1. ~IsLed(b, f)
    BY <1>3, <1>6, <1>7, <1>8, <1>10 DEF IsLed
  <2>2. before.field[b][f] = c /\ c \in before.live
    BY <1>3, <1>6, <1>8, <2>1
  <2>3. PICK d \in before.live, kept \in SUBSET worklist :
           d = c /\ kept = worklist \ {<<b, f>>}
    BY <2>2
  <2>4. \A e \in before.live, g \in Fields :
           field'[e][g] = IF e = b /\ g = f THEN Moved(d) ELSE field[e][g]
    BY <1>5, <1>7, <1>8, <1>10, <2>3
  <2>5. \A e \in before.live, g \in Fields :
           \/ /\ field'[e][g] = field[e][g]
              /\ <<e, g>> \in worklist => <<e, g>> \in kept
           \/ before.field[e][g] = d /\ field'[e][g] = Moved(d)
    BY <2>2, <2>3, <2>4
  <2>6. UpdatePointer(d, kept)
    BY <1>10, <2>3
  <2>7. /\ ColorsAreExact'
        /\ \A e \in before.live, g \in Fields :
              (\/ IsLed(e, g) /\ IsVisited(before.field[e][g])
               \/ ~IsLed(e, g) /\ field[e][g] = before.field[e][g])'
        /\ \A x \in before.live \cup {Null} : IsVisited(x) => IsVisited(x)'
    BY <1>1, <1>2, <2>5, <2>6, PointerIsLed
  <2>8. UpdatesAreExact'
    BY <1>1, <1>4, <1>6, <2>7 DEF UpdatesAreExact
  <2>9. QED
    BY <1>4, <2>7, <2>8 DEF GraphInv
<1>11. QED
  BY <1>3, <1>9, <1>10

-----------------------------------------------------------------------------
(* Relocate keeps GraphInv.                                                *)

(* Every reference has been led: the objects that process_pointer has been *)
(* at are closed under the references, and they contain the roots.         *)
LEMMA BeginRelocateGraph ==
    ASSUME HeapInv, HeapInv', GraphInv, BeginRelocate PROVE GraphInv'
<1>1. /\ phase = "update_fields" /\ phase' = "relocate" /\ worklist = {} /\ cursor' = 0
      /\ UNCHANGED <<stack, field, roots, worklist, color, active, offset, chunk_size,
                     forward, before>>
  BY DEF BeginRelocate, clientVars, spaceVars
<1>2. Updating /\ ~Updating' /\ roots = {}
  BY <1>1 DEF Updating, HeapInv, ListsAreCurrent
<1>3. /\ Heads(active)' = Heads(active) /\ Heads(Free)' = Heads(Free)
      /\ SmallAllocated' = SmallAllocated /\ Allocated' = Allocated
      /\ Survivors' = Survivors
  BY <1>1, PlacesAreKept
<1>4. ClientsAreSafe' /\ ClientsAreSafe
  BY <1>1, <1>3, HistoryIsKept DEF GraphInv
<1>5. /\ before.live \subseteq Cells
      /\ \A c \in before.live \ Survivors : Moved(c) = c
  BY <1>2, MovedIsExact
<1>6. /\ \A s \in StackSlots :
            /\ stack[s[1]][s[2]] = Moved(before.stack[s[1]][s[2]])
            /\ IsVisited(before.stack[s[1]][s[2]])
            /\ before.stack[s[1]][s[2]] \in before.live \cup {Null}
      /\ \A c \in before.live, f \in Fields :
            /\ before.field[c][f] \in before.live \cup {Null}
            /\ \/ IsLed(c, f) /\ IsVisited(before.field[c][f])
               \/ ~IsLed(c, f) /\ field[c][f] = before.field[c][f]
  BY <1>1, <1>2, <1>4, LiveIsClosed DEF GraphInv, UpdatesAreExact
<1>7. before.live \subseteq {c \in before.live : IsVisited(c)}
  <2> DEFINE V == {c \in before.live : IsVisited(c)}
  <2>1. V \in SUBSET Cells
    BY <1>5
  <2>2. \A s \in StackSlots : before.stack[s[1]][s[2]] \in V \cup {Null}
    BY <1>6
  <2>3. ASSUME NEW c \in V, NEW f \in Fields PROVE before.field[c][f] \in V \cup {Null}
    <3>1. c # Null
      BY <1>5, NullAssumption
    <3>2. IsLed(c, f)
      BY <1>1, <3>1 DEF IsVisited
    <3>3. QED
      BY <1>6, <3>2
  <2> HIDE DEF V
  <2>4. before.live \subseteq V
    BY <1>1, <1>4, <2>1, <2>2, <2>3, LiveIsLeast
  <2>5. QED
    BY <2>4 DEF V
<1>8. \A c \in before.live : /\ color[Moved(c)] = "White"
                             /\ \A f \in Fields : IsLed(c, f)
  BY <1>1, <1>5, <1>7, NullAssumption DEF IsVisited
<1>9. ColorsAreExact'
  BY <1>1, <1>2, <1>3 DEF GraphInv, ColorsAreExact
<1>10. ForwardingIsExact'
  BY <1>1, <1>2, <1>3 DEF GraphInv, ForwardingIsExact, Copied
<1>11. UpdatesAreExact'
  BY <1>2 DEF UpdatesAreExact
<1>12. RelocationIsExact'
  <2>1. StackSlots' = StackSlots /\ \A x : Moved(x)' = Moved(x)
    BY <1>1, ReachableIsKept DEF Moved, Target
  <2>2. \A c \in before.live, f \in Fields : field[c][f] = Moved(before.field[c][f])
    BY <1>8 DEF IsLed
  <2>3. \A c \in before.live \ Survivors : color[c] = "White"
    BY <1>5, <1>8
  <2>4. \A c \in Survivors : c[2] \in Nat
    <3>1. PICK r \in Spaces : r = active
      BY PlacesAreApart
    <3>2. \A c \in Heads(r) : c[2] \in 0 .. offset[r] - 1
      BY HeadsAreCells DEF HeapInv
    <3>3. QED
      BY <3>1, <3>2 DEF Survivors
  <2>5. QED
    BY <1>1, <1>3, <1>6, <2>1, <2>2, <2>3, <2>4 DEF RelocationIsExact
<1>13. QED
  BY <1>4, <1>9, <1>10, <1>11, <1>12 DEF GraphInv

(* One survivor more is in the free space, at a place of its own.          *)
LEMMA RelocateGraph ==
    ASSUME HeapInv, HeapInv', GraphInv, Relocate PROVE GraphInv'
<1> DEFINE new == forward[Visited]
<1>1. /\ phase = "relocate" /\ phase' = "relocate" /\ Visit("relocate")
      /\ color[Visited] = "Black" /\ new \in Cells
      /\ UNCHANGED <<stack, active, offset, chunk_size, before>>
      /\ field' = [field EXCEPT ![new] = field[Visited]]
      /\ color' = [color EXCEPT ![new] = "White"]
      /\ forward' = [forward EXCEPT ![new] = Null]
  BY RelocateFacts
<1>2. /\ Visited \in Survivors
      /\ \A c \in Survivors : c[2] < cursor' <=> c[2] < cursor \/ c = Visited
  BY <1>1, BlackIsSurvivor
<1>3. /\ Heads(active)' = Heads(active) /\ Heads(Free)' = Heads(Free)
      /\ SmallAllocated' = SmallAllocated /\ Allocated' = Allocated
      /\ Survivors' = Survivors
  BY <1>1, PlacesAreKept
<1>4. ClientsAreSafe'
  BY <1>1, <1>3, HistoryIsKept DEF GraphInv
<1>5. /\ before.live \subseteq Cells
      /\ \A c \in Survivors : Moved(c) = forward[c] /\ Moved(c) \in Heads(Free)
      /\ \A c \in before.live \ Survivors : c \in SmallAllocated
      /\ \A c, d \in before.live : Moved(c) = Moved(d) => c = d
  BY <1>1, MovedIsExact
<1>6. Survivors \subseteq before.live /\ Survivors \subseteq Heads(active)
  BY DEF Survivors
<1>7. /\ Heads(active) \cap Heads(Free) = {} /\ Heads(Free) \cap SmallAllocated = {}
      /\ Allocated = Heads(active) \cup SmallAllocated /\ Allocated \subseteq Cells
      /\ Heads(Free) \subseteq Cells
  BY PlacesAreApart DEF Allocated
<1>8. /\ new \in Heads(Free) /\ new \notin before.live /\ new \notin Allocated
      /\ \A c \in Survivors : forward[c] = new => c = Visited
  BY <1>2, <1>5, <1>6, <1>7
<1> HIDE DEF new
<1>9. /\ \A c \in Cells : c # new => /\ field'[c] = field[c] /\ color'[c] = color[c]
                                     /\ forward'[c] = forward[c]
      /\ field'[new] = field[Visited] /\ color'[new] = "White" /\ forward'[new] = Null
  BY <1>1 DEF HeapInv, TypeOK, ClientTypeOK
<1>10. \A c \in before.live : /\ field'[c] = field[c] /\ color'[c] = color[c]
                              /\ forward'[c] = forward[c]
  BY <1>5, <1>8, <1>9
<1>11. \A c \in Allocated : color'[c] = color[c] /\ forward'[c] = forward[c]
  BY <1>7, <1>8, <1>9
<1>12. ColorsAreExact'
  BY <1>1, <1>3, <1>6, <1>10, <1>11 DEF GraphInv, ColorsAreExact, Updating
<1>13. ForwardingIsExact'
  <2>1. Copied' = Survivors /\ Copied = Survivors
    BY <1>1, <1>3 DEF Copied
  <2>2. /\ \A c \in SmallAllocated : forward[c] = Null
        /\ {forward[c] : c \in Survivors} = Heads(Free)
        /\ \A c, d \in Survivors : forward[c] = forward[d] => c = d
    BY <1>1, <2>1 DEF GraphInv, ForwardingIsExact
  <2>3. \A c \in Survivors : forward'[c] = forward[c]
    BY <1>6, <1>10
  <2>4. {forward'[c] : c \in Survivors} = Heads(Free)
    BY <2>2, <2>3
  <2>5. \A c \in SmallAllocated : forward'[c] = Null
    BY <1>7, <1>11, <2>2
  <2>6. QED
    BY <1>1, <1>3, <2>1, <2>2, <2>3, <2>4, <2>5 DEF ForwardingIsExact, Updating
<1>14. UpdatesAreExact'
  BY <1>1 DEF UpdatesAreExact, Updating
<1>15. RelocationIsExact'
  <2>1. /\ \A s \in StackSlots : stack[s[1]][s[2]] = Moved(before.stack[s[1]][s[2]])
        /\ \A c \in before.live, f \in Fields : field[c][f] = Moved(before.field[c][f])
        /\ \A c \in before.live \ Survivors : color[c] = "White"
        /\ \A c \in Survivors : c[2] < cursor =>
              /\ field[forward[c]] = field[c]
              /\ color[forward[c]] = "White"
              /\ forward[forward[c]] = Null
    BY <1>1 DEF GraphInv, RelocationIsExact
  <2>2. \A p \in before.live \cup {Null} : Moved(p)' = Moved(p)
    BY <1>10 DEF Moved, Target
  <2>3. StackSlots' = StackSlots
    BY <1>1 DEF StackSlots
  <2>4. /\ \A s \in StackSlots : before.stack[s[1]][s[2]] \in before.live \cup {Null}
        /\ \A c \in before.live, f \in Fields :
              before.field[c][f] \in before.live \cup {Null}
    BY <1>1, LiveIsClosed DEF GraphInv
  <2>5. ASSUME NEW s \in StackSlots
        PROVE  stack[s[1]][s[2]] = Moved(before.stack[s[1]][s[2]])'
    <3>1. PICK p \in before.live \cup {Null} : p = before.stack[s[1]][s[2]]
      BY <2>4
    <3>2. QED
      BY <1>1, <2>1, <2>2, <3>1
  <2>6. ASSUME NEW c \in before.live, NEW f \in Fields
        PROVE  field'[c][f] = Moved(before.field[c][f])'
    <3>1. PICK p \in before.live \cup {Null} : p = before.field[c][f]
      BY <2>4
    <3>2. QED
      BY <1>1, <1>10, <2>1, <2>2, <3>1
  <2>7. \A c \in before.live \ Survivors : color'[c] = "White"
    BY <1>10, <2>1
  <2>8. ASSUME NEW c \in Survivors, c[2] < cursor'
        PROVE  /\ field'[forward'[c]] = field'[c]
               /\ color'[forward'[c]] = "White"
               /\ forward'[forward'[c]] = Null
    <3>1. forward'[c] = forward[c] /\ field'[c] = field[c]
      BY <1>6, <1>10
    <3>2. CASE c = Visited
      BY <1>9, <3>1, <3>2 DEF new
    <3>3. CASE c # Visited
      <4>1. c[2] < cursor
        BY <1>2, <2>8, <3>3
      <4>2. forward[c] \in Cells /\ forward[c] # new
        BY <1>5, <1>7, <1>8, <3>3
      <4>3. QED
        BY <1>9, <2>1, <3>1, <4>1, <4>2
    <3>4. QED
      BY <3>2, <3>3
  <2>9. QED
    BY <1>1, <1>3, <2>3, <2>5, <2>6, <2>7, <2>8 DEF RelocationIsExact
<1>16. QED
  BY <1>4, <1>12, <1>13, <1>14, <1>15 DEF GraphInv

(* All survivors have been copied: the graph is what it was. *)
LEMMA GraphIsMoved ==
    ASSUME HeapInv, GraphInv, Relocated
    PROVE  /\ GraphIsPreserved
           /\ \A c \in before.live : /\ color[Moved(c)] = "White"
                                     /\ forward[Moved(c)] = Null
                                     /\ Moved(c)[1] # active
<1>1. phase = "relocate" /\ cursor >= offset[active]
  BY DEF Relocated
<1>2. /\ \A c \in Survivors : Moved(c) = forward[c] /\ Moved(c) \in Heads(Free)
      /\ \A c \in before.live \ Survivors : c \in SmallAllocated /\ Moved(c) = c
      /\ \A c, d \in before.live : Moved(c) = Moved(d) => c = d
  BY <1>1, MovedIsExact
<1>3. \A c \in Survivors : c[2] < cursor
  <2>1. PICK r \in Spaces : r = active
    BY PlacesAreApart
  <2>2. \A c \in Heads(r) : c[2] \in 0 .. offset[r] - 1
    BY HeadsAreCells DEF HeapInv
  <2>3. offset[active] \in Nat /\ cursor \in Nat
    BY DEF HeapInv, TypeOK
  <2>4. QED
    BY <1>1, <2>1, <2>2, <2>3 DEF Survivors
<1>4. /\ \A s \in StackSlots : stack[s[1]][s[2]] = Moved(before.stack[s[1]][s[2]])
      /\ \A c \in before.live, f \in Fields : field[c][f] = Moved(before.field[c][f])
      /\ \A c \in before.live \ Survivors : color[c] = "White"
      /\ \A c \in Survivors : /\ field[forward[c]] = field[c]
                              /\ color[forward[c]] = "White"
                              /\ forward[forward[c]] = Null
  BY <1>1, <1>3 DEF GraphInv, RelocationIsExact
<1>5. \A c \in before.live, f \in Fields : field[Moved(c)][f] = Moved(before.field[c][f])
  BY <1>2, <1>4
<1>6. \A c \in before.live : color[Moved(c)] = "White" /\ forward[Moved(c)] = Null
  BY <1>2, <1>4 DEF GraphInv, ForwardingIsExact
<1>7. \A c \in before.live : Moved(c)[1] # active
  BY <1>2, PlacesAreApart
<1>8. QED
  BY <1>2, <1>4, <1>5, <1>6, <1>7 DEF GraphIsPreserved

(* What there is after a collection. *)
LEMMA EndRelocateAllocates ==
    ASSUME HeapInv, GraphInv, EndRelocate
    PROVE  /\ Allocated' = {Moved(c) : c \in before.live} \cup (SmallAllocated \ before.live)
           /\ \A c \in before.live : field'[Moved(c)] = field[Moved(c)]
<1>1. PICK a \in Spaces, b \in Spaces : a = active /\ b = Free /\ a # b
  BY EndRelocateFacts
<1>2. /\ active' = b /\ offset'[b] = offset[b]
      /\ offset'["small"] = offset["small"]
      /\ \A i \in 0 .. SpaceSize - 1 : chunk_size'[<<b, i>>] = chunk_size[<<b, i>>]
      /\ offset[b] \in 0 .. SpaceSize /\ SpaceSize \in Nat
      /\ \A c \in Cells : field'[c] = IF c[1] = active THEN Blank ELSE field[c]
  BY <1>1, EndRelocateFacts, CellsAssumption
<1>3. Heads(b)' = Heads(b)
  <2>1. Heads(b)' = {c \in {b} \X (0 .. offset'[b] - 1) : chunk_size'[c] # 0}
    BY DEF Heads
  <2>2. ASSUME NEW c \in {b} \X (0 .. offset[b] - 1)
        PROVE  chunk_size'[c] = chunk_size[c]
    <3>1. c = <<b, c[2]>> /\ c[2] \in 0 .. SpaceSize - 1
      BY <1>2
    <3>2. QED
      BY <1>2, <3>1
  <2>3. QED
    BY <1>2, <2>1, <2>2 DEF Heads
<1>4. SmallAllocated' = SmallAllocated /\ Heads(active)' = Heads(Free)
  BY <1>1, <1>2, <1>3 DEF SmallAllocated, Small, Heads
<1>5. /\ phase = "relocate" /\ Relocated
  BY DEF EndRelocate, VisitDone, Relocated
<1>6. /\ before.live \subseteq Cells
      /\ \A c \in before.live \ Survivors : c \in SmallAllocated /\ Moved(c) = c
      /\ \A c \in before.live : Moved(c) \in Cells
      /\ {Moved(c) : c \in Survivors} = Heads(Free)
  BY <1>5, MovedIsExact
<1>7. Survivors \subseteq before.live /\ Survivors \cap SmallAllocated = {}
  BY PlacesAreApart DEF Survivors
<1>8. {Moved(c) : c \in before.live} = Heads(Free) \cup (before.live \cap SmallAllocated)
  BY <1>6, <1>7
<1>9. Allocated' = Heads(Free) \cup SmallAllocated
  BY <1>4 DEF Allocated
<1>10. \A c \in before.live : Moved(c)[1] # active
  BY <1>5, GraphIsMoved
<1>11. QED
  BY <1>2, <1>6, <1>8, <1>9, <1>10

LEMMA EndRelocateGraph ==
    ASSUME HeapInv, HeapInv', GraphInv, EndRelocate PROVE GraphInv'
<1>1. /\ phase = "relocate" /\ phase' = "idle" /\ Relocated
      /\ UNCHANGED <<managed, stack, oop, color, forward>>
  BY DEF EndRelocate, VisitDone, STW!EndCollect, Relocated
<1>2. PICK A : A = {Moved(c) : c \in before.live}
  OBVIOUS
<1>3. /\ Allocated' = A \cup (SmallAllocated \ before.live)
      /\ \A c \in before.live : field'[Moved(c)] = field[Moved(c)]
  BY <1>2, EndRelocateAllocates
<1>4. /\ \A s \in StackSlots : stack[s[1]][s[2]] = Moved(before.stack[s[1]][s[2]])
      /\ \A c \in before.live, f \in Fields : field[Moved(c)][f] = Moved(before.field[c][f])
      /\ \A c \in before.live : color[Moved(c)] = "White" /\ forward[Moved(c)] = Null
  BY <1>1, GraphIsMoved DEF GraphIsPreserved
<1>5. /\ \A s \in StackSlots : before.stack[s[1]][s[2]] \in before.live \cup {Null}
      /\ \A c \in before.live, f \in Fields : before.field[c][f] \in before.live \cup {Null}
  BY <1>1, LiveIsClosed DEF GraphInv
<1>6. \A p \in before.live \cup {Null} : Moved(p) \in A \cup {Null}
  BY <1>2 DEF Moved
<1>7. ClientInv(A)'
  <2>1. ClientTypeOK'
    BY DEF HeapInv, TypeOK
  <2>2. managed = {} /\ \A t \in Mutators : oop'[t] = Null
    BY <1>1 DEF HeapInv, WorldIsStopped
  <2>3. \A s \in StackSlots : stack[s[1]][s[2]] \in A \cup {Null}
    BY <1>4, <1>5, <1>6
  <2>4. \A c \in before.live, f \in Fields : field'[Moved(c)][f] \in A \cup {Null}
    BY <1>3, <1>4, <1>5, <1>6
  <2>5. Closed(A)'
    BY <1>2, <2>4 DEF Closed
  <2>6. QED
    BY <1>1, <2>1, <2>2, <2>3, <2>5 DEF ClientInv, StackSlots
<1>8. (\E B \in SUBSET Allocated : ClientInv(B))'
  BY <1>3, <1>7
<1>9. \A c \in SmallAllocated \ before.live : color[c] = "White" /\ forward[c] = Null
  BY <1>1 DEF GraphInv, ColorsAreExact, ForwardingIsExact, Allocated
<1>10. \A c \in Allocated' : color'[c] = "White" /\ forward'[c] = Null
  BY <1>1, <1>2, <1>3, <1>4, <1>9
<1>11. QED
  BY <1>1, <1>8, <1>10, IdleGraphStep

-----------------------------------------------------------------------------
(* What holds as long as compact() moves nothing: GraphInv.                *)

LEMMA StutterGraph == ASSUME HeapInv, HeapInv', GraphInv, UNCHANGED vars PROVE GraphInv'
<1>1. UNCHANGED <<managed, collecting, pending, stack, oop, field, request,
                  terminated, phase, roots, worklist, color, active, offset,
                  chunk_size, forward, cursor, before>>
  BY DEF vars, clientVars, markVars, spaceVars, compactVars
<1>2. /\ Heads(active)' = Heads(active) /\ Heads(Free)' = Heads(Free)
      /\ SmallAllocated' = SmallAllocated /\ Allocated' = Allocated
      /\ Survivors' = Survivors /\ StackSlots' = StackSlots
  BY <1>1, PlacesAreKept, ReachableIsKept
<1>3. CASE phase = "idle"
  <2>1. PICK A \in SUBSET Allocated : ClientInv(A)
    BY <1>3, IdleGraph
  <2>2. ClientInv(A)'
    BY <1>1, <1>2, <2>1 DEF ClientInv, ClientTypeOK, Closed
  <2>3. QED
    BY <1>1, <1>2, <1>3, <2>1, <2>2, IdleGraph, IdleGraphStep
<1>4. CASE phase # "idle"
  <2>1. ClientsAreSafe'
    BY <1>1, <1>2, <1>4, HistoryIsKept DEF GraphInv
  <2>2. /\ Copied' = Copied /\ \A x : Moved(x)' = Moved(x)
        /\ Updating' <=> Updating
    BY <1>1, <1>2 DEF Copied, Moved, Target, Updating
  <2>3. ColorsAreExact' /\ ForwardingIsExact'
    BY <1>1, <1>2, <2>2 DEF GraphInv, ColorsAreExact, ForwardingIsExact
  <2>4. /\ \A c, f : IsLed(c, f)' <=> IsLed(c, f)
        /\ \A x : IsVisited(x)' <=> IsVisited(x)
    BY <1>1, <2>2 DEF IsLed, IsVisited
  <2>5. UpdatesAreExact' /\ RelocationIsExact'
    BY <1>1, <1>2, <2>2, <2>4 DEF GraphInv, UpdatesAreExact, RelocationIsExact
  <2>6. QED
    BY <2>1, <2>3, <2>5 DEF GraphInv
<1>5. QED
  BY <1>3, <1>4

LEMMA NextGraphInv ==
    ASSUME HeapInv, HeapInv', GraphInv, NothingIsCompacted, NothingIsCompacted',
           [Next]_vars
    PROVE  GraphInv'
<1> USE DEF NothingIsCompacted
<1>1. ASSUME NEW t \in Mutators, Mutate(t) PROVE GraphInv'
  BY <1>1, MutateGraph
<1>2. ASSUME NEW t \in Mutators, NEW n \in Sizes, AllocSmall(t, n) PROVE GraphInv'
  <2>1. PICK c \in Cells : AllocAt(t, n, c) /\ Allocated' = Allocated \cup {c}
    BY <1>2, AllocSmallAllocates
  <2>2. QED
    BY <2>1, AllocGraph
<1>3. ASSUME NEW t \in Mutators, NEW n \in Sizes, AllocLinear(t, n) PROVE GraphInv'
  <2>1. PICK c \in Cells : AllocAt(t, n, c) /\ Allocated' = Allocated \cup {c}
    BY <1>3, AllocLinearAllocates
  <2>2. QED
    BY <2>1, AllocGraph
<1>4. ASSUME NEW t \in Mutators, NEW n \in Sizes, Refuse(t, n) PROVE GraphInv'
  BY <1>4, RefuseGraph
<1>5. CASE Marking
  BY <1>5, BeginMarkGraph, MarkRootGraph, RootsMarkedGraph, MarkFieldGraph DEF Marking
<1>6. CASE BeginReallocate \/ SkipWhite \/ Reallocate
  BY <1>6, BeginReallocateGraph, SkipWhiteGraph, ReallocateGraph
<1>7. CASE BeginCompact \/ Compact \/ EndCompact
  BY <1>7, BeginCompactGraph DEF Compact, EndCompact
<1>8. CASE UpdateRoot \/ RootsUpdated \/ UpdateField
  BY <1>8, UpdateRootGraph, RootsUpdatedGraph, UpdateFieldGraph
<1>9. CASE BeginRelocate \/ Relocate \/ EndRelocate
  BY <1>9, BeginRelocateGraph, RelocateGraph, EndRelocateGraph
<1>10. CASE UNCHANGED vars
  BY <1>10, StutterGraph
<1>11. QED
  BY <1>1, <1>2, <1>3, <1>4, <1>5, <1>6, <1>7, <1>8, <1>9, <1>10 DEF Next, Collector

(* GraphInv holds for as long as compact() moves nothing. *)
THEOREM GraphInvariance == Spec /\ []NothingIsCompacted => []GraphInv
<1>1. Init => GraphInv
  BY InitGraphInv
<1>2. HeapInv /\ HeapInv' /\ GraphInv /\ NothingIsCompacted /\ NothingIsCompacted'
         /\ [Next]_vars => GraphInv'
  BY NextGraphInv
<1>3. QED
  BY <1>1, <1>2, Invariance, PTL DEF Spec

(* A Handle refers to nothing that alloc() could give out a second time.   *)
THEOREM HandlesStayAllocated == Spec /\ []NothingIsCompacted => []HandlesAreAllocated
<1>1. GraphInv => HandlesAreAllocated
  BY DEF GraphInv, ClientsAreSafe, ClientInv, HandlesAreAllocated, Roots
<1>2. QED
  BY <1>1, GraphInvariance, PTL

(* The graph that the Handles see is the one from before the collection.   *)
THEOREM GraphPreserved == Spec /\ []NothingIsCompacted => []GraphIsPreserved
<1>1. HeapInv /\ GraphInv => GraphIsPreserved
  BY GraphIsMoved DEF GraphIsPreserved
<1>2. QED
  BY <1>1, Invariance, GraphInvariance, PTL

(* The free space has room for every survivor: what was copied so far is   *)
(* no longer than what visit() has walked along.                           *)
LEMMA SurvivorFits ==
    ASSUME HeapInv, phase = "reallocate", cursor < offset[active]
    PROVE  FitsIn(Free, chunk_size[Visited])
<1>1. /\ TypeOK /\ cursor \in Nat /\ active \in Spaces /\ Free \in Spaces
      /\ offset[active] \in Nat /\ offset[active] <= SpaceSize /\ SpaceSize \in Nat
      /\ offset[Free] \in Nat /\ offset[Free] <= cursor
      /\ Visited \in Heads(active)
  BY CellsAssumption, OtherSpace DEF HeapInv, TypeOK, WalkIsOnChunks, Free
<1>2. PICK r \in Spaces : r = active
  BY <1>1
<1>3. PICK v \in Heads(r) : v = Visited
  BY <1>1, <1>2
<1>4. v[2] = cursor /\ chunk_size[v] \in Nat
  BY <1>1, <1>3, HeadsAreCells DEF Visited
<1>5. \/ cursor + chunk_size[v] = offset[r]
      \/ <<r, cursor + chunk_size[v]>> \in Heads(r)
  BY <1>3, <1>4 DEF HeapInv, SpacesAreTiled, SpaceIsTiled
<1>6. cursor + chunk_size[v] <= offset[r]
  BY <1>1, <1>2, <1>4, <1>5 DEF Heads
<1>7. QED
  BY <1>1, <1>2, <1>3, <1>4, <1>6 DEF FitsIn

LEMMA AssertionsFollow == ASSUME HeapInv, GraphInv PROVE AssertionsHold
<1>1. ASSUME phase = "reallocate", cursor < offset[active], color[Visited] = "Black"
      PROVE  FitsIn(Free, chunk_size[Visited]) /\ forward[Visited] = Null
  <2>1. Visited \in Heads(active) /\ cursor \in Nat
    BY <1>1 DEF HeapInv, WalkIsOnChunks, TypeOK
  <2>2. Visited \notin Copied
    BY <1>1, <2>1 DEF Copied, Visited
  <2>3. QED
    BY <1>1, <2>1, <2>2, SurvivorFits DEF GraphInv, ForwardingIsExact
<1>2. ASSUME phase = "relocate", cursor < offset[active], color[Visited] = "Black"
      PROVE  forward[Visited] # Null
  <2>1. Visited \in Heads(active)
    BY <1>2 DEF HeapInv, WalkIsOnChunks, TypeOK
  <2>2. Visited \in Survivors
    BY <1>2, <2>1 DEF GraphInv, ColorsAreExact, Survivors, Allocated
  <2>3. forward[Visited] \in Heads(Free)
    BY <1>2, <2>2, MovedIsExact
  <2>4. QED
    BY <2>3, PlacesAreApart, NullAssumption
<1>3. QED
  BY <1>1, <1>2 DEF AssertionsHold

(* The assertions of Reallocate and Relocate hold. *)
THEOREM AssertionsHoldUncompacted == Spec /\ []NothingIsCompacted => []AssertionsHold
BY AssertionsFollow, Invariance, GraphInvariance, PTL

-----------------------------------------------------------------------------
(* A program whose objects all go to the linear spaces.                    *)

(* Nothing is in the small allocator, and so compact() has nothing to do.  *)
SmallIsEmpty == offset["small"] = 0 /\ NothingIsCompacted

LEMMA NextSmallIsEmpty ==
    ASSUME NoSmallObjects, HeapInv, SmallIsEmpty, [Next]_vars PROVE SmallIsEmpty'
<1> USE DEF SmallIsEmpty, NothingIsCompacted
<1>1. /\ offset \in [Spaces \cup {"small"} -> Nat] /\ active \in Spaces /\ Free \in Spaces
      /\ "small" # active /\ "small" # Free /\ SmallSlots \in Nat
      /\ phase # "compact" /\ offset["small"] = 0
  BY SpacesAssumption, CellsAssumption, OtherSpace DEF HeapInv, TypeOK, Free
<1>2. ASSUME NEW t \in Mutators, NEW n \in Sizes PROVE ~FitsSmall(n)
  BY <1>1 DEF FitsSmall, NoSmallObjects
<1>3. ASSUME NEW t \in Mutators, NEW n \in Sizes, AllocLinear(t, n) PROVE SmallIsEmpty'
  BY <1>1, <1>3 DEF AllocLinear, AllocAt
<1>4. CASE UNCHANGED <<offset, phase>>
  BY <1>1, <1>4
<1>5. CASE Marking
  BY <1>1, <1>5 DEF Marking, BeginMark, MarkRoot, RootsMarked, MarkField, spaceVars
<1>6. CASE Reallocate
  BY <1>1, <1>6 DEF Reallocate, markVars
<1>7. CASE BeginCompact
  <2>1. dirty' = NextBlack(color, -1) /\ freed' = NextWhite(color, 0)
    BY <1>1, <1>7 DEF BeginCompact
  <2>2. PICK col : col = color
    OBVIOUS
  <2>3. NextBlack(col, -1) \in -1 .. -1 /\ NextWhite(col, 0) \in 0 .. 0
    BY <1>1, LeftFinger, RightFinger
  <2>4. ~ freed' < dirty'
    BY <2>1, <2>2, <2>3
  <2>5. QED
    BY <1>1, <1>7, <2>4 DEF BeginCompact, BeginUpdate, spaceVars
<1>8. CASE EndRelocate
  BY <1>1, <1>8 DEF EndRelocate
<1>9. CASE BeginReallocate \/ RootsUpdated \/ BeginRelocate
  BY <1>1, <1>9 DEF BeginReallocate, RootsUpdated, BeginRelocate, spaceVars
<1>10. QED
  <2>1. CASE UNCHANGED vars
    BY <1>4, <2>1 DEF vars, markVars, spaceVars
  <2>2. ASSUME NEW t \in Mutators, Mutate(t) PROVE SmallIsEmpty'
    BY <1>4, <2>2 DEF Mutate, markVars, spaceVars
  <2>3. ASSUME NEW t \in Mutators, NEW n \in Sizes, AllocSmall(t, n) \/ Refuse(t, n)
        PROVE  SmallIsEmpty'
    BY <1>2, <1>4, <2>3 DEF AllocSmall, Refuse, markVars, spaceVars
  <2>4. CASE SkipWhite \/ UpdateRoot \/ UpdateField \/ Relocate
    BY <1>4, <2>4 DEF SkipWhite, UpdateRoot, UpdateField, Relocate, markVars, spaceVars
  <2>5. CASE Compact \/ EndCompact
    BY <1>1, <2>5 DEF Compact, EndCompact
  <2>6. QED
    BY <1>3, <1>5, <1>6, <1>7, <1>8, <1>9, <2>1, <2>2, <2>3, <2>4, <2>5
       DEF Next, Collector

LEMMA SmallStaysEmpty == ASSUME NoSmallObjects PROVE Spec => []SmallIsEmpty
<1>1. Init => SmallIsEmpty
  BY DEF Init, InitMark, SmallIsEmpty, NothingIsCompacted
<1>2. HeapInv /\ SmallIsEmpty /\ [Next]_vars => SmallIsEmpty'
  BY NextSmallIsEmpty
<1>3. QED
  BY <1>1, <1>2, Invariance, PTL DEF Spec

LEMMA LinearInvariance == ASSUME NoSmallObjects PROVE Spec => []GraphInv
<1>1. SmallIsEmpty => NothingIsCompacted
  BY DEF SmallIsEmpty
<1>2. QED
  BY <1>1, SmallStaysEmpty, GraphInvariance, PTL

(* The assertions of Reallocate and Relocate hold: the free space has room *)
(* for every survivor, no forwarding pointer is left over from before, and *)
(* none is missing when the survivors are copied.                          *)
THEOREM LinearAssertions == ASSUME NoSmallObjects PROVE Spec => []AssertionsHold
BY AssertionsFollow, Invariance, LinearInvariance, PTL

-----------------------------------------------------------------------------
(* The linear spaces implement MovingHeap.                                 *)

LEMMA MutateImplements ==
    ASSUME HeapInv, NEW t \in Mutators, Mutate(t) PROVE Heap!Mutate(t)
<1>1. Client(t) /\ UNCHANGED <<active, offset, chunk_size, before>>
  BY DEF Mutate, spaceVars, compactVars
<1>2. UNCHANGED Allocated
  BY <1>1, PlacesAreKept
<1>3. ~collecting /\ ~collecting'
  BY <1>1, ClientIsIdle
<1>4. Heap!Client(t)
  BY <1>1, <1>3
     DEF Client, Heap!Client, Resume, Heap!Resume, Stop, Heap!Stop, ForceGc,
         Heap!ForceGc, Push, Heap!Push, Leave, Heap!Leave, Assign, Heap!Assign,
         Load, Heap!Load, LoadField, Heap!LoadField, LoadNull, Heap!LoadNull,
         StoreField, Heap!StoreField, Ready, Heap!Ready, Running, Heap!Running,
         StackSlots, Heap!StackSlots, STW!Enter, Heap!STW!Enter, STW!Exit,
         Heap!STW!Exit, STW!Request, Heap!STW!Request
<1>5. QED
  BY <1>2, <1>4 DEF Heap!Mutate

LEMMA RefuseImplements ==
    ASSUME HeapInv, NEW t \in Mutators, NEW n \in Sizes, Refuse(t, n)
    PROVE  Heap!Refuse(t, n)
<1>1. /\ AllocFails(t, n) \/ OutOfMemory(t, n)
      /\ t \in managed /\ UNCHANGED <<collecting, active, offset, chunk_size, before>>
  BY DEF Refuse, AllocFails, OutOfMemory, Allocates, Running, spaceVars, compactVars,
     STW!Request
<1>2. ~collecting /\ ~collecting'
  BY <1>1, RunningIsIdle
<1>3. Heap!AllocFails(t, n) \/ Heap!OutOfMemory(t, n)
  BY <1>1, <1>2
     DEF AllocFails, Heap!AllocFails, OutOfMemory, Heap!OutOfMemory, Allocates,
         Heap!Allocates, Running, Heap!Running, STW!Request, Heap!STW!Request
<1>4. UNCHANGED Allocated
  BY <1>1, PlacesAreKept
<1>5. QED
  BY <1>3, <1>4 DEF Heap!Refuse

LEMMA AllocImplements ==
    ASSUME HeapInv, NEW t \in Mutators, NEW n \in Sizes,
           NEW c \in Cells \ Allocated, AllocAt(t, n, c),
           Allocated' = Allocated \cup {c}
    PROVE  Heap!Alloc(t, n)
<1>1. AllocSucceeds(t, n, c) /\ t \in managed /\ UNCHANGED collecting
  BY DEF AllocAt, AllocSucceeds, Allocates, Running
<1>2. ~collecting /\ ~collecting'
  BY <1>1, RunningIsIdle
<1>3. Heap!AllocSucceeds(t, n, c) /\ Heap!Allocates(t, n)
  BY <1>1, <1>2 DEF AllocSucceeds, Heap!AllocSucceeds, Allocates, Heap!Allocates,
     Running, Heap!Running, Blank, Heap!Blank
<1>4. QED
  BY <1>3 DEF Heap!Alloc

LEMMA BeginMarkImplements ==
    ASSUME HeapInv, BeginMark, Marking PROVE Heap!BeginCollect
<1>1. /\ STW!BeginCollect /\ ~collecting /\ collecting' = TRUE /\ phase' = "roots"
      /\ UNCHANGED <<stack, field, oop, request, terminated, active, offset, chunk_size>>
  BY DEF BeginMark, STW!BeginCollect, Marking, spaceVars
<1>2. phase = "idle"
  BY <1>1, CollectingPhase
<1>3. before'.stack = stack /\ before'.field = field
  BY <1>1, <1>2 DEF Marking, MarkRoot, RootsMarked, MarkField
<1>4. UNCHANGED Allocated
  BY <1>1 DEF Allocated, SmallAllocated, Heads, Small
<1>5. Heap!STW!BeginCollect
  BY <1>1 DEF STW!BeginCollect, Heap!STW!BeginCollect
<1>6. QED
  BY <1>1, <1>3, <1>4, <1>5 DEF Heap!BeginCollect

(* The steps in between change nothing that MovingHeap speaks of.          *)
LEMMA CollectingImplements ==
    ASSUME HeapInv, HeapInv', phase # "idle", phase' # "idle", Allocated' = Allocated,
           UNCHANGED <<managed, pending, oop, request, terminated, before>>
    PROVE  UNCHANGED Heap!vars
<1>1. collecting = TRUE /\ collecting' = TRUE
  BY DEF HeapInv, WorldIsStopped, TypeOK, ClientTypeOK
<1>2. QED
  BY <1>1 DEF Heap!vars

LEMMA EndRelocateImplements ==
    ASSUME HeapInv, HeapInv', GraphInv, SmallIsEmpty, EndRelocate PROVE Heap!EndCollect
<1>1. /\ phase = "relocate" /\ Relocated /\ collecting /\ ~collecting'
      /\ STW!EndCollect /\ UNCHANGED <<stack, oop, request, terminated>>
  BY DEF EndRelocate, VisitDone, STW!EndCollect, Relocated
<1>2. /\ before.live = Heap!Reachable
      /\ before.stack \in [Mutators -> Seq(Pointers)]
      /\ \A t \in Mutators : Len(before.stack[t]) = Len(stack[t])
  BY <1>1 DEF GraphInv, ClientsAreSafe
<1>3. /\ before.live \subseteq Cells
      /\ \A s \in StackSlots : before.stack[s[1]][s[2]] \in before.live \cup {Null}
      /\ \A c \in before.live, f \in Fields : before.field[c][f] \in before.live \cup {Null}
  BY <1>1, LiveIsClosed DEF GraphInv
<1>4. /\ \A c \in before.live : Moved(c) \in Cells
      /\ \A c, d \in before.live : Moved(c) = Moved(d) => c = d
      /\ Moved(Null) = Null
  BY <1>1, MovedIsExact
<1>5. SmallAllocated = {}
  BY DEF SmallAllocated, SmallIsEmpty
<1>6. /\ Allocated' = {Moved(c) : c \in before.live}
      /\ \A c \in before.live : field'[Moved(c)] = field[Moved(c)]
  BY <1>5, EndRelocateAllocates
<1>7. /\ \A s \in StackSlots : stack[s[1]][s[2]] = Moved(before.stack[s[1]][s[2]])
      /\ \A c \in before.live, f \in Fields : field[Moved(c)][f] = Moved(before.field[c][f])
  BY <1>1, GraphIsMoved DEF GraphIsPreserved
<1> DEFINE move == [c \in before.live |-> Moved(c)]
<1>8. move \in Heap!Injection(Heap!Reachable, Cells)
  BY <1>2, <1>4 DEF Heap!Injection, Heap!IsInjective
<1>9. \A p \in before.live \cup {Null} : Heap!Led(move, p) = Moved(p)
  BY <1>3, <1>4, NullAssumption DEF Heap!Led
<1>10. Allocated' = {move[c] : c \in before.live}
  BY <1>6
<1>11. \A c \in before.live, f \in Fields :
          field'[move[c]][f] = Heap!Led(move, before.field[c][f])
  BY <1>3, <1>6, <1>7, <1>9
<1>12. stack' = [t \in Mutators |-> [i \in DOMAIN before.stack[t] |->
                                        Heap!Led(move, before.stack[t][i])]]
  <2>1. /\ stack \in [Mutators -> Seq(Pointers)]
        /\ \A t \in Mutators : Len(stack[t]) <= MaxStack
    BY DEF HeapInv, TypeOK, ClientTypeOK
  <2>2. ASSUME NEW t \in Mutators
        PROVE  stack[t] = [i \in DOMAIN before.stack[t] |->
                              Heap!Led(move, before.stack[t][i])]
    <3>1. /\ stack[t] \in Seq(Pointers) /\ before.stack[t] \in Seq(Pointers)
          /\ Len(before.stack[t]) = Len(stack[t]) /\ Len(stack[t]) <= MaxStack
      BY <1>2, <2>1
    <3>2. /\ DOMAIN before.stack[t] = 1 .. Len(stack[t])
          /\ stack[t] = [i \in 1 .. Len(stack[t]) |-> stack[t][i]]
      BY <3>1
    <3>3. ASSUME NEW i \in 1 .. Len(stack[t])
          PROVE  stack[t][i] = Heap!Led(move, before.stack[t][i])
      <4>1. <<t, i>> \in StackSlots
        BY <3>1, MaxStackAssumption DEF StackSlots
      <4>2. /\ stack[t][i] = Moved(before.stack[t][i])
            /\ before.stack[t][i] \in before.live \cup {Null}
        BY <1>3, <1>7, <4>1
      <4>3. QED
        BY <1>9, <4>2
    <3> HIDE DEF move
    <3>4. QED
      BY <3>2, <3>3
  <2> HIDE DEF move
  <2>3. QED
    BY <1>1, <2>1, <2>2
<1>13. field' \in [Cells -> [Fields -> Heap!Pointers]]
  BY DEF HeapInv, TypeOK, ClientTypeOK, Pointers, Heap!Pointers
<1>14. Heap!STW!EndCollect
  BY <1>1 DEF STW!EndCollect, Heap!STW!EndCollect
<1> HIDE DEF move
<1>15. QED
  BY <1>1, <1>2, <1>8, <1>10, <1>11, <1>12, <1>13, <1>14 DEF Heap!EndCollect

LEMMA CollectorImplements ==
    ASSUME HeapInv, HeapInv', GraphInv, SmallIsEmpty, SmallIsEmpty', Collector
    PROVE  Heap!BeginCollect \/ Heap!EndCollect \/ UNCHANGED Heap!vars
<1>1. phase # "compact" /\ phase' # "compact"
  BY DEF SmallIsEmpty, NothingIsCompacted
<1>2. CASE Marking
  <2>1. CASE BeginMark
    BY <1>2, <2>1, BeginMarkImplements
  <2>2. CASE ~BeginMark
    <3>1. /\ phase \in {"roots", "drain"} /\ phase' \in {"roots", "drain"}
          /\ UNCHANGED <<managed, pending, oop, request, terminated, before, active,
                         offset, chunk_size>>
      BY <1>2, <2>2 DEF Marking, MarkRoot, RootsMarked, MarkField, clientVars, spaceVars
    <3>2. QED
      BY <3>1, PlacesAreKept, CollectingImplements
  <2>3. QED
    BY <2>1, <2>2
<1>3. CASE Reallocate
  <2>1. /\ phase = "reallocate" /\ phase' = "reallocate"
        /\ Heads(active)' = Heads(active) /\ offset'["small"] = offset["small"]
        /\ UNCHANGED <<managed, pending, oop, request, terminated, before>>
    BY <1>3, ReallocateFacts DEF Reallocate, clientVars, markVars
  <2>2. Allocated' = Allocated
    BY <2>1 DEF Allocated, SmallAllocated, Small
  <2>3. QED
    BY <2>1, <2>2, CollectingImplements
<1>4. CASE BeginReallocate \/ SkipWhite \/ BeginCompact
  <2>1. /\ phase # "idle" /\ phase' # "idle"
        /\ UNCHANGED <<managed, pending, oop, request, terminated, before, active,
                       offset, chunk_size>>
    BY <1>4 DEF BeginReallocate, SkipWhite, Visit, BeginCompact, BeginUpdate, VisitDone,
       clientVars, markVars, spaceVars
  <2>2. QED
    BY <2>1, PlacesAreKept, CollectingImplements
<1>5. CASE UpdateRoot \/ RootsUpdated \/ UpdateField \/ BeginRelocate \/ Relocate
  <2>1. /\ phase # "idle" /\ phase' # "idle"
        /\ UNCHANGED <<managed, pending, oop, request, terminated, before, active,
                       offset, chunk_size>>
    BY <1>5 DEF UpdateRoot, RootsUpdated, UpdateField, BeginRelocate, Relocate, Visit,
       clientVars, markVars, spaceVars, compactVars
  <2>2. QED
    BY <2>1, PlacesAreKept, CollectingImplements
<1>6. CASE Compact \/ EndCompact
  BY <1>1, <1>6 DEF Compact, EndCompact
<1>7. CASE EndRelocate
  BY <1>7, EndRelocateImplements
<1>8. QED
  BY <1>2, <1>3, <1>4, <1>5, <1>6, <1>7 DEF Collector

(* A collection of the linear spaces is one step to its clients: exactly   *)
(* what the Handles reach is moved, each object to a place of its own, and *)
(* every pointer to it is led there.                                       *)
THEOREM Implementation == ASSUME NoSmallObjects PROVE Spec => ImplementsMovingHeap
<1>1. Init => Heap!Init
  <2> SUFFICES ASSUME Init PROVE Heap!Init
    OBVIOUS
  <2>1. ~collecting
    BY DEF Init, InitClient, STW!Init
  <2>2. Heap!InitClient
    BY <2>1 DEF Init, InitClient, Heap!InitClient, STW!Init, Heap!STW!Init, Blank,
       Heap!Blank
  <2>3. Allocated = {}
    <3>1. active \in Spaces /\ offset[active] = 0 /\ offset["small"] = 0
      BY SpacesAssumption DEF Init
    <3>2. QED
      BY <3>1 DEF Allocated, Heads, SmallAllocated
  <2>4. QED
    BY <2>2, <2>3 DEF Heap!Init
<1>2. HeapInv /\ HeapInv' /\ GraphInv /\ SmallIsEmpty /\ SmallIsEmpty' /\ [Next]_vars
         => [Heap!Next]_Heap!vars
  <2> SUFFICES ASSUME HeapInv, HeapInv', GraphInv, SmallIsEmpty, SmallIsEmpty',
                      [Next]_vars
               PROVE  [Heap!Next]_Heap!vars
    OBVIOUS
  <2>1. CASE UNCHANGED vars
    <3>1. UNCHANGED <<active, offset, chunk_size, before>>
      BY <2>1 DEF vars, spaceVars, compactVars
    <3>2. UNCHANGED Allocated
      BY <3>1, PlacesAreKept
    <3>3. QED
      BY <2>1, <3>1, <3>2 DEF vars, clientVars, Heap!vars
  <2>2. CASE Next
    <3>1. ASSUME NEW t \in Mutators, NEW n \in Sizes, AllocSmall(t, n) \/ AllocLinear(t, n)
          PROVE  Heap!Alloc(t, n)
      <4>1. PICK c \in Cells \ Allocated :
               AllocAt(t, n, c) /\ Allocated' = Allocated \cup {c}
        BY <3>1, AllocSmallAllocates, AllocLinearAllocates
      <4>2. QED
        BY <4>1, AllocImplements
    <3>2. QED
      BY <2>2, <3>1, MutateImplements, RefuseImplements, CollectorImplements
         DEF Next, Heap!Next
  <2>3. QED
    BY <2>1, <2>2
<1>3. QED
  BY <1>1, <1>2, Invariance, LinearInvariance, SmallStaysEmpty, PTL
     DEF Spec, ImplementsMovingHeap, Heap!Spec

-----------------------------------------------------------------------------
(* The promise of a moving collector is one that client code can rely on:  *)
(* whatever addresses the collections choose, no pointer ever leads to     *)
(* where no object is.  This is about MovingHeap itself, whatever          *)
(* implements it, with a variable of its own for the objects there are.    *)

VARIABLE objects

Moving == INSTANCE MovingHeap

(* The definitions of HeapClient mean the same in Moving. *)
LEMMA MovingIsClient ==
    /\ Moving!StackSlots = StackSlots
    /\ Moving!Reachable = Reachable
    /\ \A t \in Mutators : Moving!Client(t) => Client(t)
    /\ \A t \in Mutators, n \in Sizes :
          /\ Moving!AllocFails(t, n) => AllocFails(t, n)
          /\ Moving!OutOfMemory(t, n) => OutOfMemory(t, n)
          /\ \A c \in Cells : Moving!AllocSucceeds(t, n, c) => AllocSucceeds(t, n, c)
<1>1. Moving!StackSlots = StackSlots
  BY DEF Moving!StackSlots, StackSlots
<1>2. Moving!Reachable = Reachable
  BY DEF Moving!Reachable, Moving!Roots, Moving!StackSlots, Moving!Closed,
         Reachable, Roots, StackSlots, Closed
<1>3. ASSUME NEW t \in Mutators, Moving!Client(t) PROVE Client(t)
  BY <1>3
     DEF Client, Moving!Client, Resume, Moving!Resume, Stop, Moving!Stop, ForceGc,
         Moving!ForceGc, Push, Moving!Push, Leave, Moving!Leave, Assign,
         Moving!Assign, Load, Moving!Load, LoadField, Moving!LoadField, LoadNull,
         Moving!LoadNull, StoreField, Moving!StoreField, Ready, Moving!Ready,
         Running, Moving!Running, StackSlots, Moving!StackSlots, STW!Enter,
         Moving!STW!Enter, STW!Exit, Moving!STW!Exit, STW!Request,
         Moving!STW!Request
<1>4. ASSUME NEW t \in Mutators, NEW n \in Sizes
      PROVE  /\ Moving!AllocFails(t, n) => AllocFails(t, n)
             /\ Moving!OutOfMemory(t, n) => OutOfMemory(t, n)
             /\ \A c \in Cells :
                   Moving!AllocSucceeds(t, n, c) => AllocSucceeds(t, n, c)
  BY DEF AllocFails, Moving!AllocFails, OutOfMemory, Moving!OutOfMemory,
         AllocSucceeds, Moving!AllocSucceeds, Allocates, Moving!Allocates, Running,
         Moving!Running, Blank, Moving!Blank, STW!Request, Moving!STW!Request
<1>5. QED
  BY <1>1, <1>2, <1>3, <1>4

(* A collection finds no raw Oops, because the threads are stopped. *)
MovingInv ==
    /\ objects \in SUBSET Cells
    /\ ClientInv(objects)
    /\ collecting => managed = {}

LEMMA InitMovingInv == Moving!Init => MovingInv
<1> SUFFICES ASSUME Moving!Init PROVE MovingInv
  OBVIOUS
<1> USE SizesAssumption, MaxStackAssumption
<1> USE DEF Moving!Init, Moving!InitClient, Moving!STW!Init, Moving!Blank, Blank,
            Pointers
<1>1. collecting \in BOOLEAN /\ terminated \in BOOLEAN
  BY Zenon
<1>2. StackSlots = {}
  BY DEF StackSlots
<1>3. ClientTypeOK
  BY <1>1 DEF ClientTypeOK
<1>4. QED
  BY <1>2, <1>3 DEF MovingInv, ClientInv, Closed

(* Client code takes a step only while no collection runs. *)
LEMMA MovingClientIsIdle ==
    ASSUME MovingInv, NEW t \in Mutators, Client(t)
    PROVE  ~collecting /\ ~collecting'
<1>1. CASE Resume(t)
  BY <1>1 DEF Resume, STW!Enter
<1>2. CASE ~Resume(t)
  <2>1. t \in managed
    BY <1>2 DEF Client, Stop, ForceGc, Push, Leave, LoadNull, Assign, Load,
         LoadField, StoreField, Ready, Running, STW!Exit
  <2>2. UNCHANGED collecting
    BY <1>2 DEF Client, Stop, ForceGc, Push, Leave, LoadNull, Assign, Load,
         LoadField, StoreField, STW!Exit, STW!Request
  <2>3. QED
    BY <2>1, <2>2 DEF MovingInv
<1>3. QED
  BY <1>1, <1>2

LEMMA MovingMutate ==
    ASSUME MovingInv, NEW t \in Mutators, Moving!Mutate(t) PROVE MovingInv'
<1>1. PICK A \in SUBSET Cells : A = objects /\ A = objects' /\ ClientInv(A)
  BY DEF MovingInv, Moving!Mutate
<1>2. Client(t)
  BY MovingIsClient DEF Moving!Mutate
<1>3. ClientInv(A)' /\ ~collecting'
  BY <1>1, <1>2, ClientKeepsClientInv, MovingClientIsIdle
<1>4. QED
  BY <1>1, <1>3 DEF MovingInv, ClientInv

LEMMA MovingAlloc ==
    ASSUME MovingInv, NEW t \in Mutators, NEW n \in Sizes, Moving!Alloc(t, n)
    PROVE  MovingInv'
<1>1. PICK A \in SUBSET Cells : A = objects /\ ClientInv(A)
  BY DEF MovingInv
<1>2. PICK c \in Cells : AllocSucceeds(t, n, c) /\ objects' = A \cup {c}
  BY <1>1, MovingIsClient DEF Moving!Alloc
<1>3. ClientInv(A \cup {c})'
  BY <1>1, <1>2, AllocKeepsClientInv
<1>4. ~collecting'
  BY <1>2 DEF MovingInv, AllocSucceeds, Allocates, Running
<1>5. QED
  BY <1>2, <1>3, <1>4 DEF MovingInv, ClientInv

LEMMA MovingRefuse ==
    ASSUME MovingInv, NEW t \in Mutators, NEW n \in Sizes, Moving!Refuse(t, n)
    PROVE  MovingInv'
<1>1. PICK A \in SUBSET Cells : A = objects /\ A = objects' /\ ClientInv(A)
  BY DEF MovingInv, Moving!Refuse
<1>2. AllocFails(t, n) \/ OutOfMemory(t, n)
  BY MovingIsClient DEF Moving!Refuse
<1>3. ClientInv(A)'
  BY <1>1, <1>2, RefusalKeepsClientInv
<1>4. UNCHANGED <<managed, collecting>>
  BY <1>2 DEF AllocFails, OutOfMemory, STW!Request
<1>5. QED
  BY <1>1, <1>3, <1>4 DEF MovingInv, ClientInv

LEMMA MovingBeginCollect ==
    ASSUME MovingInv, Moving!BeginCollect PROVE MovingInv'
<1>1. collecting' \in BOOLEAN
  BY Zenon DEF Moving!BeginCollect, Moving!STW!BeginCollect
<1>2. QED
  BY <1>1 DEF Moving!BeginCollect, Moving!STW!BeginCollect, MovingInv, ClientInv,
              ClientTypeOK, StackSlots, Closed

(* Every pointer that is led somewhere is led to an object. *)
LEMMA MovingEndCollect == ASSUME MovingInv, Moving!EndCollect PROVE MovingInv'
<1> USE NullAssumption
<1>1. ClientTypeOK /\ managed = {}
  BY DEF MovingInv, ClientInv, Moving!EndCollect, Moving!STW!EndCollect
<1>2. /\ Reachable \subseteq Cells
      /\ Roots \subseteq Reachable
      /\ Closed(Reachable)
  BY <1>1, ReachableIsClosed
<1>3. PICK move \in [Reachable -> Cells] :
         /\ objects' = {move[c] : c \in Reachable}
         /\ stack' = [t \in Mutators |-> [i \in DOMAIN stack[t] |->
                                             Moving!Led(move, stack[t][i])]]
         /\ field' \in [Cells -> [Fields -> Pointers]]
         /\ \A c \in Reachable, f \in Fields :
               field'[move[c]][f] = Moving!Led(move, field[c][f])
  BY MovingIsClient DEF Moving!EndCollect, Moving!Injection, Moving!IsInjective,
     Moving!Pointers, Pointers
<1>4. UNCHANGED <<managed, oop, request, terminated>> /\ ~collecting'
  BY DEF Moving!EndCollect, Moving!STW!EndCollect
<1>5. pending' = {} /\ collecting' \in BOOLEAN
  BY Zenon DEF Moving!EndCollect, Moving!STW!EndCollect
<1>6. objects' \in SUBSET Cells
  BY <1>3
<1>7. ASSUME NEW p \in Reachable \cup {Null}
      PROVE  Moving!Led(move, p) \in objects' \cup {Null}
  BY <1>3, <1>7 DEF Moving!Led
<1>8. ASSUME NEW t \in Mutators, NEW i \in DOMAIN stack[t]
      PROVE  stack[t][i] \in Reachable \cup {Null}
  <2>1. stack[t] \in Seq(Pointers) /\ Len(stack[t]) <= MaxStack
    BY <1>1, <1>8 DEF ClientTypeOK
  <2>2. i \in 1 .. MaxStack /\ i <= Len(stack[t])
    BY <1>8, <2>1, MaxStackAssumption
  <2>3. <<t, i>> \in StackSlots
    BY <1>8, <2>2 DEF StackSlots
  <2>4. QED
    BY <1>2, <2>3 DEF Roots
<1>9. ASSUME NEW t \in Mutators
      PROVE  stack'[t] \in Seq(Pointers) /\ Len(stack'[t]) = Len(stack[t])
  <2>1. stack[t] \in Seq(Pointers)
    BY <1>1, <1>9 DEF ClientTypeOK
  <2>2. stack'[t] = [i \in 1 .. Len(stack[t]) |-> Moving!Led(move, stack[t][i])]
    BY <1>3, <1>9, <2>1
  <2>3. \A i \in 1 .. Len(stack[t]) : Moving!Led(move, stack[t][i]) \in Pointers
    BY <1>6, <1>7, <1>8, <1>9, <2>1 DEF Pointers
  <2>4. QED
    BY <2>1, <2>2, <2>3
<1>10. stack' \in [Mutators -> Seq(Pointers)]
  BY <1>3, <1>9
<1>11. ClientTypeOK'
  BY <1>1, <1>3, <1>4, <1>5, <1>9, <1>10 DEF ClientTypeOK
<1>12. ASSUME NEW s \in StackSlots'
       PROVE  stack'[s[1]][s[2]] \in objects' \cup {Null}
  <2>1. s[1] \in Mutators /\ s[2] \in DOMAIN stack[s[1]]
    BY <1>1, <1>9, <1>12 DEF StackSlots, ClientTypeOK
  <2>2. stack'[s[1]][s[2]] = Moving!Led(move, stack[s[1]][s[2]])
    BY <1>3, <2>1
  <2>3. QED
    BY <1>7, <1>8, <2>1, <2>2
<1>13. Closed(objects)'
  <2>1. ASSUME NEW c \in Reachable, NEW f \in Fields
        PROVE  field'[move[c]][f] \in objects' \cup {Null}
    BY <1>2, <1>3, <1>7, <2>1 DEF Closed
  <2>2. QED
    BY <1>3, <2>1 DEF Closed
<1>14. \A t \in Mutators : oop'[t] = Null
  BY <1>1, <1>4 DEF MovingInv, ClientInv
<1>15. QED
  BY <1>4, <1>6, <1>11, <1>12, <1>13, <1>14 DEF MovingInv, ClientInv

LEMMA MovingNext == ASSUME MovingInv, [Moving!Next]_(Moving!vars) PROVE MovingInv'
<1>1. CASE Moving!Next
  BY <1>1, MovingMutate, MovingAlloc, MovingRefuse, MovingBeginCollect,
     MovingEndCollect DEF Moving!Next
<1>2. CASE UNCHANGED Moving!vars
  BY <1>2 DEF Moving!vars, MovingInv, ClientInv, ClientTypeOK, StackSlots, Closed
<1>3. QED
  BY <1>1, <1>2

(* MovingInv holds in every reachable state of MovingHeap. *)
THEOREM MovingInvariance == Moving!Spec => []MovingInv
BY InitMovingInv, MovingNext, PTL DEF Moving!Spec

(* No pointer of a client leads to where no object is, whatever moves. *)
THEOREM NothingDangles == Moving!Spec => [](Moving!NoDangling)
<1>1. MovingInv => Moving!NoDangling
  BY MovingIsClient
     DEF MovingInv, ClientInv, Moving!NoDangling, Moving!Roots, Moving!StackSlots,
         StackSlots, Moving!Closed, Closed
<1>2. QED
  BY <1>1, MovingInvariance, PTL

=============================================================================
