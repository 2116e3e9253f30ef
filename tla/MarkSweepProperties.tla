------------------------- MODULE MarkSweepProperties -------------------------
(***************************************************************************)
(* What the mark-and-sweep heap must guarantee.                            *)
(***************************************************************************)
EXTENDS MarkSweep

-----------------------------------------------------------------------------
(* Types.                                                                  *)

MarkTypeOK ==
    /\ phase \in {"idle", "roots", "drain", "sweep"}
    /\ roots \subseteq StackSlots
    /\ worklist \subseteq FieldSlots
    /\ color \in [Cells -> {"White", "Black"}]

(* Every variable keeps its type, the stacks stay inside their bound, and  *)
(* free_if, which shortens the list as it goes, does not step over its end.*)
TypeOK ==
    /\ ClientTypeOK
    /\ MarkTypeOK
    /\ chunks \in Seq(Cells)
    /\ size \in [Cells -> Nat]
    /\ allocation_count \in Nat
    /\ allocated_size \in Int
    /\ cursor \in Nat \ {0}
    /\ phase = "sweep" => cursor <= Len(chunks) + 1

-----------------------------------------------------------------------------
(* Safety.                                                                 *)

(* No thread holds a pointer to memory that has been freed: not in a Handle*)
(* or a raw Oop, nor in an object, be it garbage, except while free_if is  *)
(* on its way through the garbage.                                         *)
NoDangling ==
    /\ \A s \in StackSlots : stack[s[1]][s[2]] \in Allocated \cup {Null}
    /\ \A t \in Mutators : oop[t] \in Allocated \cup {Null}
    /\ phase # "sweep" => Closed(Allocated)

(* Mark never loses an edge: what a black object refers to is black or is  *)
(* reached by a slot still in the worklist, and the roots that have been   *)
(* visited are black.                                                      *)
NoBlackToWhite ==
    phase \in {"roots", "drain"} =>
        /\ \A c \in Cells : color[c] = "Black" =>
              \A f \in Fields : \/ field[c][f] = Null
                                \/ color[field[c][f]] = "Black"
                                \/ <<c, f>> \in worklist
        /\ \A s \in StackSlots \ roots : \/ stack[s[1]][s[2]] = Null
                                         \/ color[stack[s[1]][s[2]]] = "Black"

(* Sweep finds the reachable objects black and all the others white, and   *)
(* leaves every object that stays white for the next collection: no color  *)
(* is left over from one collection to the next.                           *)
MarkIsExact ==
    /\ phase = "sweep" => \A i \in DOMAIN chunks :
          IF i < cursor
          THEN color[chunks[i]] = "White" /\ chunks[i] \in Reachable
          ELSE color[chunks[i]] = "Black" <=> chunks[i] \in Reachable
    /\ phase = "idle" => \A c \in Allocated : color[c] = "White"

(* The statistics follow the list exactly: bytes freed are those that were *)
(* counted when the chunk was allocated, and the limit is kept.            *)
StatisticsAreExact ==
    /\ allocation_count = Len(chunks)
    /\ allocated_size = MapThenSumSet(LAMBDA c : size[c], Allocated)
    /\ allocated_size <= MaxSize

(* What it takes besides for the three properties above to be inductive.   *)
WorldIsStopped ==
    /\ collecting <=> phase # "idle"
    /\ collecting => managed = {}
    /\ \A t \in Mutators \ managed : oop[t] = Null

(* Only what a Handle reaches is marked, and the worklist has nothing that *)
(* is not marked.                                                          *)
MarkingIsBounded ==
    /\ phase # "roots" => roots = {}
    /\ phase \notin {"roots", "drain"} => worklist = {}
    /\ phase \in {"roots", "drain"} =>
          /\ \A c \in Cells : color[c] = "Black" => c \in Reachable
          /\ \A s \in worklist : /\ color[s[1]] = "Black"
                                 /\ field[s[1]][s[2]] # Null

(* Sweep has still before it every chunk that is black. *)
SweepIsAhead ==
    /\ phase = "sweep" =>
          /\ Reachable \subseteq Allocated
          /\ \A c \in Cells : color[c] = "Black" =>
                \E i \in cursor .. Len(chunks) : chunks[i] = c
    /\ phase = "idle" => \A c \in Cells : color[c] = "White"

ListIsExact ==
    /\ allocation_count = Len(chunks)
    /\ \A i, j \in DOMAIN chunks : chunks[i] = chunks[j] => i = j

(* The inductive invariant: the worker has the heap for itself, and at each*)
(* moment of a collection the colors, the worklist and the cursor together *)
(* account for every reachable object.                                     *)
IInv ==
    /\ TypeOK /\ WorldIsStopped /\ NoDangling /\ NoBlackToWhite /\ MarkIsExact
    /\ MarkingIsBounded /\ SweepIsAhead /\ ListIsExact

(* Mark and sweep implement ManagedHeap: a collection is invisible but for *)
(* the garbage that is gone.                                               *)
Heap == INSTANCE ManagedHeap WITH
           objects <- IF collecting THEN Reachable ELSE Allocated

ImplementsManagedHeap == Heap!Spec

-----------------------------------------------------------------------------
(* Liveness.                                                               *)

(* collect() returns, whatever cycles there are in the heap.               *)
CollectionEnds == collecting ~> ~collecting

=============================================================================
