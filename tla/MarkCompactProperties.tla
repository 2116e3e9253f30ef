------------------------ MODULE MarkCompactProperties ------------------------
(***************************************************************************)
(* What the mark-and-compact heap must guarantee.                          *)
(***************************************************************************)
EXTENDS MarkCompact

(* The objects that a space holds, and what alloc() has given out. *)
Heads(space) == {c \in {space} \X (0 .. offset[space] - 1) : chunk_size[c] # 0}
SmallAllocated == {Small(i) : i \in 0 .. offset["small"] - 1}
Allocated == Heads(active) \cup SmallAllocated

(* Every variable keeps its type, and no space runs over.                  *)
TypeOK ==
    /\ ClientTypeOK
    /\ phase \in {"idle", "roots", "drain", "reallocate", "compact",
                  "update_roots", "update_fields", "relocate"}
    /\ roots \subseteq StackSlots
    /\ worklist \subseteq FieldSlots
    /\ color \in [Cells -> {"White", "Black"}]
    /\ active \in Spaces
    /\ offset \in [Spaces \cup {"small"} -> Nat]
    /\ \A r \in Spaces : offset[r] <= SpaceSize
    /\ offset["small"] <= SmallSlots
    /\ chunk_size \in [Cells -> Sizes \cup {0}]
    /\ forward \in [Cells -> Pointers]
    /\ cursor \in 0 .. SpaceSize
    /\ freed \in 0 .. SmallSlots
    /\ dirty \in -1 .. SmallSlots - 1

-----------------------------------------------------------------------------
(* Between two collections.                                                *)

(* What a Handle refers to is inside the allocated part of its space, so   *)
(* that alloc() never gives it out a second time.                          *)
HandlesAreAllocated ==
    phase = "idle" => Roots \subseteq Allocated

SpaceIsTiled(r) ==
    /\ offset[r] # 0 => <<r, 0>> \in Heads(r)
    /\ \A c \in Heads(r) :
          LET next == c[2] + chunk_size[c]
          IN  /\ next = offset[r] \/ <<r, next>> \in Heads(r)
              /\ \A i \in c[2] + 1 .. next - 1 : <<r, i>> \notin Heads(r)

(* Each space is tiled by its chunks, which is what visit() walks along;   *)
(* the free space is empty but for the time of a collection.               *)
SpacesAreTiled ==
    /\ \A r \in Spaces : SpaceIsTiled(r)
    /\ phase \in {"idle", "roots", "drain"} => offset[Free] = 0

-----------------------------------------------------------------------------
(* During a collection.                                                    *)

(* The assertions of Reallocate and Relocate: the free space has room for  *)
(* every survivor, no forwarding pointer is left over from the collection  *)
(* before, and none is missing when the survivors are copied.              *)
AssertionsHold ==
    /\ phase = "reallocate" /\ cursor < offset[active] /\ color[Visited] = "Black" =>
          /\ FitsIn(Free, chunk_size[Visited])
          /\ forward[Visited] = Null
    /\ phase = "relocate" /\ cursor < offset[active] /\ color[Visited] = "Black" =>
          forward[Visited] # Null

(* Where an object of the heap that collect() began with is after it.      *)
Moved(c) == IF c = Null THEN Null ELSE Target(c)

Relocated == phase = "relocate" /\ cursor >= offset[active]

(* The graph that the Handles see is the one from before the collection:   *)
(* each Handle and each field of a survivor was led to the new place of    *)
(* what it referred to, and no two survivors were put in the same place.   *)
GraphIsPreserved ==
    Relocated =>
        /\ \A s \in StackSlots :
              stack[s[1]][s[2]] = Moved(before.stack[s[1]][s[2]])
        /\ \A c \in before.live, f \in Fields :
              field[Moved(c)][f] = Moved(before.field[c][f])
        /\ \A c, d \in before.live : Moved(c) = Moved(d) => c = d

(* compact() copies over garbage only: as long as its fingers move, every  *)
(* reachable object is still as it was.  Only a collection that began with *)
(* a mark on one of these objects, which Mark took for one it had visited, *)
(* need not find them all; compact() itself leaves such marks behind.      *)
SurvivorsAreIntact ==
    phase = "compact" /\ before.marked = {} =>
        \A c \in before.live : field[c] = before.field[c]

(* What the collector implements: to the threads that were stopped, the    *)
(* collection is one step, that of its end.                                *)
Heap == INSTANCE MovingHeap WITH
           stack <- IF collecting THEN before.stack ELSE stack,
           field <- IF collecting THEN before.field ELSE field,
           objects <- Allocated

(* The collector of the linear spaces implements MovingHeap: exactly the   *)
(* objects that the Handles reach are moved, each to a place of its own,   *)
(* and every pointer to them is led there.                                 *)
ImplementsMovingHeap == Heap!Spec

-----------------------------------------------------------------------------
(* Liveness.                                                               *)

(* collect() returns, whatever cycles there are in the heap.               *)
CollectionEnds == collecting ~> ~collecting

=============================================================================
