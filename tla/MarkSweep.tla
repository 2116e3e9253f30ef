------------------------------ MODULE MarkSweep ------------------------------
(***************************************************************************)
(* The heap of MarkAndSweepCollector: MallocBasedAllocator keeps the chunks*)
(* it got from malloc in a list and limits the bytes they take; collect()  *)
(* marks, then walks the list and frees the chunks that are still white.   *)
(*                                                                         *)
(* The list is the sequence that AllocInfo implements (ChunkList.tla).     *)
(* malloc is external: it returns any block that is not in use, whose      *)
(* usable size is any of Sizes, and never fails.                           *)
(***************************************************************************)
EXTENDS Mark, SequencesExt

CONSTANT MaxSize            \* MallocBasedAllocator::max_size

ASSUME MaxSizeAssumption == MaxSize \in Nat

VARIABLES
    chunks,                 \* allocInfo
    size,                   \* malloc_usable_size of each chunk
    allocation_count, allocated_size,   \* stat
    cursor                  \* where free_if is in the list

allocVars == <<chunks, size, allocation_count, allocated_size>>
vars == <<clientVars, markVars, allocVars, cursor>>

Allocated == Range(chunks)

Init ==
    /\ InitClient
    /\ InitMark
    /\ chunks = <<>>
    /\ size = [c \in Cells |-> 0]
    /\ allocation_count = 0
    /\ allocated_size = 0
    /\ cursor = 1

-----------------------------------------------------------------------------
(* MallocBasedAllocator.                                                   *)

(* Faulty form: the limit is tested without the new chunk. *)
FitsBefore(n) == allocated_size < MaxSize

Fits(n) == allocated_size + n <= MaxSize

(* MallocBasedAllocator::alloc, under its lock; the mark word is zeroed.   *)
Alloc(t, n) ==
    /\ Fits(n)
    /\ \E c \in Cells \ Allocated :
          /\ AllocSucceeds(t, n, c)
          /\ chunks' = Append(chunks, c)
          /\ size' = [size EXCEPT ![c] = n]
          /\ color' = [color EXCEPT ![c] = "White"]
    /\ allocation_count' = allocation_count + 1
    /\ allocated_size' = allocated_size + n
    /\ UNCHANGED <<phase, roots, worklist, cursor>>

Refuse(t, n) ==
    /\ ~Fits(n)
    /\ AllocFails(t, n) \/ OutOfMemory(t, n)
    /\ UNCHANGED <<markVars, allocVars, cursor>>

Mutate(t) == Client(t) /\ UNCHANGED <<markVars, allocVars, cursor>>

-----------------------------------------------------------------------------
(* MarkAndSweepCollector::collect.                                         *)

Marking == /\ BeginMark \/ MarkRoot \/ RootsMarked \/ MarkField
           /\ UNCHANGED <<allocVars, cursor>>

(* Faulty forms: a walk that steps over the chunk behind one that it frees,*)
(* one that forgets to clean the mark word, one that stops a chunk early.  *)
SweepWhiteSkips ==
    /\ phase = "sweep"
    /\ cursor <= Len(chunks)
    /\ color[chunks[cursor]] = "White"
    /\ chunks' = RemoveAt(chunks, cursor)
    /\ allocation_count' = allocation_count - 1
    /\ allocated_size' = allocated_size - size[chunks[cursor]]
    /\ cursor' = cursor + 1
    /\ UNCHANGED <<clientVars, markVars, size>>

SweepBlackKeepsColor ==
    /\ phase = "sweep"
    /\ cursor <= Len(chunks)
    /\ color[chunks[cursor]] = "Black"
    /\ cursor' = cursor + 1
    /\ UNCHANGED <<clientVars, markVars, allocVars>>

EndSweepEarly ==
    /\ phase = "sweep"
    /\ cursor >= Len(chunks)
    /\ STW!EndCollect
    /\ phase' = "idle"
    /\ UNCHANGED <<stack, oop, field, request, terminated, roots, worklist,
                   color, allocVars, cursor>>

(* Mark returns, Sweep begins: free_if at the first chunk. *)
BeginSweep ==
    /\ phase = "drain"
    /\ worklist = {}
    /\ phase' = "sweep"
    /\ cursor' = 1
    /\ UNCHANGED <<clientVars, roots, worklist, color, allocVars>>

SweepWhite ==
    /\ phase = "sweep"
    /\ cursor <= Len(chunks)
    /\ color[chunks[cursor]] = "White"
    /\ chunks' = RemoveAt(chunks, cursor)
    /\ allocation_count' = allocation_count - 1
    /\ allocated_size' = allocated_size - size[chunks[cursor]]
    /\ UNCHANGED <<clientVars, markVars, size, cursor>>

SweepBlack ==
    /\ phase = "sweep"
    /\ cursor <= Len(chunks)
    /\ color[chunks[cursor]] = "Black"
    /\ color' = [color EXCEPT ![chunks[cursor]] = "White"]
    /\ cursor' = cursor + 1
    /\ UNCHANGED <<clientVars, phase, roots, worklist, allocVars>>

EndSweep ==
    /\ phase = "sweep"
    /\ cursor > Len(chunks)
    /\ STW!EndCollect
    /\ phase' = "idle"
    /\ UNCHANGED <<stack, oop, field, request, terminated, roots, worklist,
                   color, allocVars, cursor>>

Collector == Marking \/ BeginSweep \/ SweepWhite \/ SweepBlack \/ EndSweep

Next == /\ ~terminated
        /\ \/ \E t \in Mutators : Mutate(t)
           \/ \E t \in Mutators, n \in Sizes : Alloc(t, n) \/ Refuse(t, n)
           \/ Collector

Spec == Init /\ [][Next]_vars

(* The worker runs while the world is stopped. *)
FairSpec == Spec /\ WF_vars(~terminated /\ Collector)

=============================================================================
