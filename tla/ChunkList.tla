------------------------------ MODULE ChunkList ------------------------------
(***************************************************************************)
(* malloc_based::AllocInfo, the doubly linked list of the chunks of        *)
(* MallocBasedAllocator, with the links inside the chunks; free_if, which  *)
(* unlinks and frees chunks while it walks along it; and the destructor,   *)
(* which frees them all.                                                   *)
(*                                                                         *)
(* list and cursor are history variables: the sequence the links stand for *)
(* and the position of the walk in it.  They are what MarkSweep.tla has in *)
(* place of the links.                                                     *)
(***************************************************************************)
EXTENDS Integers, SequencesExt

CONSTANTS
    Chunks,                 \* the blocks that malloc can return
    Null                    \* nullptr

ASSUME NullAssumption == Null \notin Chunks

VARIABLES
    first, last,            \* AllocInfo
    next, prev,             \* the links, in each chunk
    allocated,              \* the blocks that malloc has returned
    walk,                   \* the walk along the list: Walks
    current,                \* i in the walk
    list, cursor            \* history

vars == <<first, last, next, prev, allocated, walk, current, list, cursor>>

Links == Chunks \cup {Null}

Walks == {"none", "free_if", "destroy", "destroyed"}

Init ==
    /\ first = Null
    /\ last = Null
    /\ next = [c \in Chunks |-> Null]
    /\ prev = [c \in Chunks |-> Null]
    /\ allocated = {}
    /\ walk = "none"
    /\ current = Null
    /\ list = <<>>
    /\ cursor = 1

-----------------------------------------------------------------------------
(* Faulty forms of operations below, for mutation.                         *)

(* Chunk::make() that leaves what was in the block before. *)
MadeDirty(link, c) == link

(* remove() that does not tell the next chunk, and one that does not look  *)
(* for nullptr before it writes through prev.                              *)
UnlinkKeepingPrev(c) ==
    /\ next' = IF prev[c] # Null THEN [next EXCEPT ![prev[c]] = next[c]] ELSE next
    /\ first' = IF prev[c] # Null THEN first ELSE next[c]
    /\ last' = IF next[c] # Null THEN last ELSE prev[c]
    /\ UNCHANGED prev

UnlinkThroughNull(c) ==
    /\ next' = (prev[c] :> next[c]) @@ next
    /\ first' = IF prev[c] # Null THEN first ELSE next[c]
    /\ prev' = IF next[c] # Null THEN [prev EXCEPT ![next[c]] = prev[c]] ELSE prev
    /\ last' = IF next[c] # Null THEN last ELSE prev[c]

(* append() that forgets to move last. *)
AppendKeepingLast(c) ==
    \/ /\ first = Null
       /\ first' = c
       /\ last' = c
       /\ UNCHANGED <<next, prev>>
    \/ /\ first # Null
       /\ next' = [next EXCEPT ![last] = c]
       /\ prev' = [prev EXCEPT ![c] = last]
       /\ UNCHANGED <<first, last>>

-----------------------------------------------------------------------------
(* AllocInfo.                                                              *)

(* Chunk::make: new(addr) Chunk() clears the links. *)
Made(link, c) == [link EXCEPT ![c] = Null]

(* append() of a chunk that has just been made. *)
LinkLast(c) ==
    /\ last' = c
    /\ \/ /\ first = Null
          /\ first' = c
          /\ next' = Made(next, c)
          /\ prev' = Made(prev, c)
       \/ /\ first # Null
          /\ next' = [Made(next, c) EXCEPT ![last] = c]
          /\ prev' = [Made(prev, c) EXCEPT ![c] = last]
          /\ UNCHANGED first

(* remove() *)
Unlink(c) ==
    /\ next' = IF prev[c] # Null THEN [next EXCEPT ![prev[c]] = next[c]] ELSE next
    /\ first' = IF prev[c] # Null THEN first ELSE next[c]
    /\ prev' = IF next[c] # Null THEN [prev EXCEPT ![next[c]] = prev[c]] ELSE prev
    /\ last' = IF next[c] # Null THEN last ELSE prev[c]

-----------------------------------------------------------------------------
(* MallocBasedAllocator: alloc, free_if with any predicate, the destructor.*)

Alloc(c) ==
    /\ walk = "none"
    /\ c \notin allocated
    /\ allocated' = allocated \cup {c}
    /\ LinkLast(c)
    /\ list' = Append(list, c)
    /\ UNCHANGED <<walk, current, cursor>>

Begin(w) ==
    /\ walk = "none"
    /\ walk' = w
    /\ current' = first
    /\ cursor' = 1
    /\ UNCHANGED <<first, last, next, prev, allocated, list>>

(* Faulty form: free_if() that steps over a chunk after it has freed one. *)
FreeCurrentAndSkip ==
    /\ walk = "free_if"
    /\ current # Null
    /\ Unlink(current)
    /\ allocated' = allocated \ {current}
    /\ current' = IF next[current] = Null THEN Null ELSE next[next[current]]
    /\ list' = RemoveAt(list, cursor)
    /\ UNCHANGED <<walk, cursor>>

(* remove() reads the next chunk before free() gives the chunk back. *)
FreeCurrent ==
    /\ walk = "free_if"
    /\ current # Null
    /\ Unlink(current)
    /\ allocated' = allocated \ {current}
    /\ current' = next[current]
    /\ list' = RemoveAt(list, cursor)
    /\ UNCHANGED <<walk, cursor>>

KeepCurrent ==
    /\ walk = "free_if"
    /\ current # Null
    /\ current' = next[current]
    /\ cursor' = cursor + 1
    /\ UNCHANGED <<first, last, next, prev, allocated, walk, list>>

EndFreeIf ==
    /\ walk = "free_if"
    /\ current = Null
    /\ walk' = "none"
    /\ UNCHANGED <<first, last, next, prev, allocated, current, list, cursor>>

DestroyCurrent ==
    /\ walk = "destroy"
    /\ current # Null
    /\ allocated' = allocated \ {current}
    /\ current' = next[current]
    /\ cursor' = cursor + 1
    /\ UNCHANGED <<first, last, next, prev, walk, list>>

EndDestroy ==
    /\ walk = "destroy"
    /\ current = Null
    /\ walk' = "destroyed"
    /\ UNCHANGED <<first, last, next, prev, allocated, current, list, cursor>>

Next == \/ \E c \in Chunks : Alloc(c)
        \/ \E w \in {"free_if", "destroy"} : Begin(w)
        \/ FreeCurrent \/ KeepCurrent \/ EndFreeIf
        \/ DestroyCurrent \/ EndDestroy

Spec == Init /\ [][Next]_vars

-----------------------------------------------------------------------------
(* Correctness.                                                            *)

(* Every variable keeps its type; nothing is written through nullptr. *)
TypeOK ==
    /\ first \in Links /\ last \in Links /\ current \in Links
    /\ next \in [Chunks -> Links] /\ prev \in [Chunks -> Links]
    /\ allocated \subseteq Chunks
    /\ walk \in Walks
    /\ list \in Seq(Chunks)
    /\ cursor \in Nat \ {0}

(* The links stand for the list: first and last are its ends, and next and *)
(* prev lead from each chunk to its neighbours.  append() and remove() keep*)
(* this though a block carries the links of its former life.               *)
Linked ==
    /\ first = IF list = <<>> THEN Null ELSE list[1]
    /\ last = IF list = <<>> THEN Null ELSE list[Len(list)]
    /\ \A i \in DOMAIN list :
          /\ next[list[i]] = IF i = Len(list) THEN Null ELSE list[i + 1]
          /\ prev[list[i]] = IF i = 1 THEN Null ELSE list[i - 1]

(* The list has the allocated chunks, each of them once; those before the  *)
(* cursor are gone when the destructor runs.  No chunk is missed, none is  *)
(* freed twice.                                                            *)
Present == IF walk \in {"destroy", "destroyed"} THEN cursor .. Len(list)
                                                ELSE 1 .. Len(list)

ListsAllocated ==
    /\ \A c \in Chunks : c \in allocated <=> \E i \in Present : list[i] = c
    /\ \A i, j \in DOMAIN list : list[i] = list[j] => i = j

(* A walk stands on the chunk it is at, never on one that has been freed,  *)
(* and stops at the end of the list and not before.                        *)
WalkIsExact ==
    /\ walk \in {"free_if", "destroy"} =>
          /\ cursor <= Len(list) + 1
          /\ current = IF cursor > Len(list) THEN Null ELSE list[cursor]
    /\ walk = "destroyed" => cursor > Len(list)

(* The destructor of MallocBasedAllocator leaves no block behind. *)
NothingLeaks == walk = "destroyed" => allocated = {}

(* Together they are inductive. *)
IInv == TypeOK /\ Linked /\ ListsAllocated /\ WalkIsExact

=============================================================================
