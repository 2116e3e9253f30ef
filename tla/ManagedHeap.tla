---------------------------- MODULE ManagedHeap ----------------------------
(***************************************************************************)
(* What gccpp promises about the heap: an allocation returns an object that*)
(* no one uses, with empty fields, and a collection takes away exactly the *)
(* objects that no Handle reaches.  The rest is left as it was: a Cell     *)
(* stands for the identity of an object, wherever it is in memory.         *)
(***************************************************************************)
EXTENDS HeapClient

VARIABLE objects            \* the objects that have not been reclaimed

vars == <<managed, collecting, pending, stack, oop, field, request, terminated,
          objects>>

Init == InitClient /\ objects = {}

Alloc(t, n) == \E c \in Cells \ objects :
                  /\ AllocSucceeds(t, n, c)
                  /\ objects' = objects \cup {c}

Mutate(t) == Client(t) /\ UNCHANGED objects

Refuse(t, n) == (AllocFails(t, n) \/ OutOfMemory(t, n)) /\ UNCHANGED objects

BeginCollect ==
    /\ STW!BeginCollect
    /\ objects' = Reachable
    /\ UNCHANGED <<stack, oop, field, request, terminated>>

EndCollect ==
    /\ STW!EndCollect
    /\ UNCHANGED <<stack, oop, field, request, terminated, objects>>

Next == /\ ~terminated
        /\ \/ \E t \in Mutators : Mutate(t)
           \/ \E t \in Mutators, n \in Sizes : Alloc(t, n) \/ Refuse(t, n)
           \/ BeginCollect
           \/ EndCollect

Spec == Init /\ [][Next]_vars

=============================================================================
