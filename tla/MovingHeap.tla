----------------------------- MODULE MovingHeap -----------------------------
(***************************************************************************)
(* What a collector that moves objects promises.  A Cell is an address: an *)
(* allocation returns one where no object is, and a collection gives every *)
(* object that a Handle reaches an address of its own, leads all Handles   *)
(* and all fields of these objects there, and lets the other objects go.   *)
(* A raw Oop is led nowhere, which is why no thread has one at that time.  *)
(***************************************************************************)
EXTENDS HeapClient, Functions

VARIABLE objects            \* the addresses of the objects there are

vars == <<managed, collecting, pending, stack, oop, field, request, terminated,
          objects>>

Init == InitClient /\ objects = {}

Alloc(t, n) ==
    /\ Allocates(t, n)
    /\ \E c \in Cells \ objects :
          /\ AllocSucceeds(t, n, c)
          /\ objects' = objects \cup {c}

Mutate(t) == Client(t) /\ UNCHANGED objects

Refuse(t, n) == (AllocFails(t, n) \/ OutOfMemory(t, n)) /\ UNCHANGED objects

BeginCollect ==
    /\ STW!BeginCollect
    /\ UNCHANGED <<stack, oop, field, request, terminated, objects>>

(* Where pointer p leads when the object at c has gone to move[c]. *)
Led(move, p) == IF p = Null THEN Null ELSE move[p]

(* What was in memory outside the objects is undefined after it. *)
EndCollect ==
    /\ STW!EndCollect
    /\ \E move \in Injection(Reachable, Cells) :
          /\ objects' = {move[c] : c \in Reachable}
          /\ stack' = [t \in Mutators |-> [i \in DOMAIN stack[t] |->
                                              Led(move, stack[t][i])]]
          /\ field' \in [Cells -> [Fields -> Pointers]]
          /\ \A c \in Reachable, f \in Fields :
                field'[move[c]][f] = Led(move, field[c][f])
    /\ UNCHANGED <<oop, request, terminated>>

Next == /\ ~terminated
        /\ \/ \E t \in Mutators : Mutate(t)
           \/ \E t \in Mutators, n \in Sizes : Alloc(t, n) \/ Refuse(t, n)
           \/ BeginCollect
           \/ EndCollect

Spec == Init /\ [][Next]_vars

-----------------------------------------------------------------------------
(* No thread holds a pointer to where no object is, in a Handle, in a raw  *)
(* Oop or in an object, be it garbage: a collection that moves objects has *)
(* led every pointer after them.                                           *)
NoDangling ==
    /\ Roots \subseteq objects
    /\ \A t \in Mutators : oop[t] \in objects \cup {Null}
    /\ Closed(objects)

=============================================================================
