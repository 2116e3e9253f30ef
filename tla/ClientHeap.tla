------------------------------ MODULE ClientHeap ------------------------------
(***************************************************************************)
(* The heap as the client's containers use it: objects with a trace(), and *)
(* Environment::raw_alloc, which may collect before it returns.            *)
(*                                                                         *)
(* An object has an identity, a Ref, wherever it is in memory.  A Handle,  *)
(* the fields of an object and an Oop that is still good hold its Ref.  A  *)
(* collection makes a raw Oop Stale when it moves the object away from     *)
(* under it (MovingHeap) or takes the object itself (ManagedHeap), because *)
(* no Handle reaches it.                                                   *)
(***************************************************************************)
EXTENDS ShadowStack

CONSTANTS
    MaxObjects,             \* bound: the objects there can be at one time
    Null, Stale

Refs == 1 .. MaxObjects

ASSUME RefsAssumption ==
    MaxObjects \in Nat /\ Null \notin Refs /\ Stale \notin Refs \cup {Null}

VARIABLES
    moving,                 \* the collector is MarkAndCompactCollector
    object,                 \* what each Ref stands for
    oop,                    \* the raw Oop that the last call has returned
    raw                     \* the `this` or the Oop argument of the call at work

heapVars == <<moving, object, oop, raw>>

(* An object: its class, the Oops its trace() visits, and its other data. *)
Object(class, ref, val) == [class |-> class, ref |-> ref, val |-> val]

Free == Object("Free", <<>>, 0)
InUse == {r \in Refs : object[r] # Free}

InitHeap ==
    /\ moving \in BOOLEAN
    /\ object = [r \in Refs |-> Free]
    /\ oop = Null
    /\ raw = Null

(* What the trace() of r's class visits. *)
Trace(r) == Range(object[r].ref)

(* The set with all that the fields of its objects lead to. *)
Closure[S \in SUBSET (Refs \cup {Stale})] ==
    LET wider == S \cup ((UNION {Trace(r) : r \in S \ {Stale}}) \ {Null})
    IN  IF wider = S THEN S ELSE Closure[wider]

(* What the Handles reach. *)
Reachable == Closure[Range(slots) \ {Null}]

(* What a raw Oop may be after a collection, if the Handles have reached   *)
(* reached: a collector that moves objects need not move every one.        *)
Collected(p, reached) ==
    IF p = Null THEN {Null}
    ELSE IF p \notin reached THEN {Stale}
    ELSE IF moving THEN {p, Stale} ELSE {p}

(* raw_alloc with the storage of a new object at r, where nothing was but  *)
(* the objects in kept.                                                    *)
Place(obj, r, kept) ==
    /\ oop' = r
    /\ object' = [q \in Refs |-> IF q = r THEN obj
                                ELSE IF q \in kept THEN object[q] ELSE Free]
    /\ UNCHANGED moving

(* The allocator has a place at once, or there is a collection first, which*)
(* must not meet a Stale reference.                                        *)
Alloc(obj) ==
    \/ /\ InUse # Refs
       /\ Place(obj, Min(Refs \ InUse), InUse)
       /\ UNCHANGED raw
    \/ LET reached == Reachable
       IN  /\ Stale \notin reached
           /\ reached # Refs
           /\ Place(obj, Min(Refs \ reached), reached)
           /\ raw' \in Collected(raw, reached)

=============================================================================
