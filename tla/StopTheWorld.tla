---------------------------- MODULE StopTheWorld ----------------------------
(***************************************************************************)
(* What gccpp::Environment promises to a collector and to the threads that *)
(* use the heap, with nothing said of locks, flags or condition variables: *)
(* a collection only happens while no thread is using the heap, only       *)
(* because some thread asked for one, and a thread that asked resumes only *)
(* after a collection that started later than its request.                 *)
(*                                                                         *)
(* Safepoint.tla is the protocol of the code that keeps this promise.      *)
(***************************************************************************)

CONSTANT Mutators           \* the threads that use the collected heap

VARIABLES
    managed,                \* the threads that may touch the heap now
    collecting,             \* TRUE while BasicCollector::collect() runs
    pending                 \* the threads whose force_gc() is not yet served

vars == <<managed, collecting, pending>>

Init == /\ managed = {}
        /\ collecting = FALSE
        /\ pending = {}

(* A thread starts, or starts again, to use the heap. *)
Enter(t) == /\ ~collecting
            /\ t \notin managed
            /\ t \notin pending
            /\ managed' = managed \cup {t}
            /\ UNCHANGED <<collecting, pending>>

(* A thread stops at a safepoint, goes into unmanaged code or ends. *)
Exit(t) == /\ t \in managed
           /\ managed' = managed \ {t}
           /\ UNCHANGED <<collecting, pending>>

(* A thread that uses the heap asks for a collection. *)
Request(t) == /\ t \in managed
              /\ pending' = pending \cup {t}
              /\ UNCHANGED <<managed, collecting>>

BeginCollect == /\ ~collecting
                /\ managed = {}
                /\ pending # {}
                /\ collecting' = TRUE
                /\ UNCHANGED <<managed, pending>>

(* One collection serves every request made before it began. *)
EndCollect == /\ collecting
              /\ collecting' = FALSE
              /\ pending' = {}
              /\ UNCHANGED managed

Next == \/ \E t \in Mutators : Enter(t) \/ Exit(t) \/ Request(t)
        \/ BeginCollect
        \/ EndCollect

Spec == Init /\ [][Next]_vars

=============================================================================
