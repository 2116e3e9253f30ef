---------------------------- MODULE AtomicBarrier ----------------------------
(***************************************************************************)
(* A WaitBarrier whose wait() and notify() take one step each, as they do  *)
(* in Safepoint.tla: a thread tests its predicate and, if it is false, is  *)
(* in the wait set at once; a notification empties the wait set.  A value  *)
(* is stored in one step and notified in a later one.                      *)
(***************************************************************************)
CONSTANTS
    Threads,
    Values,                 \* of the variable that predicates look at
    Predicates,             \* each the set of the values that satisfy it
    InitialValue

VARIABLES
    value,
    calling,                \* what each thread is doing: Calls
    want,                   \* the predicate of its latest wait()
    waitset

vars == <<value, calling, want, waitset>>

Calls == {"none", "notify", "wait"}

Init ==
    /\ value = InitialValue
    /\ calling = [t \in Threads |-> "none"]
    /\ want = [t \in Threads |-> {}]
    /\ waitset = {}

Store(t, v) ==
    /\ calling[t] = "none"
    /\ calling' = [calling EXCEPT ![t] = "notify"]
    /\ value' = v
    /\ UNCHANGED <<want, waitset>>

Notify(t) ==
    /\ calling[t] = "notify"
    /\ calling' = [calling EXCEPT ![t] = "none"]
    /\ waitset' = {}
    /\ UNCHANGED <<value, want>>

Wait(t, p) ==
    /\ calling[t] = "none"
    /\ calling' = [calling EXCEPT ![t] = "wait"]
    /\ want' = [want EXCEPT ![t] = p]
    /\ UNCHANGED <<value, waitset>>

Pass(t) ==
    /\ calling[t] = "wait"
    /\ t \notin waitset
    /\ value \in want[t]
    /\ calling' = [calling EXCEPT ![t] = "none"]
    /\ UNCHANGED <<value, want, waitset>>

Join(t) ==
    /\ calling[t] = "wait"
    /\ t \notin waitset
    /\ value \notin want[t]
    /\ waitset' = waitset \cup {t}
    /\ UNCHANGED <<value, calling, want>>

Wakeup(t) ==
    /\ t \in waitset
    /\ waitset' = waitset \ {t}
    /\ UNCHANGED <<value, calling, want>>

Next == \E t \in Threads :
           \/ \E v \in Values : Store(t, v)
           \/ \E p \in Predicates : Wait(t, p)
           \/ Notify(t) \/ Pass(t) \/ Join(t) \/ Wakeup(t)

Spec == Init /\ [][Next]_vars

=============================================================================
