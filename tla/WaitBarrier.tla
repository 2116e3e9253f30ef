----------------------------- MODULE WaitBarrier -----------------------------
(***************************************************************************)
(* WaitBarrier with its mutex and its condition variable, and the variable *)
(* that the predicates look at, WorkerState::mode, which is stored outside *)
(* the mutex.  Any thread may store and notify, or wait.                   *)
(*                                                                         *)
(* pthread_cond_wait gives the mutex back and starts to wait in one step,  *)
(* may return without a broadcast, and takes the mutex before it returns.  *)
(***************************************************************************)
CONSTANTS
    Threads,
    Values,                 \* WorkerState::Mode
    Predicates,             \* each the set of the values that satisfy it
    InitialValue,
    NoOne                   \* the owner of a free mutex

ASSUME ValuesAssumption ==
    InitialValue \in Values /\ Predicates \subseteq SUBSET Values

ASSUME NoOneAssumption == NoOne \notin Threads

VARIABLES
    value,                  \* WorkerState::mode
    owner,                  \* of ready_mutex
    pc,
    want                    \* fn in the latest wait() of each thread

vars == <<value, owner, pc, want>>

PC == {"idle",
       "stored", "broadcast", "unlock",               \* notify
       "lock", "test", "block", "blocked", "leave"}   \* wait

(* The places where a thread owns the mutex. *)
Critical == {"broadcast", "unlock", "test", "block", "leave"}

Goto(t, from, to) == pc[t] = from /\ pc' = [pc EXCEPT ![t] = to]

Acquire(t) == owner = NoOne /\ owner' = t
Release == owner' = NoOne

Init ==
    /\ value = InitialValue
    /\ owner = NoOne
    /\ pc = [t \in Threads |-> "idle"]
    /\ want = [t \in Threads |-> {}]

-----------------------------------------------------------------------------
(* Faulty forms, for mutation: a notification that does not take the mutex,*)
(* pthread_cond_signal in place of pthread_cond_broadcast, a wait that     *)
(* tests before it takes the mutex, and one that forgets to give it back.  *)

NotifyUnlocked(t) ==
    /\ Goto(t, "stored", "broadcast")
    /\ UNCHANGED <<value, owner, want>>

SignalOne(t) ==
    /\ pc[t] = "broadcast"
    /\ \/ /\ \A u \in Threads : pc[u] # "blocked"
          /\ pc' = [pc EXCEPT ![t] = "unlock"]
       \/ \E u \in Threads :
             /\ pc[u] = "blocked"
             /\ pc' = [pc EXCEPT ![t] = "unlock", ![u] = "lock"]
    /\ UNCHANGED <<value, owner, want>>

WaitWithoutLock(t, p) ==
    /\ Goto(t, "idle", "test")
    /\ want' = [want EXCEPT ![t] = p]
    /\ UNCHANGED <<value, owner>>

LeaveLocked(t) ==
    /\ Goto(t, "leave", "idle")
    /\ UNCHANGED <<value, owner, want>>

-----------------------------------------------------------------------------
(* mode = ..., then notify().                                              *)

Store(t, v) ==
    /\ Goto(t, "idle", "stored")
    /\ value' = v
    /\ UNCHANGED <<owner, want>>

NotifyLock(t) ==
    /\ Goto(t, "stored", "broadcast")
    /\ Acquire(t)
    /\ UNCHANGED <<value, want>>

(* pthread_cond_broadcast: the threads that wait now go for the mutex. *)
Broadcast(t) ==
    /\ pc[t] = "broadcast"
    /\ pc' = [u \in Threads |-> IF u = t THEN "unlock"
                                ELSE IF pc[u] = "blocked" THEN "lock"
                                ELSE pc[u]]
    /\ UNCHANGED <<value, owner, want>>

NotifyUnlock(t) ==
    /\ Goto(t, "unlock", "idle")
    /\ Release
    /\ UNCHANGED <<value, want>>

-----------------------------------------------------------------------------
(* wait(fn).                                                               *)

Wait(t, p) ==
    /\ Goto(t, "idle", "lock")
    /\ want' = [want EXCEPT ![t] = p]
    /\ UNCHANGED <<value, owner>>

(* pthread_mutex_lock, or the end of pthread_cond_wait. *)
WaitLock(t) ==
    /\ Goto(t, "lock", "test")
    /\ Acquire(t)
    /\ UNCHANGED <<value, want>>

Test(t) ==
    /\ \/ value \in want[t] /\ Goto(t, "test", "leave")
       \/ value \notin want[t] /\ Goto(t, "test", "block")
    /\ UNCHANGED <<value, owner, want>>

Block(t) ==
    /\ Goto(t, "block", "blocked")
    /\ Release
    /\ UNCHANGED <<value, want>>

SpuriousWakeup(t) ==
    /\ Goto(t, "blocked", "lock")
    /\ UNCHANGED <<value, owner, want>>

WaitUnlock(t) ==
    /\ Goto(t, "leave", "idle")
    /\ Release
    /\ UNCHANGED <<value, want>>

Next == \E t \in Threads :
           \/ \E v \in Values : Store(t, v)
           \/ \E p \in Predicates : Wait(t, p)
           \/ NotifyLock(t) \/ Broadcast(t) \/ NotifyUnlock(t)
           \/ WaitLock(t) \/ Test(t) \/ Block(t) \/ SpuriousWakeup(t)
           \/ WaitUnlock(t)

Spec == Init /\ [][Next]_vars

(* A call that has begun goes on, and a thread that keeps finding the mutex*)
(* free takes it in the end; that a thread stores or waits, or wakes up    *)
(* spuriously, is not to be counted on.                                    *)
FairSpec ==
    /\ Spec
    /\ \A t \in Threads :
          /\ SF_vars(NotifyLock(t)) /\ WF_vars(Broadcast(t))
          /\ WF_vars(NotifyUnlock(t)) /\ SF_vars(WaitLock(t))
          /\ WF_vars(Test(t)) /\ WF_vars(Block(t)) /\ WF_vars(WaitUnlock(t))

-----------------------------------------------------------------------------
(* Correctness.                                                            *)

(* Every variable keeps its type. *)
TypeOK ==
    /\ value \in Values
    /\ owner \in Threads \cup {NoOne}
    /\ pc \in [Threads -> PC]
    /\ want \in [Threads -> SUBSET Values]

Waiting(t) == pc[t] \in {"lock", "test", "block", "blocked"}

(* The threads whose predicate was false when they looked and that will not*)
(* look again unless they are woken up.                                    *)
Asleep == {t \in Threads : pc[t] \in {"block", "blocked"}}

(* When the predicate of a thread that sleeps has become true, the thread  *)
(* that made it true has not broadcast yet: storing the mode outside the   *)
(* mutex loses no wakeup.                                                  *)
NoLostWakeup ==
    \A t \in Asleep : value \in want[t] =>
        \E s \in Threads : pc[s] \in {"stored", "broadcast"}

(* The inductive invariant: exactly one thread is where it owns the mutex. *)
IInv ==
    /\ TypeOK
    /\ \A t \in Threads : pc[t] \in Critical <=> owner = t
    /\ NoLostWakeup

(* A thread does not wait for ever while its predicate stays true. *)
WaitReturns ==
    \A t \in Threads : ~<>[](Waiting(t) /\ value \in want[t])

(* The barrier is the one that Safepoint.tla takes for granted. *)
Barrier == INSTANCE AtomicBarrier WITH
    waitset <- Asleep,
    calling <- [t \in Threads |->
                   IF Waiting(t) THEN "wait"
                   ELSE IF pc[t] \in {"stored", "broadcast"} THEN "notify"
                   ELSE "none"]

ImplementsAtomicBarrier == Barrier!Spec

=============================================================================
