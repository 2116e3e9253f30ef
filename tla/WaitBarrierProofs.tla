-------------------------- MODULE WaitBarrierProofs --------------------------
(***************************************************************************)
(* WaitBarrier loses no wakeup and implements the atomic barrier, for      *)
(* every number of threads and whatever the predicates are.                *)
(***************************************************************************)
EXTENDS WaitBarrier, TLAPS

LEMMA InitIInv == Init => IInv
BY ValuesAssumption, NoOneAssumption
   DEF Init, IInv, TypeOK, PC, Critical, NoLostWakeup, Asleep

(* The steps of a thread t. *)
LEMMA StepIInv ==
    ASSUME IInv, NEW t \in Threads,
           \/ \E v \in Values : Store(t, v)
           \/ \E p \in Predicates : Wait(t, p)
           \/ NotifyLock(t) \/ Broadcast(t) \/ NotifyUnlock(t)
           \/ WaitLock(t) \/ Test(t) \/ Block(t) \/ SpuriousWakeup(t)
           \/ WaitUnlock(t)
    PROVE  IInv'
<1> USE ValuesAssumption, NoOneAssumption
<1> USE DEF IInv, TypeOK, PC, Critical, NoLostWakeup, Asleep, Goto, Acquire,
            Release
<1>1. CASE \E v \in Values : Store(t, v)
  BY <1>1 DEF Store
<1>2. CASE \E p \in Predicates : Wait(t, p)
  BY <1>2 DEF Wait
<1>3. CASE NotifyLock(t)
  BY <1>3 DEF NotifyLock
<1>4. CASE Broadcast(t)
  BY <1>4 DEF Broadcast
<1>5. CASE NotifyUnlock(t)
  BY <1>5 DEF NotifyUnlock
<1>6. CASE WaitLock(t)
  BY <1>6 DEF WaitLock
<1>7. CASE Test(t)
  BY <1>7 DEF Test
<1>8. CASE Block(t)
  BY <1>8 DEF Block
<1>9. CASE SpuriousWakeup(t)
  BY <1>9 DEF SpuriousWakeup
<1>10. CASE WaitUnlock(t)
  BY <1>10 DEF WaitUnlock
<1>11. QED
  BY <1>1, <1>2, <1>3, <1>4, <1>5, <1>6, <1>7, <1>8, <1>9, <1>10

LEMMA NextIInv == ASSUME IInv, [Next]_vars PROVE IInv'
<1>1. CASE Next
  BY <1>1, StepIInv DEF Next
<1>2. CASE UNCHANGED vars
  BY <1>2 DEF vars, IInv, TypeOK, NoLostWakeup, Asleep
<1>3. QED
  BY <1>1, <1>2

(* IInv holds in every reachable state. *)
THEOREM Invariance == Spec => []IInv
BY InitIInv, NextIInv, PTL DEF Spec

(* Storing the mode outside the mutex loses no wakeup. *)
THEOREM WakeupsAreKept == Spec => []NoLostWakeup
<1>1. IInv => NoLostWakeup
  BY DEF IInv
<1>2. QED
  BY <1>1, Invariance, PTL

-----------------------------------------------------------------------------
(* The refinement.  A thread that broadcasts owns the mutex, so none is    *)
(* between its test and its wait: all that are asleep are blocked.         *)

LEMMA StepImplements ==
    ASSUME IInv, [Next]_vars PROVE [Barrier!Next]_Barrier!vars
<1> USE DEF IInv, TypeOK, PC, Critical, Asleep, Goto, Waiting, Barrier!vars
<1>1. ASSUME NEW t \in Threads, NEW v \in Values, Store(t, v)
      PROVE  Barrier!Store(t, v)
  BY <1>1 DEF Store, Barrier!Store
<1>2. ASSUME NEW t \in Threads, NEW p \in Predicates, Wait(t, p)
      PROVE  Barrier!Wait(t, p)
  BY <1>2 DEF Wait, Barrier!Wait
<1>3. ASSUME NEW t \in Threads, NotifyLock(t) PROVE UNCHANGED Barrier!vars
  BY <1>3 DEF NotifyLock
<1>4. ASSUME NEW t \in Threads, Broadcast(t) PROVE Barrier!Notify(t)
  BY <1>4 DEF Broadcast, Barrier!Notify
<1>5. ASSUME NEW t \in Threads, NotifyUnlock(t) PROVE UNCHANGED Barrier!vars
  BY <1>5 DEF NotifyUnlock
<1>6. ASSUME NEW t \in Threads, WaitLock(t) PROVE UNCHANGED Barrier!vars
  BY <1>6 DEF WaitLock
<1>7. ASSUME NEW t \in Threads, Test(t)
      PROVE  Barrier!Pass(t) \/ Barrier!Join(t)
  <2>1. CASE value \in want[t]
    BY <1>7, <2>1 DEF Test, Barrier!Pass
  <2>2. CASE value \notin want[t]
    BY <1>7, <2>2 DEF Test, Barrier!Join
  <2>3. QED
    BY <2>1, <2>2
<1>8. ASSUME NEW t \in Threads, Block(t) PROVE UNCHANGED Barrier!vars
  BY <1>8 DEF Block
<1>9. ASSUME NEW t \in Threads, SpuriousWakeup(t) PROVE Barrier!Wakeup(t)
  BY <1>9 DEF SpuriousWakeup, Barrier!Wakeup
<1>10. ASSUME NEW t \in Threads, WaitUnlock(t) PROVE UNCHANGED Barrier!vars
  BY <1>10 DEF WaitUnlock
<1>11. CASE UNCHANGED vars
  BY <1>11 DEF vars
<1>12. CASE Next
  BY <1>1, <1>2, <1>3, <1>4, <1>5, <1>6, <1>7, <1>8, <1>9, <1>10, <1>12
     DEF Next, Barrier!Next
<1>13. QED
  BY <1>11, <1>12

(* Every behaviour of the barrier is one of the atomic barrier that        *)
(* Safepoint.tla has in its place.                                         *)
THEOREM Implementation == Spec => ImplementsAtomicBarrier
<1>1. Init => Barrier!Init
  BY DEF Init, Barrier!Init, Asleep, Waiting
<1>2. QED
  BY <1>1, Invariance, StepImplements, PTL
     DEF Spec, ImplementsAtomicBarrier, Barrier!Spec

=============================================================================
