--------------------------- MODULE SafepointProofs ---------------------------
(***************************************************************************)
(* The safepoint protocol is correct for every set of mutators: IInv is    *)
(* inductive, the safety properties follow from it, and the protocol       *)
(* implements StopTheWorld.                                                *)
(***************************************************************************)
EXTENDS SafepointProperties, DataLemmas, TLAPS

-----------------------------------------------------------------------------
(* The invariant is inductive.  Each action changes little, and the parts  *)
(* of IInv together say why that little is allowed; a step is split where  *)
(* an action disturbs a part for a reason of its own.                      *)

LEMMA InitIInv == Init => IInv
<1> SUFFICES ASSUME Init PROVE IInv
  OBVIOUS
<1> USE DEF Init, InEnvLock, Managed, Registered, WorkerInEnvLock
<1>1. TypeOK
  <2>1. self_suspend \in BOOLEAN
    BY Zenon
  <2>2. pc \in [Mutators -> MutatorPC]
    BY DEF MutatorPC
  <2>3. QED
    BY <2>1, <2>2 DEF TypeOK, Mode, WorkerPC, MainPC
<1>2. EnvOwnership /\ Registration
  BY DEF EnvOwnership, Registration
<1>3. LockOwnership
  BY DEF LockOwnership, IsStopped
<1>4. RequestsKept /\ OwnerOrder /\ Waiting /\ NoLostWakeup
  BY DEF RequestsKept, OwnerOrder, Waiting, NoLostWakeup
<1>5. QED
  BY <1>1, <1>2, <1>3, <1>4 DEF IInv

LEMMA OwnerStep == ASSUME IInv, Owner PROVE IInv'
<1> USE WorkerAssumption
<1> USE DEF IInv, TypeOK, EnvOwnership, Registration, LockOwnership,
            RequestsKept, OwnerOrder, Waiting, NoLostWakeup
<1> USE DEF Mode, InEnvLock, Managed, Registered, MutatorPC, WorkerPC,
            MainPC, WorkerInEnvLock, IsStopped, Locked, Goto, WorkerGoto, shared
<1>1. CASE StartWorker
  BY <1>1 DEF StartWorker
<1>2. CASE Terminate
  BY <1>2 DEF Terminate
<1>3. CASE NotifyTerminate
  BY <1>3 DEF NotifyTerminate
<1>4. CASE JoinWorker
  BY <1>4 DEF JoinWorker
<1>5. QED
  BY <1>1, <1>2, <1>3, <1>4 DEF Owner

LEMMA MutatorStep == ASSUME IInv, NEW t \in Mutators, Mutator(t) PROVE IInv'
<1> USE WorkerAssumption
<1> USE DEF IInv, TypeOK, EnvOwnership, Registration, LockOwnership,
            RequestsKept, OwnerOrder, Waiting, NoLostWakeup
<1> USE DEF Mode, InEnvLock, Managed, Registered, MutatorPC, WorkerPC,
            MainPC, WorkerInEnvLock, IsStopped, Locked, Goto, WorkerGoto, shared
<1>1. CASE EnterAcquire(t)
  BY <1>1 DEF EnterAcquire
<1>2. CASE Register(t)
  <2>1. /\ DOMAIN lock_map' = DOMAIN lock_map \cup {Len(lock_map) + 1}
        /\ \A i \in DOMAIN lock_map : lock_map'[i] = lock_map[i]
        /\ lock_map'[Len(lock_map) + 1] = t
    BY <1>2 DEF Register
  <2>2. TypeOK' /\ EnvOwnership'
    BY <1>2 DEF Register
  <2>3. Registration'
    BY <1>2, <2>1 DEF Register
  <2>4. \A u \in Mutators : ~IsStopped(u) /\ ~IsStopped(u)'
    BY <1>2 DEF Register
  <2>5. LockOwnership'
    BY <1>2, <2>4 DEF Register
  <2>6. RequestsKept' /\ OwnerOrder' /\ Waiting' /\ NoLostWakeup'
    BY <1>2, <2>1 DEF Register
  <2>7. QED
    BY <2>2, <2>3, <2>5, <2>6
<1>3. CASE TakeThreadLock(t)
  BY <1>3 DEF TakeThreadLock
<1>4. CASE EnterRelease(t)
  BY <1>4 DEF EnterRelease
<1>5. CASE Safepoint(t)
  BY <1>5 DEF Safepoint
<1>6. CASE StartCollection(t)
  BY <1>6 DEF StartCollection
<1>7. CASE CommandCollection(t)
  BY <1>7 DEF CommandCollection
<1>8. CASE NotifyCommand(t)
  BY <1>8 DEF NotifyCommand
<1>9. CASE Park(t)
  BY <1>9 DEF Park
<1>10. CASE WaitEnding(t)
  BY <1>10 DEF WaitEnding
<1>11. CASE Relock(t)
  BY <1>11 DEF Relock
<1>12. CASE UnmanagedEnter(t)
  BY <1>12 DEF UnmanagedEnter
<1>13. CASE UnmanagedReturn(t)
  BY <1>13 DEF UnmanagedReturn
<1>14. CASE Leave(t)
  BY <1>14 DEF Leave
<1>15. CASE LeaveAcquire(t)
  BY <1>15 DEF LeaveAcquire
<1>16. CASE LeaveUnlock(t)
  BY <1>16 DEF LeaveUnlock
<1>17. CASE LeaveErase(t)
  <2>1. PICK i \in DOMAIN lock_map :
           lock_map[i] = t /\ lock_map' = RemoveAt(lock_map, i)
    BY <1>17 DEF LeaveErase
  <2>2. /\ lock_map' \in Seq(Mutators)
        /\ \A j, k \in DOMAIN lock_map' : lock_map'[j] = lock_map'[k] => j = k
        /\ \A u \in Mutators : (\E j \in DOMAIN lock_map' : lock_map'[j] = u)
                     <=> u # t /\ \E j \in DOMAIN lock_map : lock_map[j] = u
    <3>1. /\ lock_map \in Seq(Mutators)
          /\ \A j, k \in DOMAIN lock_map : lock_map[j] = lock_map[k] => j = k
      OBVIOUS
    <3>2. i \in DOMAIN lock_map
      BY <2>1
    <3>3. QED
      BY ONLY <2>1, <3>1, <3>2, RemoveAtErases
  <2>3. TypeOK' /\ EnvOwnership'
    BY <1>17, <2>2 DEF LeaveErase
  <2>4. Registration'
    BY <1>17, <2>2 DEF LeaveErase
  <2>5. \A u \in Mutators : ~IsStopped(u) /\ ~IsStopped(u)'
    BY <1>17 DEF LeaveErase
  <2>6. LockOwnership'
    BY <1>17, <2>5 DEF LeaveErase
  <2>7. RequestsKept' /\ OwnerOrder' /\ Waiting' /\ NoLostWakeup'
    BY <1>17 DEF LeaveErase
  <2>8. QED
    BY <2>3, <2>4, <2>6, <2>7
<1>18. QED
  BY <1>1, <1>2, <1>3, <1>4, <1>5, <1>6, <1>7, <1>8, <1>9, <1>10, <1>11,
     <1>12, <1>13, <1>14, <1>15, <1>16, <1>17 DEF Mutator

LEMMA WorkerStepStep == ASSUME IInv, WorkerStep PROVE IInv'
<1> USE WorkerAssumption
<1> USE DEF IInv, TypeOK, EnvOwnership, Registration, LockOwnership,
            RequestsKept, OwnerOrder, Waiting, NoLostWakeup
<1> USE DEF Mode, InEnvLock, Managed, Registered, MutatorPC, WorkerPC,
            MainPC, WorkerInEnvLock, IsStopped, Locked, Goto, WorkerGoto, shared
<1>1. CASE LoopTop
  BY <1>1 DEF LoopTop
<1>2. CASE WaitCommand
  BY <1>2 DEF WaitCommand
<1>3. CASE CheckTerminate
  BY <1>3 DEF CheckTerminate
<1>4. CASE AcquireEnv
  BY <1>4 DEF AcquireEnv
<1>5. CASE StopThread
  <2>1. \A t \in Mutators : IsStopped(t)' <=> IsStopped(t) \/ t = lock_map[cursor]
    BY <1>5 DEF StopThread
  <2>2. LockOwnership'
    BY <1>5, <2>1 DEF StopThread
  <2>3. QED
    BY <1>5, <2>2 DEF StopThread
<1>6. CASE WorldStopped
  BY <1>6 DEF WorldStopped
<1>7. CASE Collect
  BY <1>7 DEF Collect
<1>8. CASE ClearSuspend
  <2>1. pending = {}
    BY <1>8 DEF ClearSuspend
  <2>2. RequestsKept'
    BY <1>8, <2>1 DEF ClearSuspend
  <2>3. TypeOK'
    BY <1>8 DEF ClearSuspend
  <2>4. EnvOwnership' /\ Registration' /\ LockOwnership'
    BY <1>8 DEF ClearSuspend
  <2>5. OwnerOrder' /\ Waiting' /\ NoLostWakeup'
    BY <1>8 DEF ClearSuspend
  <2>6. QED
    BY <2>2, <2>3, <2>4, <2>5
<1>9. CASE MutatorsContinue
  BY <1>9 DEF MutatorsContinue
<1>10. CASE NotifyContinue
  BY <1>10 DEF NotifyContinue
<1>11. CASE RunThread
  <2>1. \A t \in Mutators : IsStopped(t)' <=> IsStopped(t) /\ t # lock_map[cursor]
    BY <1>11 DEF RunThread
  <2>2. LockOwnership'
    BY <1>11, <2>1 DEF RunThread
  <2>3. QED
    BY <1>11, <2>2 DEF RunThread
<1>12. CASE WorldRunning
  BY <1>12 DEF WorldRunning
<1>13. CASE ReleaseEnv
  BY <1>13 DEF ReleaseEnv
<1>14. QED
  BY <1>1, <1>2, <1>3, <1>4, <1>5, <1>6, <1>7, <1>8, <1>9, <1>10, <1>11,
     <1>12, <1>13 DEF WorkerStep

LEMMA WakeupStep ==
    ASSUME IInv, NEW p \in Mutators \cup {Worker}, SpuriousWakeup(p)
    PROVE  IInv'
BY WorkerAssumption
   DEF IInv, SpuriousWakeup, shared, TypeOK, EnvOwnership, Registration,
       LockOwnership, RequestsKept, OwnerOrder, Waiting, NoLostWakeup,
       IsStopped, Locked

LEMMA NextIInv == IInv /\ [Next]_vars => IInv'
<1> SUFFICES ASSUME IInv, [Next]_vars PROVE IInv'
  OBVIOUS
<1>1. CASE Next
  BY <1>1, OwnerStep, MutatorStep, WorkerStepStep, WakeupStep DEF Next
<1>2. CASE UNCHANGED vars
  BY <1>2 DEF vars, IInv, TypeOK, EnvOwnership, Registration, LockOwnership,
              RequestsKept, OwnerOrder, Waiting, NoLostWakeup, IsStopped, Locked
<1>3. QED
  BY <1>1, <1>2

(* IInv holds in every reachable state, whatever the set of mutators.      *)
THEOREM Invariance == Spec => []IInv
<1>1. Init => IInv
  BY InitIInv
<1>2. IInv /\ [Next]_vars => IInv'
  BY NextIInv
<1>3. QED
  BY <1>1, <1>2, PTL DEF Spec

-----------------------------------------------------------------------------
(* The safety properties.                                                  *)

(* Every variable keeps its type. *)
THEOREM TypeCorrect == Spec => []TypeOK
<1>1. IInv => TypeOK
  BY DEF IInv
<1>2. QED
  BY <1>1, Invariance, PTL

(* collect() runs with every mutator outside the heap: stw() holds the     *)
(* locks of all those that are registered.                                 *)
THEOREM StopsTheWorld == Spec => []WorldIsStopped
<1>1. IInv => WorldIsStopped
  <2> SUFFICES ASSUME IInv, worker = "collect", NEW t \in Mutators,
                      pc[t] \in Managed
               PROVE  FALSE
    BY DEF WorldIsStopped
  <2>1. PICK i \in DOMAIN lock_map : lock_map[i] = t
    BY DEF IInv, Registration, Registered
  <2>2. IsStopped(t)
    BY <2>1 DEF IsStopped, Locked
  <2>3. QED
    BY <2>2 DEF IInv, LockOwnership
<1>2. QED
  BY <1>1, Invariance, PTL

(* collect() sees the stacks of exactly the threads that are stopped.      *)
THEOREM SeesAllRoots == Spec => []RootsAreVisible
<1>1. IInv => RootsAreVisible
  BY DEF IInv, TypeOK, RootsAreVisible, Registration, EnvOwnership,
         WorkerInEnvLock, InEnvLock, Registered, Managed, MutatorPC
<1>2. QED
  BY <1>1, Invariance, PTL

(* The assertion of Worker::run never fails.                               *)
THEOREM AssertionHolds == Spec => []SuspendIsAsserted
<1>1. IInv => SuspendIsAsserted
  BY DEF IInv, RequestsKept, SuspendIsAsserted
<1>2. QED
  BY <1>1, Invariance, PTL

(* No notification is lost between the store of the mode and the wait.     *)
THEOREM WakeupsAreKept == Spec => []NoLostWakeup
<1>1. IInv => NoLostWakeup
  BY DEF IInv
<1>2. QED
  BY <1>1, Invariance, PTL

(* Worker::stop is obeyed: no store of another mode follows its own.       *)
THEOREM TerminationIsFinal == Spec => TerminateIsFinal
<1>1. IInv /\ [Next]_vars => [mode = "Terminate" => mode' = "Terminate"]_vars
  <2> SUFFICES ASSUME IInv, Next, mode = "Terminate" PROVE mode' = "Terminate"
    OBVIOUS
  <2>1. /\ main \notin {"constructed", "up"}
        /\ \A t \in Mutators : pc[t] = "out"
        /\ worker # "resume"
    BY DEF IInv, OwnerOrder
  <2>2. CASE Owner
    BY <2>1, <2>2 DEF Owner, StartWorker, Terminate, NotifyTerminate,
                      JoinWorker, shared
  <2>3. CASE \E t \in Mutators : Mutator(t)
    BY <2>1, <2>3 DEF Mutator, EnterAcquire, Register, TakeThreadLock,
          EnterRelease, Safepoint, StartCollection, CommandCollection,
          NotifyCommand, Park, WaitEnding, Relock, UnmanagedEnter,
          UnmanagedReturn, Leave, LeaveAcquire, LeaveUnlock, LeaveErase,
          Goto, shared
  <2>4. CASE WorkerStep
    BY <2>1, <2>4 DEF WorkerStep, LoopTop, WaitCommand, CheckTerminate,
          AcquireEnv, StopThread, WorldStopped, Collect, ClearSuspend,
          MutatorsContinue, NotifyContinue, RunThread, WorldRunning,
          ReleaseEnv, WorkerGoto, shared
  <2>5. CASE \E p \in Mutators \cup {Worker} : SpuriousWakeup(p)
    BY <2>5 DEF SpuriousWakeup, shared
  <2>6. QED
    BY <2>2, <2>3, <2>4, <2>5 DEF Next
<1>2. QED
  BY <1>1, Invariance, PTL DEF Spec, TerminateIsFinal

(* Neither run_world() nor any other step opens the lock of a mutator that *)
(* goes on using the heap.                                                 *)
THEOREM OpensOnlyHeldLocks == Spec => OnlyHeldLocksOpened
<1>1. IInv /\ [Next]_vars =>
         [\A t \in thread_lock \ thread_lock' : pc'[t] \notin Managed]_vars
  <2> SUFFICES ASSUME IInv, IInv', NEW t \in thread_lock \ thread_lock'
               PROVE  pc'[t] \notin Managed
    BY NextIInv
  <2>1. t \in Mutators
    BY DEF IInv, TypeOK
  <2>2. QED
    BY <2>1 DEF IInv, LockOwnership
<1>2. QED
  BY <1>1, Invariance, PTL DEF Spec, OnlyHeldLocksOpened

-----------------------------------------------------------------------------
(* The protocol implements StopTheWorld: every step is one of its steps or *)
(* leaves the threads that use the heap, the collection and the requests   *)
(* as they were.                                                           *)

LEMMA InitImplements == Init => STW!Init
BY DEF Init, STW!Init, Managed

(* A mutator that starts to use the heap finds its threadLock free, so the *)
(* worker is not collecting, and has no request left: the mode is Started  *)
(* or it never asked.                                                      *)
LEMMA MutatorImplements ==
    ASSUME IInv, NEW t \in Mutators, Mutator(t)
    PROVE  [STW!Next]_STW!vars
<1> USE DEF Goto, shared, Managed
<1> DEFINE managed == {u \in Mutators : pc[u] \in Managed}
<1>1. pc \in [Mutators -> MutatorPC] /\ pending \subseteq Mutators
  BY DEF IInv, TypeOK
<1>2. SUFFICES \/ STW!Enter(t) \/ STW!Exit(t) \/ STW!Request(t)
               \/ UNCHANGED STW!vars
  BY DEF STW!Next
<1>3. CASE TakeThreadLock(t) \/ Relock(t) \/ UnmanagedReturn(t)
  <2>1. pc[t] \in {"registered", "relock", "unmanaged"} /\ pc'[t] \in Managed
    BY <1>1, <1>3 DEF TakeThreadLock, Relock, UnmanagedReturn
  <2>2. managed' = managed \cup {t} /\ t \notin managed
    BY <1>1, <1>3, <2>1 DEF TakeThreadLock, Relock, UnmanagedReturn
  <2>3. t \notin pending
    BY <2>1 DEF IInv, RequestsKept
  <2>4. worker # "collect"
    <3>1. t \notin thread_lock
      BY <1>3 DEF TakeThreadLock, Relock, UnmanagedReturn
    <3>2. ~IsStopped(t) /\ \E i \in DOMAIN lock_map : lock_map[i] = t
      BY <2>1, <3>1 DEF IInv, LockOwnership, Registration, Registered
    <3>3. QED
      BY <3>2 DEF IsStopped, Locked
  <2>5. UNCHANGED <<worker, pending>>
    BY <1>3 DEF TakeThreadLock, Relock, UnmanagedReturn
  <2>6. STW!Enter(t)
    BY <2>2, <2>3, <2>4, <2>5 DEF STW!Enter
  <2>7. QED
    BY <2>6
<1>4. CASE Park(t) \/ UnmanagedEnter(t) \/ LeaveUnlock(t)
  <2>1. managed' = managed \ {t} /\ t \in managed
    BY <1>1, <1>4 DEF Park, UnmanagedEnter, LeaveUnlock
  <2>2. UNCHANGED <<worker, pending>>
    BY <1>4 DEF Park, UnmanagedEnter, LeaveUnlock
  <2>3. STW!Exit(t)
    BY <2>1, <2>2 DEF STW!Exit
  <2>4. QED
    BY <2>3
<1>5. CASE StartCollection(t)
  <2>1. managed' = managed /\ t \in managed
    BY <1>1, <1>5 DEF StartCollection
  <2>2. UNCHANGED worker /\ pending' = pending \cup {t}
    BY <1>5 DEF StartCollection
  <2>3. STW!Request(t)
    BY <2>1, <2>2 DEF STW!Request
  <2>4. QED
    BY <2>3
<1>6. CASE \/ EnterAcquire(t) \/ Register(t) \/ EnterRelease(t)
           \/ Safepoint(t) \/ CommandCollection(t) \/ NotifyCommand(t)
           \/ WaitEnding(t) \/ Leave(t) \/ LeaveAcquire(t) \/ LeaveErase(t)
  <2>1. managed' = managed
    BY <1>1, <1>6 DEF EnterAcquire, Register, EnterRelease, Safepoint,
          CommandCollection, NotifyCommand, WaitEnding, Leave, LeaveAcquire,
          LeaveErase
  <2>2. UNCHANGED <<worker, pending>>
    BY <1>6 DEF EnterAcquire, Register, EnterRelease, Safepoint,
          CommandCollection, NotifyCommand, WaitEnding, Leave, LeaveAcquire,
          LeaveErase
  <2>3. QED
    BY <2>1, <2>2 DEF STW!vars
<1>7. QED
  BY <1>3, <1>4, <1>5, <1>6 DEF Mutator

(* The worker begins to collect when it has stopped all the threads, and   *)
(* only on request; no request is made while it does.                      *)
LEMMA WorkerImplements ==
    ASSUME IInv, IInv', WorkerStep
    PROVE  [STW!Next]_STW!vars
<1> USE DEF WorkerGoto, shared
<1> DEFINE managed == {u \in Mutators : pc[u] \in Managed}
<1>1. managed' = managed
  BY DEF WorkerStep, LoopTop, WaitCommand, CheckTerminate, AcquireEnv,
         StopThread, WorldStopped, Collect, ClearSuspend, MutatorsContinue,
         NotifyContinue, RunThread, WorldRunning, ReleaseEnv
<1>2. CASE WorldStopped
  <2>1. managed' = {}
    <3>1. WorldIsStopped'
      BY DEF IInv, TypeOK, Registration, LockOwnership, IsStopped, Locked,
             Registered, WorldIsStopped
    <3>2. QED
      BY <1>2, <3>1 DEF WorldStopped, WorldIsStopped
  <2>2. worker = "stw" /\ worker' = "collect" /\ pending # {} /\ UNCHANGED pending
    BY <1>2 DEF WorldStopped, IInv, RequestsKept
  <2>3. STW!BeginCollect
    BY <1>1, <2>1, <2>2 DEF STW!BeginCollect
  <2>4. QED
    BY <2>3 DEF STW!Next
<1>3. CASE Collect
  <2>1. STW!EndCollect
    BY <1>1, <1>3 DEF Collect, STW!EndCollect
  <2>2. QED
    BY <2>1 DEF STW!Next
<1>4. CASE ~WorldStopped /\ ~Collect
  <2>1. worker # "collect" /\ worker' # "collect" /\ UNCHANGED pending
    BY <1>4 DEF WorkerStep, LoopTop, WaitCommand, CheckTerminate, AcquireEnv,
         StopThread, ClearSuspend, MutatorsContinue, NotifyContinue,
         RunThread, WorldRunning, ReleaseEnv
  <2>2. QED
    BY <1>1, <2>1 DEF STW!vars
<1>5. QED
  BY <1>2, <1>3, <1>4

(* Every behaviour of the protocol is one of StopTheWorld.                 *)
THEOREM Implementation == Spec => ImplementsStopTheWorld
<1>1. Init => STW!Init
  BY InitImplements
<1>2. IInv /\ IInv' /\ [Next]_vars => [STW!Next]_STW!vars
  <2> SUFFICES ASSUME IInv, IInv', [Next]_vars PROVE [STW!Next]_STW!vars
    OBVIOUS
  <2>1. CASE Owner
    <3>1. UNCHANGED <<pc, pending>>
      BY <2>1 DEF Owner, StartWorker, Terminate, NotifyTerminate, JoinWorker,
                  shared
    <3>2. (worker = "collect")' = (worker = "collect")
      BY <2>1 DEF Owner, StartWorker, Terminate, NotifyTerminate, JoinWorker,
                  WorkerGoto, shared
    <3>3. QED
      BY <3>1, <3>2 DEF STW!vars
  <2>2. CASE \E t \in Mutators : Mutator(t)
    BY <2>2, MutatorImplements
  <2>3. CASE WorkerStep
    BY <2>3, WorkerImplements
  <2>4. CASE \E p \in Mutators \cup {Worker} : SpuriousWakeup(p)
    BY <2>4 DEF SpuriousWakeup, STW!vars
  <2>5. CASE UNCHANGED vars
    BY <2>5 DEF vars, STW!vars
  <2>6. QED
    BY <2>1, <2>2, <2>3, <2>4, <2>5 DEF Next
<1>3. QED
  BY <1>1, <1>2, Invariance, PTL DEF Spec, ImplementsStopTheWorld, STW!Spec

=============================================================================
