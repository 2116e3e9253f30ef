------------------------------ MODULE Safepoint ------------------------------
(***************************************************************************)
(* The safepoint protocol of gccpp: how the threads that use the heap (the *)
(* mutators), the collecting thread (Worker) and the thread that owns the  *)
(* Environment agree on when the world is stopped.                         *)
(*                                                                         *)
(* Every atomic access to shared state of Environment, Worker, WorkerState,*)
(* ThreadLock and ThreadsStacks is a step.  A SpinLock::lock() is a step   *)
(* that waits for the flag to be clear.  The two critical sections of      *)
(* WaitBarrier are steps: wait() tests its predicate and, when it is false,*)
(* joins the wait set; notify() empties the wait set.                      *)
(***************************************************************************)
EXTENDS Integers, Sequences, FiniteSets, SequencesExt

CONSTANTS
    Mutators,               \* the threads that construct a ThreadEnv
    Worker                  \* the collecting thread

ASSUME WorkerAssumption == Worker \notin Mutators

VARIABLES
    mode,                   \* WorkerState::mode
    self_suspend,           \* Environment::self_suspend
    env_lock,               \* Environment::env_lock: "free" or "held"
    lock_map,               \* ThreadLock::lock_map, a deque of threads
    stacks,                 \* the keys of ThreadsStacks::map
    thread_lock,            \* the threads whose ThreadLock::threadLock is set
    waitset,                \* who is blocked in WaitBarrier's condition
    pc,                     \* where each mutator is
    worker,                 \* where the worker is
    cursor,                 \* the worker's position in a loop over lock_map
    main,                   \* where the owner of the Environment is
    pending                 \* history: requests no collection has served yet

shared == <<mode, self_suspend, env_lock, lock_map, stacks, thread_lock>>
vars == <<mode, self_suspend, env_lock, lock_map, stacks, thread_lock,
          waitset, pc, worker, cursor, main, pending>>

-----------------------------------------------------------------------------
(* Where a mutator can be, named for what it does next or has just done.   *)

(* Holding env_lock in initialize_ and destroy_for_current_thread. *)
InEnvLock == {"entering", "registered", "entered", "unlocking", "erasing"}

(* Holding its own threadLock: only here may it touch the heap. *)
Managed == {"entered", "poll", "run", "requested", "commanded", "park",
            "leaving", "unlocking"}

(* In lock_map and in stacks. *)
Registered == Managed \cup {"registered", "wait", "relock", "unmanaged", "erasing"}

MutatorPC == Registered \cup {"out", "entering"}

WorkerPC == {"unborn", "top", "wait", "check", "env", "stw", "collect", "clear",
             "resume", "notify", "run_world", "release", "exit"}

MainPC == {"constructed", "up", "terminating", "joining", "down"}

Mode == {"NotStarted", "Started", "Collection", "Terminate"}

Goto(t, from, to) == pc[t] = from /\ pc' = [pc EXCEPT ![t] = to]

WorkerGoto(from, to) == worker = from /\ worker' = to

-----------------------------------------------------------------------------
(* Faulty forms of some actions below, each the bug it is named for.  They *)
(* are no part of Next: a property is worth checking when one breaks it.   *)

(* unmanaged_context() without the second lock(). *)
UnmanagedReturnUnlocked(t) ==
    /\ Goto(t, "unmanaged", "run")
    /\ UNCHANGED <<shared, waitset, worker, cursor, main, pending>>

(* destroy_for_current_thread() that does not wait for env_lock. *)
LeaveAtOnce(t) ==
    /\ Goto(t, "leaving", "unlocking")
    /\ env_lock' = "held"
    /\ UNCHANGED <<mode, self_suspend, lock_map, stacks, thread_lock, waitset,
                   worker, cursor, main, pending>>

(* destroy_for_current_thread() that leaves the thread's stack behind. *)
LeaveKeepingStack(t) ==
    /\ Goto(t, "erasing", "out")
    /\ \E i \in DOMAIN lock_map : /\ lock_map[i] = t
                                  /\ lock_map' = RemoveAt(lock_map, i)
    /\ env_lock' = "free"
    /\ UNCHANGED <<mode, self_suspend, stacks, thread_lock, waitset, worker,
                   cursor, main, pending>>

(* pthread_cond_signal in place of pthread_cond_broadcast. *)
NotifyCommandOne(t) ==
    /\ Goto(t, "commanded", "park")
    /\ \/ waitset = {} /\ UNCHANGED waitset
       \/ \E p \in waitset : waitset' = waitset \ {p}
    /\ UNCHANGED <<shared, worker, cursor, main, pending>>

(* Worker::stop() that stores Terminate and does not notify. *)
TerminateSilently ==
    /\ main = "terminating"
    /\ main' = "joining"
    /\ UNCHANGED <<shared, waitset, pc, worker, cursor, pending>>

(* The waiting mutators are released before the world is stopped. *)
AcquireEnvEarlyStart ==
    /\ WorkerGoto("env", "stw")
    /\ env_lock = "free"
    /\ env_lock' = "held"
    /\ mode' = "Started"
    /\ cursor' = 1
    /\ UNCHANGED <<self_suspend, lock_map, stacks, thread_lock, waitset, pc,
                   main, pending>>

(* stw() that only tries each lock once. *)
TryStopThread ==
    /\ worker = "stw"
    /\ cursor <= Len(lock_map)
    /\ thread_lock' = thread_lock \cup {lock_map[cursor]}
    /\ cursor' = cursor + 1
    /\ UNCHANGED <<mode, self_suspend, env_lock, lock_map, stacks, waitset, pc,
                   worker, main, pending>>

(* run_world() that misses the last lock. *)
WorldRunningButLast ==
    /\ WorkerGoto("run_world", "release")
    /\ cursor >= Len(lock_map)
    /\ UNCHANGED <<shared, waitset, pc, cursor, main, pending>>

(* run_world() that opens every lock once more. *)
WorldRunningTwice ==
    /\ WorkerGoto("run_world", "release")
    /\ cursor > Len(lock_map)
    /\ thread_lock' = thread_lock \ {lock_map[i] : i \in DOMAIN lock_map}
    /\ UNCHANGED <<mode, self_suspend, env_lock, lock_map, stacks, waitset, pc,
                   cursor, main, pending>>

(* self_suspend cleared after run_world() and not before. *)
WorldRunningClearSuspend ==
    /\ WorkerGoto("run_world", "release")
    /\ cursor > Len(lock_map)
    /\ self_suspend' = FALSE
    /\ UNCHANGED <<mode, env_lock, lock_map, stacks, thread_lock, waitset, pc,
                   cursor, main, pending>>

(* Worker::run that stores Started itself each time it waits for a command. *)
LoopTopStart ==
    /\ WorkerGoto("top", "wait")
    /\ mode' = "Started"
    /\ UNCHANGED <<self_suspend, env_lock, lock_map, stacks, thread_lock,
                   waitset, pc, cursor, main, pending>>

(* env_lock kept at the end of the loop body. *)
ReleaseEnvNot ==
    /\ WorkerGoto("release", "top")
    /\ UNCHANGED <<shared, waitset, pc, cursor, main, pending>>

-----------------------------------------------------------------------------
(* The owner of the Environment: Environment::init, ~Environment.          *)

Init ==
    /\ mode = "NotStarted"
    /\ self_suspend = FALSE
    /\ env_lock = "free"
    /\ lock_map = <<>>
    /\ stacks = {}
    /\ thread_lock = {}
    /\ waitset = {}
    /\ pc = [t \in Mutators |-> "out"]
    /\ worker = "unborn"
    /\ cursor = 1
    /\ main = "constructed"
    /\ pending = {}

(* Worker::start: the mode is Started before the worker thread exists. *)
StartWorker ==
    /\ main = "constructed"
    /\ main' = "up"
    /\ mode' = "Started"
    /\ waitset' = {}
    /\ WorkerGoto("unborn", "top")
    /\ UNCHANGED <<self_suspend, env_lock, lock_map, stacks, thread_lock, pc,
                   cursor, pending>>

(* ~Environment, Worker::stop.  Every ThreadEnv refers to the Environment, *)
(* so none outlives it.                                                    *)
Terminate ==
    /\ main = "up"
    /\ \A t \in Mutators : pc[t] = "out"
    /\ main' = "terminating"
    /\ mode' = "Terminate"
    /\ UNCHANGED <<self_suspend, env_lock, lock_map, stacks, thread_lock,
                   waitset, pc, worker, cursor, pending>>

NotifyTerminate ==
    /\ main = "terminating"
    /\ main' = "joining"
    /\ waitset' = {}
    /\ UNCHANGED <<shared, pc, worker, cursor, pending>>

JoinWorker ==
    /\ main = "joining"
    /\ worker = "exit"
    /\ main' = "down"
    /\ UNCHANGED <<shared, waitset, pc, worker, cursor, pending>>

-----------------------------------------------------------------------------
(* A mutator: the construction of its ThreadEnv.                           *)

EnterAcquire(t) ==
    /\ main = "up"
    /\ env_lock = "free"
    /\ Goto(t, "out", "entering")
    /\ env_lock' = "held"
    /\ UNCHANGED <<mode, self_suspend, lock_map, stacks, thread_lock, waitset,
                   worker, cursor, main, pending>>

(* ThreadLock::initialize_for_current_thread, then ThreadsStacks::. *)
Register(t) ==
    /\ Goto(t, "entering", "registered")
    /\ lock_map' = Append(lock_map, t)
    /\ stacks' = stacks \cup {t}
    /\ UNCHANGED <<mode, self_suspend, env_lock, thread_lock, waitset, worker,
                   cursor, main, pending>>

TakeThreadLock(t) ==
    /\ Goto(t, "registered", "entered")
    /\ t \notin thread_lock
    /\ thread_lock' = thread_lock \cup {t}
    /\ UNCHANGED <<mode, self_suspend, env_lock, lock_map, stacks, waitset,
                   worker, cursor, main, pending>>

EnterRelease(t) ==
    /\ Goto(t, "entered", "poll")
    /\ env_lock' = "free"
    /\ UNCHANGED <<mode, self_suspend, lock_map, stacks, thread_lock, waitset,
                   worker, cursor, main, pending>>

-----------------------------------------------------------------------------
(* A mutator: safepoint() and force_gc().                                  *)

(* Environment::safepoint, called by managed code or at the end of         *)
(* initialize_for_current_thread.                                          *)
Safepoint(t) ==
    /\ pc[t] \in {"run", "poll"}
    /\ pc' = [pc EXCEPT ![t] = IF self_suspend THEN "park" ELSE "run"]
    /\ UNCHANGED <<shared, waitset, worker, cursor, main, pending>>

(* force_gc and start_collection: self_suspend, then mode, then notify.    *)
StartCollection(t) ==
    /\ Goto(t, "run", "requested")
    /\ self_suspend' = TRUE
    /\ pending' = pending \cup {t}
    /\ UNCHANGED <<mode, env_lock, lock_map, stacks, thread_lock, waitset,
                   worker, cursor, main>>

CommandCollection(t) ==
    /\ Goto(t, "requested", "commanded")
    /\ mode' = "Collection"
    /\ UNCHANGED <<self_suspend, env_lock, lock_map, stacks, thread_lock,
                   waitset, worker, cursor, main, pending>>

NotifyCommand(t) ==
    /\ Goto(t, "commanded", "park")
    /\ waitset' = {}
    /\ UNCHANGED <<shared, worker, cursor, main, pending>>

(* safepoint_slow: unlock, wait for the end of the collection, lock. *)
Park(t) ==
    /\ Goto(t, "park", "wait")
    /\ thread_lock' = thread_lock \ {t}
    /\ UNCHANGED <<mode, self_suspend, env_lock, lock_map, stacks, waitset,
                   worker, cursor, main, pending>>

WaitEnding(t) ==
    /\ pc[t] = "wait"
    /\ t \notin waitset
    /\ \/ /\ mode = "Started"
          /\ pc' = [pc EXCEPT ![t] = "relock"]
          /\ UNCHANGED waitset
       \/ /\ mode # "Started"
          /\ waitset' = waitset \cup {t}
          /\ UNCHANGED pc
    /\ UNCHANGED <<shared, worker, cursor, main, pending>>

Relock(t) ==
    /\ Goto(t, "relock", "run")
    /\ t \notin thread_lock
    /\ thread_lock' = thread_lock \cup {t}
    /\ UNCHANGED <<mode, self_suspend, env_lock, lock_map, stacks, waitset,
                   worker, cursor, main, pending>>

-----------------------------------------------------------------------------
(* A mutator: unmanaged_context() and the destruction of its ThreadEnv.    *)

UnmanagedEnter(t) ==
    /\ Goto(t, "run", "unmanaged")
    /\ thread_lock' = thread_lock \ {t}
    /\ UNCHANGED <<mode, self_suspend, env_lock, lock_map, stacks, waitset,
                   worker, cursor, main, pending>>

UnmanagedReturn(t) ==
    /\ Goto(t, "unmanaged", "run")
    /\ t \notin thread_lock
    /\ thread_lock' = thread_lock \cup {t}
    /\ UNCHANGED <<mode, self_suspend, env_lock, lock_map, stacks, waitset,
                   worker, cursor, main, pending>>

(* ~ThreadEnv: the thread now spins on env_lock and still holds its        *)
(* threadLock.                                                             *)
Leave(t) ==
    /\ Goto(t, "run", "leaving")
    /\ UNCHANGED <<shared, waitset, worker, cursor, main, pending>>

LeaveAcquire(t) ==
    /\ env_lock = "free"
    /\ Goto(t, "leaving", "unlocking")
    /\ env_lock' = "held"
    /\ UNCHANGED <<mode, self_suspend, lock_map, stacks, thread_lock, waitset,
                   worker, cursor, main, pending>>

LeaveUnlock(t) ==
    /\ Goto(t, "unlocking", "erasing")
    /\ thread_lock' = thread_lock \ {t}
    /\ UNCHANGED <<mode, self_suspend, env_lock, lock_map, stacks, waitset,
                   worker, cursor, main, pending>>

(* Both destroy_for_current_thread, and the release of env_lock. *)
LeaveErase(t) ==
    /\ Goto(t, "erasing", "out")
    /\ stacks' = stacks \ {t}
    /\ \E i \in DOMAIN lock_map : /\ lock_map[i] = t
                                  /\ lock_map' = RemoveAt(lock_map, i)
    /\ env_lock' = "free"
    /\ UNCHANGED <<mode, self_suspend, thread_lock, waitset, worker, cursor,
                   main, pending>>

-----------------------------------------------------------------------------
(* The worker: Worker::run and wait_job.                                   *)

LoopTop ==
    /\ worker = "top"
    /\ worker' = IF mode = "Terminate" THEN "exit" ELSE "wait"
    /\ UNCHANGED <<shared, waitset, pc, cursor, main, pending>>

WaitCommand ==
    /\ worker = "wait"
    /\ Worker \notin waitset
    /\ \/ /\ mode \in {"Terminate", "Collection"}
          /\ worker' = "check"
          /\ UNCHANGED waitset
       \/ /\ mode \notin {"Terminate", "Collection"}
          /\ waitset' = waitset \cup {Worker}
          /\ UNCHANGED worker
    /\ UNCHANGED <<shared, pc, cursor, main, pending>>

CheckTerminate ==
    /\ worker = "check"
    /\ worker' = IF mode = "Terminate" THEN "exit" ELSE "env"
    /\ UNCHANGED <<shared, waitset, pc, cursor, main, pending>>

AcquireEnv ==
    /\ WorkerGoto("env", "stw")
    /\ env_lock = "free"
    /\ env_lock' = "held"
    /\ cursor' = 1
    /\ UNCHANGED <<mode, self_suspend, lock_map, stacks, thread_lock, waitset,
                   pc, main, pending>>

(* ThreadLock::stw, one lock of lock_map at a time and in its order. *)
StopThread ==
    /\ worker = "stw"
    /\ cursor <= Len(lock_map)
    /\ lock_map[cursor] \notin thread_lock
    /\ thread_lock' = thread_lock \cup {lock_map[cursor]}
    /\ cursor' = cursor + 1
    /\ UNCHANGED <<mode, self_suspend, env_lock, lock_map, stacks, waitset, pc,
                   worker, main, pending>>

WorldStopped ==
    /\ WorkerGoto("stw", "collect")
    /\ cursor > Len(lock_map)
    /\ UNCHANGED <<shared, waitset, pc, cursor, main, pending>>

(* BasicCollector::collect(), which serves every request made so far. *)
Collect ==
    /\ WorkerGoto("collect", "clear")
    /\ pending' = {}
    /\ UNCHANGED <<shared, waitset, pc, cursor, main>>

ClearSuspend ==
    /\ WorkerGoto("clear", "resume")
    /\ self_suspend' = FALSE
    /\ UNCHANGED <<mode, env_lock, lock_map, stacks, thread_lock, waitset, pc,
                   cursor, main, pending>>

(* WorkerState::mutators_continue: the mode, then the notification. *)
MutatorsContinue ==
    /\ WorkerGoto("resume", "notify")
    /\ mode' = "Started"
    /\ UNCHANGED <<self_suspend, env_lock, lock_map, stacks, thread_lock,
                   waitset, pc, cursor, main, pending>>

NotifyContinue ==
    /\ WorkerGoto("notify", "run_world")
    /\ waitset' = {}
    /\ cursor' = 1
    /\ UNCHANGED <<shared, pc, main, pending>>

(* ThreadLock::run_world, one lock at a time. *)
RunThread ==
    /\ worker = "run_world"
    /\ cursor <= Len(lock_map)
    /\ thread_lock' = thread_lock \ {lock_map[cursor]}
    /\ cursor' = cursor + 1
    /\ UNCHANGED <<mode, self_suspend, env_lock, lock_map, stacks, waitset, pc,
                   worker, main, pending>>

WorldRunning ==
    /\ WorkerGoto("run_world", "release")
    /\ cursor > Len(lock_map)
    /\ UNCHANGED <<shared, waitset, pc, cursor, main, pending>>

(* The end of the loop body: the lock_guard releases env_lock. *)
ReleaseEnv ==
    /\ WorkerGoto("release", "top")
    /\ env_lock' = "free"
    /\ UNCHANGED <<mode, self_suspend, lock_map, stacks, thread_lock, waitset,
                   pc, cursor, main, pending>>

-----------------------------------------------------------------------------

(* pthread_cond_wait may return without a broadcast. *)
SpuriousWakeup(p) ==
    /\ p \in waitset
    /\ waitset' = waitset \ {p}
    /\ UNCHANGED <<shared, pc, worker, cursor, main, pending>>

Owner == StartWorker \/ Terminate \/ NotifyTerminate \/ JoinWorker

Mutator(t) ==
    \/ EnterAcquire(t) \/ Register(t) \/ TakeThreadLock(t) \/ EnterRelease(t)
    \/ Safepoint(t) \/ StartCollection(t) \/ CommandCollection(t)
    \/ NotifyCommand(t) \/ Park(t) \/ WaitEnding(t) \/ Relock(t)
    \/ UnmanagedEnter(t) \/ UnmanagedReturn(t)
    \/ Leave(t) \/ LeaveAcquire(t) \/ LeaveUnlock(t) \/ LeaveErase(t)

WorkerStep ==
    \/ LoopTop \/ WaitCommand \/ CheckTerminate \/ AcquireEnv \/ StopThread
    \/ WorldStopped \/ Collect \/ ClearSuspend \/ MutatorsContinue
    \/ NotifyContinue \/ RunThread \/ WorldRunning \/ ReleaseEnv

Next == \/ Owner
        \/ \E t \in Mutators : Mutator(t)
        \/ WorkerStep
        \/ \E p \in Mutators \cup {Worker} : SpuriousWakeup(p)

Spec == Init /\ [][Next]_vars

-----------------------------------------------------------------------------
(* Fairness: threads that are not blocked are scheduled.  A mutator        *)
(* finishes the calls it has made, and managed code reaches a safepoint;   *)
(* that it asks for a collection, leaves or comes back is its own choice.  *)

MutatorFairness(t) ==
    /\ WF_vars(Register(t)) /\ WF_vars(TakeThreadLock(t))
    /\ WF_vars(EnterRelease(t)) /\ SF_vars(Safepoint(t))
    /\ WF_vars(CommandCollection(t)) /\ WF_vars(NotifyCommand(t))
    /\ WF_vars(Park(t)) /\ WF_vars(WaitEnding(t)) /\ WF_vars(Relock(t))
    /\ WF_vars(LeaveAcquire(t)) /\ WF_vars(LeaveUnlock(t))
    /\ WF_vars(LeaveErase(t))

FairSpec == /\ Spec
            /\ \A t \in Mutators : MutatorFairness(t)
            /\ WF_vars(WorkerStep)
            /\ WF_vars(NotifyTerminate \/ JoinWorker)

=============================================================================
