------------------------- MODULE SafepointProperties -------------------------
(***************************************************************************)
(* What the safepoint protocol must guarantee, and the inductive invariant *)
(* that explains why it does.                                              *)
(***************************************************************************)
EXTENDS Safepoint

-----------------------------------------------------------------------------
(* Types.                                                                  *)

(* Every variable keeps its type, and no thread attaches or detaches while *)
(* the worker goes through lock_map in such a way that its place there is  *)
(* past the end (ThreadLock::stw, run_world).                              *)
TypeOK ==
    /\ mode \in Mode
    /\ self_suspend \in BOOLEAN
    /\ env_lock \in {"free", "held"}
    /\ lock_map \in Seq(Mutators)
    /\ stacks \subseteq Mutators
    /\ thread_lock \subseteq Mutators
    /\ waitset \subseteq Mutators \cup {Worker}
    /\ pc \in [Mutators -> MutatorPC]
    /\ worker \in WorkerPC
    /\ cursor \in Nat \ {0}
    /\ worker \in {"stw", "run_world"} => cursor <= Len(lock_map) + 1
    /\ main \in MainPC
    /\ pending \subseteq Mutators

-----------------------------------------------------------------------------
(* Safety.                                                                 *)

(* While Worker::run is inside collect(), no thread is where it may touch  *)
(* the heap: neither one that polls safepoints, nor one that returns from  *)
(* unmanaged_context, is created or is destroyed during the collection.    *)
WorldIsStopped ==
    worker = "collect" => \A t \in Mutators : pc[t] \notin Managed

(* The collector of Mark::do_it walks the stacks it finds in ThreadsStacks:*)
(* they are the stacks of all the threads that have a ThreadEnv and of no  *)
(* other, so no root is missed and no stack of a dead thread is read, and  *)
(* stw() has stopped exactly these threads.                                *)
RootsAreVisible ==
    worker = "collect" =>
        /\ stacks = {t \in Mutators : pc[t] \notin {"out", "entering"}}
        /\ stacks = {lock_map[i] : i \in DOMAIN lock_map}

(* Worker.cpp:18, assert(self_suspend == true): the flag that makes        *)
(* safepoint() stop a thread is still set when the world has stopped, even *)
(* when a request came while an earlier collection was being finished.     *)
SuspendIsAsserted ==
    worker = "collect" => self_suspend

(* A thread blocked in WaitBarrier::wait whose predicate has become true   *)
(* is about to be notified, although the mode is stored outside the mutex. *)
NoLostWakeup ==
    /\ (Worker \in waitset /\ mode \in {"Collection", "Terminate"})
          => \/ main = "terminating"
             \/ \E t \in Mutators : pc[t] = "commanded"
    /\ \A t \in waitset \ {Worker} : mode = "Started" => worker = "notify"

(* A threadLock is only opened under a thread that is not, or no longer,   *)
(* using the heap.  SpinLock has no owner: a run_world() that opened a lock *)
(* its mutator had taken again would let the next collection start while   *)
(* the mutator runs.                                                       *)
OnlyHeldLocksOpened ==
    [][\A t \in thread_lock \ thread_lock' : pc'[t] \notin Managed]_vars

(* The store of Terminate in Worker::stop is never overwritten by the      *)
(* mode a collection still in progress, or a late request, would store.    *)
TerminateIsFinal ==
    [][mode = "Terminate" => mode' = "Terminate"]_vars

(* The protocol is an implementation of StopTheWorld; in particular        *)
(* force_gc() returns only after a collection that began after the call.   *)
STW == INSTANCE StopTheWorld WITH
          managed <- {t \in Mutators : pc[t] \in Managed},
          collecting <- worker = "collect"

ImplementsStopTheWorld == STW!Spec

-----------------------------------------------------------------------------
(* The inductive invariant.                                                *)

(* Holding env_lock in Worker::run. *)
WorkerInEnvLock == {"stw", "collect", "clear", "resume", "notify", "run_world",
                    "release"}

(* The worker holds the lock at position i of lock_map. *)
Locked(i) ==
    \/ worker = "stw" /\ i < cursor
    \/ worker \in {"collect", "clear", "resume", "notify"}
    \/ worker = "run_world" /\ i >= cursor

IsStopped(t) == \E i \in DOMAIN lock_map : lock_map[i] = t /\ Locked(i)

(* At most one thread is in a critical section of env_lock. *)
EnvOwnership ==
    /\ \A t \in Mutators : pc[t] \in InEnvLock =>
          /\ env_lock = "held"
          /\ worker \notin WorkerInEnvLock
          /\ \A u \in Mutators : pc[u] \in InEnvLock => u = t
    /\ worker \in WorkerInEnvLock => env_lock = "held"

(* lock_map and stacks hold the threads that are attached, once each. *)
Registration ==
    /\ \A t \in Mutators : t \in stacks <=> pc[t] \in Registered
    /\ \A t \in Mutators :
          pc[t] \in Registered <=> \E i \in DOMAIN lock_map : lock_map[i] = t
    /\ \A i, j \in DOMAIN lock_map : lock_map[i] = lock_map[j] => i = j

(* A threadLock is set when its mutator or the worker holds it, never both *)
(* and never neither.                                                      *)
LockOwnership ==
    \A t \in Mutators :
        /\ pc[t] \in Managed => t \in thread_lock /\ ~IsStopped(t)
        /\ IsStopped(t) => t \in thread_lock
        /\ t \in thread_lock => pc[t] \in Managed \/ IsStopped(t)

(* A request stays visible in self_suspend and in mode until a collection  *)
(* that stopped its thread has served it, and the worker only collects on  *)
(* request.                                                                *)
RequestsKept ==
    /\ \A t \in pending :
          /\ self_suspend
          /\ pc[t] \in {"requested", "commanded", "park", "wait"}
          /\ pc[t] # "requested" => mode = "Collection"
    /\ \A t \in Mutators : pc[t] = "requested" => t \in pending
    /\ mode = "Collection" /\ worker \notin {"clear", "resume"} => pending # {}
    /\ worker = "check" => mode \in {"Collection", "Terminate"}
    /\ worker \in {"env", "stw", "collect"} => pending # {}
    /\ worker \in {"clear", "resume"} => pending = {} /\ lock_map # <<>>

(* The mode is Terminate from ~Environment on, when no thread is attached  *)
(* and the worker is not on its way to store another mode.                 *)
OwnerOrder ==
    /\ mode = "Terminate" <=> main \in {"terminating", "joining", "down"}
    /\ mode = "Terminate" =>
          /\ \A t \in Mutators : pc[t] = "out"
          /\ worker \notin {"env", "stw", "collect", "clear", "resume"}
    /\ main = "constructed" <=> worker = "unborn"
    /\ main = "constructed" => \A t \in Mutators : pc[t] = "out"

Waiting ==
    /\ Worker \in waitset => worker = "wait"
    /\ \A t \in Mutators : t \in waitset => pc[t] = "wait"

IInv == /\ TypeOK
        /\ EnvOwnership
        /\ Registration
        /\ LockOwnership
        /\ RequestsKept
        /\ OwnerOrder
        /\ Waiting
        /\ NoLostWakeup

-----------------------------------------------------------------------------
(* Liveness.                                                               *)

(* Worker::run has taken env_lock and waits in stw() for a mutator that    *)
(* waits, in destroy_for_current_thread, for env_lock.                     *)
ExitEmbrace ==
    /\ worker = "stw"
    /\ cursor <= Len(lock_map)
    /\ pc[lock_map[cursor]] = "leaving"

(* From some time on no thread asks for a collection or attaches.          *)
ClientsSettle ==
    \A t \in Mutators : <>[][~StartCollection(t) /\ ~EnterAcquire(t)]_vars

(* force_gc() returns, unless the worker and a thread that is being        *)
(* destroyed wait for each other.                                          *)
ForceGcReturns ==
    ClientsSettle =>
        \A t \in Mutators : pc[t] = "requested" ~> (pc[t] = "run" \/ ExitEmbrace)

(* ~ThreadEnv returns, with the same exception. *)
ThreadEnvIsDestroyedOrEmbraced ==
    ClientsSettle =>
        \A t \in Mutators : pc[t] = "leaving" ~> (pc[t] = "out" \/ ExitEmbrace)

(* The test two_threads destroys a ThreadEnv in one thread while another   *)
(* is in force_gc(), and joins it (gc_multithread_test.h:8-40): ~ThreadEnv *)
(* returns.                                                                *)
ThreadEnvIsDestroyed ==
    \A t \in Mutators : pc[t] = "leaving" ~> pc[t] = "out"

(* Worker::stop joins a thread that ends. *)
WorkerIsJoined == main = "terminating" ~> main = "down"

=============================================================================
