# Verification of gccpp

gccpp is a stop-the-world garbage collector for C++. Client threads keep their
roots in shadow stacks through `Handle` and allocate through
`Environment::alloc`; a single worker thread stops them at safepoints, marks the
objects that the roots reach, and then either sweeps a malloc-based heap
(`MarkAndSweepCollector`) or moves the survivors to the other half of a
two-space heap (`MarkAndCompactCollector`).

This directory holds TLA+ models of that code, the TLC configurations that check
them on small instances, and proofs that TLAPS checks for every instance.
Paths below are relative to the repository's `src/`.

## Inventory

| Component | State | Operations | Interacts with |
|---|---|---|---|
| `Environment`, `ThreadEnv` (`gc/containers/Environment.*`) | `self_suspend`, `env_lock` | attach, detach, `safepoint`, `force_gc`, `unmanaged_context`, `raw_alloc_helper` | everything else |
| `Worker` (`Worker.*`) | its thread | `start`, `stop`, `run` | `WorkerState`, `ThreadLock`, the collector |
| `WorkerState`, `WaitBarrier` | `mode`, a mutex, a condition variable | `collect`, `start`, `terminate`, two waits; `wait`, `notify` | mutators, worker and owner block in it or notify it |
| `ThreadLock`, `SpinLock` | `lock_map`, one flag per thread | `lock`, `unlock`, `stw`, `run_world` | shared by mutators and worker |
| `ThreadsStacks`, `ShadowStack`, `Buffer` | a stack of roots per thread | attach, detach, push, truncate, visit | written by mutators, read and updated by the collector |
| `Handle`, `HandleMark`, `Oop`, `ObjectPointer`, `MarkWord` (`pointer/`, `gc/MarkWord.h`) | the slot of a stack, a raw pointer, colour and forwarding pointer | load, store, dereference | client code |
| `Mark` | worklist, colours | `do_it`, `trace`, `process_pointer` | both collectors |
| `MarkAndSweepCollector`, `Sweep` | - | `collect`, the predicate of `free_if` | `MallocBasedAllocator` |
| `MallocBasedAllocator`, `AllocInfo` | doubly linked list of chunks, statistics | `alloc`, `free`, `free_if`, destructor; `append`, `remove` | `malloc` |
| `MarkAndCompactCollector`, `Reallocate`, `UpdateReferences`, `Relocate` | worklist | `collect` and its three phases after marking | `SemispacesAllocator`, the stacks |
| `SemispacesAllocator`, `LinearAllocator`, `FixedSizeAllocator` | two linear spaces, two small-object allocators, fingers | `alloc`, `visit`, `release`, `change_space`, `refresh_offset` | `Page` |
| `Array`, `Vector`, `Pair`, `String`, `SizeT` (`struct/`) | client data | `make`, `push_back`, `resize`, `copy_to`, `sort` | `Environment` |
| The word count (`example/count/count.cpp`, `ManagedHashMap.h`) | a hash map, its iterator, a vector of pairs | `put`, `get`, `iterator`, `nextNode`; `update_value`, `parse_file`, `count` | the containers, `Environment` |
| `GCTimeRecorder`, `Page`, `mem` | - | timing, `mmap`, alignment | - |

What is hard in this code, and what makes each part correct:

* **Safepoints.** Threads poll, request, attach, detach and leave for unmanaged
  code at any moment of the worker's loop. Correct when no thread touches the
  heap during `collect()`, every attached stack is seen, no wakeup and no request
  is lost, and everybody who waits gets on.
* **WaitBarrier.** The mode is stored outside the mutex that guards the wait.
  Correct when no store falls between a test and the sleep that follows it.
* **Heap and client.** Objects are shared between stacks, cyclic, and reachable
  through Handles of other threads; an allocation may collect. Correct when a
  collection is invisible but for the garbage that is gone.
* **Chunk list.** `free_if` unlinks and frees while it walks, `malloc` returns
  blocks that carry old links. Correct when the links always stand for one list
  that has exactly the allocated chunks.
* **Shadow stack.** A `Handle` keeps the address of a slot, and the slots are in a
  `Buffer` that `mremap` may move. Correct when no Handle outlives its slot.
* **Containers and their client.** Every allocation may collect, and a collection
  that moves objects leaves every raw `Oop` and every `this` behind. Correct when
  what is needed across an allocation is in Handles, and the result does not depend
  on where the collections fall.
* **Mark-compact.** Forwarding pointers, colours and the old and new place of an
  object are all live at once, and a released space keeps its mark words. Correct
  when the graph after is the graph before, moved.

`PROJECT.json` lists the single hazards, each at its line.

## Modules

| Module | Models |
|---|---|
| `StopTheWorld` | abstract: what the safepoint protocol promises |
| `Safepoint`, `SafepointProperties` | `Environment`, `Worker`, `WorkerState`, `ThreadLock`, `ThreadsStacks`, one step per access to shared state |
| `AtomicBarrier` | abstract: a barrier whose `wait` and `notify` take one step, as `Safepoint` has it |
| `WaitBarrier` | `wait` and `notify` with the mutex, the condition variable and spurious wakeups |
| `HeapClient` | what client threads do with Handles, Oops and fields in the critical sections that `StopTheWorld` grants, and `raw_alloc_helper` |
| `ManagedHeap` | abstract: what an allocation and a collection promise when objects stay where they are |
| `MovingHeap` | abstract: what they promise when a collection moves objects |
| `Mark` | the marking phase of both collectors |
| `MarkSweep`, `MarkSweepProperties` | the malloc-based heap and its collector, on a sequence of chunks |
| `ChunkList` | that sequence as `AllocInfo` implements it, with links |
| `MarkCompact`, `MarkCompactProperties` | the two-space heap, the small-object allocator and their collector |
| `ShadowStack` | one thread's `Buffer`, `Handle`s and `HandleMark`s, with addresses |
| `ClientHeap` | the heap as the containers see it: typed objects, and an allocation that may collect with either collector |
| `Containers` | the classes of `struct/`, the managed `HashMap` and its iterator: what their methods do between two allocations |
| `WordCount`, `WordCountProperties` | the program `managed::count`, with the methods of the containers that allocate |
| `DataLemmas`, `*Proofs` | theorems; `WordCountExactProofs` builds on `WordCountProofs` |
| `MC*`, `*.cfg` | instances for TLC |

They compose in two directions. Downwards, `HeapClient` instantiates
`StopTheWorld` for its threads, `Mark` extends `HeapClient`, and the two heaps
extend `Mark`; `ChunkList` refines the sequence of `MarkSweep`; `WordCount` extends
`Containers`, which extends `ClientHeap`, which extends `ShadowStack`. Upwards,
`Safepoint` implements `StopTheWorld`, so the heaps may take it for granted that
the world is stopped; `WaitBarrier` implements `AtomicBarrier`, so `Safepoint`
may; `MarkSweep` implements `ManagedHeap`, and the linear spaces of `MarkCompact`
implement `MovingHeap`, so `ClientHeap` may let an allocation collect in one step:
what no Handle reaches goes, and if the collector moves objects a raw `Oop` is
stale after it.

Definitions keep the names of the source where they can. A module also holds
*faulty forms* of some actions, which are no part of `Next`: each is a plausible
bug, and substituting it breaks the property it is listed with in `PROJECT.json`.

### Safepoint

A mutator's `pc` is the place in `Environment` it has reached, `worker` the place
in `Worker::run`, `main` that of the thread that owns the `Environment`.
`thread_lock` is the set of threads whose spin lock is taken: it has no owner, as
in the code. `lock_map` is a sequence because `stw` and `run_world` go through the
deque in order; `ThreadLock::find_entry` and erasing are part of `LeaveErase`.
`pending` is a history variable: the requests not yet served by a collection that
began after them. Everything under `env_lock` is split at the points where another
thread can see the difference.

### WaitBarrier

Threads store a value and notify, or wait for one of several predicates.
`pthread_cond_wait` gives up the mutex and starts waiting atomically, wakes up
spuriously, and takes the mutex again: that is the contract of pthreads and the
only thing external here.

### HeapClient, Mark, MarkSweep

A cell is a chunk. `stack[t]` is the shadow stack, `oop[t]` one raw pointer of the
thread, which is no root: it is dropped whenever the thread stops, the discipline
that gccpp asks of client code. `request[t]` is the size a thread allocates again
after a collection: the retry in `raw_alloc_helper`, between whose two halves other
threads run. `malloc` returns any unused block. A collection is `BeginMark`, one
`MarkRoot` per slot, one `MarkField` per worklist entry, then `SweepWhite` or
`SweepBlack` per chunk, `EndSweep`. The worklist is a set: nothing depends on its
order, and marking any of its elements first covers the stack that it is.

### ChunkList

`list` and `cursor` are history variables, the sequence and the position that
`MarkSweep` works with; `first`, `last`, `next`, `prev` and `current` are the
code's. A block keeps its links when it is freed, so that one that is allocated
again carries those of its former life until `Chunk::make` clears them.

### MarkCompact

A cell is an address, a space and an index. A chunk of a linear space takes
`chunk_size` indices; a small object takes one. Memory is what it is when `NDEBUG`
is defined: the mark words of a released space stay, to be read through updated
references in the next collection (`UpdateReferences.cpp:23`), while the
assertions of the debug build are the property `AssertionsHold`. Chunk headers and
fields of a released space are forgotten, because they are written before they are
read again. `before` is a history variable: stacks, fields and reachable objects
when `collect()` began. `small_allocator32` and `small_allocator64` differ in
their size only, and there is one of them.

The constant `Spaces` says which allocators there are. Without the small-object
allocator the heap implements `MovingHeap`; with it, it does not (see Findings).

The fingers of `compact()` are modelled with their in-place and returned results:
the right finger, whose slot stays Black after it has been copied, does not move,
so one object is copied into every free slot below it. This is what the two
violation runs are about.

### ShadowStack, ClientHeap, Containers, WordCount

The address of a slot is a pair of a mapping and an index; growing the `Buffer`
keeps the mapping or replaces it, as `mremap` pleases. A Handle whose mapping is
gone is not `Valid`. `marks` are the `saved_sp` of the HandleMarks in scope.

An object has an identity, whichever place it is at; Handles and fields hold it,
because a collection leads them along. `Stale` is what a raw `Oop` is when the
collection did not: `oop` is the result of the last call and `raw` the `this` or the
`Oop` argument of the call at work, and only `raw` lives across an allocation. `moving`
is the collector, chosen once. `MaxObjects` is the size of the heap.

`WordCount` goes from one Handle or allocation to the next; `pc` is the place.
`Derefs` names the Handles a step reads. When a step would follow an address where
nothing is any more, or a collection would meet one, the program is `undefined`: it
stops there in the model, and what the properties say of `undefined` is when it can
happen at all. The iterator of the map and the chains of its buckets are walked by
the code's own loops. The test of `get` for a null key (`ManagedHashMap.h:119`) is left
out, as the key is always a `String` just made. C++ does not fix the order in which
`Pair::make` gets its arguments (`count.cpp:64`): the model makes the temporary Handle
of the key in one step with the reading of the value, and where that Handle moves the
`Buffer`, the reading may come first or after it (`LoseTrack`). `sort` is applied to the vector that the program prints, since
`count` itself does not call it.

## Runs

All runs end within three minutes with two workers.

| Run | Bounds | Shows |
|---|---|---|
| `safepoint_safety` | 3 mutators | type, world stopped in `collect()`, roots visible, the assertion of `Worker.cpp:18`, no lost wakeup, `Terminate` final, locks opened only when the worker holds them; implements `StopTheWorld` |
| `safepoint_liveness` | 2 mutators | `force_gc()` and `~ThreadEnv` return unless the embrace below happens, `Worker::stop` joins |
| `safepoint_embrace` (violation) | 2 mutators | `~ThreadEnv` need not return |
| `wait_barrier` | 3 threads, 2 values | no lost wakeup, mutual exclusion, waits return, implements `AtomicBarrier` |
| `marksweep_threads` | 2 threads, 2 chunks of sizes 1 and 2, limit 3, 1 field, 1 Handle each | nothing in use is freed, statistics and limit exact, implements `ManagedHeap` |
| `marksweep_graph` | 1 thread, 3 chunks with 2 fields | the tri-colour invariant, exact marking, the inductive invariant, collections end |
| `chunk_list` | 4 blocks | the links stand for the list, walks are exact, the destructor frees everything |
| `compact_linear` | 1 thread, linear spaces of 3 units, chunks of 1 and 2, 1 Handle, 2 fields | spaces stay tiled, assertions hold, implements `MovingHeap` |
| `compact_small` | 3 small slots and 1 linear unit | type, the fingers never overwrite a survivor, collections end |
| `compact_lost` (violation) | 3 small slots | a survivor ends outside the allocated part |
| `compact_stale` (violation) | 3 small slots, 1 field | the copy of a small object keeps its old fields |
| `word_count` | texts of up to 4 of 3 words, every hash function to 0..2, tables of 2 buckets, vectors that begin with 1 element, 18 objects, a stack that begins with 4 slots, 3-bit `size_t`, both collectors | counts exact, staleness only through the arguments of `alloc()`, HandleMarks keep the stack bounded, `sort` sorts stably, no deadlock |

Why the bounds are enough to be interesting: three mutators are one that requests,
one that is being stopped and one that attaches or detaches; the runs have no bound
on the number of requests or collections, so the second collection over what the
first left behind is always included. Three chunks with two fields have every shape
that marking distinguishes (shared, cyclic, unreachable cycle, chain). Four blocks
give a chunk with neighbours on both sides and one that is reused. Three units with
chunks of one and two make survivors slide over dead chunks of another size. The
constant `MaxStack` bounds the Handles of a thread, `MaxText` the text of
`WordCount` and `MaxObjects` its heap.

In `word_count`, three words with hashes 0..2 in two buckets have every case of a
chain: alone, two words with one hash, two hashes in one bucket, three words in a
chain, an empty bucket. Four words in a text repeat one of three. Three pairs make
the vector grow twice from one element. The stack of the program has at most nine
slots, so that 4 slots grow twice, at every Handle it can happen at; the code's 4096
slots would never grow here, which is what `HandlesDoNotPileUp` shows. 18 objects
are exactly what the program has alive at most: there is no deadlock with 18 and
there is with 17, so collections are as frequent as can be and always find room.
`moving` makes every run of the program one with `MarkAndCompactCollector` or with
`MarkAndSweepCollector`.

`CHECK_DEADLOCK FALSE` is there, but in `word_count`, because these systems do stop: after
`~Environment`, after `oom_report()`, after the destructor, and when every thread
waits at a barrier that nobody is obliged to notify.

## Fairness

* `Safepoint`: weak fairness of the worker, of the owner's destructor and of each step
  of a mutator's call that has begun; strong fairness of `Safepoint(t)` only, because
  managed code reaches a safepoint again and again and finds the request standing.
  Nothing is assumed of taking `m_threads_lock` beyond what weak fairness gives.
  Nothing obliges a client to ask for a collection, attach or detach. The liveness
  properties are stated for clients that stop making new requests
  (`ClientsSettle`): `wait_collect_ending` returns only if the thread sees `Started`
  between two collections, and threads that keep asking can keep it from that.
* `WaitBarrier`: weak fairness of a call's own steps, strong fairness of taking the
  mutex. pthread mutexes promise no order, but a mutex that is free again and again
  is not refused to one thread for ever on the schedulers gccpp runs on; without
  this no liveness at all can be had of the code.
* `MarkSweep`, `MarkCompact`: weak fairness of the collector, a thread that runs
  with the world stopped.

## Findings

* `safepoint_embrace`: `destroy_for_current_thread` takes `env_lock`
  (`Environment.cpp:36`) while it still holds its `threadLock`; the worker takes
  them in the other order (`Worker.cpp:15-16`). Both spin for ever.
  `safepoint_liveness` shows that this is the only way to hang.
* `compact_lost`: `refresh_offset` (`FixedSizeAllocator.h:160`) takes the slot of
  the right finger for free and subtracts one more; whenever `compact()` has copied
  anything, the last survivor is no longer inside the allocator and the next
  allocation overwrites it.
* `compact_stale`: `compact()` copies before `UpdateReferences` leads the fields to
  their new places, so the copy keeps the old addresses.

Two weak points are no findings, because the repository nowhere promises better;
the properties of `word_count` say how far they reach. `Pair::make` and
`HashMap::iterator` hand an `Oop` to `alloc()`, which a moving collection makes stale.
`StaleOnlyFromArguments` excepts these two, so it does not catch them; it says
that nothing else goes stale and how far they reach. A `Buffer` that moves leaves
its Handles behind (`pc = "undefined"` only then or for the former reason).

## Proofs

TLAPS proves, for every value of the constants that satisfies the modules'
assumptions (a null pointer that is no cell, a worker that is no mutator, sizes
that are positive, a space and an index for every cell of `MarkCompact`, a stale
reference that is no object, hash codes that are natural numbers):

* **SafepointProofs.** `IInv` is inductive. Its core is `LockOwnership`: a thread's
  lock is set exactly when the thread is in managed code or the worker has stopped
  it, never both. With `Registration` (the lock map and the stacks have the attached
  threads, once each) this gives `WorldIsStopped`; `RequestsKept` and `OwnerOrder`
  account for the mode and give the assertion and `TerminateIsFinal`; `Waiting` and
  `NoLostWakeup` account for the wait set. `Implementation` maps every step to a
  step or a stutter of `StopTheWorld`.
* **WaitBarrierProofs.** `IInv`: the mutex is held by exactly the thread that is in
  a critical section, and a sleeper whose predicate has become true has a notifier
  before its broadcast. From it, the refinement of `AtomicBarrier`.
* **MarkSweepProofs.** First, as in `MarkCompactProofs`, what the heaps share and
  `HeapClient` alone gives: `Reachable` is closed and the least such set, and
  `ClientInv(A)` - the type invariant of the client's variables, and every Handle,
  Oop and field of an object in `A` refers into `A` - is kept by every step of client
  code, by an allocation and by a refused one. Then `IInv` relates colours, worklist,
  cursor and list at every step of a collection: black objects are reachable
  (`MarkingIsBounded`), edges from black lead to black or are in the worklist
  (`NoBlackToWhite`), so that an empty worklist leaves exactly the reachable objects
  black (`MarkIsExact`); the sweep has all black chunks before it and a white list
  behind it (`SweepIsAhead`). It is what makes `NoDangling` and the refinement of
  `ManagedHeap` inductive: neither is on its own, because nothing in them says that
  colours are clean when a collection begins.
* **ChunkListProofs.** The links stand for the list (`Linked`), the list has the
  allocated chunks once each, the walk is where it says: together inductive.
* **MarkCompactProofs.** Three results, each on a smaller set of behaviours.
  `HeapInv` is inductive with no condition at all. It has the types, the tiling of
  both spaces (`SpacesAreTiled`), the room that is left in the space that survivors
  move to (what has been copied is no more than what has been visited), the places of
  the two fingers, and what marking has covered; from it `TypeOK`, `SpacesAreTiled`
  and `SurvivorsAreIntact`. `GraphInv` says what objects and references are at each
  moment of a collection: where each survivor of `before` is now, that its fields and
  the slots lead to it directly or through a forwarding pointer, and that a mark word
  left in a released space belongs to nothing that is read. It is inductive as long
  as `compact()` has moved nothing (`NothingIsCompacted`): both findings about moving
  objects come from `compact()` alone, and everything else in the collector is right
  (`HandlesStayAllocated`, `GraphPreserved`, `AssertionsHoldUncompacted`). A program
  whose objects all go to the linear spaces (`NoSmallObjects`: no size below the
  threshold, or no slots) never gets there, so that `LinearAssertions` and
  `Implementation`, the refinement of `MovingHeap`, hold with no further condition.
  Forwarding, updating and relocating are there one injection: the step `EndRelocate`
  maps to `EndCollect`, all others to stutters. The promise is worth having:
  `NoDangling` of `MovingHeap` follows from `ClientInv(objects)` and the world being
  stopped when a collection begins, since an injection of the reachable objects leads
  every pointer to an object again (`MovingInvariance`, `NothingDangles`).
* **WordCountProofs.** `StackInv` has one frame for each place of the program: the
  depths that the HandleMarks in scope have saved, the number of slots in use, and
  the slot of each Handle in scope. It is inductive for every text, hash function,
  Buffer and heap, and gives `HandlesDoNotPileUp`. A Buffer that begins with nine
  slots or more, as the code's 4096, never moves, and what the program dereferences
  is always in scope (`NoHandleLosesItsSlot`). On top of it stands `ObjectsInv`, one
  line for each thing a place of the program takes for granted: the class of the
  object in each slot of its frame (`Leads`), what the last call has returned
  (`OopAt`), where `raw` is from unless a collection has made it `Stale` (`RawFrom`,
  `Fresh`), and, of the heap, that each object is as its class makes it (`Formed`),
  that the buckets of a table hold nodes or nothing, that no array is both a table
  and a vector's, and that the chains end (`Acyclic`). The last two are what makes
  `Link`, `Store` and the growth of a vector keep the rest. It is inductive over both
  kinds of collector and every place a collection may come at, and gives `TypeOK` and
  `StaleOnlyFromArguments`. So, over mark-and-sweep, the program follows no address
  that is gone (`NoHarmWithoutMoving`).
* **WordCountExactProofs.** What the program computes. `CountsAreExact` speaks of two
  places only, the map when the next word is to be read and the vector when it is
  printed, and says nothing of how one leads to the other; three invariants, each
  inductive together with those before it, do so place by place. `ParseInv`: the map
  has one node for each word read so far, in the bucket of its hash, with its number
  of occurrences; each node has a value of its own, since `store` on a shared one
  would count for two words; a word that is on its way in is in no node, and what is
  made for it is referred to by nothing else. `IterInv`: what the iterator has
  `Ahead` is the chain from its next node and the buckets it has not looked into, the
  chain lies in buckets it has passed, and the node in the loop's hands is no longer
  ahead. `VectorInv`: the vector has one pair for each word `Behind` the iterator,
  except the loop's own until `store` has put it there, in the old array and the new
  one alike while a `push_back` copies; `words_count` is the number of words of the
  text that these are. At `print` nothing is ahead, so every word is behind. The
  number of a pair may have gone stale between its making and the pair's (`Shows`):
  `CountsAreExact` excepts the texts for which it has. Nothing is assumed of the
  text, the hash function or the heap. `SortIsStable` gives `SortSorts`. `Sort` folds
  one comparison and exchange over the steps of the two loops of `Vector::sort`;
  after the first passes the vector still has its elements, those with equal counts
  are in the order they had (`Stable`), and those from some place on are where they
  belong (`Settled`); within a pass the greatest so far is where the pass is
  (`Bubbled`). The theorem has three hypotheses. The first, that `2^WordBits` is a
  number greater than one, follows from `WordBitsAssumption` but the provers know
  nothing of powers. The other two say that a bound on the length of the text exists
  and is less than `2^WordBits`: a text in memory has fewer words than a
  `std::size_t` has values. Without it `length - 1` could be that of another length.
* **DataLemmas.** What `RemoveAt` does to a list; that a sum over a finite set does
  not depend on the order in which its elements are chosen, so that it changes by the
  size of the chunk that comes or goes; that a family of finite sets has one that is
  in no other; what `FlattenSeq` makes of a sequence of sequences. Facts about a
  recursive function are proved without an induction rule, from a least number or a
  smallest set for which they fail, or a largest on which they hold: so too that
  `Closure` is the least closed set and that a chain that is `Acyclic` has an end, in
  `WordCountProofs`, and what the folds of `sort` compute.

`SurvivorsAreIntact` is about collections that begin with no object marked. That is
not always so: an intermediate copy made by `compact()` keeps its colour, and the next
collection takes a reachable object that happens to be such a copy for one that has
been visited. With three slots nothing comes of it, but with four the fingers then copy
over a survivor; TLC finds this if the condition is left out and `SmallSlots`
is 4. It is a consequence of the finding `compact_lost`.

Only model-checked: liveness, because the prover has no fairness and no ENABLED, and
that `word_count` does not deadlock for want of room. The violation runs are
counterexamples and need no proof. Every invariant and every action or refinement
property of the passing runs is stated by a theorem, some of those of the
mark-compact heap under the condition named above.

## What is not modelled

Timing (`GCTimeRecorder`), `mmap` and its failures, alignment arithmetic (sizes are
in units), the characters of strings and how a text is split into words, the
unmanaged copy of the hash map (`UnmanagedHashMap.h`, which uses `new` and `delete`),
`main` and the benchmark, C++ exceptions in client closures, and memory ordering
weaker than sequential consistency. `mode` and `self_suspend` are `std::atomic` with
the default order, but `SpinLock` takes with acquire, spins with relaxed loads and
opens with release (`SpinLock.h:14-24`); the model takes all three for sequentially
consistent, so an opening that a later load of its thread overtakes is not in it.
`WordCount` is the program's one thread, as in the
example; threads that share objects are the business of `HeapClient`.

## Plan

Done: the safepoint protocol, the mark-sweep heap, the chunk list, the barrier, the
mark-compact heap and its refinement of `MovingHeap`, the shadow stack, the
containers and the word count, and the proofs of all heaps and of what the word count
computes. To come, in this order:

1. `ChunkList` as an implementation of the sequence in `MarkSweep`, stated as a
   refinement of the allocator's actions rather than by history variables.
2. The composition of `Safepoint` with a heap in one module, to replace the two
   refinements by a direct check on two threads.
