# A formal model of MetalHLE

MetalHLE is a high-level emulator for iPhone OS apps: guest code runs on a
translating CPU, and the system libraries it calls are written in Rust on the
host. This directory holds TLA+ models of the parts whose correctness depends on
the order of events, the TLC runs that check them and theorems proved with
TLAPS. Paths below are relative to the repository's `src/` (`src/...` is the
Rust crate).

Contents: [inventory](#inventory) · [modules](#modules) ·
[correspondence](#correspondence-with-the-code) · [runs](#runs) ·
[disagreements](#where-code-and-comments-disagree) ·
[stated, not met](#stated-not-met) · [proofs](#proofs) ·
[not modelled](#not-modelled) · [plan](#plan)

## Inventory

Everything in the 32-bit emulator happens on one host thread. Guest threads are
coroutines: `Environment::run` resumes one, and it gives control back when its
slice of ticks is used up, when it blocks, or when it ends. There is no
parallelism, but there is every interleaving at the points where a coroutine
yields, and every blocking operation is split there: what a host function read
before its yield may be stale after it.

| Component | Code | State | Operations | What makes it correct |
|---|---|---|---|---|
| Guest threads, scheduler | `src/environment.rs` | `threads` (active, blocked_by, contexts), `current_thread`, `DEADLOCK_GRACE_COUNT` | new thread, sleep, suspend, resume, yield, join, `schedule_next_thread` | only runnable threads run; every runnable or expired thread runs; the deadlock panic is never wrong and never missing |
| Host mutexes | `src/environment/mutex.rs` | table id → type, waiting count, owner and count, phantom locks | init, lock, unlock, relock, destroy | exclusion; what threads were told agrees with the table; a mutex with blocked threads is not destroyed |
| pthread mutexes | `src/libc/pthread/mutex.rs` | magic word and id in guest memory | init, lazy registration, lock, trylock, unlock, destroy | a held mutex stays usable |
| Condition variables | `src/libc/pthread/cond.rs` and the scheduler | waiting and waking queues, current mutex, timed-out set | init, wait, timedwait, signal, broadcast, destroy | no signal lost or spent twice; waits return locked; timeouts are told to the right wait |
| Semaphores | `src/libc/semaphore.rs`, `sem_decrement`/`sem_increment` | value, waiting set, named and open tables | init, destroy, post, wait, trywait, open, close, unlink, getvalue | posts and successful waits balance; waiting set exact |
| pthreads, Mach threads | `src/libc/pthread/thread.rs`, `src/libc/mach/thread_info.rs` | joined_by, detach state | create, join, detach, exit, cancel; suspend, resume | joins end; no circle of joins |
| rwlock, once, keys | `src/libc/pthread/{rwlock,once,key}.rs` | a mutex per rwlock; a word per once; a table of keys | lock, unlock; once; create, get, set | once runs once, and is over when its callers go on |
| Guest heap | `src/mem/allocator.rs`, `src/mem.rs`, `src/libc/stdlib.rs`, `src/libc/malloc.rs` | used and unused chunks, size buckets, freed bases; headers of aligned blocks in guest memory | reserve, malloc, posix_memalign, realloc, free, zones, coalesce | chunks are disjoint, and cover the heap; no block leaks or loses its chunk; new memory is zero |
| Objective-C lifetime | `src/objc/{objects,weak}.rs`, `ns_object.rs`, `ns_autorelease_pool.rs` | refcounts, weak locations, pool stacks per thread | alloc, retain, release, dealloc, weak load/store, drain | an object is freed once, after its last release, however deallocs and drains nest; weak references are zeroed |
| `@synchronized`, NSLock, NSCondition | `src/objc/synchronization.rs`, `ns_lock.rs`, `ns_condition.rs` | object → mutex; flags and queues of their own | enter, exit; lock, wait, signal | as for mutexes; NSCondition writes `blocked_by` itself |
| GCD | `src/libc/dispatch.rs` | queues, once tokens, groups | sync, async (run at once), once, group, semaphore | blocks run once and in order |
| Run loops, timers, perform requests | `cf_run_loop.rs`, `ns_run_loop.rs`, `ns_timer.rs`, `ns_object.rs` | timers and a stop flag per loop; due dates and references of timers; waiting threads and cancelled requests | run, stop; add, fire, invalidate; perform later or on a thread, cancel | callbacks may change the lists they are called from and run the loop again; the thread that waits for a request is woken by it |
| Operations, notifications | `ns_operation.rs`, `ns_notification_center.rs` | queues with dependencies; observers | start, finish, cancel; post | observers may come and go while a notification is posted |
| Audio queues | `src/frameworks/audio_toolbox/audio_queue.rs` | state and buffers of each queue, an OpenAL source for each | new, allocate, enqueue, prime, start, pause, stop, reset, flush, dispose; the run loop's handler with the guest's callbacks | the queue of OpenAL follows that of the guest; buffers come back; sources are not leaked |
| Files | `src/libc/posix_io.rs`, `src/libc/stdio.rs`, `src/fs.rs` | descriptor table, locks, FILE objects, the tree | open, dup, close, fcntl/flock, flockfile | descriptors and locks belong to one file and go with it |
| Loading | `src/dyld.rs`, `src/mach_o*.rs`, `environment.rs` 216-303 | images, symbol tables, load order | parse, bind, order initialisers | dependencies are initialised first |
| CPU, ABI | `src/cpu*`, `src/abi.rs` | registers, JIT cache | run, swap context, call | instruction semantics |
| 64-bit runtime | `src/environment64*`, `src/arm64_runtime.rs` | its own memory and stubs | run | a separate program, mostly stubs |
| Other audio, graphics, windows, UIKit, … | `src/audio*`, `src/gles*`, `src/window.rs`, `src/frameworks/*` | host resources and object properties | the iOS API | mostly shallow, and host I/O |
| GDB server, trainer | `src/gdb.rs`, `src/trainer*` | debugger connection; search results | step, continue; search | stepping must not lose wake-ups |
| Android port, app database | `android/`, `appdb/` | — | — | outside the emulator proper |

Hard behaviours, in the order of what they can break: interleavings at yields
(mutex hand-over, signals racing with timeouts, destroys under waiters),
suspension of threads in any state, deadlines that pass at any time, deadlock
detection, guest misuse that POSIX leaves undefined and the host must survive,
callbacks that re-enter the host (a timer's callback runs the loop that called
it, a dealloc method releases other objects, an audio callback stops the queue it
feeds), addresses used again for new objects, and pools that run short (guest
memory, OpenAL sources). `PROJECT.json` lists the hazards one by one at
the line where they bite, with the properties that cover them.

## Modules

| Module | What it is |
|---|---|
| `GuestObjects` | the names the synchronisation modules share: threads, mutexes, condition variables, semaphores |
| `GuestMutex` | the mutex table and the guest's magic words; one operator per path of the code |
| `GuestCond` | the host objects of condition variables |
| `GuestSem` | unnamed semaphores |
| `Environment` | the threads and the scheduler; EXTENDS the three and turns their operators into actions |
| `PosixMonitor` | abstract: what mutexes and condition variables promise, without queues, counts and scheduler |
| `MonitorRefinement` | the refinement mapping from `Environment` to `PosixMonitor` |
| `GuestHeap` | the allocator, the allocation calls of `mem.rs`, and libc's calls on top of them |
| `ObjectLifetime` | reference counts, dealloc, weak variables, autorelease pools, dynamic properties |
| `RunLoops` | run loops, timers and perform requests |
| `AudioQueue` | output audio queues, the OpenAL sources they play on and the guest's callbacks |
| `MCEnvironment`, `MCGuestHeap`, `MCObjectLifetime`, `MCRunLoops`, `MCAudioQueue` | constants for TLC |
| `EnvironmentProofs`, `SchedulerProofs` | theorems about `Environment`: types and locks; the scheduler |
| `QueueProofs`, `MonitorProofs` | the queues of condition variables, semaphores and waiting counts; the host's panics and the refinement |
| `GuestHeapProofs`, `ObjectLifetimeProofs` | theorems about chunks and blocks; about references and weak variables |
| `RunLoopsProofs`, `AudioQueueProofs` | theorems about timers, callbacks and requests; about buffers, sources and their order |

The five groups do not share variables: what the heap, objects, timers and
audio queues need of the scheduler is only that guest code of several threads is
interleaved between host steps that do not yield, and each module has that
interleaving itself. Definitions named `Mut...` are not part of the system: each
is a plausible bug in the definition that follows it, used to show that a
property can fail.

## Correspondence with the code

### Threads, mutexes, condition variables, semaphores

`Environment` has one action per host call (`pthread_mutex_lock` for the calls
that return at once, `pthread_mutex_lock_blocks` for those that yield, and so
on), one per arm of the `match` in `schedule_next_thread` (`ScanMutex`,
`ScanSemaphore`, `ScanJoining`, `ScanCond...`), and three for the end of a pass.

* **Control.** `pc = "guest"` while the coroutine of `current` runs, `"scan"`
  while the host is in `schedule_next_thread`; any other value is the reason of
  a host panic. A host call is one step up to its yield, because nothing else
  runs meanwhile; for a wait on a condition variable the code after the yield is
  a step of its own (`Resume`), because it looks at state that has changed.
  After the other yields no shared state is read: `lock_mutex` returns 1,
  `sem_decrement` returns true, `join` has had its value written.
* **A pass** looks at one thread per step, from the one after the current one
  round to the current one itself (`Candidate`). One step per thread keeps the
  order of the code; the guest cannot run in between.
* **`blocked` and `suspended`.** `ThreadBlock::Suspended(n, inner)` is split into
  the count and the inner block, which is what the code keeps below it.
* **Mutexes.** A value of `Mutexes` is what one `pthread_mutex_init` makes: a host
  object with its id, and the guest structure at `Address[m]` for as long as that
  names the id. The guest may initialise any address at any time, as in the code:
  the new mutex takes the address, and the host object of the old one stays in the
  table with its owner and the threads blocked on it, out of reach of every call.
  The only condition is that the model has a value left to which nothing refers
  (`Unreferenced`), which stands for the new id. `depth` and `phantom` are bounded by
  `MaxDepth` in the guards of the model's calls.
* **Time.** A deadline is `"ahead"` or `"over"`; `Tick` lets it pass at any
  moment, also in the middle of a pass. The code reads `now` once per pass for
  sleepers; a deadline that passes after its thread was looked at is one that
  passes before the next pass, so this adds nothing. The host's sleep until the
  next awakening is a new pass that may come early (the code says so itself).
* **The guest program** is any sequence of the calls in `Calls`. `WaitMutex`
  says which mutexes it uses with a condition variable, and `CrossUnlock`
  whether it unlocks NORMAL mutexes it does not hold, which the code allows.
* **History variables.** `held[t][m]` counts the locks less the unlocks that t
  was told succeeded; `credit[s]` what was put into a semaphore less the waits
  that returned success. No action's guard reads `credit`; `held` is read only
  to describe a well-behaved guest.
* **Panics.** The unwraps and assertions that a run can reach are actions
  (`WaitPanics`, `ResumePanics`, `ScanCondPanics`, ...) into a final `pc`.

**Refinement.** `PosixMonitor` knows two things: how often each thread `has`
each mutex, and the `wait` it is in, with a phase (waiting, signalled, late).
`MonitorRefinement` maps `has` to `held`, and the wait to what the block, the
two queues and the deadline of a thread say. The mutex of a
late wait is the one its thread is blocked on. The details that disappear are the
queues' order, the waiting count, phantom locks, the pass and the retries. Two
liberties the code takes are in the abstract specification because POSIX gives
them: a late thread may use up a signal, and any waiting thread may be woken.

### Guest heap

* **Chunks.** `heap` has the used and unused chunks as sets and the freed bases.
  Addresses count words. A bucket is the set of unused chunks with the same
  logarithm of size (`BucketFor`); which of several smallest chunks of a bucket
  is taken depends on the order of its vector, which is not modelled: any may be.
* **A call** is one step, unless the first search fails. Then each iteration of
  `coalesce_unused_chunks` is a step of its own (`CoalesceStep`; `last` is the
  base it has got to), and the call tries once more (`SecondTry`). Nothing else
  runs in between, as in the code; the steps are separate so that the invariants
  are checked, and proved, in the middle.
* **Contents.** `dirty` are the words that are not zero; `headers` are the words
  in front of aligned blocks that hold their raw base, which `free` and `realloc`
  recognise (`aligned_allocation_base`). They go when something writes over them.
* **The guest** frees any address in the allocator's range, also twice or in the
  middle of a block, but not the base of its binary's segments and not the raw
  base of an aligned block that it never saw. It writes only to its own blocks.
  It frees no object: `free` of an address with an Objective-C object is a
  `dealloc_object` (`stdlib.rs:332-339`), and is not modelled.
* **Loading.** The segments of the binaries do not overlap. `Allocator::reserve` would
  skip one that overlaps another (`allocator.rs:359-379`), and the loader would copy its
  bytes all the same; that such a binary is not loaded is an assumption
  (`HeapAssumption`).
* **History.** `live` has the blocks the guest has, `lost` the chunks that no
  call will find again: blocks of `malloc_zone_memalign` (`malloc.rs:160-191`
  writes no header) and aligned ones given to `malloc_zone_free`, which looks
  for none.

### Object lifetime

* **Addresses** are used again: a new object may get the address, and whatever
  the tables still hold, of one that is gone.
* **Stacks.** A `release` that takes the last reference calls the guest's dealloc
  method, which may do anything, then `[super dealloc]`, whose releases may
  deallocate in turn; the draining of a pool does the same for its contents. Each
  thread has a stack of such frames. Guest code of all threads is interleaved;
  host code (`InHost`) goes on until it calls a dealloc method or returns.
* **`SuperDealloc`** is `-[NSObject dealloc]`; **`HostDealloc`** is that of the
  host classes that go straight to `dealloc_object`, and leave their dynamic
  properties in the storage.
* **Weak variables.** `Raw` are bytes that are none yet, or no longer. The lists
  of the side table are sets: all copies of a slot are removed at once and zeroing
  it twice changes nothing, and `SideTableExact` says when it is there.
* **History.** `owned` counts the references the guest has to release, `leaked`
  those it autoreleased without a pool (the code logs and leaks them).

### Run loops

* **A loop** is named by its thread. `run_run_loop` is a frame with the copy of
  the timers it has yet to handle in this iteration, in any order, because
  `remove_timer` moves the last timer of a list into the gap; it sleeps when
  there are none, and comes back to return, to stop or to start the next iteration
  (`Wake`). `handle_timer` is split at the call of the target: `Start`,
  `CallbackReturns`, or `Skip` if the timer is not to fire. Guest code in a
  callback can run the loop again, so frames nest up to `MaxDepth`.
* **Turns.** A thread that is between two timers of an iteration does not yield
  (`HasTurn`); it does in guest code and while its loop sleeps.
* **Perform requests** are one-shot timers with a target. The entries of
  `SYNC_PERFORM_SEMAPHORES` are a sequence of timer and waiting thread, which
  `_touchHLE_timerFireMethod:` looks up by the timer's address.
  `CANCELLED_PERFORMS` is per target; `"once"` is an entry for a selector that
  cancels one request, `"always"` one for the target that stays.
* **Limits on the guest.** A timer is put into one loop at a time. `-fire` is sent
  by someone with a reference for as long as it runs, because the code retains
  nothing. With `CancelsWaited = FALSE` no loop is told to drop a request that
  another thread is waiting for; the code then leaves that thread waiting forever.
  `CADisplayLink`, which keeps its timer without a reference, is not modelled.
* **What is left out of a timer.** `-dealloc` also releases the target, the user info and
  the invocation (`ns_timer.rs:177-185`), which can run guest code in the middle of an
  iteration; `Deallocated` is the part that concerns the timer. Timers that the guest
  made have no target in the model: `-cancelPerformSelectorsWithTarget:` invalidates
  those of its target as well (`ns_run_loop.rs:228-237`), which has the same effect as
  `Invalidate` of each after `CancelPerforms`.
* **`Perform`** is all three ways to make a request: on the main thread and with a
  delay (`ns_object.rs:639-763`), and on any thread (`ns_object.rs:150-224`).

### Audio queues

* **A queue** is its host object: run loop, allocated buffers, enqueued buffers,
  state, source, and the flag of its running handler. The guest can do everything
  in the callbacks, so `handle_audio_queue` and `ensure_output_buffers` are frames
  with what they read before they called the guest: the copy of `is_running`, the
  source, and the buffers they have yet to return.
* **OpenAL** is modelled from the calls: a source is initial, playing, paused or
  stopped, with its buffers and how many are processed. A source that was never
  played has none processed and does not stop; all buffers of a stopped one are.
  `Mix` plays on between the steps, not within one: at the end of the handler the
  source's state is read and the source is restarted in one step (`Completed`).
  Generating a source fails when the pool is empty, which is the only failure
  modelled.
* **Stale ticks.** A run loop goes through a copy of its list of queues
  (`ns_run_loop.rs:402-416`), so that it may handle one that has just been moved to
  another loop, or disposed of and created again. `Handle` lets any thread with a run
  loop handle any queue at any time, which includes that; fairness is only assumed of
  the loop that has the queue. The runs have one loop, the theorems any number.
* **Data.** Whether a buffer has audio in it when the callback returns without
  enqueueing it (the code then enqueues it itself) is left open. Formats can be
  played; there are no listeners.

## Runs

| Run | Instance | Distinct states | Checks |
|---|---|---|---|
| `EnvMutex` | 3 threads, a NORMAL and a RECURSIVE mutex, depth ≤ 2, whole life | 367,964 | `LockAccounting` `BlockedMutexExists` `WaitingExact` |
| `EnvMonitor` | 3 threads, 1 mutex, 1 condition variable, suspends ≤ 1, fairness | 172,012 | `TypeOK` `QueuesExact` `NoHostBug` `WaitEnds` `ImplementsMonitor` `TimedWaitEnds` |
| `EnvFair` | 3 threads, thread calls, 1 semaphore of value ≤ 2, suspends ≤ 1, fairness | 70,981 | `RunsUnblocked` `SemWaitersExact` `SemConservation` `StuckForGood` `ReadyThreadRuns` `JoinEnds` `DeadlockFound` |
| `EnvMisuse` | 2 threads, an address initialised as a NORMAL and twice as an ERRORCHECK mutex, in use or not, 1 condition variable, 1 semaphore; calls out of order and destroys in use | 1,475,505 | `MutualExclusion` (checked types) `DeadlockIsReal` |
| `Heap` | 2 pages of 4 smallest chunks to allocate from, 2 sizes and an alignment, 2 blocks | 41,499 | `Partition` `ChunksSound` `LiveBacked` `NothingLeaks` `SearchComplete` `FreshIsZero` |
| `Lifetime` | 2 threads, 2 objects, 2 pools, 2 weak variables | 817,463 | `RefcountExact` `DeallocOnce` `WeakNeverDangles` `SideTableExact` |
| `RunLoopTimers` | 2 threads, 1 loop run up to 2 deep, 2 timers, stops | 402,806 | `TimerRefsExact` `ListedExact` `NotReentered` `FiredOnce` |
| `RunLoopPerforms` | 2 threads with a loop each, 2 requests, waiting and cancelled, fairness | 55,218 | `RightWaiterWoken` `WaiterHasRequest` `DueTimerFires` |
| `AudioQueues` | 2 queues, 3 buffers, 1 source | 515,146 | `QueuedOnce` `SourcesOwned` `SyncKept` |
| `AudioQueueFair` | 1 queue, 2 buffers, callbacks in callbacks, fairness | 118,588 | `EnqueuedComesBack` `StopCompletes` |
| `EnvWaitedMutexDestroyed` | 3 threads, 1 monitor, destroys | violation | `BlockedMutexExists` |
| `LifetimeDyingLoaded` | as `Lifetime`, dying objects are loaded | violation | `OwnedAlive` |

What the properties say, in short (each has a comment in its module):

* `LockAccounting`, `MutualExclusion`: the threads' view of a mutex and the
  table agree, and no two threads believe they hold it, through hand-over,
  signals, timeouts, phantom locks and threads that end with it locked. A mutex is
  one initialisation of its address. If the guest initialises the address of a
  mutex that is held, two threads can hold the old and the new one; that is not
  what `MutualExclusion` denies (see `AddressExclusive` [below](#stated-not-met)).
* `WaitingExact`, `BlockedMutexExists`: the waiting count is right and protects
  blocked threads. They hold while no condition variable is used; see below.
* `QueuesExact`, `WaitEnds`, `ImplementsMonitor`: the contract of condition
  variables, including a deadline that passes after the signal. In that case the
  code takes the waiter off `waking` and reports a timeout; its signal is spent.
* `SemConservation`, `SemWaitersExact`: counting semaphores count.
* `RunsUnblocked`: the assertions of `yield_thread` and `switch_thread`.
* `DeadlockIsReal`, `StuckForGood`, `DeadlockFound`: the panic "No active
  threads, program has deadlocked!" is right, final and certain. `StuckForGood`
  shows more: the three retries before the panic, meant for timed waits "not
  detected as sleeping", never find anything, because a timed wait always
  announces its deadline in the same pass.
* `ReadyThreadRuns`, `JoinEnds`, `TimedWaitEnds`: round robin starves nobody that
  can run, sleepers included.
* `Partition`, `ChunksSound`: no address is in two chunks or none, and no chunk
  fails the assertions of `Chunk::new` and of the buckets. `LiveBacked`,
  `NothingLeaks`: every block keeps a chunk of its own whatever else is freed, and
  what is freed is found again. `SearchComplete`: buckets hide no chunk that is
  large enough. `FreshIsZero`: `malloc` returns zeroed memory.
* `RefcountExact`: a count is the number of references that exist anywhere, in
  the guest, properties, pools, and the releases frames have yet to send.
  `DeallocOnce`, `WeakNeverDangles`, `SideTableExact`: one dealloc for each
  object, and weak variables never see what came after it.
* `TimerRefsExact`, `ListedExact`, `NotReentered`, `FiredOnce`: a timer lives as
  long as a loop may still touch it, and no longer, though its own callback
  removes, releases or re-enters it.
* `RightWaiterWoken`, `WaiterHasRequest`: although requests are found by the
  address of a timer, which is used again, nobody gets another's answer or waits
  for one that was given. `DueTimerFires`: a nested loop starves no timer.
* `QueuedOnce`, `SourcesOwned`, `SyncKept`: a buffer is enqueued once and not freed
  meanwhile; no source leaks through reuse and dispose; "the nth item in this
  queue must also be the nth item in the OpenAL queue".
* `EnqueuedComesBack`, `StopCompletes`: a source that has run dry is restarted
  while the queue runs, and an asynchronous stop ends.

**Bounds.** Three threads are the least with which a thread can interfere with
two others that interact (a locker between a signaller and a waiter, a third
joiner in a circle); two mutexes are of different types where both are used. No
symmetry of threads there: thread 0 is the main thread, and round robin orders
the others. `MaxDepth`, `MaxValue` and `MaxSuspend` cut counters at the smallest
value that tells "one" from "more than one" where that matters; `NumThreads`
bounds the calls that create threads. The grace counter has the code's own bound
of 3. `MaxLive` bounds the heap's blocks: two in
two pages give splits, joins to both sides, requests that need coalescing and
requests that fail. The two segments are reserved at either end of the free
memory. The sizes are below a page, and above one with an alignment. In `Lifetime`, `MaxOwned`,
`MaxPooled` and `MaxLeaked` bound references; two objects that hold each other,
and two pools of different threads, give every nesting of deallocs and drains
that involves two. In the run loops a depth of 4 frames is a loop in a callback
of a loop. With one source for two queues the pool runs short, and queues pass it
on. `Target` is 1 so that two buffers are more than the source takes.

What these bounds keep out of the runs is covered by theorems only: another
thread's loop that meets a running timer (in `RunLoopTimers` the second thread runs
no loop), requests cancelled for one selector (`"once"`, `RunLoopPerforms`),
callbacks in callbacks of two queues (`AudioQueues`, `MaxDepth` 1), several loops with
queues, and mutex addresses that are initialised again in use by three threads or with
mutexes that may be recursive (`EnvMutex` gives each mutex its own address).

`CHECK_DEADLOCK FALSE` is in the configurations of `Environment` because the
system does stop: after a panic, and a program need not call anything; in
`Lifetime` and `LifetimeDyingLoaded` because the bounds can use all objects up;
in those of the run loops because two threads that wait for requests to each
other wait forever, as in the code.

**Fairness.**

* `Environment`: weak fairness of `Preempt` — a slice is a fixed number of ticks,
  so a thread that never blocks is taken off the CPU; of `Scheduler` — the loop of
  `schedule_next_thread` keeps running; of each `Resume` — a host function
  continues once its coroutine does; and of each `Tick` — time passes. Nothing is
  assumed of guest calls. No liveness is claimed of threads blocked on a mutex:
  others may lock it again before a pass looks at them. Nor of signalled waiters:
  only the front of `waking` can be woken, and it may be suspended.
* `RunLoops`: strong fairness of `RunStep` of each thread — `ReadyThreadRuns`
  gives each its turns, but other threads' turns disable a step again and again —
  and weak fairness of time. It includes that callbacks return.
* `AudioQueue`: weak fairness of the mixer and of callbacks that return, strong
  fairness of the handler of each queue — a loop comes round to each of its
  queues, but a callback on top of the stack disables it meanwhile. `StopCompletes`
  excludes what the code does not promise either: a queue that is fed while it
  stops (`FeedsStopping`), and one whose source was never played.

## Where code and comments disagree

Two runs state what a comment of the repository says and show it violated.

* `EnvWaitedMutexDestroyed` — the waiting count is there "so that the mutex
  isn't destroyed" (`src/environment/mutex.rs:231`). Wake-ups of condition
  variable waiters subtract from it without having been added, so it reaches 0
  under a blocked thread, and the mutex can be destroyed.
* `LifetimeDyingLoaded` — the state "deallocating but not yet deallocated" is never
  entered, says `src/objc/weak.rs:110-113`. It is, while a dealloc method runs,
  and a weak variable that is loaded then gives out an object that goes away:
  the retain of a dying object has no effect.

## Stated, not met

These formulas are in the modules because a comment or the structure of the code
suggests them. They do not hold, and no run checks them as stated. Each can be
seen by adding it to the configuration named.

| Formula | Add to | What happens |
|---|---|---|
| `HeldMutexUsable` | `EnvMutex.cfg`, INVARIANT | "the mutex is not destroyed on an Err return" (`src/environment/mutex.rs:91`), but `pthread_mutex_destroy` has overwritten its magic by then (`src/libc/pthread/mutex.rs:291-298`), and its owner cannot unlock it any more |
| `NoJoinCircle` | `EnvFair.cfg`, INVARIANT | callers of `join_with_thread` should keep deadlocking joins from occurring (`src/environment.rs:1583`); `pthread_join` only finds pairs (`src/libc/pthread/thread.rs:514`) |
| `AddressExclusive` | `EnvMisuse.cfg`, INVARIANT | a checked mutex excludes, whatever is called on its address; but `pthread_mutex_init` puts a fresh, unlocked host object there although a thread holds the mutex (`src/libc/pthread/mutex.rs:189-201`), and another thread can lock that one. POSIX leaves it undefined |
| `NothingLost` | `Heap.cfg`, INVARIANT | `malloc_zone_memalign` keeps the address of the chunk in front of its block (`src/libc/malloc.rs:187-188`), but nothing reads it: neither `free` nor `malloc_zone_free` finds the chunk. `NothingLeaks` excepts these chunks |
| `SemConservation` | `EnvMisuse.cfg`, INVARIANT | a thread whose semaphore is destroyed is to return from `sem_wait` with `EINVAL` (`src/environment.rs:2535`); it returns success |
| `NoHostBug` | `EnvMisuse.cfg`, INVARIANT | initialising a condition variable again is to be survived (`src/libc/pthread/cond.rs:77`); with a waiter on it the scheduler panics |
| `StopClearedAtStart` | `RunLoopTimers.cfg`, PROPERTY | a stop is "cleared at the start of the next run" (`ns_run_loop.rs:68`); it is cleared only by the run that it ends, so one that comes between two runs ends the second |
| `OnlyPreviousCancelled` | `RunLoopPerforms.cfg`, INVARIANT | `+cancelPreviousPerformRequestsWithTarget:` leaves an entry (`ns_object.rs:325-340`) that also cancels requests made later |

`SyncKept` has an exception for the same reason: a reset leaves the buffers of a
source that was primed but never played on it, while the queue of the guest is
empty (`audio_queue.rs:81-83` says the nth items are the same). The exception is
about the state after the step, because the handler can prime a source and reset
it at once: if a callback disposes of the queue it serves and creates it again, and
the old source is stopped as another queue's, the handler takes that for the end
of an asynchronous stop of the new queue (`audio_queue.rs:2276`). That takes two
sources and callbacks in callbacks. Other things the
models show, which no comment denies: the unconditional `alSourcePlay` after the
callbacks restarts a queue that was paused in one of them; reusing the active
queue gives two owners the same one; coalescing joins from the bottom up, and may join
the first piece of a free page to what is before it, so that the page is never
put together; `realloc` of an aligned pointer copies nothing.

## Proofs

The proofs about threads and locks hold for every number of threads and objects,
mutexes of any kinds and initial magics, and any guest program; those about the
heap for every size of memory, page and smallest chunk; those about objects for
every number of threads, objects, pools and variables; those about audio queues
for every number of queues, buffers, sources, threads and nested callbacks; those
about run loops for every number of threads, timers and targets and any nesting.
The assumptions are those of the constants: `ObjectsAssumption`, `MutexAssumption`,
`SemAssumption`, `EnvironmentAssumption`, `HeapAssumption`, `LifetimeAssumption`,
`AudioQueueAssumption`, `RunLoopsAssumption`. What a theorem needs beyond them is a hypothesis in its
statement, on the calls the program makes; each is explained below, and each is
there because the result is false without it.

`EnvironmentProofs`:

* `LockInvHolds`: `Spec => []LockInv`. `LockAccounting` is not inductive by
  itself: freeing a mutex at count 1 needs that a mutex has a count exactly
  while it has an owner (`OwnerCounted`), and handing it to a new owner needs
  that a thread without the real lock has no phantom locks (`PhantomsOfOwner`).
  The proof first shows that every step does one of ten things to the mutexes
  (`NextLockStep`), then treats these (`LockStepInv`).
* `LocksAccounted`, `LocksExclusive`: `LockAccounting` and `MutualExclusion`
  follow from it.
* `TypeCorrect`: `Spec => []TypeOK`, component by component in the same way.
  It needs `LockInv`, or an unlock might take a lock count below zero, and the
  bounds on the scheduler's loop variable.

`SchedulerProofs`:

* `SchedInvHolds`: `Spec => []SchedInv`. `DeadlockIsReal` speaks of the last
  step of a pass only; what makes it inductive is `PassedOver` (while a pass has
  set no `next_awakening`, no thread it has looked at can run) and `StuckStays`
  (after a retry no thread can run). Two arguments carry it: `PassComplete`, the
  round robin from the current thread meets every thread, and
  `TimesOutLockedSkips`, the one arm that changes state and goes on with the
  pass leaves its thread unable to run and frees no other. The steps are first
  reduced to a few moves (`GuestControl`, `SchedulerControl`).
* `RunnersUnblocked`, `VerdictRight`: `RunsUnblocked` and `DeadlockIsReal`
  follow from it.
* `VerdictFinal`: `Spec => StuckForGood`. A thread that is woken could run
  before, so none is woken once none can run.
* `WaitsEnd`: `Spec => WaitEnds`. A guest call changes the block of the current
  thread only, which by `RunsUnblocked` is in no wait, and a pass that of its
  candidate only (`SchedulerUnblocks`).

`QueueProofs`, on what waits for what:

* `QueuesHold`: `QueuesExact`, of every program whose steps satisfy `InitsIdle`:
  it initialises no condition variable that threads wait for. POSIX leaves that
  undefined, and here it empties the queues under the waiters (`EnvMisuse`). Each
  step moves one thread onto, along or off the queues of one condition variable,
  or does neither (`QueueStep`, `NoQueueStep`).
* `SemaphoreWaiters`, `SemaphoreCredit`: `SemWaitersExact` and `SemConservation`
  together (`SemInv`), of every program that satisfies `DestroysIdle`: it
  destroys no semaphore that threads wait for. Otherwise the wait returns a
  success that nobody has paid for; see [stated, not met](#stated-not-met).
* `LocksStayRegistered`, `WaitingNeverOvercounts`: in every program, a mutex that
  is locked is in the table, and a waiting count is at most the number of threads
  blocked on the mutex.
* `WaitingCounted`, `WaitedMutexKept`: the count is exact (`WaitingExact`), and so
  a mutex with blocked threads is not destroyed (`BlockedMutexExists`), in
  programs that wait for no condition variable (`NoWaits`). The run
  `EnvWaitedMutexDestroyed` is what happens in the others. Initialising, and the
  lazy registration of a mutex that was destroyed, are included.

`MonitorProofs`:

* `HostNeverPanics`: `NoHostBug` — no unwrap and no assertion of the mutexes, the
  condition variables and the scheduler fails — in programs that satisfy
  `InitsIdle`, destroy no mutex and no condition variable (`KeepsObjects`) and use
  one mutex with each (`OneMutexEach`). The invariant `HostInv` says that every
  unwrap would succeed before it is reached: each condition variable is in the
  host's table (`CondsFound`), and the mutex of one that threads wait for is
  recorded, one of theirs, and in the table (`WaitsBound`, `BlockedMutexExists`).
* `MonitorImplemented`: `ImplementsMonitor`, the refinement, in programs that
  satisfy `InitsIdle` and unlock a NORMAL mutex only if they have it
  (`~CrossUnlock`). The invariant is `MonitorInv`, where `WaitLink` says that a
  thread blocked on a condition variable is in its wait function. A step that
  no thread can tell (`Unseen`) is a stuttering step; the others are matched with
  one action of `PosixMonitor` each, with the thread that the step is about.

`GuestHeapProofs`:

* `Invariance`: `Spec => []IInv`. The invariant is `HeapOK` — the chunks tile the
  memory, all are sound, and no base of a used chunk is a freed base — and what
  the steps between the two tries of an allocation rely on. Each operation is
  shown to replace chunks by others that tile the same words: splitting
  (`Take`), cutting out (`reserve`), joining (`Release`, `CoalesceStep`). The
  arithmetic of alignment is in lemmas of their own, since a chunk of at least a
  page has to stay page-aligned through each of them.
* `HeapPartition`, `NoUnsoundChunk`, `NoFalseDoubleFree`: `Partition`,
  `ChunksSound` and `FreedNotInUse` follow from it. The last has no run of its
  own: a valid `free` is never taken for a double free.
* `BlockInvariance`: `Spec => []BlockInv`, about the blocks: each has a chunk of
  its own, in front of an aligned one is a header that leads to it and nothing
  else does, unused chunks are zero, and every used chunk is a block's, a
  segment's or lost.
* `BlocksKeepChunks`, `FreedIsReturned`: `LiveBacked` and `NothingLeaks` follow,
  if `free` clears memory (`ZeroOnFree`). Two games switch that off
  (`environment.rs:576`). Then the header of an aligned block that was freed is
  still in memory; when the chunk has been given to another block, freeing the old
  pointer again finds the header and frees that block (`mem.rs:1042`). That is a
  double free by the guest, which with `ZeroOnFree` is found out and ignored.
* `FreshMemory`: `FreshIsZero`, with and without `ZeroOnFree`.
* `SearchNeverMisses`: `SearchComplete`. What is in a later bucket is larger
  (`LaterIsLarger`), because buckets are logarithms. The prover knows nothing of
  powers, so `2^k` is reasoned about as the number of subsets of `1..k`, and
  least numbers take the place of induction (`LeastOf`).

`ObjectLifetimeProofs`:

* `LifetimeTyped`: `Spec => []TypeOK`.
* `WeakTableExact`: `Spec => []SideTableExact`. It is inductive with the types of
  the tables, the stacks and the objects: a weak variable holds an object only
  if it is listed under it, so that `dealloc_object` finds all of them.
* `LifeInvariance`: `LifeInv`, of programs that do not load an object while it is
  dying (`~LoadsDying`; the run `LifetimeDyingLoaded` shows what happens
  otherwise). References are counted by where they are: in the guest, in
  properties and pools, and at the places of the stacks' frames that have yet to
  be released (`ToRelease`). A step moves, adds or removes one place, so that
  cardinalities change by one with the count. What makes it inductive is `Dying`:
  an object without references is in exactly one dealloc frame, and the others in
  none; and `Quiet`: a frame whose dealloc method runs has nothing to release yet.
* `RefcountsHold`, `OneDealloc`, `WeakIsAlive`: `RefcountExact`, `DeallocOnce` and
  `WeakNeverDangles` follow. So does `OwnedIsAlive`, the property that
  `LifetimeDyingLoaded` violates: with `~LoadsDying` what the guest owns exists.

`AudioQueueProofs`:

* `AudioInvariance`: `Spec => []AudioInv`. A frame of the stack may be as old as
  one likes: its queue disposed of and created again, its source that of another
  queue. What holds of the queues and sources (`AudioOK`) therefore may not depend
  on the frames: an allocated source has one owner, which exists, a free one has
  no buffers, and no queue holds a buffer twice or one that is not its own. Each
  operator on the record of queues and sources is shown to keep it, and to touch
  its own queue and source only (`Untouched`); a stale source is only played.
* `BuffersQueuedOnce`, `NoSourceLeaks`: `QueuedOnce` and `SourcesOwned` follow.
* `QueuesStayInSync`: `SyncKept`. An operation keeps a queue in step (`Sure`), or is
  a reset, after which the source may have buffers although the queue is empty
  (`Loose`); a call is a number of sure operations with at most one reset of each
  queue, at its end or of another queue than the one it goes on with.

`RunLoopsProofs`:

* `LoopsInvariance`: `Spec => []LoopInv`. A timer's references are one of the loop
  it is in, the guest's, one of each iteration that has yet to drop it and one of
  its callback; each of the four is counted (`CountsOK`), and the count of its
  callbacks is its flag. What makes that inductive: what is below a callback is the
  iteration that holds its timer (`FrameOK`), or a nested loop could free it; a
  caller of `-fire` has a reference (`FiresOwned`); and what was fired is running or
  invalid (`FiredOK`). The calls are first shown to change one timer (`Moves`,
  from `InvalidateIs` to `AllInvalidatedIs`), the frames to change in one place
  (`PushTally`, `ReplaceTally`, `PopTally`); a step is one of each.
* `LoopTypes`, `TimersCounted`, `TimersListed`, `CallbacksNotReentered`,
  `OneShotsFireOnce`: `TypeOK`, `TimerRefsExact`, `ListedExact`, `NotReentered` and
  `FiredOnce` follow from it.
* `RequestsInvariance`: `RequestInv`, on top of `LoopInv`, of programs that have no
  loop drop a request that a thread waits for (`~CancelsWaited`; otherwise the
  thread waits forever, in the code too). Requests are found by the address of
  their timer, which is used again. So the invariant says that an entry of
  `SYNC_PERFORM_SEMAPHORES` is the only one for its timer, which is in a loop and has
  not been fired, that a request with a waiter has one until it is (`EntriesOK`,
  `AskersOK`), and that the callback has the waiter of its own request (`Woken`). Most
  steps are quiet: they leave every request where it is (`QuietFor`).
* `WaitersWokenRight`, `WaitersHaveRequests`: `RightWaiterWoken` and
  `WaiterHasRequest` follow.

TLC checks the same properties on instances: every safety invariant and every
action property of a passing run is a theorem. Only model-checked are the liveness
properties (`ReadyThreadRuns`, `JoinEnds`, `DeadlockFound`, `TimedWaitEnds`,
`DueTimerFires`, `EnqueuedComesBack`, `StopCompletes`), which are out of the prover's
reach.

## Not modelled

Of the modelled parts: GDB stepping in `run`; file-object locks; thread
cancellation; `pthread_exit` inside a callback; the end of the main thread (the
app exits); a debugger's `WaitingForDebugger` block; named semaphores; zones as
objects and the top of the 32-bit space, where sizes overflow; static objects and the dealloc methods of single
classes; `free` of an Objective-C object; guest code run by the dealloc of a timer; sources, ports, audio units and the main loop's polling of events and
composition in `run_run_loop`; input audio queues, their parameters and
properties, offline rendering and decoding; error returns that change nothing;
logging.

The components with status `not_modelled` in `PROJECT.json` say why. Most of
the repository's lines are there: the iOS frameworks (properties, drawing, stubs),
the translation of OpenGL ES, instruction interpreters, the 64-bit runtime, the
app picker and the trainer are long and shallow or numeric, and have little state
whose order of change matters.

## Plan

Done: the synchronisation modules with type correctness, the lock invariant and
the scheduler's invariant; the monitor and the refinement; the heap; object
lifetime with weak variables; run loops with perform requests; audio queues. Every
safety invariant and action property that a passing run checks is proved. What is
left, in order of importance:

1. `NSCondition` and `NSLock`, which wake threads past the scheduler; the
   `@synchronized` table as a client of `GuestMutex`; `pthread_once` and rwlock.
2. `RunLoops` on top of `Environment`: the semaphores of waiting requests as
   guest semaphores, so that the fairness of `RunStep` is a theorem's business.
3. Operation queues and dependencies; observers that come and go while a
   notification is posted.
4. Host and guest calls nested on a thread's stack: `pthread_exit` in a
   callback, `run_inner` re-entered.
5. Named semaphores; file-object locks; descriptor table with locks; load
   order; GDB stepping.
6. Theorems: `WaiterHasRequest` with the semaphores of `Environment` (2).
