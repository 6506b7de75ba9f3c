# A TLA+ model of threads, events and flips in Bachata S4

Bachata S4 runs PlayStation 4 programs on Android. The emulator proper (C++,
`src/src`) loads the guest's modules, translates its shaders, and re-implements
the console's system libraries in host code. Everything a guest does with
threads goes through `libkernel` (`src/src/core/libraries/kernel`): a port of
FreeBSD's libthr on top of host mutexes and semaphores, and Orbis' own
semaphores, event flags and event queues. What it draws goes through the video
port (`src/src/core/libraries/videoout`), where guest threads, the thread of the
GPU command processor and the present thread meet. Guest programs depend on the
exact promises of these parts, and none of the interleavings below is reached by
a unit test. This project models them, checks them with TLC and proves the main
invariants with TLAPS.

## Parts and modules

| part of the code | modules | proofs |
|---|---|---|
| mutexes, condition variables, sleep queues (`threads/condvar.cpp`, `mutex.cpp`, `sleepq.cpp`, `pthread.h`) | `Condvar`; abstract specification `Monitor`, refinement `CondvarMonitor` | `CondvarInv`, `CondvarProofs` |
| Orbis semaphores (`threads/semaphore.cpp`, `common/slot_vector.h`) | `OrbisSem` | `OrbisSemProofs` |
| POSIX semaphores (`threads/semaphore.cpp`) | `PosixSem` | `SyncProofs` |
| event flags (`threads/event_flag.cpp`) | `EventFlag` | `SyncProofs` |
| read-write locks (`threads/rwlock.cpp`, `common/shared_first_mutex.h`) | `Rwlock` | `RwlockProofs` |
| `pthread_once` (`threads/pthread.cpp`) | `PthreadOnce` | `SyncProofs` |
| thread life cycle, garbage list (`threads/pthread.cpp`, `thread_state.cpp`) | `ThreadState` | `ThreadStateProofs` |
| event queues, kernel service thread (`equeue.cpp`, `kernel.cpp`) | `Equeue` | `EqueueProofs` |
| video out with the flip path of the GPU thread (`videoout/driver.cpp`, `video_out.cpp`, `video_core/amdgpu/liverpool.cpp`, `gnmdriver.cpp`) | `VideoOut` | `VideoOutProofs` |

How they interact: condition variables release and retake mutexes and keep
waiters on sleep queues (one module, `Condvar`); cancellation reaches into waits
(`Condvar`), into `pthread_once` (`PthreadOnce`) and takes references on threads
(`ThreadState`); a flip or a vertical blank triggers an event of an event queue,
which to `Equeue` is one more caller of `TriggerEvent`; a flip of the guest goes
through the GPU's command queue to the present thread (`VideoOut` composes the
three threads).

In every module the variables carry the names of the fields of the code, `pc` (or
`gpc`, `gpu`, `ppc`) says where a thread is within a call, and the variables after
it are the locals of the call. A step is one access to shared state, or a run of
accesses to state protected by a lock the thread holds, between which nobody else
can look. Guests may call any operation at any moment within its contract.
`GuestThreads` holds the threads and program counters that `PosixSem`, `EventFlag` and
`PthreadOnce` share, so that one module, `SyncProofs`, can prove all three, and one,
`MCSync`, can run them (each behaviour is about one of the three objects).
`MC*` modules are the instances TLC runs. `PROJECT.json` maps every definition to
the lines it stands for.

### Condvar and Monitor

| code | actions |
|------|---------|
| `PthreadMutex::Lock`, `TryLock`, timed | `Lock`, `LockOwn`; `SelfLock` for recursion |
| `PthreadMutex::Unlock` | `UnlockRecursive`, or `Unlock`, `UnlockHost`, then `WakeAll` per deferred waiter |
| `PthreadCond::Wait` | `Wait`, `WaitEnqueue`, `WaitClearWake`, `Sleep`, `SleepAcquire` or `SleepTimeout`, `WaitAwake`, `WaitCvLock`, `WaitCvOwn` |
| `PthreadCond::Signal` | `SignalNobody` or `Signal`; `WakeAll` and `SignalDefer` when the list is full; `ReleaseWaddrs` |
| `PthreadCond::Broadcast` | `Broadcast`, `Drop` per waiter, `DropDone`, `ReleaseWaddrs` |
| `posix_pthread_cancel`, `setcancelstate` | `Cancel`, `CancelKick`; `SetCancelState` |

A `SleepQueue` object is named by the thread it was allocated with. `unheard` is a
ghost: it records that a signal found no queue, so that a signal that misses a
waiter is visible to `Monitor`. `crashed` stands for `UNREACHABLE()`, which shuts
the emulator down.

`Monitor` is what a guest is promised: giving up the mutex and starting to wait
are one step, a signal reaches one waiter if there is one, a broadcast all, and a
wait ends with the mutex at its old depth. `ImplementsMonitor` is the refinement;
while a broadcast walks its list the abstract waiters are already gone.

### OrbisSem, PosixSem

`OrbisSem` is one slot of `orbis_sems` from creation to deletion. Wait, Cancel and
Delete are one critical section each; Signal takes one step per waiter (`SignalAdd`,
`SignalSkip`, `SignalGrant`, `SignalDone`) while those it released already wake up
and queue for the mutex. A timed wait is `WaitBlock`, then `Acquire` or `Expire`,
then `Relock`, which decides the result. The slot is looked up without a lock
(`Lookup`, `Enter`), so Delete may come in between; `crashed` is the assertion of
`ValidateIndex` or the use of the destroyed object.

`PosixSem` has the two counters of a POSIX semaphore, changed one after the other
without a lock: the host count waiters sleep on and the atomic value `post`
compares and exchanges.

### EventFlag, Rwlock, PthreadOnce

`EventFlag`: one step per critical section of `m_mutex`; a wait on the condition
variable and every turn of the ten-microsecond loops of `Set`, `Clear` and `Cancel`
give it up. `owed` is a ghost, the waiters a Cancel found.

`Rwlock`: each method of `SharedFirstMutex` is a step, the `owner` field is written
outside of it, and several first users may race through the static initialisation.

`PthreadOnce`: one step per atomic operation on the state word. The thread inside
`init_routine` may be cancelled; then `once_cancel_handler` gives the word back.

### ThreadState

A host thread works on a `Pthread` object; an object is in the heap, the cache, the
thread list, the garbage list, or in the hands of one creator or collector. The
order in which `TryCollect` and `FindThread` take and release the list lock and the
thread's own lock is kept step by step. `stale` and `orphan` are ghosts: the threads
under whose hands the object they use was destroyed, or handed out again.

### Equeue

One queue. The vector `m_events` is the set of its events and the order it has them
in (`before`): `GetTriggeredEvents` hands out a set of triggered events, as many as
were asked for, with no other triggered event before one of them (`Batches`), which
is what its loop over the vector does. Waits with and without deadline (`Wait`,
`Look`, `Expire`), polls, which read and clear without `m_mutex` (`PollCopy`,
`PollClear`), adding, triggering and removing events, timers whose callback checks,
triggers and reschedules in three critical sections, small timers that waiters spin
for, and `KernelServiceThread`. The expiry of an armed boost timer is external; time
is abstracted, so an armed timer may expire and a deadline pass at any moment.
`fired`, `handed` and `raced` are ghosts that count triggers, deliveries and events a
poll raced for.

### VideoOut

| code | actions |
|------|---------|
| guest | `Open`, `Close`, `RegisterBuffers`, `UnregisterBuffers`, `SetFlipRate`, `SubmitFlip` then `SendCommand`, `SubmitAndFlip` or `SubmitAsc` then `CountSubmit` |
| GPU thread, `Liverpool::Process` | `ProcessCommand`, `Poll`, `Compute`, and for a frame `WaitRegMem`, `Resume`, `WriteLock`, `FlipIrq`, `FlipPush` |
| `VideoOutDriver::PresentThread` | `Receive`, `FlipStatus`, `FlipTest`, `FlipReset`, `FlipSignal`, `FlipSave`, `Vblank` |

A frame waits for the label of its buffer, sets it and raises the flip interrupt;
the present thread resets the label of the previous flip once the next one is
shown. The GPU thread waits either asleep on `vo_cv` or by yielding, and decides
which from `num_submits` and the command queue, once. The guest keeps the rules of
the interface: frames wait for their label, a buffer is flipped either by frames or
from the CPU, and a port is closed or unregistered only when no flip is pending and
the GPU is idle, as far as the code lets a guest know. `shown` and `relabelled` are
ghosts: what is on the screen, and the buffers whose label Close or RegisterBuffers
cleared while the port still held them for the one shown.

## Runs

| run | instance | what it shows |
|-----|----------|---------------|
| `condvar` | 3 threads, one timed; 1 cond, 1 mutex; room for 1 deferred wakeup | the monitor is implemented (`ImplementsMonitor`); no wakeup is lost (`NoLostWakeup`) or stranded (`DeferredAreOwed`); `SleepQueue` objects are conserved (`SleepQueuesConserved`) |
| `condvar_live` | 2 threads, a recursive mutex, one thread cancelled | a signalled waiter wakes (`SignalledWaiterWakes`); a thread outside Wait is on no queue (`IdleNotQueued`); `UNREACHABLE()` needs a timeout or a disabled cancellation (`UnreachableNeedsTimeout`) |
| `condvar_unreachable` | 2 threads, one timed | **violation**: `UNREACHABLE()` is reached |
| `sem` | 3 threads of 2 priorities, one timed, one deleter | nobody servable is left waiting (`NoServableWaiter`), service by priority and arrival (`ServedInOrder`), tokens charged exactly to the waits that succeed (`ChargedIffOK`), the list holds exactly the undecided (`BookkeepingOK`), decided waits return (`DecidedReturns`) |
| `sync`, POSIX semaphore | 4 threads, maximum 2 | the two counters stay in range (`CountersInRange`) and agree up to calls in progress (`TokensConserved`) |
| `sync`, event flag | 3 threads, one timed, 2 bits | exact waiter count (`WaitersCounted`), Cancel reaches all it found (`CancelReachesAll`) and ends (`CancelReturns`), nobody sleeps through what they wait for (`SleepersUnsatisfied`) |
| `sync`, once control | 4 threads, 2 of them cancellable | the routine runs once (`RunsOnce`), nobody returns before (`DoneMeansRun`), sleepers will be notified (`SleepersAreHeard`), every call returns (`EveryCallReturns`) |
| `rwlock` | 4 threads, one timed, 2 nested reads | `Exclusion`, unlock takes the right path and counts are exact (`OwnershipOK`), no missing wakeup (`SleepersLockedOut`), a reader never waits for a writer that waits itself (`ReaderHasPriority`) |
| `threads` | 3 host threads, 3 objects, 4 calls | each object in one place with exact references (`ObjectsAccounted`), joined threads stay (`JoinedStays`), destroyed objects met only in named tails (`StaleOnlyInTails`); dead threads are collected (`DeadIsCollected`) and joins return (`JoinReturns`) |
| `equeue` | a waiter and a polling waiter, one event of each kind that clears itself and a small timer, 6 calls or expiries | one `notify_one` per trigger suffices (`NotifyOneSuffices`), occurrences add up and are handed out once (`DeliveriesOK`), periodic timers stay armed (`PeriodicStaysArmed`), a triggered event is taken (`TriggerIsTaken`) |
| `equeue_service` | 1 waiter, 1 one-shot timer | **violation**: an armed timer is not served |
| `videoout` | 1 guest, 2 frame buffers, 1 CPU buffer, limit 1, 4 calls | exact pending counts and a bounded queue (`CountsOK`), no drawing into a shown or queued buffer (`NoDrawWhileShown`) and no flip interrupt out of order (`FlipIrqInOrder`), both except for `relabelled` buffers; no notification of a label is missed (`LabelSleeperHeard`), and the GPU thread gets past its label wait if a flip of another buffer is in the driver already, or in its command queue while it yields (`SupersededWaitEnds`) |
| `videoout_irq` | the same, flip rate 0 only | **violation**: the assertion on the flip interrupt fails (`FlipIrqAssertion`) |
| `videoout_label` | the same, flip rate 0 only, 3 calls | **violation**: a label wait with nothing ahead of it in the driver does not end (`LabelWaitEnds`) |

### Bounds

- Threads: three are the least with a signaller, a deferred waiter and a third party
  that changes the mutex meanwhile; four for `rwlock`, the once control and the POSIX
  semaphore give two sleepers beside two actors. No operation here involves more than
  two actors and a bystander.
- `MaxDeferWaiters = 1` makes every second deferral a flush (50 in the code);
  `MaxCount` bounds recursion; one cancel per thread, as `cancel_pending` is not
  reset.
- `MaxCalls`: in `threads` four calls are a create, another create or a join, and a
  detach or cancel that races them, with thread exits free; in `equeue` six calls
  add, trigger or expire, remove and add an event again; in `videoout` four flips,
  closings or rate changes pass both frame buffers and come back to the first,
  with opening and registering free.
- `GcThreshold` and `MaxCachedThreads` are 1 so that collection and destruction
  happen; `MaxPending = 1` (16 in the code) so that the limit is met; `VblankMod`
  keeps `vblank_status.count` modulo a common multiple of the rates plus one.
- `MaxReads`, `MaxOwed` and `Num` (events a waiter asks for) are at the least value
  at which a second one matters.

Deadlock is not checked: guests may wait for each other forever, the bounded calls
run out, and a failed assertion stops the process. What must not get stuck is
stated as liveness. Symmetry of the interchangeable threads is used in `condvar` and
`condvar_unreachable`, whose checks have no liveness.

### Fairness

All liveness is under the host's scheduling: a thread that is within a call and
can take a step takes it eventually (weak fairness of the steps of a call). No
guest is assumed to make a call, except to end what it began:

- `Condvar`: strong fairness of `Unlock`: a guest does not keep a mutex forever.
- `OrbisSem`: strong fairness of a thread's steps, since the host mutex is free
  again and again and the host hands it to each thread that waits for it.
- `Rwlock`: weak fairness of each thread's steps inside a call; nobody is assumed to
  unlock, and nobody to win `mtx` against others. So `ReaderHasPriority` is about
  behaviours in which from some time on no writer holds the lock; writers may wait
  throughout.
- `EventFlag`, `PthreadOnce` (both in `MCSync`), `ThreadState`: weak fairness of each
  thread's steps; timeouts run out and `init_routine` returns or is cancelled.
- `Equeue`: the waiters, whoever is inside `TriggerEvent` or `AddEvent`, and the
  service thread.
- `VideoOut`: the GPU thread, the present thread and a guest thread inside a call.

## Findings

`condvar_unreachable`: `Signal` takes a waiter off the queue under the chain lock
and releases its semaphore after it. A timed waiter can time out between the two,
return, wait again and pass `ClearWake`; then the release arrives, and the new
wait ends while the thread is still queued, neither cancelled nor timed out.

`equeue_service`: `KernelServiceThread` sets `asio_requests = 0` after
`io_context.run()` returned, without looking at it. A timer armed in between has its
request erased and its callback does not run until some later request.

`videoout_irq`: `Flip` updates the flip status under `port_mutex` and resets the label
of `prev_index` after it (`driver.cpp:292-293`). A guest that sees no flip pending in
between may unregister and register that buffer, which clears its label, and submit
a frame for it. The frame does not wait and sets the label, the tail of `Flip` sets
it back to 0, and `Out of order flip IRQ` (`video_out.cpp:381`) fails.

`videoout_label`: a label is reset only when a later flip has been shown. A frame for
the buffer on the screen, with nothing else in the driver, stops the GPU thread for
good: the flip that would release the label is behind it, and flips sent from the
CPU are not run while the GPU thread sleeps (`liverpool.cpp:853-855`). The
repository knows this hang
(`docs/superpowers/specs/2026-08-02-galak-z-videoout-label-retirement-design.md`); the
design wants the shown buffer released at a later vertical blank, which the code
does not do. `NoDrawWhileShown` is the promise of the code as it is and would have
to be weakened to that design: a frame may then draw into the buffer on the screen
once a blank has passed.

### Behaviours worth knowing

The models contain the following as the code does it. No property above claims the
contrary, and none of these is a run of its own.

- `posix_pthread_cancel` tests `will_sleep`, which `Pthread::Sleep` clears before it
  blocks: a thread already asleep is not kicked. It also kicks a thread that has
  disabled cancellation.
- `OrbisSem::WaitingThread::Wait` subtracts the elapsed time from an unsigned
  timeout (`semaphore.cpp:160`); a late wakeup wraps it. Deleting a semaphore
  between another call's look-up and use trips the assertion at
  `slot_vector.h:217`, and destroys an object whose mutex released waiters still
  have to take.
- `SharedFirstMutex` lets readers starve writers; and writers that keep coming can
  overtake a reader that was notified, each time before it has `mtx` again.
- A poll of an event queue clears what it took without `m_mutex`, and may clear a
  trigger that came after it looked (`equeue.cpp:179`). `DeliveriesOK` exempts the
  events a poll raced for (`raced`).
- A timed join is an assertion failure (`pthread.cpp:171`).
- A waiter without a deadline that spins for a small timer which somebody else took
  spins on (`equeue.cpp:281`).
- One `notify_one` per trigger is not enough when there are as many triggered
  level events (user events without the Clear flag) as a waiter asks for. With three
  waiters that ask for one event each, one is notified of an edge event, takes the
  level event that precedes it, and the two others sleep on beside the triggered
  edge event until the next trigger. `NotifyOneSuffices` is checked and proved
  where waiters ask for more.
- Video out: Close may run while the tail of `Flip` does, which then remembers a
  buffer of the closed port; registering the shown buffer again clears its label.
  Both are why `NoDrawWhileShown` and `FlipIrqInOrder` exempt `relabelled` buffers.
  If Close comes between the test and the reset of the previous label, `Flip` writes
  `buffer_labels[-1]`; the model leaves the labels alone. A compute submit sent while
  the GPU thread sleeps on a label is not run until a label is reset. The limit test
  `> 16` admits a seventeenth flip, does not apply to blanks, and is an assertion
  failure for a flip of a frame. Close zeroes labels without waking the GPU thread.

## Proofs

The theorems are of the form `Spec => []P`, one is an action property
(`ServedInOrder`) and one a refinement (`ImplementsMonitor`). They hold for every
value of the constants that satisfies the module's assumption: `None` is not a
thread (or the like), sets of threads or events that are counted are finite,
bounds are natural numbers. One theorem has a hypothesis of its own (`OneIsEnough`),
and two are about the states of the type invariant (`BatchExists`, `BatchUnique`).
Fairness and the bounds of the runs play no part.

**Condvar** (any threads, conds, mutexes, any capacity of the deferral list, with
timeouts and cancellation): `TypeOK`, `OwnerHoldsLock`, `QueuePerWaiter`,
`UserWaitersFlagged`, `IdleNotQueued`, `DeferredAreOwed`, `NoLostWakeup`. `IInv` adds

- `LocalsOK`: at each label the locals it uses are set (a label in a flush has
  something to flush, a signal in a flush holds a waiter),
- `ChainLockOK`, `HostLockOK`: the locks are held by the thread whose label says
  so, and `m_owner` is `None` around the host lock's steps,
- `DropOK`: waiters without a queue are seen only by the broadcast dropping them,
- `LinksOK`: a thread is on at most one queue, once, and `wchan` names it,
- `FlagsOK`: `has_user_waiters` is set before its thread is queued,
- `OwedOK`: a thread with deferred wakeups owns a flagged mutex or is on its way
  to a `WakeAll`.

`NoLostWakeup` needs `LinksOK` (a thread in `ClearWake` is still queued, so the
token dropped there is not one it is owed) and `LocalsOK`. `CondvarInv` has the
invariant, the lemmas about lists, joining and leaving a queue, and the steps of
the parts about queues; `CondvarProofs` has the steps of the other parts and the
theorems. Three results stand on top of `IInv`:

- `SleepQueuesConserved` from `Placed`: a `SleepQueue` is with one thread or with one
  cond and there once, and a thread on a queue has none. That the queue handed
  back by `SleepqRemove` or `SleepqDrop` exists is `QueuePerWaiter`.
- `UnreachableNeedsTimeout` from `WakeupsCounted`: while waits do not time out, a
  thread that is not cancelled has no token and is owed none while it is on a
  queue, and has exactly one, owed by one thread or in `wake_sema`, from when it is
  taken off until it wakes. So it cannot wake on the queue. Timeouts break this,
  which is the finding above.
- `ImplementsMonitor`: each of the code's steps is matched with one of `Monitor` or
  shown to be invisible. `Wait` is the monitor's wait because the chain lock keeps
  everybody from looking between it and `WaitEnqueue`; a signal that finds no queue
  finds no waiter by `DropOK` and `ChainLockOK`; `WaitCvOwn` is the monitor's resume,
  as a thread at that label is on no queue (`LinksOK`) and its mutex has no owner
  (`HostLockOK`). One more invariant, `DepthOK`, says that only recursive mutexes
  have a recursion count.

**OrbisSem** (any threads, priorities and `max_count`): `BookkeepingOK`,
`NoServableWaiter`, `ChargedIffOK` and `ServedInOrder`. `IInv` adds

- `LockOK`: the thread inside the loop of Signal has the mutex,
- `CallsOK`: at most one flag of a waiter is set, only while it is blocked or
  returns, and `was_signaled` goes with the tokens,
- `PassedOver`: the waiters before Signal's iterator, and all of them when no loop
  is running, need more than there is. `NoServableWaiter` is the case of a free mutex,
- `SameWaiters`, `ServiceOrder`: `wait_list` holds the waiters of `arrival`, sorted by
  priority and then by arrival. With `PassedOver` this gives `ServedInOrder`: whoever
  comes before the waiter that is served has been passed over.

**Rwlock** (any threads, finitely many): `Exclusion`, `OwnershipOK` and
`SleepersLockedOut` are inductive with `ReadersExact` (the counter of
`SharedFirstMutex` is the number of read locks that are out, stated as the
cardinality of a set of locks), `NobodyWithoutObject` (before the initialisation
and after the destruction nobody is past the lock calls' first step) and
`WriterFlag`.

**PosixSem**: `SemTypeOK`, which contains `CountersInRange`, and `TokensConserved` are
inductive together; the argument
counts the calls between their two changes.

**EventFlag**: `TypeOK`, `WaitersCounted`, `SingleWaiter`, `CancelReachesAll`,
`OneCancel` and `SleepersUnsatisfied` are inductive together. Cancel's wait
for `m_waiting_threads = 0` means that nobody is in Wait because `WaitersCounted` is
exact; `CancelReachesAll` follows.

**PthreadOnce**: `RunsOnce`, `DoneMeansRun` and `SleepersAreHeard` from `WordOK` (the
word is InProgress or Wait exactly while there is a runner), `RunsOK` (when the
routine has finished), `SeenOK` (Done is final, so whoever loaded it may rely on it)
and `SleepOK`.

**ThreadState** (any objects, finitely many host threads, any garbage threshold and
cache size): `ObjectsAccounted`, `JoinedStays` and `StaleOnlyInTails`. `IInv` is
`RefcountExact` together with `Shape`, which consists of

- `Apart`, `Somewhere`: the four lists are disjoint, no two host threads have the same
  object in their hands, and every object is in a list or in somebody's hands;
- `Locals`, `Targets`: at each label the locals it uses are set, and `thread_list_lock`
  is held at the labels that say so; a target is a listed object wherever the call
  still has a claim to it;
- `Freshs`: the object of a creator belongs to it alone, and its count is one until
  it is linked;
- `Owners`: the object of a host thread, as long as it has not been destroyed under
  it, is dead from the exit on, terminated from the store to `tid` on, listed while
  the thread lives, and no other host thread's;
- `JoinerOK`, `WorkOK`, `GhostOK`: a joined thread is not detached, what a collector
  took off the garbage list has terminated, and the ghosts name only threads in the
  tails.

`Counted` draws from `IInv` what the steps on references need: a thread whose
reference is still out has a refcount above zero, so `TryCollect` leaves it alone,
and a dead thread without references is taken off once. The references of an object
are a set of host threads (`Refs`), and each step that takes or drops one adds or
removes one member of it (`RefsEnter`, `RefsLeave`); the facts about cardinalities
this takes are gathered in `CardRules`. `JoinedStays` is part of `Targets`, and
`StaleOnlyInTails` of `GhostOK`.

**Equeue** (any finite sets of waiters and events, any small timers): `DeliveriesOK`
and `PeriodicStaysArmed`. `IInv` strengthens `HandedOnce` to `Once`: while an event
that clears itself is triggered, and no poll raced for it, there is room for one
more delivery. `InOrder` survives erasing (`EraseOrder`) and adding at the end
(`AddOrder`), and with it `BatchExists` and `BatchUnique` show that
`GetTriggeredEvents` has exactly one result, as the loop in the code has. A first
part of the right size exists because among the first parts that are not too large
one has the least rest (`LeastSet`), and if it were short of the size, the first
event of the rest could be added: minimal elements of finite families of sets stand
in for induction over the size. `OneIsEnough` is `NotifyOneSuffices` under the
hypothesis `Cardinality(Level) < Num`; the invariant is `Enough`: while somebody
sleeps, the triggered events that clear themselves are no more than the notifications
on their way and the waiters about to look. A waiter that looks takes at least one
of them (`TakesPending`), because level events cannot fill its batch. Without the
hypothesis TLC has a counterexample (see above).

**VideoOut** (any guests, buffers, groups, limit and number of calls):
`LabelSleeperHeard`, `NoDrawWhileShown`, `FlipIrqInOrder` and `CountsOK`. `IInv` is

- `Registered`: whatever is queued anywhere has a registered buffer,
- `Counts`: `flip_pending_num` is the number of flips in the four places they can
  be, and `num_submits` lags the queues by the guests about to count; so a guest
  that sees both at zero and closes finds the queues empty,
- `Labels`: a buffer a frame flips has its label set from `WriteLock` until the
  present thread has shown the flip after it, and is then in exactly one of the
  places between the GPU thread and `prev_index`; a buffer with a zero label is in
  none of them,
- `Prev`: what `prev_index` and the tail of `Flip` remember is what is shown,
- `Sleep`: a GPU thread asleep on a zero label has `FlipSignal` coming.

`CountsOK` follows from `IInv` and a second invariant, `CInv`: `gc_queue_num` counts the
frames' flips from `FlipIrq` to the status update, the flips that are not blanks
are at most one more than the limit, and the GPU thread never takes a submit off
`num_submits` that has not been counted. Queue entries are counted by position
(`Count`), so pushing and popping one are facts about cardinalities (`CountRules`)
and need no induction.

The invariants were checked with TLC on the small instances before they were proved.
Invariants that are proved for every instance and add nothing to a run (type
correctness of `Condvar`, `EventFlag` and `PthreadOnce`, `OwnerHoldsLock`,
`QueuePerWaiter`, `UserWaitersFlagged`, `SingleWaiter`, `OneCancel`, `OneRunner`) are not
repeated in the runs.

Model-checked only:

- every liveness property: fairness and `ENABLED` are out of the prover's reach.

## Not modelled

Within the modelled parts:

- creation, destruction and attributes of mutexes and conds (only the type
  Recursive or not matters), adaptive spinning, priority protocols (ignored by the
  code as well), the hash of sleep queue chains (two conds that share a chain lock
  only exclude more), and `pthread_cond_signalto_np` with a thread that does not
  wait on the cond;
- of threads, cleanup handlers, stacks, names and scheduling parameters, and the
  exit of the last thread;
- of event queues, the table of queues, `kevent`'s decoding of arguments and the
  payload of display and graphics events;
- of video out, buffer attributes, HDR, the debugger's pause and the wait for a
  vertical blank.

Whole parts (listed in `PROJECT.json` with their sources):

- cleanup handlers and thread-specific data: lists and values of one thread; keys
  are shared only by a guest that deletes a key others use, which POSIX leaves
  undefined;
- guest memory map and validation cache: the generation counter is a few lines
  around a large area map, whose splits and merges are sequential data under one
  lock; the counter alone would say nothing about the map it stands for;
- runtime client: sends are serialised by one mutex and the reader thread owns its
  state, what is left is parsing of text lines;
- packets of the GPU command processor, shader recompiler, Vulkan renderer and its
  caches, loader and linker, guest CPU back end: translations of data, or drivers of
  external code whose state is elsewhere;
- file system, other system libraries, user interface, settings, tools: thin layers
  over the host, or calls that answer without keeping state;
- the Android services: their order of events is set by the Android framework.

These make up by far the most lines of the repository, so the map covers a small
share of it: the project is about the part where threads meet.
