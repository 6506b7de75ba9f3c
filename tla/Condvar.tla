------------------------------ MODULE Condvar ------------------------------
(***************************************************************************)
(* Condition variables of the guest's pthread library, together with the   *)
(* mutexes they release and the sleep queues their waiters are kept on.    *)
(*                                                                         *)
(*   src/src/core/libraries/kernel/threads/condvar.cpp  Wait, Signal, ...  *)
(*   src/src/core/libraries/kernel/threads/mutex.cpp    Lock, Unlock       *)
(*   src/src/core/libraries/kernel/threads/sleepq.cpp   SleepqAdd, ...     *)
(*   src/src/core/libraries/kernel/threads/pthread.h    Sleep, WakeAll     *)
(*   src/src/core/libraries/kernel/threads/pthread.cpp  cancel             *)
(*                                                                         *)
(* A step of a thread is one access, or one run of accesses to state that  *)
(* a lock it holds protects, between which no other thread can see or      *)
(* change what it touches.  The guest may call any operation at any time   *)
(* it is between calls ("idle"), within the contract of pthread_cond_wait. *)
(***************************************************************************)
EXTENDS Integers, Sequences, FiniteSets

CONSTANTS
    Threads,          \* guest threads (Pthread objects)
    Conds,            \* condition variables (PthreadCond objects)
    Mutexes,          \* mutexes (PthreadMutex objects)
    Recursive,        \* the mutexes whose Type() is Recursive
    MaxDeferWaiters,  \* capacity of Pthread::defer_waiters (50 in the code)
    MaxCount,         \* bound: recursive acquisitions on top of the first
    TimedWaiters,     \* the threads that use the timed waits
    Cancellable,      \* the threads some thread may pthread_cancel
    None              \* the null pointer

ASSUME CondvarAssumption ==
    /\ None \notin Threads \cup Conds \cup Mutexes
    /\ Recursive \subseteq Mutexes
    /\ MaxDeferWaiters \in Nat \ {0}
    /\ MaxCount \in Nat
    /\ TimedWaiters \subseteq Threads
    /\ Cancellable \subseteq Threads

VARIABLES
    \* PthreadMutex
    m_lock,           \* the host mutex: the thread inside it, or None
    m_owner,
    m_count,
    m_deferred,       \* PthreadMutexFlags::Deferred
    \* PthreadCond and its sleep queue
    has_user_waiters,
    sc_lock,          \* spin lock of the sleep queue chain
    sq,               \* the SleepQueue linked into the chain for this cond
    sq_blocked,
    sq_freeq,
    \* Pthread
    sleepqueue,       \* a SleepQueue is named by the thread it was made for
    wchan,
    mutex_obj,
    will_sleep,
    wake_sema,        \* tokens in the BinarySemaphore
    defer_waiters,
    cancel_pending,
    cancel_enable,
    \* locals of the call a thread is in
    pc,
    cvp, mp, recurse, timed, td,
    waddrs,           \* semaphores Signal or Broadcast releases at its end
    crashed,          \* UNREACHABLE() was reached: the process is gone
    unheard           \* ghost: a signal found no queue since the last wait

mutexVars  == <<m_lock, m_owner, m_count, m_deferred>>
queueVars  == <<has_user_waiters, sq, sq_blocked, sq_freeq, sleepqueue, wchan>>
cancelVars == <<cancel_pending, cancel_enable>>
threadVars == <<mutex_obj, will_sleep, wake_sema, defer_waiters, cancelVars>>
localVars  == <<cvp, mp, recurse, timed, td, waddrs>>
vars == <<mutexVars, queueVars, sc_lock, threadVars, pc, localVars, crashed, unheard>>
-----------------------------------------------------------------------------
In(x, s) == \E i \in 1..Len(s) : s[i] = x
PushFront(x, s) == <<x>> \o s

\* std::erase on a list that holds x at most once.
Erase(s, x) ==
    IF In(x, s)
    THEN LET k == CHOOSE i \in 1..Len(s) : s[i] = x
         IN  [i \in 1..(Len(s) - 1) |-> IF i < k THEN s[i] ELSE s[i + 1]]
    ELSE s

Goto(t, label) == pc' = [pc EXCEPT ![t] = label]

\* BinarySemaphore::release and ::try_acquire on a thread's wake_sema.
Release(t) == wake_sema' = [wake_sema EXCEPT ![t] = @ + 1]
ClearWake(t) == wake_sema' = [wake_sema EXCEPT ![t] = IF @ > 0 THEN @ - 1 ELSE 0]
-----------------------------------------------------------------------------
(* sleepq.cpp, each under sc_lock of the chain.                            *)

\* The first waiter's own SleepQueue becomes the queue of the cond; those of
\* later waiters are parked on its free list.
SleepqAdd(c, t) ==
    /\ IF sq[c] # None
       THEN /\ sq_freeq' = [sq_freeq EXCEPT ![c] = PushFront(sleepqueue[t], @)]
            /\ UNCHANGED sq
       ELSE /\ sq' = [sq EXCEPT ![c] = sleepqueue[t]]
            /\ UNCHANGED sq_freeq
    /\ sleepqueue' = [sleepqueue EXCEPT ![t] = None]
    /\ wchan' = [wchan EXCEPT ![t] = c]
    /\ sq_blocked' = [sq_blocked EXCEPT ![c] = PushFront(t, @)]

\* Mutant: the SleepQueue taken from the free list is not popped.
SleepqRemove_NoPop(c, t) ==
    LET rest == Erase(sq_blocked[c], t)
    IN  /\ sq_blocked' = [sq_blocked EXCEPT ![c] = rest]
        /\ sleepqueue' = [sleepqueue EXCEPT ![t] = IF rest = <<>> THEN sq[c] ELSE Head(sq_freeq[c])]
        /\ sq' = [sq EXCEPT ![c] = IF rest = <<>> THEN None ELSE @]
        /\ wchan' = [wchan EXCEPT ![t] = None]
        /\ has_user_waiters' = [has_user_waiters EXCEPT ![c] = rest # <<>>]
        /\ UNCHANGED sq_freeq

\* The thread that leaves takes a SleepQueue with it: the last one the queue
\* of the cond itself, any other one from the free list.
SleepqRemove(c, t) ==
    LET rest == Erase(sq_blocked[c], t)
    IN  /\ sq_blocked' = [sq_blocked EXCEPT ![c] = rest]
        /\ IF rest = <<>>
           THEN /\ sleepqueue' = [sleepqueue EXCEPT ![t] = sq[c]]
                /\ sq' = [sq EXCEPT ![c] = None]
                /\ UNCHANGED sq_freeq
           ELSE /\ sleepqueue' = [sleepqueue EXCEPT ![t] = Head(sq_freeq[c])]
                /\ sq_freeq' = [sq_freeq EXCEPT ![c] = Tail(@)]
                /\ UNCHANGED sq
        /\ wchan' = [wchan EXCEPT ![t] = None]
        /\ has_user_waiters' = [has_user_waiters EXCEPT ![c] = rest # <<>>]
-----------------------------------------------------------------------------
(* mutex.cpp                                                               *)

\* Lock, TryLock and the timed locks: taking the host mutex.  A failed
\* TryLock, a timeout and EDEADLK change nothing.
Lock(t, m) ==
    /\ pc[t] = "idle"
    /\ m_owner[m] # t
    /\ m_lock[m] = None
    /\ m_lock' = [m_lock EXCEPT ![m] = t]
    /\ mp' = [mp EXCEPT ![t] = m]
    /\ Goto(t, "own")
    /\ UNCHANGED <<m_owner, m_count, m_deferred, queueVars, sc_lock, threadVars,
                   cvp, recurse, timed, td, waddrs, crashed, unheard>>

\* The store of m_owner after the host mutex was taken.
LockOwn(t) ==
    /\ pc[t] = "own"
    /\ m_owner' = [m_owner EXCEPT ![mp[t]] = t]
    /\ Goto(t, "idle")
    /\ UNCHANGED <<m_lock, m_count, m_deferred, queueVars, sc_lock, threadVars,
                   localVars, crashed, unheard>>

\* SelfLock and SelfTryLock of a recursive mutex.
SelfLock(t, m) ==
    /\ pc[t] = "idle"
    /\ m_owner[m] = t
    /\ m \in Recursive
    /\ m_count[m] < MaxCount
    /\ m_count' = [m_count EXCEPT ![m] = @ + 1]
    /\ UNCHANGED <<m_lock, m_owner, m_deferred, queueVars, sc_lock, threadVars, pc,
                   localVars, crashed, unheard>>

\* Unlock by the owner; any other caller gets EPERM.
UnlockRecursive(t, m) ==
    /\ pc[t] = "idle"
    /\ m_owner[m] = t
    /\ m \in Recursive /\ m_count[m] > 0
    /\ m_count' = [m_count EXCEPT ![m] = @ - 1]
    /\ UNCHANGED <<m_lock, m_owner, m_deferred, queueVars, sc_lock, threadVars, pc,
                   localVars, crashed, unheard>>

\* The owner field is cleared while the host mutex is still held ...
Unlock(t, m) ==
    /\ pc[t] = "idle"
    /\ m_owner[m] = t
    /\ ~(m \in Recursive /\ m_count[m] > 0)
    /\ m_deferred' = [m_deferred EXCEPT ![m] = FALSE]
    /\ m_owner' = [m_owner EXCEPT ![m] = None]
    /\ mp' = [mp EXCEPT ![t] = m]
    /\ Goto(t, IF m_deferred[m] THEN "unlock_deferred" ELSE "unlock")
    /\ UNCHANGED <<m_lock, m_count, queueVars, sc_lock, threadVars,
                   cvp, recurse, timed, td, waddrs, crashed, unheard>>

\* Mutant: the wakeups deferred to this unlock are not sent.
UnlockHost_NoWakeAll(t) ==
    /\ pc[t] \in {"unlock", "unlock_deferred"}
    /\ m_lock' = [m_lock EXCEPT ![mp[t]] = None]
    /\ Goto(t, "idle")
    /\ UNCHANGED <<m_owner, m_count, m_deferred, queueVars, sc_lock, threadVars,
                   localVars, crashed, unheard>>

\* ... which is then released; deferred wakeups go out after that.
UnlockHost(t) ==
    /\ pc[t] \in {"unlock", "unlock_deferred"}
    /\ m_lock' = [m_lock EXCEPT ![mp[t]] = None]
    /\ Goto(t, IF /\ pc[t] = "unlock_deferred"
                  /\ ~will_sleep[t]
                  /\ defer_waiters[t] # <<>>
               THEN "wakeall" ELSE "idle")
    /\ UNCHANGED <<m_owner, m_count, m_deferred, queueVars, sc_lock, threadVars,
                   localVars, crashed, unheard>>

-----------------------------------------------------------------------------
(* Pthread::WakeAll: release every deferred waiter, one by one.  It runs   *)
(* at the end of Unlock ("wakeall"), at the start of Sleep ("sleepflush"), *)
(* and inside Signal and Broadcast when defer_waiters is full ("sigflush", *)
(* "dropflush").                                                           *)
After(label) ==
    CASE label = "wakeall"    -> "idle"
      [] label = "sleepflush" -> "asleep"
      [] label = "sigflush"   -> "sigdefer"
      [] label = "dropflush"  -> "drop"

\* Mutant: nwaiter_defer is not reset after the last release.
WakeAll_NoReset(t) ==
    /\ pc[t] \in {"wakeall", "sleepflush", "sigflush", "dropflush"}
    /\ Release(Head(defer_waiters[t]))
    /\ IF Tail(defer_waiters[t]) = <<>>
       THEN Goto(t, After(pc[t])) /\ UNCHANGED defer_waiters
       ELSE defer_waiters' = [defer_waiters EXCEPT ![t] = Tail(@)] /\ UNCHANGED pc
    /\ UNCHANGED <<mutexVars, queueVars, sc_lock, mutex_obj, will_sleep,
                   cancelVars, localVars, crashed, unheard>>

\* The loop over defer_waiters; nwaiter_defer is 0 when it ends.
WakeAll(t) ==
    /\ pc[t] \in {"wakeall", "sleepflush", "sigflush", "dropflush"}
    /\ Release(Head(defer_waiters[t]))
    /\ defer_waiters' = [defer_waiters EXCEPT ![t] = Tail(@)]
    /\ IF Tail(defer_waiters[t]) = <<>> THEN Goto(t, After(pc[t])) ELSE UNCHANGED pc
    /\ UNCHANGED <<mutexVars, queueVars, sc_lock, mutex_obj, will_sleep,
                   cancelVars, localVars, crashed, unheard>>
-----------------------------------------------------------------------------
(* condvar.cpp, PthreadCond::Wait                                          *)

\* Mutant: the mutex is given up before the chain lock is taken.
Wait_NoChainLock(t, c, m, withTimeout) ==
    /\ pc[t] = "idle"
    /\ m_owner[m] = t
    /\ has_user_waiters' = [has_user_waiters EXCEPT ![c] = TRUE]
    /\ will_sleep' = [will_sleep EXCEPT ![t] = TRUE]
    /\ recurse' = [recurse EXCEPT ![t] = m_count[m]]
    /\ m_count' = [m_count EXCEPT ![m] = 0]
    /\ m_deferred' = [m_deferred EXCEPT ![m] = FALSE]
    /\ m_owner' = [m_owner EXCEPT ![m] = None]
    /\ cvp' = [cvp EXCEPT ![t] = c]
    /\ mp' = [mp EXCEPT ![t] = m]
    /\ timed' = [timed EXCEPT ![t] = withTimeout]
    /\ unheard' = [unheard EXCEPT ![c] = FALSE]
    /\ Goto(t, "enqueue")
    /\ UNCHANGED <<m_lock, sc_lock, sq, sq_blocked, sq_freeq, sleepqueue, wchan, mutex_obj,
                   wake_sema, defer_waiters, cancelVars, td, waddrs, crashed>>

\* IsOwned, SleepqLock, and CvUnlock up to the store that clears m_owner.
Wait(t, c, m, withTimeout) ==
    /\ pc[t] = "idle"
    /\ m_owner[m] = t
    /\ sc_lock[c] = None
    /\ sc_lock' = [sc_lock EXCEPT ![c] = t]
    /\ has_user_waiters' = [has_user_waiters EXCEPT ![c] = TRUE]
    /\ will_sleep' = [will_sleep EXCEPT ![t] = TRUE]
    /\ recurse' = [recurse EXCEPT ![t] = m_count[m]]
    /\ m_count' = [m_count EXCEPT ![m] = 0]
    /\ m_deferred' = [m_deferred EXCEPT ![m] = FALSE]
    /\ m_owner' = [m_owner EXCEPT ![m] = None]
    /\ cvp' = [cvp EXCEPT ![t] = c]
    /\ mp' = [mp EXCEPT ![t] = m]
    /\ timed' = [timed EXCEPT ![t] = withTimeout]
    /\ unheard' = [unheard EXCEPT ![c] = FALSE]
    /\ Goto(t, "enqueue")
    /\ UNCHANGED <<m_lock, sq, sq_blocked, sq_freeq, sleepqueue, wchan, mutex_obj,
                   wake_sema, defer_waiters, cancelVars, td, waddrs, crashed>>

\* The host mutex is released (will_sleep keeps Unlock from calling WakeAll)
\* and the thread joins the sleep queue.
WaitEnqueue(t) ==
    /\ pc[t] = "enqueue"
    /\ m_lock' = [m_lock EXCEPT ![mp[t]] = None]
    /\ mutex_obj' = [mutex_obj EXCEPT ![t] = mp[t]]
    /\ SleepqAdd(cvp[t], t)
    /\ Goto(t, "clearwake")
    /\ UNCHANGED <<m_owner, m_count, m_deferred, has_user_waiters, sc_lock, will_sleep,
                   wake_sema, defer_waiters, cancelVars, localVars, crashed, unheard>>

\* ClearWake drops a stale token, then SleepqUnlock.
WaitClearWake(t) ==
    /\ pc[t] = "clearwake"
    /\ ClearWake(t)
    /\ sc_lock' = [sc_lock EXCEPT ![cvp[t]] = None]
    /\ Goto(t, "sleep")
    /\ UNCHANGED <<mutexVars, queueVars, mutex_obj, will_sleep, defer_waiters,
                   cancelVars, localVars, crashed, unheard>>

\* Mutant: ClearWake is called after SleepqUnlock.
Sleep_ClearWake(t) ==
    /\ pc[t] = "sleep"
    /\ ClearWake(t)
    /\ will_sleep' = [will_sleep EXCEPT ![t] = FALSE]
    /\ Goto(t, IF defer_waiters[t] # <<>> THEN "sleepflush" ELSE "asleep")
    /\ UNCHANGED <<mutexVars, queueVars, sc_lock, mutex_obj, defer_waiters,
                   cancelVars, localVars, crashed, unheard>>

\* Pthread::Sleep before it blocks.
Sleep(t) ==
    /\ pc[t] = "sleep"
    /\ will_sleep' = [will_sleep EXCEPT ![t] = FALSE]
    /\ Goto(t, IF defer_waiters[t] # <<>> THEN "sleepflush" ELSE "asleep")
    /\ UNCHANGED <<mutexVars, queueVars, sc_lock, mutex_obj, wake_sema, defer_waiters,
                   cancelVars, localVars, crashed, unheard>>

\* The blocking acquire returns with a token ...
SleepAcquire(t) ==
    /\ pc[t] = "asleep"
    /\ wake_sema[t] > 0
    /\ wake_sema' = [wake_sema EXCEPT ![t] = @ - 1]
    /\ Goto(t, "awake")
    /\ UNCHANGED <<mutexVars, queueVars, sc_lock, mutex_obj, will_sleep, defer_waiters,
                   cancelVars, localVars, crashed, unheard>>

\* ... or, in a timed wait, without one.  A token may be there all the same.
SleepTimeout(t) ==
    /\ pc[t] = "asleep"
    /\ timed[t]
    /\ Goto(t, "expired")
    /\ UNCHANGED <<mutexVars, queueVars, sc_lock, threadVars, localVars, crashed, unheard>>

ShouldCancel(t) == cancel_pending[t] /\ cancel_enable[t]

\* Mutant: a cancelled waiter does not leave the queue.
WaitAwake_NoRemove(t) ==
    /\ pc[t] \in {"awake", "expired"}
    /\ sc_lock[cvp[t]] = None
    /\ wchan[t] = None \/ ShouldCancel(t) \/ pc[t] = "expired"
    /\ IF wchan[t] = None \/ ShouldCancel(t) THEN UNCHANGED queueVars ELSE SleepqRemove(cvp[t], t)
    /\ mutex_obj' = [mutex_obj EXCEPT ![t] = IF wchan[t] # None /\ ShouldCancel(t) THEN @ ELSE None]
    /\ Goto(t, "cvlock")
    /\ UNCHANGED <<mutexVars, sc_lock, will_sleep, wake_sema, defer_waiters,
                   cancelVars, localVars, crashed, unheard>>

\* Back under the chain lock the waiter finds out why it woke: it was taken
\* off the queue, it is cancelled, or it timed out.
WaitAwake(t) ==
    /\ pc[t] \in {"awake", "expired"}
    /\ sc_lock[cvp[t]] = None
    /\ \/ /\ wchan[t] = None
          /\ mutex_obj' = [mutex_obj EXCEPT ![t] = None]
          /\ Goto(t, "cvlock")
          /\ UNCHANGED <<queueVars, crashed>>
       \/ /\ wchan[t] # None
          /\ ShouldCancel(t) \/ pc[t] = "expired"
          /\ SleepqRemove(cvp[t], t)
          /\ mutex_obj' = [mutex_obj EXCEPT ![t] = None]
          /\ Goto(t, "cvlock")
          /\ UNCHANGED crashed
       \/ /\ wchan[t] # None
          /\ ~ShouldCancel(t) /\ pc[t] = "awake"
          /\ crashed' = TRUE
          /\ UNCHANGED <<queueVars, mutex_obj, pc>>
    /\ UNCHANGED <<mutexVars, sc_lock, will_sleep, wake_sema, defer_waiters,
                   cancelVars, localVars, unheard>>

\* CvLock: the host mutex, then m_owner and the recursion count.
WaitCvLock(t) ==
    /\ pc[t] = "cvlock"
    /\ m_lock[mp[t]] = None
    /\ m_lock' = [m_lock EXCEPT ![mp[t]] = t]
    /\ Goto(t, "cvown")
    /\ UNCHANGED <<m_owner, m_count, m_deferred, queueVars, sc_lock, threadVars,
                   localVars, crashed, unheard>>

WaitCvOwn(t) ==
    /\ pc[t] = "cvown"
    /\ m_owner' = [m_owner EXCEPT ![mp[t]] = t]
    /\ m_count' = [m_count EXCEPT ![mp[t]] = recurse[t]]
    /\ Goto(t, "idle")
    /\ UNCHANGED <<m_lock, m_deferred, queueVars, sc_lock, threadVars, localVars, crashed, unheard>>
-----------------------------------------------------------------------------
(* condvar.cpp, PthreadCond::Signal and PthreadCond::Broadcast             *)

\* Whether a waiter's wakeup waits until t unlocks the mutex it needs.
Defers(t, x) == m_owner[mutex_obj[x]] = t
Full(list) == Len(list) >= MaxDeferWaiters

\* Mutant: the mutex is not flagged.
Defer_NoFlag(t, x, m) ==
    /\ defer_waiters' = [defer_waiters EXCEPT ![t] = Append(@, x)]
    /\ UNCHANGED m_deferred

\* The waiter x joins t's deferred wakeups; its mutex m is flagged.
Defer(t, x, m) ==
    /\ defer_waiters' = [defer_waiters EXCEPT ![t] = Append(@, x)]
    /\ m_deferred' = [m_deferred EXCEPT ![m] = TRUE]

\* The thread a signal takes off the queue: the most recent waiter, or the
\* one pthread_cond_signalto_np names.  Naming a thread that is not waiting
\* on the cond is outside the contract of that call and of this model.
SignalTargets(c) == {Head(sq_blocked[c])} \cup {x \in Threads : In(x, sq_blocked[c])}

\* Signal and Broadcast find no queue under the chain lock and return 0.
SignalNobody(t, c) ==
    /\ pc[t] = "idle"
    /\ sc_lock[c] = None
    /\ sq[c] = None
    /\ unheard' = [unheard EXCEPT ![c] = TRUE]
    /\ UNCHANGED <<mutexVars, queueVars, sc_lock, threadVars, pc, localVars, crashed>>

\* Where the wakeup of x goes: deferred, deferred after a flush, or released
\* after SleepqUnlock.
SignalFate(t, c, x) ==
    \/ /\ Defers(t, x) /\ ~Full(defer_waiters[t])
       /\ Defer(t, x, mutex_obj[x])
       /\ UNCHANGED <<sc_lock, pc, cvp, mp, td, waddrs>>
    \/ /\ Defers(t, x) /\ Full(defer_waiters[t])
       /\ sc_lock' = [sc_lock EXCEPT ![c] = t]
       /\ cvp' = [cvp EXCEPT ![t] = c]
       /\ mp' = [mp EXCEPT ![t] = mutex_obj[x]]
       /\ td' = [td EXCEPT ![t] = x]
       /\ Goto(t, "sigflush")
       /\ UNCHANGED <<defer_waiters, m_deferred, waddrs>>
    \/ /\ ~Defers(t, x)
       /\ waddrs' = [waddrs EXCEPT ![t] = <<x>>]
       /\ Goto(t, "release")
       /\ UNCHANGED <<sc_lock, defer_waiters, m_deferred, cvp, mp, td>>

\* The part of Signal under the chain lock.
Signal(t, c) ==
    /\ pc[t] = "idle"
    /\ sc_lock[c] = None
    /\ sq[c] # None
    /\ \E x \in SignalTargets(c) : SleepqRemove(c, x) /\ SignalFate(t, c, x)
    /\ UNCHANGED <<m_lock, m_owner, m_count, mutex_obj, will_sleep, wake_sema,
                   cancelVars, recurse, timed, crashed, unheard>>

\* After the flush of a full defer_waiters, still under the chain lock.
SignalDefer(t) ==
    /\ pc[t] = "sigdefer"
    /\ Defer(t, td[t], mp[t])
    /\ td' = [td EXCEPT ![t] = None]
    /\ sc_lock' = [sc_lock EXCEPT ![cvp[t]] = None]
    /\ Goto(t, "idle")
    /\ UNCHANGED <<m_lock, m_owner, m_count, queueVars, mutex_obj, will_sleep, wake_sema,
                   cancelVars, cvp, mp, recurse, timed, waddrs, crashed, unheard>>

\* SleepqDrop unlinks the queue; its first waiter gets the SleepQueue of the
\* cond, the others those of the free list, in order.
Broadcast(t, c) ==
    /\ pc[t] = "idle"
    /\ sc_lock[c] = None
    /\ sq[c] # None
    /\ sc_lock' = [sc_lock EXCEPT ![c] = t]
    /\ sq_freeq' = [sq_freeq EXCEPT ![c] = PushFront(sq[c], @)]
    /\ sq' = [sq EXCEPT ![c] = None]
    /\ cvp' = [cvp EXCEPT ![t] = c]
    /\ Goto(t, "drop")
    /\ UNCHANGED <<mutexVars, has_user_waiters, sq_blocked, sleepqueue, wchan, threadVars,
                   mp, recurse, timed, td, waddrs, crashed, unheard>>

\* drop_cb for the next waiter, then its SleepQueue and wchan.  A full list
\* of pending releases is emptied first.
Drop(t) ==
    LET c == cvp[t]
        x == Head(sq_blocked[c])
        mine == Defers(t, x)
    IN  /\ pc[t] = "drop"
        /\ sq_blocked[c] # <<>>
        /\ IF Full(IF mine THEN defer_waiters[t] ELSE waddrs[t])
           THEN /\ Goto(t, IF mine THEN "dropflush" ELSE "dropwaddrs")
                /\ UNCHANGED <<sq_blocked, sq_freeq, sleepqueue, wchan,
                               defer_waiters, m_deferred, waddrs>>
           ELSE /\ IF mine
                   THEN Defer(t, x, mutex_obj[x]) /\ UNCHANGED waddrs
                   ELSE /\ waddrs' = [waddrs EXCEPT ![t] = Append(@, x)]
                        /\ UNCHANGED <<defer_waiters, m_deferred>>
                /\ sleepqueue' = [sleepqueue EXCEPT ![x] = Head(sq_freeq[c])]
                /\ wchan' = [wchan EXCEPT ![x] = None]
                /\ sq_blocked' = [sq_blocked EXCEPT ![c] = Tail(@)]
                /\ sq_freeq' = [sq_freeq EXCEPT ![c] = Tail(@)]
                /\ UNCHANGED pc
        /\ UNCHANGED <<m_lock, m_owner, m_count, has_user_waiters, sq, sc_lock, mutex_obj,
                       will_sleep, wake_sema, cancelVars, cvp, mp, recurse, timed,
                       td, crashed, unheard>>

DropDone(t) ==
    /\ pc[t] = "drop"
    /\ sq_blocked[cvp[t]] = <<>>
    /\ has_user_waiters' = [has_user_waiters EXCEPT ![cvp[t]] = FALSE]
    /\ sc_lock' = [sc_lock EXCEPT ![cvp[t]] = None]
    /\ Goto(t, IF waddrs[t] = <<>> THEN "idle" ELSE "release")
    /\ UNCHANGED <<mutexVars, sq, sq_blocked, sq_freeq, sleepqueue, wchan, threadVars,
                   localVars, crashed, unheard>>

\* The releases after SleepqUnlock ("release"), or of a full waddrs.
ReleaseWaddrs(t) ==
    /\ pc[t] \in {"release", "dropwaddrs"}
    /\ Release(Head(waddrs[t]))
    /\ waddrs' = [waddrs EXCEPT ![t] = Tail(@)]
    /\ IF Tail(waddrs[t]) # <<>> THEN UNCHANGED pc
       ELSE Goto(t, IF pc[t] = "release" THEN "idle" ELSE "drop")
    /\ UNCHANGED <<mutexVars, queueVars, sc_lock, mutex_obj, will_sleep, defer_waiters,
                   cancelVars, cvp, mp, recurse, timed, td, crashed, unheard>>
-----------------------------------------------------------------------------
(* pthread.cpp, posix_pthread_cancel.  Bound: one cancel per thread.       *)
Cancel(t, x) ==
    /\ pc[t] = "idle"
    /\ ~cancel_pending[x]
    /\ cancel_pending' = [cancel_pending EXCEPT ![x] = TRUE]
    /\ IF will_sleep[x]
       THEN td' = [td EXCEPT ![t] = x] /\ Goto(t, "kick")
       ELSE UNCHANGED <<td, pc>>
    /\ UNCHANGED <<mutexVars, queueVars, sc_lock, mutex_obj, will_sleep, wake_sema,
                   defer_waiters, cancel_enable, cvp, mp, recurse, timed, waddrs, crashed, unheard>>

CancelKick(t) ==
    /\ pc[t] = "kick"
    /\ Release(td[t])
    /\ td' = [td EXCEPT ![t] = None]
    /\ Goto(t, "idle")
    /\ UNCHANGED <<mutexVars, queueVars, sc_lock, mutex_obj, will_sleep, defer_waiters,
                   cancelVars, cvp, mp, recurse, timed, waddrs, crashed, unheard>>

\* posix_pthread_setcancelstate.  Enabling with a cancellation pending exits
\* the thread, which then makes no more calls.
SetCancelState(t) ==
    /\ pc[t] = "idle"
    /\ cancel_enable[t] \/ ~cancel_pending[t]
    /\ cancel_enable' = [cancel_enable EXCEPT ![t] = ~@]
    /\ UNCHANGED <<mutexVars, queueVars, sc_lock, mutex_obj, will_sleep, wake_sema,
                   defer_waiters, cancel_pending, pc, localVars, crashed, unheard>>
-----------------------------------------------------------------------------
Init ==
    /\ m_lock = [m \in Mutexes |-> None]
    /\ m_owner = [m \in Mutexes |-> None]
    /\ m_count = [m \in Mutexes |-> 0]
    /\ m_deferred = [m \in Mutexes |-> FALSE]
    /\ has_user_waiters = [c \in Conds |-> FALSE]
    /\ sc_lock = [c \in Conds |-> None]
    /\ sq = [c \in Conds |-> None]
    /\ sq_blocked = [c \in Conds |-> <<>>]
    /\ sq_freeq = [c \in Conds |-> <<>>]
    /\ sleepqueue = [t \in Threads |-> t]
    /\ wchan = [t \in Threads |-> None]
    /\ mutex_obj = [t \in Threads |-> None]
    /\ will_sleep = [t \in Threads |-> FALSE]
    /\ wake_sema = [t \in Threads |-> 0]
    /\ defer_waiters = [t \in Threads |-> <<>>]
    /\ cancel_pending = [t \in Threads |-> FALSE]
    /\ cancel_enable = [t \in Threads |-> TRUE]
    /\ pc = [t \in Threads |-> "idle"]
    /\ cvp = [t \in Threads |-> None]
    /\ mp = [t \in Threads |-> None]
    /\ recurse = [t \in Threads |-> 0]
    /\ timed = [t \in Threads |-> FALSE]
    /\ td = [t \in Threads |-> None]
    /\ waddrs = [t \in Threads |-> <<>>]
    /\ crashed = FALSE
    /\ unheard = [c \in Conds |-> FALSE]

\* Steps of a call that is under way ...
Step(t) ==
    \/ LockOwn(t) \/ UnlockHost(t) \/ WakeAll(t)
    \/ WaitEnqueue(t) \/ WaitClearWake(t) \/ Sleep(t) \/ SleepAcquire(t) \/ SleepTimeout(t)
    \/ WaitAwake(t) \/ WaitCvLock(t) \/ WaitCvOwn(t)
    \/ SignalDefer(t) \/ Drop(t) \/ DropDone(t) \/ ReleaseWaddrs(t) \/ CancelKick(t)

\* ... and the calls a guest may make.
Call(t) ==
    \/ \E m \in Mutexes : Lock(t, m) \/ SelfLock(t, m) \/ UnlockRecursive(t, m) \/ Unlock(t, m)
    \/ \E c \in Conds, m \in Mutexes :
        Wait(t, c, m, FALSE) \/ (t \in TimedWaiters /\ Wait(t, c, m, TRUE))
    \/ \E c \in Conds : SignalNobody(t, c) \/ Signal(t, c) \/ Broadcast(t, c)
    \/ \E x \in Cancellable : Cancel(t, x)
    \/ t \in Cancellable /\ SetCancelState(t)

Next == ~crashed /\ \E t \in Threads : Step(t) \/ Call(t)

Spec == Init /\ [][Next]_vars

\* The host schedules every thread that can take a step of its call, and a
\* guest does not keep a mutex forever.
LiveSpec ==
    /\ Spec
    /\ \A t \in Threads : WF_vars(~crashed /\ Step(t))
    /\ \A t \in Threads : SF_vars(~crashed /\ \E m \in Mutexes : Unlock(t, m))
    /\ \A t \in Threads : SF_vars(~crashed /\ \E m \in Recursive : UnlockRecursive(t, m))
-----------------------------------------------------------------------------
(* Properties                                                              *)

Waiting == {"enqueue", "clearwake", "sleep", "sleepflush", "asleep", "awake", "expired",
            "cvlock", "cvown"}
Labels == Waiting \cup {"idle", "own", "unlock", "unlock_deferred", "wakeall", "sigflush",
                        "sigdefer", "drop", "dropflush", "dropwaddrs", "release", "kick"}

\* Values the variables of the code take.
TypeOK ==
    /\ m_lock \in [Mutexes -> Threads \cup {None}]
    /\ m_owner \in [Mutexes -> Threads \cup {None}]
    /\ m_count \in [Mutexes -> Nat]
    /\ m_deferred \in [Mutexes -> BOOLEAN]
    /\ has_user_waiters \in [Conds -> BOOLEAN]
    /\ sc_lock \in [Conds -> Threads \cup {None}]
    /\ sq \in [Conds -> Threads \cup {None}]
    /\ sq_blocked \in [Conds -> Seq(Threads)]
    /\ sq_freeq \in [Conds -> Seq(Threads)]
    /\ sleepqueue \in [Threads -> Threads \cup {None}]
    /\ wchan \in [Threads -> Conds \cup {None}]
    /\ mutex_obj \in [Threads -> Mutexes \cup {None}]
    /\ will_sleep \in [Threads -> BOOLEAN]
    /\ wake_sema \in [Threads -> Nat]
    /\ defer_waiters \in [Threads -> Seq(Threads)]
    /\ cancel_pending \in [Threads -> BOOLEAN]
    /\ cancel_enable \in [Threads -> BOOLEAN]
    /\ pc \in [Threads -> Labels]
    /\ cvp \in [Threads -> Conds \cup {None}]
    /\ mp \in [Threads -> Mutexes \cup {None}]
    /\ recurse \in [Threads -> Nat]
    /\ timed \in [Threads -> BOOLEAN]
    /\ td \in [Threads -> Threads \cup {None}]
    /\ waddrs \in [Threads -> Seq(Threads)]
    /\ crashed \in BOOLEAN
    /\ unheard \in [Conds -> BOOLEAN]

\* The places a SleepQueue object can be.
Homes(q) ==
    {<<"thread", t>> : t \in {u \in Threads : sleepqueue[u] = q}}
    \cup {<<"chain", c>> : c \in {d \in Conds : sq[d] = q}}
    \cup UNION {{<<"free", c, i>> : i \in {j \in 1..Len(sq_freeq[c]) : sq_freeq[c][j] = q}} :
                   c \in Conds}

\* No SleepQueue object is lost or handed out twice by SleepqAdd, SleepqRemove
\* and SleepqDrop, however signals, broadcasts, timeouts and cancellations
\* take waiters off the queue: each is in exactly one place.
SleepQueuesConserved == \A q \in Threads : Cardinality(Homes(q)) = 1

\* SleepqRemove and SleepqDrop find a SleepQueue to hand back: the queue of a
\* cond has one object for each of its waiters, and a cond without waiters
\* has no queue (Signal looks at sq_blocked.front() unchecked).
QueuePerWaiter ==
    \A c \in Conds :
        Len(sq_blocked[c]) = Len(sq_freeq[c]) + (IF sq[c] = None THEN 0 ELSE 1)

\* The releases a thread still owes: in defer_waiters, in waddrs, or the one
\* of a signal in the middle of a flush.
Owes(s, t) ==
    \/ In(t, defer_waiters[s])
    \/ In(t, waddrs[s])
    \/ pc[s] \in {"sigflush", "sigdefer"} /\ td[s] = t

\* A waiter a signal or a broadcast took off the queue is not left asleep:
\* its token is there, or some thread still owes it.
NoLostWakeup ==
    \A t \in Threads :
        wchan[t] = None /\ pc[t] \in {"sleep", "sleepflush", "asleep"} =>
            wake_sema[t] > 0 \/ \E s \in Threads : Owes(s, t)

\* Deferred wakeups are never stranded: a thread that owes some and is between
\* calls still owns a mutex flagged Deferred, whose Unlock sends them.
DeferredAreOwed ==
    \A t \in Threads :
        pc[t] = "idle" /\ defer_waiters[t] # <<>> =>
            \E m \in Mutexes : m_owner[m] = t /\ m_deferred[m]

\* The owner field tells the truth: a thread recorded in m_owner has the host
\* mutex, so m_count and the Deferred flag have one writer at a time.
OwnerHoldsLock == \A m \in Mutexes : m_owner[m] # None => m_lock[m] = m_owner[m]

\* "this allows us to check it without locking in pthread_cond_signal()":
\* a cond with a waiter has has_user_waiters set.
UserWaitersFlagged == \A c \in Conds : sq_blocked[c] # <<>> => has_user_waiters[c]

\* UNREACHABLE() at the end of the wait loop is not reached while waits do not
\* time out and no thread disables cancellation: a thread wakes only when taken
\* off the queue or cancelled.
UnreachableNeedsTimeout ==
    TimedWaiters = {} /\ crashed => \E t \in Cancellable : ~cancel_enable[t]

\* ASSERT_MSG(wchan == nullptr, "Thread was already on queue."): between calls
\* a thread is on no sleep queue, whichever way its last wait ended.
IdleNotQueued == \A t \in Threads : pc[t] = "idle" => wchan[t] = None

\* UNREACHABLE() at the end of the wait loop is never reached.
NeverUnreachable == ~crashed

\* A waiter that a signal or a broadcast took off the queue wakes, whether the
\* wakeup was sent at once, deferred to an Unlock or sent on the way to sleep.
SignalledWaiterWakes ==
    \A t \in Threads : (pc[t] = "asleep" /\ wchan[t] = None) ~> (pc[t] # "asleep" \/ crashed)
=============================================================================
