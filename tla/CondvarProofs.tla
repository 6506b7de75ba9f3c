--------------------------- MODULE CondvarProofs ----------------------------
(***************************************************************************)
(* Proofs about module Condvar, for any number of threads, condition       *)
(* variables and mutexes and any capacity of the deferred wakeups.  The    *)
(* inductive invariant IInv gives the type invariant and most of the       *)
(* safety invariants that TLC checks on small instances; on top of it,     *)
(* Placed and WakeupsCounted say that no SleepQueue and no wakeup is       *)
(* there twice, and every step is one of module Monitor or invisible.      *)
(***************************************************************************)
EXTENDS CondvarInv

(* Every step preserves the parts of IInv about types, locals and locks.    *)

\* Every step leaves every variable in its type.
LEMMA TypeStep ==
    ASSUME IInv, NEW t \in Threads, Step(t) \/ Call(t)
    PROVE  TypeOK'
<1>0. TypeOK /\ LocalsOK
  BY ZenonT(30) DEF IInv
<1>1. CASE LockOwn(t)
  BY Zenon, <1>1, <1>0 DEF LockOwn, Goto, TypeOK, Labels, Waiting, mutexVars, queueVars, cancelVars, threadVars, localVars
<1>2. CASE UnlockHost(t)
  BY Zenon, <1>2, <1>0 DEF UnlockHost, Goto, TypeOK, Labels, Waiting, mutexVars, queueVars, cancelVars, threadVars, localVars
<1>3. CASE WakeAll(t)
  <2>1. defer_waiters[t] # <<>> /\ defer_waiters[t] \in Seq(Threads)
    BY <1>3, <1>0, Zenon DEF WakeAll, LocalsOK, TypeOK
  <2>2. Head(defer_waiters[t]) \in Threads /\ Tail(defer_waiters[t]) \in Seq(Threads)
    BY <2>1, PopList, Zenon
  <2>3. wake_sema \in [Threads -> Nat] /\ defer_waiters \in [Threads -> Seq(Threads)]
    BY <1>0, ZenonT(30) DEF TypeOK
  <2>4. wake_sema' \in [Threads -> Nat] /\ defer_waiters' \in [Threads -> Seq(Threads)]
    <3>1. /\ wake_sema' = [wake_sema EXCEPT ![Head(defer_waiters[t])] = @ + 1]
          /\ defer_waiters' = [defer_waiters EXCEPT ![t] = Tail(@)]
      BY <1>3, ZenonT(30) DEF WakeAll, Release
    <3>2. wake_sema[Head(defer_waiters[t])] + 1 \in Nat
      BY <2>2, <2>3, SMTT(30)
    <3> QED BY Zenon, <2>2, <2>3, <3>1, <3>2
  <2>5. pc' \in [Threads -> Labels]
    <3>1. pc \in [Threads -> Labels] /\ pc[t] \in Labels
      BY <1>0, Zenon DEF TypeOK
    <3>2. pc' = pc \/ \E l \in Labels : pc' = [pc EXCEPT ![t] = l]
      BY <1>3, ZenonT(30) DEF WakeAll, Goto, After, Labels, Waiting
    <3> QED BY <3>1, <3>2, Zenon
  <2> QED BY Zenon, <1>3, <1>0, <2>4, <2>5 DEF WakeAll, TypeOK, mutexVars, queueVars, cancelVars, threadVars, localVars
<1>4. CASE WaitEnqueue(t)
  <2>1. /\ cvp[t] \in Conds /\ mp[t] \in Mutexes
        /\ wchan[t] = None /\ (sq[cvp[t]] = None => sq_blocked[cvp[t]] = <<>>)
    BY <1>4, EnqueueReady, Zenon DEF WaitEnqueue
  <2>2. SleepqAdd(cvp[t], t)
    BY <1>4, Zenon DEF WaitEnqueue
  <2>3. /\ sq_blocked' \in [Conds -> Seq(Threads)]
        /\ sq_freeq' \in [Conds -> Seq(Threads)]
        /\ sq' \in [Conds -> Threads \cup {None}]
        /\ sleepqueue' = [sleepqueue EXCEPT ![t] = None]
        /\ wchan' = [wchan EXCEPT ![t] = cvp[t]]
    BY <2>1, <2>2, SleepqAddEffect, Zenon
  <2> QED BY Zenon, <1>4, <1>0, <2>1, <2>3 DEF WaitEnqueue, Goto, TypeOK, Labels, Waiting, mutexVars, queueVars, cancelVars, threadVars, localVars
<1>5. CASE WaitClearWake(t)
  <2>1. wake_sema' \in [Threads -> Nat]
    BY <1>5, <1>0, SMTT(30) DEF WaitClearWake, ClearWake, TypeOK
  <2>2. sc_lock' \in [Conds -> Threads \cup {None}]
    BY Zenon, <1>5, <1>0 DEF WaitClearWake, TypeOK
  <2> QED BY Zenon, <1>5, <1>0, <2>1, <2>2 DEF WaitClearWake, Goto, TypeOK, Labels, Waiting, mutexVars, queueVars, cancelVars, threadVars, localVars
<1>6. CASE Sleep(t)
  BY Zenon, <1>6, <1>0 DEF Sleep, Goto, TypeOK, Labels, Waiting, mutexVars, queueVars, cancelVars, threadVars, localVars
<1>7. CASE SleepAcquire(t)
  BY <1>7, <1>0, SMTT(30) DEF SleepAcquire, Goto, TypeOK, Labels, Waiting, mutexVars, queueVars, cancelVars, threadVars, localVars
<1>8. CASE SleepTimeout(t)
  BY Zenon, <1>8, <1>0 DEF SleepTimeout, Goto, TypeOK, Labels, Waiting, mutexVars, queueVars, cancelVars, threadVars, localVars
<1>9. CASE WaitAwake(t)
  <2>1. /\ cvp[t] \in Conds /\ mp[t] \in Mutexes
        /\ wchan[t] # None => In(t, sq_blocked[cvp[t]]) /\ sq[cvp[t]] # None
    BY <1>9, AwakeReady, Zenon DEF WaitAwake
  <2>2. CASE wchan[t] # None /\ SleepqRemove(cvp[t], t)
    <3>1. /\ sq_blocked' \in [Conds -> Seq(Threads)]
          /\ sq_freeq' \in [Conds -> Seq(Threads)]
          /\ sq' \in [Conds -> Threads \cup {None}]
          /\ sleepqueue' \in [Threads -> Threads \cup {None}]
          /\ has_user_waiters' \in [Conds -> BOOLEAN]
          /\ wchan' = [wchan EXCEPT ![t] = None]
      BY Zenon, <2>1, <2>2, SleepqRemoveEffect
    <3> QED BY Zenon, <1>9, <1>0, <3>1 DEF WaitAwake, Goto, TypeOK, Labels, Waiting, mutexVars, queueVars, cancelVars, threadVars, localVars
  <2>3. CASE UNCHANGED queueVars
    BY Zenon, <1>9, <1>0, <2>3 DEF WaitAwake, Goto, TypeOK, Labels, Waiting, mutexVars, queueVars, cancelVars, threadVars, localVars
  <2> QED BY <1>9, <2>2, <2>3, ZenonT(30) DEF WaitAwake
<1>10. CASE WaitCvLock(t)
  BY Zenon, <1>10, <1>0 DEF WaitCvLock, Goto, TypeOK, Labels, Waiting, mutexVars, queueVars, cancelVars, threadVars, localVars
<1>11. CASE WaitCvOwn(t)
  BY Zenon, <1>11, <1>0 DEF WaitCvOwn, Goto, TypeOK, Labels, Waiting, mutexVars, queueVars, cancelVars, threadVars, localVars
<1>12. CASE SignalDefer(t)
  <2>1. td[t] \in Threads /\ mp[t] \in Mutexes /\ cvp[t] \in Conds
    BY <1>12, <1>0, Zenon DEF SignalDefer, LocalsOK, Chained
  <2>2. Append(defer_waiters[t], td[t]) \in Seq(Threads)
    BY <1>0, <2>1, SMTT(30) DEF TypeOK
  <2>3. defer_waiters' \in [Threads -> Seq(Threads)] /\ m_deferred' \in [Mutexes -> BOOLEAN]
    BY <1>12, <1>0, <2>1, <2>2, Zenon DEF SignalDefer, Defer, TypeOK
  <2> QED BY Zenon, <1>12, <1>0, <2>3 DEF SignalDefer, Goto, TypeOK, Labels, Waiting, mutexVars, queueVars, cancelVars, threadVars, localVars
<1>13. CASE Drop(t)
  <2> DEFINE c == cvp[t]
             x == Head(sq_blocked[c])
  <2>1. pc[t] = "drop" /\ sq_blocked[c] # <<>>
    BY <1>13, Zenon DEF Drop
  <2>2. /\ c \in Conds /\ x \in Threads /\ mutex_obj[x] \in Mutexes
        /\ Head(sq_freeq[c]) \in Threads
        /\ Tail(sq_freeq[c]) \in Seq(Threads)
        /\ Tail(sq_blocked[c]) \in Seq(Threads)
    BY <2>1, DropReady, Zenon
  <2>3. /\ Append(defer_waiters[t], x) \in Seq(Threads)
        /\ Append(waddrs[t], x) \in Seq(Threads)
    BY <1>0, <2>2, SMTT(30) DEF TypeOK
  <2>4. /\ defer_waiters' \in [Threads -> Seq(Threads)]
        /\ m_deferred' \in [Mutexes -> BOOLEAN]
        /\ waddrs' \in [Threads -> Seq(Threads)]
    <3>1. /\ defer_waiters \in [Threads -> Seq(Threads)]
          /\ m_deferred \in [Mutexes -> BOOLEAN]
          /\ waddrs \in [Threads -> Seq(Threads)]
      BY <1>0, Zenon DEF TypeOK
    <3>2. \/ UNCHANGED <<defer_waiters, m_deferred, waddrs>>
          \/ Defer(t, x, mutex_obj[x]) /\ UNCHANGED waddrs
          \/ waddrs' = [waddrs EXCEPT ![t] = Append(@, x)] /\ UNCHANGED <<defer_waiters, m_deferred>>
      BY <1>13, ZenonT(30) DEF Drop
    <3> QED BY Zenon, <2>2, <2>3, <3>1, <3>2 DEF Defer
  <2>5. /\ sq_blocked' \in [Conds -> Seq(Threads)]
        /\ sq_freeq' \in [Conds -> Seq(Threads)]
        /\ sleepqueue' \in [Threads -> Threads \cup {None}]
        /\ wchan' \in [Threads -> Conds \cup {None}]
    <3>1. /\ sq_blocked \in [Conds -> Seq(Threads)] /\ sq_freeq \in [Conds -> Seq(Threads)]
          /\ sleepqueue \in [Threads -> Threads \cup {None}]
          /\ wchan \in [Threads -> Conds \cup {None}]
      BY <1>0, ZenonT(30) DEF TypeOK
    <3>2. \/ UNCHANGED <<sq_blocked, sq_freeq, sleepqueue, wchan>>
          \/ /\ sleepqueue' = [sleepqueue EXCEPT ![x] = Head(sq_freeq[c])]
             /\ wchan' = [wchan EXCEPT ![x] = None]
             /\ sq_blocked' = [sq_blocked EXCEPT ![c] = Tail(@)]
             /\ sq_freeq' = [sq_freeq EXCEPT ![c] = Tail(@)]
      BY <1>13, ZenonT(30) DEF Drop
    <3> QED BY Zenon, <2>2, <3>1, <3>2
  <2>6. pc' \in [Threads -> Labels]
    <3>1. pc \in [Threads -> Labels]
      BY <1>0, ZenonT(30) DEF TypeOK
    <3>2. pc' = pc \/ \E l \in Labels : pc' = [pc EXCEPT ![t] = l]
      BY Zenon, <1>13 DEF Drop, Goto, Labels
    <3> QED BY <3>1, <3>2, Zenon
  <2> QED BY Zenon, <1>13, <1>0, <2>4, <2>5, <2>6 DEF Drop, TypeOK, Labels, Waiting, mutexVars, queueVars, cancelVars, threadVars, localVars
<1>14. CASE DropDone(t)
  BY Zenon, <1>14, <1>0 DEF DropDone, Goto, TypeOK, Labels, Waiting, mutexVars, queueVars, cancelVars, threadVars, localVars
<1>15. CASE ReleaseWaddrs(t)
  <2>1. waddrs[t] # <<>> /\ waddrs[t] \in Seq(Threads)
    BY <1>15, <1>0, Zenon DEF ReleaseWaddrs, LocalsOK, TypeOK
  <2>2. Head(waddrs[t]) \in Threads /\ Tail(waddrs[t]) \in Seq(Threads)
    BY <2>1, PopList, Zenon
  <2>3. wake_sema \in [Threads -> Nat] /\ waddrs \in [Threads -> Seq(Threads)]
    BY <1>0, Zenon DEF TypeOK
  <2>4. wake_sema' \in [Threads -> Nat] /\ waddrs' \in [Threads -> Seq(Threads)]
    <3>1. /\ wake_sema' = [wake_sema EXCEPT ![Head(waddrs[t])] = @ + 1]
          /\ waddrs' = [waddrs EXCEPT ![t] = Tail(@)]
      BY <1>15, Zenon DEF ReleaseWaddrs, Release
    <3>2. wake_sema[Head(waddrs[t])] + 1 \in Nat
      BY <2>2, <2>3, SMTT(30)
    <3> QED BY Zenon, <2>2, <2>3, <3>1, <3>2
  <2>5. pc' \in [Threads -> Labels]
    <3>1. pc \in [Threads -> Labels] /\ pc[t] \in Labels
      BY <1>0, Zenon DEF TypeOK
    <3>2. pc' = pc \/ \E l \in Labels : pc' = [pc EXCEPT ![t] = l]
      BY <1>15, ZenonT(30) DEF ReleaseWaddrs, Goto, Labels, Waiting
    <3> QED BY <3>1, <3>2, Zenon
  <2> QED BY Zenon, <1>15, <1>0, <2>4, <2>5 DEF ReleaseWaddrs, TypeOK, mutexVars, queueVars, cancelVars, threadVars, localVars
<1>16. CASE CancelKick(t)
  <2>1. td[t] \in Threads
    BY <1>16, <1>0, Zenon DEF CancelKick, LocalsOK
  <2>2. wake_sema' \in [Threads -> Nat] /\ td' \in [Threads -> Threads \cup {None}]
    BY <1>16, <1>0, <2>1, SMTT(30) DEF CancelKick, Release, TypeOK
  <2> QED BY Zenon, <1>16, <1>0, <2>2 DEF CancelKick, Release, Goto, TypeOK, Labels, Waiting, mutexVars, queueVars, cancelVars, threadVars, localVars
<1>17. ASSUME NEW m \in Mutexes, Lock(t, m) PROVE TypeOK'
  BY <1>17, <1>0, Zenon DEF Lock, Goto, TypeOK, Labels, Waiting, mutexVars, queueVars, cancelVars, threadVars, localVars
<1>18. ASSUME NEW m \in Mutexes, SelfLock(t, m) PROVE TypeOK'
  BY <1>18, <1>0, SMTT(30) DEF SelfLock, TypeOK, Labels, Waiting, mutexVars, queueVars, cancelVars, threadVars, localVars
<1>19. ASSUME NEW m \in Mutexes, UnlockRecursive(t, m) PROVE TypeOK'
  <2>1. m_count \in [Mutexes -> Nat] /\ m_count[m] > 0
    BY <1>19, <1>0, Zenon DEF UnlockRecursive, TypeOK
  <2>2. m_count[m] - 1 \in Nat
    BY <2>1, SMTT(30)
  <2>3. m_count' \in [Mutexes -> Nat]
    BY <1>19, <2>1, <2>2, Zenon DEF UnlockRecursive
  <2> QED BY Zenon, <1>19, <1>0, <2>3 DEF UnlockRecursive, TypeOK, queueVars, cancelVars, threadVars, localVars
<1>20. ASSUME NEW m \in Mutexes, Unlock(t, m) PROVE TypeOK'
  BY <1>20, <1>0, Zenon DEF Unlock, Goto, TypeOK, Labels, Waiting, mutexVars, queueVars, cancelVars, threadVars, localVars
<1>21. ASSUME NEW c \in Conds, NEW m \in Mutexes, NEW w \in BOOLEAN, Wait(t, c, m, w) PROVE TypeOK'
  BY Zenon, <1>21, <1>0 DEF Wait, Goto, TypeOK, Labels, Waiting, mutexVars, queueVars, cancelVars, threadVars, localVars
<1>22. ASSUME NEW c \in Conds, SignalNobody(t, c) PROVE TypeOK'
  BY <1>22, <1>0, Zenon DEF SignalNobody, TypeOK, Labels, Waiting, mutexVars, queueVars, cancelVars, threadVars, localVars
<1>23. ASSUME NEW c \in Conds, Signal(t, c) PROVE TypeOK'
  <2>1. PICK x \in SignalTargets(c) : SleepqRemove(c, x) /\ SignalFate(t, c, x)
    BY <1>23, Zenon DEF Signal
  <2>2. x \in Threads /\ In(x, sq_blocked[c]) /\ sq[c] # None /\ mutex_obj[x] \in Mutexes
    BY <1>23, SignalReady, ZenonT(30) DEF Signal
  <2>3. /\ sq_blocked' \in [Conds -> Seq(Threads)]
        /\ sq_freeq' \in [Conds -> Seq(Threads)]
        /\ sq' \in [Conds -> Threads \cup {None}]
        /\ sleepqueue' \in [Threads -> Threads \cup {None}]
        /\ has_user_waiters' \in [Conds -> BOOLEAN]
        /\ wchan' = [wchan EXCEPT ![x] = None]
    BY Zenon, <2>1, <2>2, SleepqRemoveEffect
  <2>4. Append(defer_waiters[t], x) \in Seq(Threads) /\ <<x>> \in Seq(Threads)
    BY <1>0, <2>2, SMTT(30) DEF TypeOK
  <2>5. /\ defer_waiters' \in [Threads -> Seq(Threads)]
        /\ m_deferred' \in [Mutexes -> BOOLEAN]
        /\ waddrs' \in [Threads -> Seq(Threads)]
        /\ sc_lock' \in [Conds -> Threads \cup {None}]
        /\ cvp' \in [Threads -> Conds \cup {None}]
        /\ mp' \in [Threads -> Mutexes \cup {None}]
        /\ td' \in [Threads -> Threads \cup {None}]
    <3>1. CASE Defers(t, x) /\ ~Full(defer_waiters[t])
      <4>1. /\ defer_waiters' = [defer_waiters EXCEPT ![t] = Append(@, x)]
            /\ m_deferred' = [m_deferred EXCEPT ![mutex_obj[x]] = TRUE]
            /\ UNCHANGED <<sc_lock, cvp, mp, td, waddrs>>
        BY <2>1, <3>1, Zenon DEF SignalFate, Defer
      <4> QED BY Zenon, <1>0, <2>2, <2>4, <4>1 DEF TypeOK
    <3>2. CASE Defers(t, x) /\ Full(defer_waiters[t])
      <4>1. /\ sc_lock' = [sc_lock EXCEPT ![c] = t]
            /\ cvp' = [cvp EXCEPT ![t] = c]
            /\ mp' = [mp EXCEPT ![t] = mutex_obj[x]]
            /\ td' = [td EXCEPT ![t] = x]
            /\ UNCHANGED <<defer_waiters, m_deferred, waddrs>>
        BY <2>1, <3>2, ZenonT(30) DEF SignalFate
      <4> QED BY <1>0, <2>2, <4>1, Zenon DEF TypeOK
    <3>3. CASE ~Defers(t, x)
      <4>1. /\ waddrs' = [waddrs EXCEPT ![t] = <<x>>]
            /\ UNCHANGED <<defer_waiters, m_deferred, sc_lock, cvp, mp, td>>
        BY <2>1, <3>3, Zenon DEF SignalFate
      <4> QED BY Zenon, <1>0, <2>2, <2>4, <4>1 DEF TypeOK
    <3> QED BY <3>1, <3>2, <3>3, Zenon
  <2>6. pc' \in [Threads -> Labels]
    BY Zenon, <1>0, <2>1 DEF SignalFate, Goto, TypeOK, Labels, Waiting
  <2> QED BY Zenon, <1>23, <1>0, <2>3, <2>5, <2>6 DEF Signal, TypeOK, Labels, Waiting, mutexVars, queueVars, cancelVars, threadVars, localVars
<1>24. ASSUME NEW c \in Conds, Broadcast(t, c) PROVE TypeOK'
  <2>1. sq[c] \in Threads /\ sq_freeq[c] \in Seq(Threads)
    BY <1>24, <1>0, Zenon DEF Broadcast, TypeOK
  <2>2. PushFront(sq[c], sq_freeq[c]) \in Seq(Threads)
    BY Zenon, <2>1, PushFrontList
  <2> QED BY Zenon, <1>24, <1>0, <2>2 DEF Broadcast, Goto, TypeOK, Labels, Waiting, mutexVars, queueVars, cancelVars, threadVars, localVars
<1>25. ASSUME NEW x \in Cancellable, Cancel(t, x) PROVE TypeOK'
  <2>1. td' \in [Threads -> Threads \cup {None}]
    <3>1. x \in Threads /\ td \in [Threads -> Threads \cup {None}]
      BY <1>0, CondvarAssumption, Zenon DEF TypeOK
    <3>2. td' = [td EXCEPT ![t] = x] \/ td' = td
      BY <1>25, Zenon DEF Cancel
    <3> QED BY <3>1, <3>2, Zenon
  <2>2. cancel_pending' \in [Threads -> BOOLEAN]
    BY Zenon, <1>25, <1>0 DEF Cancel, TypeOK
  <2>3. pc' = [pc EXCEPT ![t] = "kick"] \/ pc' = pc
    BY <1>25, Zenon DEF Cancel, Goto
  <2> QED BY Zenon, <1>25, <1>0, <2>1, <2>2, <2>3 DEF Cancel, TypeOK, Labels, Waiting, mutexVars, queueVars, cancelVars, threadVars, localVars
<1>26. CASE SetCancelState(t)
  BY <1>26, <1>0, ZenonT(30) DEF SetCancelState, TypeOK, Labels, Waiting, mutexVars, queueVars, cancelVars, threadVars, localVars
<1> QED BY Zenon, <1>1, <1>2, <1>3, <1>4, <1>5, <1>6, <1>7, <1>8, <1>9, <1>10, <1>11, <1>12, <1>13,
           <1>14, <1>15, <1>16, <1>17, <1>18, <1>19, <1>20, <1>21, <1>22, <1>23, <1>24, <1>25, <1>26 DEF Step, Call

\* Every step leaves the locals of the label it leads to set.
LEMMA LocalsStep ==
    ASSUME IInv, NEW t \in Threads, Step(t) \/ Call(t)
    PROVE  LocalsOK'
<1>0. /\ LocalsOK
      /\ pc \in [Threads -> Labels]
      /\ cvp \in [Threads -> Conds \cup {None}]
      /\ mp \in [Threads -> Mutexes \cup {None}]
      /\ td \in [Threads -> Threads \cup {None}]
      /\ defer_waiters \in [Threads -> Seq(Threads)]
      /\ waddrs \in [Threads -> Seq(Threads)]
  BY Zenon DEF IInv, TypeOK
<1>1. CASE LockOwn(t)
  BY <1>1, <1>0, Zenon DEF LockOwn, Goto, LocalsOK, Waiting, Chained, Inside, mutexVars, queueVars, cancelVars, threadVars, localVars
<1>2. CASE UnlockHost(t)
  BY <1>2, <1>0, Zenon DEF UnlockHost, Goto, LocalsOK, Waiting, Chained, Inside, mutexVars, queueVars, cancelVars, threadVars, localVars
<1>3. CASE WakeAll(t)
  <2>1. /\ UNCHANGED <<cvp, mp, td, waddrs>>
        /\ \A u \in Threads \ {t} : defer_waiters'[u] = defer_waiters[u]
        /\ defer_waiters'[t] = Tail(defer_waiters[t])
    BY <1>3, <1>0, Zenon DEF WakeAll, localVars
  <2>2. /\ \A u \in Threads \ {t} : pc'[u] = pc[u]
        /\ \/ pc'[t] = pc[t] /\ defer_waiters'[t] # <<>>
           \/ pc[t] = "wakeall" /\ pc'[t] = "idle"
           \/ pc[t] = "sleepflush" /\ pc'[t] = "asleep"
           \/ pc[t] = "sigflush" /\ pc'[t] = "sigdefer"
           \/ pc[t] = "dropflush" /\ pc'[t] = "drop"
    BY <1>3, <2>1, WakeAllEffect, ZenonT(30)
  <2> QED BY Zenon, <1>0, <2>1, <2>2 DEF LocalsOK, Waiting, Chained, Inside
<1>4. CASE WaitEnqueue(t)
  BY <1>4, <1>0, ZenonT(30) DEF WaitEnqueue, Goto, LocalsOK, Waiting, Chained, Inside, mutexVars, queueVars, cancelVars, threadVars, localVars
<1>5. CASE WaitClearWake(t)
  BY <1>5, <1>0, Zenon DEF WaitClearWake, ClearWake, Goto, LocalsOK, Waiting, Chained, Inside, mutexVars, queueVars, cancelVars, threadVars, localVars
<1>6. CASE Sleep(t)
  BY <1>6, <1>0, ZenonT(30) DEF Sleep, Goto, LocalsOK, Waiting, Chained, Inside, mutexVars, queueVars, cancelVars, threadVars, localVars
<1>7. CASE SleepAcquire(t)
  BY <1>7, <1>0, Zenon DEF SleepAcquire, Goto, LocalsOK, Waiting, Chained, Inside, mutexVars, queueVars, cancelVars, threadVars, localVars
<1>8. CASE SleepTimeout(t)
  BY <1>8, <1>0, ZenonT(30) DEF SleepTimeout, Goto, LocalsOK, Waiting, Chained, Inside, mutexVars, queueVars, cancelVars, threadVars, localVars
<1>9. CASE WaitAwake(t)
  BY Zenon, <1>9, <1>0 DEF WaitAwake, Goto, LocalsOK, Waiting, Chained, Inside, mutexVars, queueVars, cancelVars, threadVars, localVars
<1>10. CASE WaitCvLock(t)
  BY <1>10, <1>0, ZenonT(30) DEF WaitCvLock, Goto, LocalsOK, Waiting, Chained, Inside, mutexVars, queueVars, cancelVars, threadVars, localVars
<1>11. CASE WaitCvOwn(t)
  BY <1>11, <1>0, ZenonT(30) DEF WaitCvOwn, Goto, LocalsOK, Waiting, Chained, Inside, mutexVars, queueVars, cancelVars, threadVars, localVars
<1>12. CASE SignalDefer(t)
  BY <1>12, <1>0, Zenon DEF SignalDefer, Defer, Goto, LocalsOK, Waiting, Chained, Inside, mutexVars, queueVars, cancelVars, threadVars, localVars
<1>13. CASE Drop(t)
  <2>1. pc[t] = "drop" /\ cvp[t] \in Conds
    BY <1>13, <1>0, Zenon DEF Drop, LocalsOK, Chained
  <2>2. UNCHANGED <<cvp, mp, td>>
    BY <1>13, ZenonT(30) DEF Drop
  <2>3. CASE Full(IF Defers(t, Head(sq_blocked[cvp[t]])) THEN defer_waiters[t] ELSE waddrs[t])
    <3>1. UNCHANGED <<defer_waiters, waddrs>>
      BY <1>13, <2>3, Zenon DEF Drop
    <3>2. /\ \A u \in Threads \ {t} : pc'[u] = pc[u]
          /\ \/ defer_waiters[t] # <<>> /\ pc'[t] = "dropflush"
             \/ waddrs[t] # <<>> /\ pc'[t] = "dropwaddrs"
      BY <1>13, <2>3, <1>0, CondvarAssumption, EmptyList, SMTT(30) DEF Drop, Goto, Full
    <3> QED BY Zenon, <1>0, <2>1, <2>2, <3>1, <3>2 DEF LocalsOK, Waiting, Chained, Inside
  <2>4. CASE ~Full(IF Defers(t, Head(sq_blocked[cvp[t]])) THEN defer_waiters[t] ELSE waddrs[t])
    <3>1. pc' = pc /\ \A y \in Threads \ {t} : defer_waiters'[y] = defer_waiters[y] /\ waddrs'[y] = waddrs[y]
      BY <1>13, <2>4, <1>0, ZenonT(30) DEF Drop, Defer
    <3> QED BY <1>0, <2>1, <2>2, <3>1, ZenonT(30) DEF LocalsOK, Waiting, Chained, Inside
  <2> QED BY <2>3, <2>4, Zenon
<1>14. CASE DropDone(t)
  BY <1>14, <1>0, ZenonT(30) DEF DropDone, Goto, LocalsOK, Waiting, Chained, Inside, mutexVars, queueVars, cancelVars, threadVars, localVars
<1>15. CASE ReleaseWaddrs(t)
  <2>1. /\ UNCHANGED <<cvp, mp, td, defer_waiters>> /\ pc[t] \in {"release", "dropwaddrs"}
        /\ \A u \in Threads \ {t} : pc'[u] = pc[u] /\ waddrs'[u] = waddrs[u]
        /\ \/ pc'[t] = pc[t] /\ waddrs'[t] # <<>>
           \/ pc[t] = "release" /\ pc'[t] = "idle" /\ waddrs'[t] = <<>>
           \/ pc[t] = "dropwaddrs" /\ pc'[t] = "drop"
    BY <1>15, <1>0, ZenonT(30) DEF ReleaseWaddrs, Goto
  <2> QED BY Zenon, <1>0, <2>1 DEF LocalsOK, Waiting, Chained, Inside
<1>16. CASE CancelKick(t)
  BY <1>16, <1>0, Zenon DEF CancelKick, Release, Goto, LocalsOK, Waiting, Chained, Inside, mutexVars, queueVars, cancelVars, threadVars, localVars
<1>17. ASSUME NEW m \in Mutexes, Lock(t, m) PROVE LocalsOK'
  BY <1>17, <1>0, Zenon DEF Lock, Goto, LocalsOK, Waiting, Chained, Inside, mutexVars, queueVars, cancelVars, threadVars, localVars
<1>18. ASSUME NEW m \in Mutexes, SelfLock(t, m) PROVE LocalsOK'
  BY <1>18, <1>0, Zenon DEF SelfLock, LocalsOK, Waiting, Chained, Inside, mutexVars, queueVars, cancelVars, threadVars, localVars
<1>19. ASSUME NEW m \in Mutexes, UnlockRecursive(t, m) PROVE LocalsOK'
  BY <1>19, <1>0, Zenon DEF UnlockRecursive, LocalsOK, Waiting, Chained, Inside, mutexVars, queueVars, cancelVars, threadVars, localVars
<1>20. ASSUME NEW m \in Mutexes, Unlock(t, m) PROVE LocalsOK'
  BY <1>20, <1>0, ZenonT(30) DEF Unlock, Goto, LocalsOK, Waiting, Chained, Inside, mutexVars, queueVars, cancelVars, threadVars, localVars
<1>21. ASSUME NEW c \in Conds, NEW m \in Mutexes, NEW w \in BOOLEAN, Wait(t, c, m, w) PROVE LocalsOK'
  BY <1>21, <1>0, ZenonT(30) DEF Wait, Goto, LocalsOK, Waiting, Chained, Inside, mutexVars, queueVars, cancelVars, threadVars, localVars
<1>22. ASSUME NEW c \in Conds, SignalNobody(t, c) PROVE LocalsOK'
  BY <1>22, <1>0, Zenon DEF SignalNobody, LocalsOK, Waiting, Chained, Inside, mutexVars, queueVars, cancelVars, threadVars, localVars
<1>23. ASSUME NEW c \in Conds, Signal(t, c) PROVE LocalsOK'
  <2>1. PICK x \in SignalTargets(c) : SleepqRemove(c, x) /\ SignalFate(t, c, x)
    BY <1>23, Zenon DEF Signal
  <2>2. x \in Threads /\ mutex_obj[x] \in Mutexes /\ pc[t] = "idle"
    BY <1>23, SignalReady, ZenonT(30) DEF Signal
  <2>3. CASE Defers(t, x) /\ ~Full(defer_waiters[t])
    BY Zenon, <1>0, <2>1, <2>2, <2>3 DEF SignalFate, Defer, LocalsOK, Waiting, Chained, Inside
  <2>4. CASE Defers(t, x) /\ Full(defer_waiters[t])
    <3>1. defer_waiters[t] # <<>>
      BY <1>0, <2>4, CondvarAssumption, EmptyList, SMTT(30) DEF Full
    <3>2. /\ cvp' = [cvp EXCEPT ![t] = c]
          /\ mp' = [mp EXCEPT ![t] = mutex_obj[x]]
          /\ td' = [td EXCEPT ![t] = x]
          /\ pc' = [pc EXCEPT ![t] = "sigflush"]
          /\ UNCHANGED <<defer_waiters, waddrs>>
      BY <2>1, <2>4, Zenon DEF SignalFate, Goto
    <3> QED BY <1>0, <2>2, <3>1, <3>2, ZenonT(30) DEF LocalsOK, Waiting, Chained, Inside
  <2>5. CASE ~Defers(t, x)
    <3>1. /\ waddrs' = [waddrs EXCEPT ![t] = <<x>>]
          /\ pc' = [pc EXCEPT ![t] = "release"]
          /\ UNCHANGED <<defer_waiters, cvp, mp, td>>
      BY <2>1, <2>5, Zenon DEF SignalFate, Goto
    <3> QED BY <1>0, <2>2, <3>1, Zenon DEF LocalsOK, Waiting, Chained, Inside
  <2> QED BY <2>3, <2>4, <2>5, Zenon
<1>24. ASSUME NEW c \in Conds, Broadcast(t, c) PROVE LocalsOK'
  BY <1>24, <1>0, Zenon DEF Broadcast, Goto, LocalsOK, Waiting, Chained, Inside, mutexVars, queueVars, cancelVars, threadVars, localVars
<1>25. ASSUME NEW x \in Cancellable, Cancel(t, x) PROVE LocalsOK'
  <2>1. x \in Threads
    BY CondvarAssumption, ZenonT(30)
  <2>2. \/ pc' = pc /\ td' = td
        \/ pc' = [pc EXCEPT ![t] = "kick"] /\ td' = [td EXCEPT ![t] = x]
    BY <1>25, Zenon DEF Cancel, Goto
  <2>3. UNCHANGED <<cvp, mp, defer_waiters, waddrs>> /\ pc[t] = "idle"
    BY <1>25, Zenon DEF Cancel
  <2> QED BY <1>0, <2>1, <2>2, <2>3, SMTT(30) DEF LocalsOK, Waiting, Chained, Inside
<1>26. CASE SetCancelState(t)
  BY <1>26, <1>0, Zenon DEF SetCancelState, LocalsOK, Waiting, Chained, Inside, mutexVars, queueVars, cancelVars, threadVars, localVars
<1> QED BY Zenon, <1>1, <1>2, <1>3, <1>4, <1>5, <1>6, <1>7, <1>8, <1>9, <1>10, <1>11, <1>12, <1>13,
           <1>14, <1>15, <1>16, <1>17, <1>18, <1>19, <1>20, <1>21, <1>22, <1>23, <1>24, <1>25, <1>26 DEF Step, Call

\* Every step keeps the chain lock with the thread whose label says so.
LEMMA ChainLockStep ==
    ASSUME IInv, NEW t \in Threads, Step(t) \/ Call(t)
    PROVE  ChainLockOK'
<1>0. /\ ChainLockOK /\ LocalsOK
      /\ pc \in [Threads -> Labels]
      /\ cvp \in [Threads -> Conds \cup {None}]
      /\ sc_lock \in [Conds -> Threads \cup {None}]
      /\ None \notin Threads
  BY CondvarAssumption, Zenon DEF IInv, TypeOK
<1>1. CASE LockOwn(t)
  BY <1>1, <1>0, SMTT(30) DEF LockOwn, Goto, ChainLockOK, Chained, mutexVars, queueVars, cancelVars, threadVars, localVars
<1>2. CASE UnlockHost(t)
  BY <1>2, <1>0, SMTT(30) DEF UnlockHost, Goto, ChainLockOK, Chained, mutexVars, queueVars, cancelVars, threadVars, localVars
<1>3. CASE WakeAll(t)
  <2>1. /\ \A u \in Threads \ {t} : pc'[u] = pc[u]
        /\ \/ pc'[t] = pc[t]
           \/ pc[t] = "wakeall" /\ pc'[t] = "idle"
           \/ pc[t] = "sleepflush" /\ pc'[t] = "asleep"
           \/ pc[t] = "sigflush" /\ pc'[t] = "sigdefer"
           \/ pc[t] = "dropflush" /\ pc'[t] = "drop"
    BY <1>3, WakeAllEffect, Zenon
  <2>2. UNCHANGED <<cvp, sc_lock>>
    BY <1>3, Zenon DEF WakeAll, localVars
  <2> QED BY <1>0, <2>1, <2>2, SMTT(30) DEF ChainLockOK, Chained
<1>4. CASE WaitEnqueue(t)
  BY <1>4, <1>0, SMTT(30) DEF WaitEnqueue, Goto, ChainLockOK, Chained, mutexVars, queueVars, cancelVars, threadVars, localVars
<1>5. CASE WaitClearWake(t)
  BY <1>5, <1>0, SMTT(30) DEF WaitClearWake, ClearWake, Goto, ChainLockOK, Chained, mutexVars, queueVars, cancelVars, threadVars, localVars
<1>6. CASE Sleep(t)
  BY <1>6, <1>0, SMTT(30) DEF Sleep, Goto, ChainLockOK, Chained, mutexVars, queueVars, cancelVars, threadVars, localVars
<1>7. CASE SleepAcquire(t)
  BY <1>7, <1>0, SMTT(30) DEF SleepAcquire, Goto, ChainLockOK, Chained, mutexVars, queueVars, cancelVars, threadVars, localVars
<1>8. CASE SleepTimeout(t)
  BY <1>8, <1>0, SMTT(30) DEF SleepTimeout, Goto, ChainLockOK, Chained, mutexVars, queueVars, cancelVars, threadVars, localVars
<1>9. CASE WaitAwake(t)
  BY <1>9, <1>0, SMTT(30) DEF WaitAwake, Goto, ChainLockOK, Chained, mutexVars, queueVars, cancelVars, threadVars, localVars
<1>10. CASE WaitCvLock(t)
  BY <1>10, <1>0, SMTT(30) DEF WaitCvLock, Goto, ChainLockOK, Chained, mutexVars, queueVars, cancelVars, threadVars, localVars
<1>11. CASE WaitCvOwn(t)
  BY <1>11, <1>0, SMTT(30) DEF WaitCvOwn, Goto, ChainLockOK, Chained, mutexVars, queueVars, cancelVars, threadVars, localVars
<1>12. CASE SignalDefer(t)
  BY <1>12, <1>0, SMTT(30) DEF SignalDefer, Defer, Goto, ChainLockOK, Chained, mutexVars, queueVars, cancelVars, threadVars, localVars
<1>13. CASE Drop(t)
  <2>1. /\ UNCHANGED <<cvp, sc_lock>>
        /\ pc[t] = "drop"
        /\ \/ UNCHANGED pc
           \/ pc' = [pc EXCEPT ![t] = "dropflush"]
           \/ pc' = [pc EXCEPT ![t] = "dropwaddrs"]
    BY <1>13, Zenon DEF Drop, Goto
  <2> QED BY <1>0, <2>1, SMTT(30) DEF ChainLockOK, Chained
<1>14. CASE DropDone(t)
  BY <1>14, <1>0, SMTT(30) DEF DropDone, Goto, ChainLockOK, Chained, mutexVars, queueVars, cancelVars, threadVars, localVars
<1>15. CASE ReleaseWaddrs(t)
  BY <1>15, <1>0, SMTT(30) DEF ReleaseWaddrs, Release, Goto, ChainLockOK, Chained, mutexVars, queueVars, cancelVars, threadVars, localVars
<1>16. CASE CancelKick(t)
  BY <1>16, <1>0, SMTT(30) DEF CancelKick, Release, Goto, ChainLockOK, Chained, mutexVars, queueVars, cancelVars, threadVars, localVars
<1>17. ASSUME NEW m \in Mutexes, Lock(t, m) PROVE ChainLockOK'
  BY <1>17, <1>0, SMTT(30) DEF Lock, Goto, ChainLockOK, Chained, mutexVars, queueVars, cancelVars, threadVars, localVars
<1>18. ASSUME NEW m \in Mutexes, SelfLock(t, m) PROVE ChainLockOK'
  BY <1>18, <1>0, Zenon DEF SelfLock, ChainLockOK, Chained, mutexVars, queueVars, cancelVars, threadVars, localVars
<1>19. ASSUME NEW m \in Mutexes, UnlockRecursive(t, m) PROVE ChainLockOK'
  BY <1>19, <1>0, Zenon DEF UnlockRecursive, ChainLockOK, Chained, mutexVars, queueVars, cancelVars, threadVars, localVars
<1>20. ASSUME NEW m \in Mutexes, Unlock(t, m) PROVE ChainLockOK'
  BY <1>20, <1>0, SMTT(30) DEF Unlock, Goto, ChainLockOK, Chained, mutexVars, queueVars, cancelVars, threadVars, localVars
<1>21. ASSUME NEW c \in Conds, NEW m \in Mutexes, NEW w \in BOOLEAN, Wait(t, c, m, w) PROVE ChainLockOK'
  BY <1>21, <1>0, SMTT(30) DEF Wait, Goto, ChainLockOK, Chained, mutexVars, queueVars, cancelVars, threadVars, localVars
<1>22. ASSUME NEW c \in Conds, SignalNobody(t, c) PROVE ChainLockOK'
  BY <1>22, <1>0, Zenon DEF SignalNobody, ChainLockOK, Chained, mutexVars, queueVars, cancelVars, threadVars, localVars
<1>23. ASSUME NEW c \in Conds, Signal(t, c) PROVE ChainLockOK'
  <2>1. PICK x \in SignalTargets(c) : SignalFate(t, c, x)
    BY <1>23, Zenon DEF Signal
  <2>2. pc[t] = "idle" /\ sc_lock[c] = None
    BY <1>23, Zenon DEF Signal
  <2>3. \/ UNCHANGED <<sc_lock, pc, cvp>>
        \/ /\ sc_lock' = [sc_lock EXCEPT ![c] = t]
           /\ cvp' = [cvp EXCEPT ![t] = c]
           /\ pc' = [pc EXCEPT ![t] = "sigflush"]
        \/ pc' = [pc EXCEPT ![t] = "release"] /\ UNCHANGED <<sc_lock, cvp>>
    BY <2>1, Zenon DEF SignalFate, Goto
  <2>4. CASE UNCHANGED <<sc_lock, pc, cvp>>
    BY <1>0, <2>4, Zenon DEF ChainLockOK
  <2>5. CASE /\ sc_lock' = [sc_lock EXCEPT ![c] = t]
             /\ cvp' = [cvp EXCEPT ![t] = c]
             /\ pc' = [pc EXCEPT ![t] = "sigflush"]
    BY <1>0, <2>2, <2>5, SMTT(30) DEF ChainLockOK, Chained
  <2>6. CASE pc' = [pc EXCEPT ![t] = "release"] /\ UNCHANGED <<sc_lock, cvp>>
    BY <1>0, <2>2, <2>6, SMTT(30) DEF ChainLockOK, Chained
  <2> QED BY <2>3, <2>4, <2>5, <2>6, ZenonT(30)
<1>24. ASSUME NEW c \in Conds, Broadcast(t, c) PROVE ChainLockOK'
  <2>1. /\ pc[t] = "idle" /\ sc_lock[c] = None
        /\ sc_lock' = [sc_lock EXCEPT ![c] = t]
        /\ cvp' = [cvp EXCEPT ![t] = c]
        /\ pc' = [pc EXCEPT ![t] = "drop"]
    BY <1>24, Zenon DEF Broadcast, Goto
  <2> QED BY <1>0, <2>1, SMTT(30) DEF ChainLockOK, Chained
<1>25. ASSUME NEW x \in Cancellable, Cancel(t, x) PROVE ChainLockOK'
  <2>1. /\ UNCHANGED <<cvp, sc_lock>>
        /\ pc[t] = "idle"
        /\ UNCHANGED pc \/ pc' = [pc EXCEPT ![t] = "kick"]
    BY <1>25, Zenon DEF Cancel, Goto
  <2> QED BY <1>0, <2>1, SMTT(30) DEF ChainLockOK, Chained
<1>26. CASE SetCancelState(t)
  BY <1>26, <1>0, ZenonT(30) DEF SetCancelState, ChainLockOK, Chained, mutexVars, queueVars, cancelVars, threadVars, localVars
<1> QED BY Zenon, <1>1, <1>2, <1>3, <1>4, <1>5, <1>6, <1>7, <1>8, <1>9, <1>10, <1>11, <1>12, <1>13,
           <1>14, <1>15, <1>16, <1>17, <1>18, <1>19, <1>20, <1>21, <1>22, <1>23, <1>24, <1>25, <1>26 DEF Step, Call

\* Every step keeps m_owner and the host mutex in agreement.
LEMMA HostLockStep ==
    ASSUME IInv, NEW t \in Threads, Step(t) \/ Call(t)
    PROVE  HostLockOK'
<1>0. /\ HostLockOK
      /\ \A u \in Threads : pc[u] \in Inside \cup {"cvlock"} => mp[u] \in Mutexes
      /\ pc \in [Threads -> Labels]
      /\ mp \in [Threads -> Mutexes \cup {None}]
      /\ m_lock \in [Mutexes -> Threads \cup {None}]
      /\ m_owner \in [Mutexes -> Threads \cup {None}]
      /\ None \notin Threads
  BY CondvarAssumption, Zenon DEF IInv, TypeOK, LocalsOK, Waiting
<1>1. CASE LockOwn(t)
  BY <1>1, <1>0, SMTT(30) DEF LockOwn, Goto, HostLockOK, OwnerHoldsLock, Inside, mutexVars, queueVars, cancelVars, threadVars, localVars
<1>2. CASE UnlockHost(t)
  BY <1>2, <1>0, SMTT(30) DEF UnlockHost, Goto, HostLockOK, OwnerHoldsLock, Inside, mutexVars, queueVars, cancelVars, threadVars, localVars
<1>3. CASE WakeAll(t)
  <2>1. /\ \A u \in Threads \ {t} : pc'[u] = pc[u]
        /\ \/ pc'[t] = pc[t]
           \/ pc[t] = "wakeall" /\ pc'[t] = "idle"
           \/ pc[t] = "sleepflush" /\ pc'[t] = "asleep"
           \/ pc[t] = "sigflush" /\ pc'[t] = "sigdefer"
           \/ pc[t] = "dropflush" /\ pc'[t] = "drop"
    BY <1>3, WakeAllEffect, Zenon
  <2>2. UNCHANGED <<mp, m_lock, m_owner>>
    BY <1>3, Zenon DEF WakeAll, localVars, mutexVars
  <2> QED BY <1>0, <2>1, <2>2, ZenonT(30) DEF HostLockOK, OwnerHoldsLock, Inside
<1>4. CASE WaitEnqueue(t)
  BY <1>4, <1>0, SMTT(30) DEF WaitEnqueue, Goto, HostLockOK, OwnerHoldsLock, Inside, mutexVars, queueVars, cancelVars, threadVars, localVars
<1>5. CASE WaitClearWake(t)
  BY <1>5, <1>0, ZenonT(30) DEF WaitClearWake, ClearWake, Goto, HostLockOK, OwnerHoldsLock, Inside, mutexVars, queueVars, cancelVars, threadVars, localVars
<1>6. CASE Sleep(t)
  BY <1>6, <1>0, ZenonT(30) DEF Sleep, Goto, HostLockOK, OwnerHoldsLock, Inside, mutexVars, queueVars, cancelVars, threadVars, localVars
<1>7. CASE SleepAcquire(t)
  BY <1>7, <1>0, ZenonT(30) DEF SleepAcquire, Goto, HostLockOK, OwnerHoldsLock, Inside, mutexVars, queueVars, cancelVars, threadVars, localVars
<1>8. CASE SleepTimeout(t)
  BY <1>8, <1>0, ZenonT(30) DEF SleepTimeout, Goto, HostLockOK, OwnerHoldsLock, Inside, mutexVars, queueVars, cancelVars, threadVars, localVars
<1>9. CASE WaitAwake(t)
  BY <1>9, <1>0, ZenonT(30) DEF WaitAwake, Goto, HostLockOK, OwnerHoldsLock, Inside, mutexVars, queueVars, cancelVars, threadVars, localVars
<1>10. CASE WaitCvLock(t)
  BY <1>10, <1>0, SMTT(30) DEF WaitCvLock, Goto, HostLockOK, OwnerHoldsLock, Inside, mutexVars, queueVars, cancelVars, threadVars, localVars
<1>11. CASE WaitCvOwn(t)
  BY <1>11, <1>0, ZenonT(30) DEF WaitCvOwn, Goto, HostLockOK, OwnerHoldsLock, Inside, mutexVars, queueVars, cancelVars, threadVars, localVars
<1>12. CASE SignalDefer(t)
  BY <1>12, <1>0, ZenonT(30) DEF SignalDefer, Defer, Goto, HostLockOK, OwnerHoldsLock, Inside, mutexVars, queueVars, cancelVars, threadVars, localVars
<1>13. CASE Drop(t)
  <2>1. UNCHANGED <<mp, m_lock, m_owner>> /\ pc[t] = "drop"
    BY <1>13, Zenon DEF Drop
  <2>2. /\ \A u \in Threads \ {t} : pc'[u] = pc[u]
        /\ pc'[t] \in {"drop", "dropflush", "dropwaddrs"}
    BY <1>13, <1>0, <2>1, ZenonT(30) DEF Drop, Goto
  <2> QED BY <1>0, <2>1, <2>2, ZenonT(30) DEF HostLockOK, OwnerHoldsLock, Inside
<1>14. CASE DropDone(t)
  BY <1>14, <1>0, ZenonT(30) DEF DropDone, Goto, HostLockOK, OwnerHoldsLock, Inside, mutexVars, queueVars, cancelVars, threadVars, localVars
<1>15. CASE ReleaseWaddrs(t)
  BY <1>15, <1>0, ZenonT(30) DEF ReleaseWaddrs, Release, Goto, HostLockOK, OwnerHoldsLock, Inside, mutexVars, queueVars, cancelVars, threadVars, localVars
<1>16. CASE CancelKick(t)
  BY <1>16, <1>0, ZenonT(30) DEF CancelKick, Release, Goto, HostLockOK, OwnerHoldsLock, Inside, mutexVars, queueVars, cancelVars, threadVars, localVars
<1>17. ASSUME NEW m \in Mutexes, Lock(t, m) PROVE HostLockOK'
  BY <1>17, <1>0, SMTT(30) DEF Lock, Goto, HostLockOK, OwnerHoldsLock, Inside, mutexVars, queueVars, cancelVars, threadVars, localVars
<1>18. ASSUME NEW m \in Mutexes, SelfLock(t, m) PROVE HostLockOK'
  BY <1>18, <1>0, ZenonT(30) DEF SelfLock, HostLockOK, OwnerHoldsLock, Inside, mutexVars, queueVars, cancelVars, threadVars, localVars
<1>19. ASSUME NEW m \in Mutexes, UnlockRecursive(t, m) PROVE HostLockOK'
  BY <1>19, <1>0, ZenonT(30) DEF UnlockRecursive, HostLockOK, OwnerHoldsLock, Inside, mutexVars, queueVars, cancelVars, threadVars, localVars
<1>20. ASSUME NEW m \in Mutexes, Unlock(t, m) PROVE HostLockOK'
  BY <1>20, <1>0, SMTT(30) DEF Unlock, Goto, HostLockOK, OwnerHoldsLock, Inside, mutexVars, queueVars, cancelVars, threadVars, localVars
<1>21. ASSUME NEW c \in Conds, NEW m \in Mutexes, NEW w \in BOOLEAN, Wait(t, c, m, w) PROVE HostLockOK'
  BY <1>21, <1>0, ZenonT(30) DEF Wait, Goto, HostLockOK, OwnerHoldsLock, Inside, mutexVars, queueVars, cancelVars, threadVars, localVars
<1>22. ASSUME NEW c \in Conds, SignalNobody(t, c) PROVE HostLockOK'
  BY <1>22, <1>0, ZenonT(30) DEF SignalNobody, HostLockOK, OwnerHoldsLock, Inside, mutexVars, queueVars, cancelVars, threadVars, localVars
<1>23. ASSUME NEW c \in Conds, Signal(t, c) PROVE HostLockOK'
  <2>1. PICK x \in SignalTargets(c) : SignalFate(t, c, x)
    BY <1>23, Zenon DEF Signal
  <2>2. pc[t] = "idle" /\ UNCHANGED <<m_lock, m_owner>>
    BY <1>23, ZenonT(30) DEF Signal
  <2> QED BY <1>0, <2>1, <2>2, SMTT(30) DEF SignalFate, Goto, HostLockOK, OwnerHoldsLock, Inside
<1>24. ASSUME NEW c \in Conds, Broadcast(t, c) PROVE HostLockOK'
  BY <1>24, <1>0, ZenonT(30) DEF Broadcast, Goto, HostLockOK, OwnerHoldsLock, Inside, mutexVars, queueVars, cancelVars, threadVars, localVars
<1>25. ASSUME NEW x \in Cancellable, Cancel(t, x) PROVE HostLockOK'
  BY <1>25, <1>0, ZenonT(30) DEF Cancel, Goto, HostLockOK, OwnerHoldsLock, Inside, mutexVars, queueVars, cancelVars, threadVars, localVars
<1>26. CASE SetCancelState(t)
  BY <1>26, <1>0, ZenonT(30) DEF SetCancelState, HostLockOK, OwnerHoldsLock, Inside, mutexVars, queueVars, cancelVars, threadVars, localVars
<1> QED BY Zenon, <1>1, <1>2, <1>3, <1>4, <1>5, <1>6, <1>7, <1>8, <1>9, <1>10, <1>11, <1>12, <1>13,
           <1>14, <1>15, <1>16, <1>17, <1>18, <1>19, <1>20, <1>21, <1>22, <1>23, <1>24, <1>25, <1>26 DEF Step, Call
-----------------------------------------------------------------------------
(* The wakeups a thread owes and those it waits for.                        *)

\* A step that changes no mutex disturbs what no other thread owes.
LEMMA OwedFrame ==
    ASSUME OwedOK, NEW t \in Threads, UNCHANGED <<mp, m_owner, m_deferred, will_sleep>>,
           \A u \in Threads \ {t} : pc'[u] = pc[u] /\ defer_waiters'[u] = defer_waiters[u],
           Owed(t)'
    PROVE  OwedOK'
<1> SUFFICES ASSUME NEW u \in Threads \ {t}
             PROVE  Owed(u)'
  BY ZenonT(30) DEF OwedOK
<1>1. Owed(u)
  BY ZenonT(30) DEF OwedOK
<1> QED BY <1>1, ZenonT(30) DEF Owed, WillSend

\* Every step leaves deferred wakeups with a thread that will send them.
LEMMA OwedStep ==
    ASSUME IInv, NEW t \in Threads, Step(t) \/ Call(t)
    PROVE  OwedOK'
<1>0. /\ OwedOK /\ OwnerHoldsLock
      /\ \A u \in Threads : pc[u] \in Inside => mp[u] \in Mutexes /\ m_owner[mp[u]] = None
      /\ \A u \in Threads : pc[u] \in {"cvown", "sigflush", "sigdefer"} => mp[u] \in Mutexes
      /\ pc \in [Threads -> Labels]
      /\ mp \in [Threads -> Mutexes \cup {None}]
      /\ m_owner \in [Mutexes -> Threads \cup {None}]
      /\ m_deferred \in [Mutexes -> BOOLEAN]
      /\ will_sleep \in [Threads -> BOOLEAN]
      /\ defer_waiters \in [Threads -> Seq(Threads)]
      /\ None \notin Threads
  BY CondvarAssumption, ZenonT(30) DEF IInv, TypeOK, LocalsOK, HostLockOK, Waiting
<1>1. CASE LockOwn(t)
  <2>1. /\ pc[t] = "own" /\ mp[t] \in Mutexes /\ m_owner[mp[t]] = None
        /\ UNCHANGED <<mp, m_deferred, will_sleep, defer_waiters>>
        /\ pc'[t] = "idle"
        /\ \A u \in Threads \ {t} : pc'[u] = pc[u]
        /\ \A m \in Mutexes \ {mp[t]} : m_owner'[m] = m_owner[m]
    BY <1>1, <1>0, Zenon DEF LockOwn, Goto, Inside, localVars, threadVars
  <2>2. \A m \in Mutexes : m_owner[m] # None => m_owner'[m] = m_owner[m]
    BY <2>1, Zenon
  <2>3. ASSUME NEW u \in Threads
        PROVE  Owed(u)'
    <3>1. Owed(u)
      BY <1>0, Zenon DEF OwedOK
    <3>2. WillSend(u) => WillSend(u)'
      BY <1>0, <2>1, <2>2, Zenon DEF WillSend
    <3> QED BY <1>0, <2>1, <2>2, <3>1, <3>2, Zenon DEF Owed
  <2> QED BY <2>3, Zenon DEF OwedOK
<1>2. CASE UnlockHost(t)
  BY <1>2, <1>0, ZenonT(30) DEF UnlockHost, Goto, OwedOK, Owed, WillSend, mutexVars, queueVars, cancelVars, threadVars, localVars
<1>3. CASE WakeAll(t)
  <2>1. /\ \A u \in Threads \ {t} : pc'[u] = pc[u] /\ defer_waiters'[u] = defer_waiters[u]
        /\ pc[t] \in {"wakeall", "sleepflush", "sigflush", "dropflush"}
        /\ UNCHANGED <<mp, m_owner, m_deferred, will_sleep>>
        /\ defer_waiters'[t] = Tail(defer_waiters[t])
    BY Zenon, <1>3, <1>0, WakeAllEffect DEF WakeAll, localVars, mutexVars
  <2>2. \/ pc'[t] = pc[t]
        \/ /\ defer_waiters'[t] = <<>>
           /\ \/ pc[t] = "sigflush" /\ pc'[t] = "sigdefer"
              \/ pc'[t] \in {"idle", "asleep", "drop"}
    BY <1>3, <2>1, WakeAllEffect, Zenon
  <2>3. \A u \in Threads : will_sleep[u] => u # t
    BY Zenon, <1>0, <2>1 DEF OwedOK, Owed
  <2>4. defer_waiters[t] # <<>>
    BY <2>1, ZenonT(30) DEF IInv, LocalsOK
  <2>5. Owed(t)
    BY <1>0, Zenon DEF OwedOK
  <2>6. Owed(t)'
    BY <2>1, <2>2, <2>3, <2>4, <2>5, Zenon DEF Owed, WillSend
  <2> QED BY <1>0, <2>1, <2>6, OwedFrame, ZenonT(30)
<1>4. CASE WaitEnqueue(t)
  <2>1. /\ pc[t] = "enqueue" /\ pc'[t] = "clearwake" /\ UNCHANGED <<mp, m_owner, m_deferred, will_sleep, defer_waiters>>
        /\ \A u \in Threads \ {t} : pc'[u] = pc[u]
    BY <1>4, <1>0, Zenon DEF WaitEnqueue, Goto, localVars
  <2>2. Owed(t)'
    BY <1>0, <2>1, Zenon DEF OwedOK, Owed, WillSend
  <2> QED BY <1>0, <2>1, <2>2, OwedFrame, Zenon
<1>5. CASE WaitClearWake(t)
  BY <1>5, <1>0, ZenonT(30) DEF WaitClearWake, ClearWake, Goto, OwedOK, Owed, WillSend, mutexVars, queueVars, cancelVars, threadVars, localVars
<1>6. CASE Sleep(t)
  BY <1>6, <1>0, ZenonT(30) DEF Sleep, Goto, OwedOK, Owed, WillSend, mutexVars, queueVars, cancelVars, threadVars, localVars
<1>7. CASE SleepAcquire(t)
  BY <1>7, <1>0, SMTT(30) DEF SleepAcquire, Goto, OwedOK, Owed, WillSend, mutexVars, queueVars, cancelVars, threadVars, localVars
<1>8. CASE SleepTimeout(t)
  BY <1>8, <1>0, SMTT(30) DEF SleepTimeout, Goto, OwedOK, Owed, WillSend, mutexVars, queueVars, cancelVars, threadVars, localVars
<1>9. CASE WaitAwake(t)
  <2>1. /\ pc[t] \in {"awake", "expired"} /\ pc'[t] \in {"awake", "expired", "cvlock"}
        /\ \A u \in Threads \ {t} : pc'[u] = pc[u]
        /\ UNCHANGED <<mp, m_owner, m_deferred, will_sleep, defer_waiters>>
    BY <1>9, <1>0, Zenon DEF WaitAwake, Goto, localVars, mutexVars
  <2>2. Owed(t)
    BY <1>0, Zenon DEF OwedOK
  <2>3. Owed(t)'
    BY <2>1, <2>2, Zenon DEF Owed, WillSend
  <2> QED BY <1>0, <2>1, <2>3, OwedFrame, Zenon
<1>10. CASE WaitCvLock(t)
  BY <1>10, <1>0, ZenonT(30) DEF WaitCvLock, Goto, OwedOK, Owed, WillSend, mutexVars, queueVars, cancelVars, threadVars, localVars
<1>11. CASE WaitCvOwn(t)
  <2>1. /\ pc[t] = "cvown" /\ mp[t] \in Mutexes /\ m_owner[mp[t]] = None
        /\ UNCHANGED <<mp, m_deferred, will_sleep, defer_waiters>>
        /\ pc'[t] = "idle"
        /\ \A u \in Threads \ {t} : pc'[u] = pc[u]
        /\ \A m \in Mutexes \ {mp[t]} : m_owner'[m] = m_owner[m]
    BY <1>11, <1>0, Zenon DEF WaitCvOwn, Goto, Inside, localVars, threadVars
  <2>2. \A m \in Mutexes : m_owner[m] # None => m_owner'[m] = m_owner[m]
    BY <2>1, Zenon
  <2>3. ASSUME NEW u \in Threads
        PROVE  Owed(u)'
    <3>1. Owed(u)
      BY <1>0, Zenon DEF OwedOK
    <3>2. WillSend(u) => WillSend(u)'
      BY <1>0, <2>1, <2>2, Zenon DEF WillSend
    <3> QED BY <1>0, <2>1, <2>2, <3>1, <3>2, Zenon DEF Owed
  <2> QED BY <2>3, Zenon DEF OwedOK
<1>12. CASE SignalDefer(t)
  <2>1. /\ pc[t] = "sigdefer" /\ mp[t] \in Mutexes /\ m_owner[mp[t]] = t
        /\ pc'[t] = "idle" /\ \A u \in Threads \ {t} : pc'[u] = pc[u] /\ defer_waiters'[u] = defer_waiters[u]
        /\ UNCHANGED <<mp, m_owner, will_sleep>>
        /\ m_deferred' = [m_deferred EXCEPT ![mp[t]] = TRUE]
    BY <1>12, <1>0, Zenon DEF SignalDefer, Defer, Goto, OwedOK, Owed
  <2>2. WillSend(t)'
    BY <1>0, <2>1, Zenon DEF WillSend
  <2>3. \A u \in Threads \ {t} : WillSend(u) => WillSend(u)'
    BY <1>0, <2>1, Zenon DEF WillSend
  <2> QED BY <1>0, <2>1, <2>2, <2>3, Zenon DEF OwedOK, Owed
<1>13. CASE Drop(t)
  <2> DEFINE x == Head(sq_blocked[cvp[t]])
  <2>1. /\ pc[t] = "drop" /\ UNCHANGED <<mp, m_owner, will_sleep>>
        /\ \A u \in Threads \ {t} : pc'[u] = pc[u]
        /\ pc'[t] \in {"drop", "dropflush", "dropwaddrs"}
    BY <1>13, <1>0, Zenon DEF Drop, Goto
  <2>2. mutex_obj[x] \in Mutexes
    BY <1>13, DropReady, Zenon DEF Drop
  <2>3. \/ UNCHANGED <<defer_waiters, m_deferred>>
        \/ Defers(t, x) /\ Defer(t, x, mutex_obj[x])
    BY <1>13, ZenonT(30) DEF Drop
  <2> HIDE DEF x
  <2>4. CASE UNCHANGED <<defer_waiters, m_deferred>>
    BY Zenon, <1>0, <2>1, <2>4 DEF OwedOK, Owed, WillSend
  <2>5. CASE Defers(t, x) /\ Defer(t, x, mutex_obj[x])
    <3>1. /\ m_owner[mutex_obj[x]] = t
          /\ m_deferred' = [m_deferred EXCEPT ![mutex_obj[x]] = TRUE]
          /\ \A u \in Threads \ {t} : defer_waiters'[u] = defer_waiters[u]
      BY <1>0, <2>5, Zenon DEF Defers, Defer
    <3>2. WillSend(t)'
      BY <1>0, <2>1, <2>2, <3>1, Zenon DEF WillSend
    <3>3. \A u \in Threads \ {t} : WillSend(u) => WillSend(u)'
      BY <1>0, <2>1, <3>1, Zenon DEF WillSend
    <3> QED BY <1>0, <2>1, <3>1, <3>2, <3>3, ZenonT(30) DEF OwedOK, Owed
  <2> QED BY <2>3, <2>4, <2>5, Zenon
<1>14. CASE DropDone(t)
  BY <1>14, <1>0, SMTT(30) DEF DropDone, Goto, OwedOK, Owed, WillSend, mutexVars, queueVars, cancelVars, threadVars, localVars
<1>15. CASE ReleaseWaddrs(t)
  BY <1>15, <1>0, SMTT(30) DEF ReleaseWaddrs, Release, Goto, OwedOK, Owed, WillSend, mutexVars, queueVars, cancelVars, threadVars, localVars
<1>16. CASE CancelKick(t)
  BY <1>16, <1>0, ZenonT(30) DEF CancelKick, Release, Goto, OwedOK, Owed, WillSend, mutexVars, queueVars, cancelVars, threadVars, localVars
<1>17. ASSUME NEW m \in Mutexes, Lock(t, m) PROVE OwedOK'
  BY <1>17, <1>0, ZenonT(30) DEF Lock, Goto, OwedOK, Owed, WillSend, mutexVars, queueVars, cancelVars, threadVars, localVars
<1>18. ASSUME NEW m \in Mutexes, SelfLock(t, m) PROVE OwedOK'
  BY <1>18, <1>0, Zenon DEF SelfLock, OwedOK, Owed, WillSend, mutexVars, queueVars, cancelVars, threadVars, localVars
<1>19. ASSUME NEW m \in Mutexes, UnlockRecursive(t, m) PROVE OwedOK'
  BY <1>19, <1>0, Zenon DEF UnlockRecursive, OwedOK, Owed, WillSend, mutexVars, queueVars, cancelVars, threadVars, localVars
<1>20. ASSUME NEW m \in Mutexes, Unlock(t, m) PROVE OwedOK'
  BY <1>20, <1>0, SMTT(30) DEF Unlock, Goto, OwedOK, Owed, WillSend, mutexVars, queueVars, cancelVars, threadVars, localVars
<1>21. ASSUME NEW c \in Conds, NEW m \in Mutexes, NEW w \in BOOLEAN, Wait(t, c, m, w) PROVE OwedOK'
  BY <1>21, <1>0, SMTT(30) DEF Wait, Goto, OwedOK, Owed, WillSend, mutexVars, queueVars, cancelVars, threadVars, localVars
<1>22. ASSUME NEW c \in Conds, SignalNobody(t, c) PROVE OwedOK'
  BY <1>22, <1>0, ZenonT(30) DEF SignalNobody, OwedOK, Owed, WillSend, mutexVars, queueVars, cancelVars, threadVars, localVars
<1>23. ASSUME NEW c \in Conds, Signal(t, c) PROVE OwedOK'
  <2>1. PICK x \in SignalTargets(c) : SignalFate(t, c, x)
    BY <1>23, Zenon DEF Signal
  <2>2. mutex_obj[x] \in Mutexes /\ pc[t] = "idle" /\ UNCHANGED <<m_owner, will_sleep>>
    BY <1>23, SignalReady, Zenon DEF Signal
  <2>3. CASE Defers(t, x) /\ ~Full(defer_waiters[t])
    <3>1. /\ m_owner[mutex_obj[x]] = t /\ UNCHANGED <<pc, mp>>
          /\ m_deferred' = [m_deferred EXCEPT ![mutex_obj[x]] = TRUE]
          /\ \A u \in Threads \ {t} : defer_waiters'[u] = defer_waiters[u]
      BY <1>0, <2>1, <2>3, ZenonT(30) DEF SignalFate, Defers, Defer
    <3>2. WillSend(t)'
      BY <1>0, <2>2, <3>1, Zenon DEF WillSend
    <3>3. \A u \in Threads \ {t} : WillSend(u) => WillSend(u)'
      BY <1>0, <2>2, <3>1, Zenon DEF WillSend
    <3> QED BY <1>0, <2>2, <3>1, <3>2, <3>3, Zenon DEF OwedOK, Owed
  <2>4. CASE Defers(t, x) /\ Full(defer_waiters[t])
    <3>1. /\ m_owner[mutex_obj[x]] = t /\ UNCHANGED <<defer_waiters, m_deferred>>
          /\ mp'[t] = mutex_obj[x] /\ pc'[t] = "sigflush"
          /\ \A u \in Threads \ {t} : pc'[u] = pc[u] /\ mp'[u] = mp[u]
      BY <1>0, <2>1, <2>4, Zenon DEF SignalFate, Defers, Goto
    <3>2. \A u \in Threads : WillSend(u) => WillSend(u)'
      BY <2>2, <3>1, Zenon DEF WillSend
    <3>3. \A u \in Threads \ {t} : Owed(u)'
      BY <1>0, <2>2, <3>1, <3>2, Zenon DEF OwedOK, Owed
    <3>4. Owed(t)'
      BY Zenon, <1>0, <2>2, <3>1, <3>2 DEF OwedOK, Owed
    <3> QED BY <3>3, <3>4, Zenon DEF OwedOK
  <2>5. CASE ~Defers(t, x)
    <3>1. /\ UNCHANGED <<defer_waiters, m_deferred, mp>> /\ pc'[t] = "release"
          /\ \A u \in Threads \ {t} : pc'[u] = pc[u]
      BY <1>0, <2>1, <2>5, Zenon DEF SignalFate, Goto
    <3> QED BY Zenon, <1>0, <2>2, <3>1 DEF OwedOK, Owed, WillSend
  <2> QED BY <2>3, <2>4, <2>5, Zenon
<1>24. ASSUME NEW c \in Conds, Broadcast(t, c) PROVE OwedOK'
  BY <1>24, <1>0, ZenonT(30) DEF Broadcast, Goto, OwedOK, Owed, WillSend, mutexVars, queueVars, cancelVars, threadVars, localVars
<1>25. ASSUME NEW x \in Cancellable, Cancel(t, x) PROVE OwedOK'
  <2>1. /\ pc[t] = "idle" /\ pc'[t] \in {"idle", "kick"}
        /\ \A u \in Threads \ {t} : pc'[u] = pc[u]
        /\ UNCHANGED <<mp, m_owner, m_deferred, will_sleep, defer_waiters>>
    BY <1>25, <1>0, Zenon DEF Cancel, Goto, mutexVars
  <2>2. Owed(t)
    BY <1>0, Zenon DEF OwedOK
  <2>3. Owed(t)'
    BY <2>1, <2>2, Zenon DEF Owed, WillSend
  <2> QED BY <1>0, <2>1, <2>3, OwedFrame, Zenon
<1>26. CASE SetCancelState(t)
  BY <1>26, <1>0, Zenon DEF SetCancelState, OwedOK, Owed, WillSend, mutexVars, queueVars, cancelVars, threadVars, localVars
<1> QED BY Zenon, <1>1, <1>2, <1>3, <1>4, <1>5, <1>6, <1>7, <1>8, <1>9, <1>10, <1>11, <1>12, <1>13,
           <1>14, <1>15, <1>16, <1>17, <1>18, <1>19, <1>20, <1>21, <1>22, <1>23, <1>24, <1>25, <1>26 DEF Step, Call

\* A step that puts nobody to sleep and pays no release back disturbs nobody.
LEMMA WakeupFrame ==
    ASSUME NoLostWakeup, NEW t \in Threads, UNCHANGED <<waddrs, defer_waiters, wake_sema, wchan>>,
           \A u \in Threads \ {t} : pc'[u] = pc[u] /\ td'[u] = td[u],
           pc[t] \notin {"sigflush", "sigdefer"},
           pc'[t] \in {"sleep", "sleepflush", "asleep"} =>
               pc[t] \in {"sleep", "sleepflush", "asleep"} \/ wchan[t] # None
    PROVE  NoLostWakeup'
<1> SUFFICES ASSUME NEW u \in Threads, wchan'[u] = None, pc'[u] \in {"sleep", "sleepflush", "asleep"}
             PROVE  wake_sema'[u] > 0 \/ \E s \in Threads : Owes(s, u)'
  BY Zenon DEF NoLostWakeup
<1>1. wake_sema[u] > 0 \/ \E s \in Threads : Owes(s, u)
  BY Zenon DEF NoLostWakeup
<1>2. \A s \in Threads : Owes(s, u) => Owes(s, u)'
  BY Zenon DEF Owes
<1> QED BY <1>1, <1>2, Zenon

\* No step loses a wakeup.
LEMMA WakeupStep ==
    ASSUME IInv, NEW t \in Threads, Step(t) \/ Call(t)
    PROVE  NoLostWakeup'
<1>0. /\ NoLostWakeup
      /\ pc \in [Threads -> Labels]
      /\ td \in [Threads -> Threads \cup {None}]
      /\ wchan \in [Threads -> Conds \cup {None}]
      /\ wake_sema \in [Threads -> Nat]
      /\ defer_waiters \in [Threads -> Seq(Threads)]
      /\ waddrs \in [Threads -> Seq(Threads)]
      /\ None \notin Threads /\ None \notin Conds
  BY CondvarAssumption, Zenon DEF IInv, TypeOK
<1>1. CASE LockOwn(t)
  <2>1. /\ UNCHANGED <<waddrs, defer_waiters, wake_sema, wchan>>
        /\ \A u \in Threads \ {t} : pc'[u] = pc[u] /\ td'[u] = td[u]
        /\ pc[t] \notin {"sigflush", "sigdefer"}
        /\ pc'[t] \in {"sleep", "sleepflush", "asleep"} => pc[t] \in {"sleep", "sleepflush", "asleep"}
    BY <1>1, <1>0, Zenon DEF LockOwn, Goto, queueVars, threadVars, localVars
  <2> QED BY <1>0, <2>1, WakeupFrame, Zenon
<1>2. CASE UnlockHost(t)
  <2>1. /\ UNCHANGED <<waddrs, defer_waiters, wake_sema, wchan>>
        /\ \A u \in Threads \ {t} : pc'[u] = pc[u] /\ td'[u] = td[u]
        /\ pc[t] \notin {"sigflush", "sigdefer"}
        /\ pc'[t] \in {"sleep", "sleepflush", "asleep"} => pc[t] \in {"sleep", "sleepflush", "asleep"}
    BY <1>2, <1>0, Zenon DEF UnlockHost, Goto, queueVars, threadVars, localVars
  <2> QED BY <1>0, <2>1, WakeupFrame, Zenon
<1>3. CASE WakeAll(t)
  <2> SUFFICES ASSUME NEW u \in Threads, wchan'[u] = None, pc'[u] \in {"sleep", "sleepflush", "asleep"}
               PROVE  wake_sema'[u] > 0 \/ \E s \in Threads : Owes(s, u)'
    BY ZenonT(30) DEF NoLostWakeup
  <2>1. /\ \A s \in Threads \ {t} : pc'[s] = pc[s] /\ defer_waiters'[s] = defer_waiters[s]
        /\ UNCHANGED <<td, waddrs, wchan>>
        /\ defer_waiters'[t] = Tail(defer_waiters[t])
        /\ wake_sema' = [wake_sema EXCEPT ![Head(defer_waiters[t])] = @ + 1]
    BY Zenon, <1>3, <1>0, WakeAllEffect DEF WakeAll, Release, localVars, queueVars
  <2>2. /\ Head(defer_waiters[t]) \in Threads
        /\ In(u, defer_waiters[t]) => u = Head(defer_waiters[t]) \/ In(u, defer_waiters'[t])
        /\ pc[t] \in {"sigflush", "sigdefer"} => pc'[t] \in {"sigflush", "sigdefer"}
        /\ pc[u] \in {"sleep", "sleepflush", "asleep"}
    <3>1. /\ Head(defer_waiters[t]) \in Threads
          /\ In(u, defer_waiters[t]) => u = Head(defer_waiters[t]) \/ In(u, Tail(defer_waiters[t]))
      BY <1>3, WakeAllEffect, Zenon
    <3>2. \/ pc'[t] = pc[t]
          \/ pc[t] = "wakeall" /\ pc'[t] = "idle"
          \/ pc[t] = "sleepflush" /\ pc'[t] = "asleep"
          \/ pc[t] = "sigflush" /\ pc'[t] = "sigdefer"
          \/ pc[t] = "dropflush" /\ pc'[t] = "drop"
      BY <1>3, WakeAllEffect, Zenon
    <3>3. pc[t] \in {"sigflush", "sigdefer"} => pc'[t] \in {"sigflush", "sigdefer"}
      BY <3>2, Zenon
    <3>4. pc[u] \in {"sleep", "sleepflush", "asleep"}
      BY <2>1, <3>2, Zenon
    <3> QED BY <2>1, <3>1, <3>3, <3>4, Zenon
  <2>3. \/ wake_sema[u] > 0
        \/ \E s \in Threads : Owes(s, u)
    BY <1>0, <2>1, <2>2, Zenon DEF NoLostWakeup
  <2>4. wake_sema[u] > 0 \/ u = Head(defer_waiters[t]) => wake_sema'[u] > 0
    BY <1>0, <2>1, <2>2, SMTT(30)
  <2>5. \A s \in Threads : Owes(s, u) => Owes(s, u)' \/ u = Head(defer_waiters[t])
    BY <2>1, <2>2, Zenon DEF Owes
  <2> QED BY <2>3, <2>4, <2>5, Zenon
<1>4. CASE WaitEnqueue(t)
  <2> SUFFICES ASSUME NEW u \in Threads, wchan'[u] = None, pc'[u] \in {"sleep", "sleepflush", "asleep"}
               PROVE  wake_sema'[u] > 0 \/ \E s \in Threads : Owes(s, u)'
    BY Zenon DEF NoLostWakeup
  <2>1. /\ pc[t] = "enqueue" /\ pc'[t] = "clearwake"
        /\ \A s \in Threads \ {t} : pc'[s] = pc[s] /\ wchan'[s] = wchan[s]
        /\ UNCHANGED <<td, waddrs, defer_waiters, wake_sema>>
    BY <1>4, <1>0, ZenonT(30) DEF WaitEnqueue, SleepqAdd, Goto, localVars
  <2> QED BY Zenon, <1>0, <2>1 DEF NoLostWakeup, Owes
<1>5. CASE WaitClearWake(t)
  <2> SUFFICES ASSUME NEW u \in Threads, wchan'[u] = None, pc'[u] \in {"sleep", "sleepflush", "asleep"}
               PROVE  wake_sema'[u] > 0 \/ \E s \in Threads : Owes(s, u)'
    BY Zenon DEF NoLostWakeup
  <2>1. /\ pc[t] = "clearwake" /\ pc'[t] = "sleep"
        /\ \A s \in Threads \ {t} : pc'[s] = pc[s] /\ wake_sema'[s] = wake_sema[s]
        /\ UNCHANGED <<td, waddrs, defer_waiters, wchan>>
    BY <1>5, <1>0, Zenon DEF WaitClearWake, ClearWake, Goto, localVars, queueVars
  <2>2. wchan[t] = cvp[t] /\ cvp[t] \in Conds
    BY <2>1, Zenon DEF IInv, LinksOK, LinkOK, LocalsOK, Chained
  <2>3. u # t
    BY <1>0, <2>1, <2>2, Zenon
  <2> QED BY Zenon, <1>0, <2>1, <2>3 DEF NoLostWakeup, Owes
<1>6. CASE Sleep(t)
  <2>1. /\ UNCHANGED <<waddrs, defer_waiters, wake_sema, wchan>>
        /\ \A u \in Threads \ {t} : pc'[u] = pc[u] /\ td'[u] = td[u]
        /\ pc[t] \notin {"sigflush", "sigdefer"}
        /\ pc'[t] \in {"sleep", "sleepflush", "asleep"} => pc[t] \in {"sleep", "sleepflush", "asleep"}
    BY <1>6, <1>0, Zenon DEF Sleep, Goto, queueVars, threadVars, localVars
  <2> QED BY <1>0, <2>1, WakeupFrame, Zenon
<1>7. CASE SleepAcquire(t)
  BY Zenon, <1>7, <1>0 DEF SleepAcquire, Goto, NoLostWakeup, Owes, mutexVars, queueVars, cancelVars, threadVars, localVars
<1>8. CASE SleepTimeout(t)
  <2>1. /\ UNCHANGED <<waddrs, defer_waiters, wake_sema, wchan>>
        /\ \A u \in Threads \ {t} : pc'[u] = pc[u] /\ td'[u] = td[u]
        /\ pc[t] \notin {"sigflush", "sigdefer"}
        /\ pc'[t] \in {"sleep", "sleepflush", "asleep"} => pc[t] \in {"sleep", "sleepflush", "asleep"}
    BY <1>8, <1>0, ZenonT(30) DEF SleepTimeout, Goto, queueVars, threadVars, localVars
  <2> QED BY <1>0, <2>1, WakeupFrame, Zenon
<1>9. CASE WaitAwake(t)
  <2> SUFFICES ASSUME NEW u \in Threads, wchan'[u] = None, pc'[u] \in {"sleep", "sleepflush", "asleep"}
               PROVE  wake_sema'[u] > 0 \/ \E s \in Threads : Owes(s, u)'
    BY Zenon DEF NoLostWakeup
  <2>1. /\ pc[t] \in {"awake", "expired"} /\ pc'[t] \in {"awake", "expired", "cvlock"}
        /\ \A s \in Threads \ {t} : pc'[s] = pc[s]
        /\ UNCHANGED <<td, waddrs, defer_waiters, wake_sema>>
    BY <1>9, <1>0, Zenon DEF WaitAwake, Goto, localVars
  <2>2. \A s \in Threads \ {t} : wchan'[s] = wchan[s]
    BY <1>9, <1>0, Zenon DEF WaitAwake, SleepqRemove, queueVars
  <2> QED BY Zenon, <1>0, <2>1, <2>2 DEF NoLostWakeup, Owes
<1>10. CASE WaitCvLock(t)
  <2>1. /\ UNCHANGED <<waddrs, defer_waiters, wake_sema, wchan>>
        /\ \A u \in Threads \ {t} : pc'[u] = pc[u] /\ td'[u] = td[u]
        /\ pc[t] \notin {"sigflush", "sigdefer"}
        /\ pc'[t] \in {"sleep", "sleepflush", "asleep"} => pc[t] \in {"sleep", "sleepflush", "asleep"}
    BY <1>10, <1>0, Zenon DEF WaitCvLock, Goto, queueVars, threadVars, localVars
  <2> QED BY <1>0, <2>1, WakeupFrame, Zenon
<1>11. CASE WaitCvOwn(t)
  <2>1. /\ UNCHANGED <<waddrs, defer_waiters, wake_sema, wchan>>
        /\ \A u \in Threads \ {t} : pc'[u] = pc[u] /\ td'[u] = td[u]
        /\ pc[t] \notin {"sigflush", "sigdefer"}
        /\ pc'[t] \in {"sleep", "sleepflush", "asleep"} => pc[t] \in {"sleep", "sleepflush", "asleep"}
    BY <1>11, <1>0, Zenon DEF WaitCvOwn, Goto, queueVars, threadVars, localVars
  <2> QED BY <1>0, <2>1, WakeupFrame, Zenon
<1>12. CASE SignalDefer(t)
  <2> SUFFICES ASSUME NEW u \in Threads, wchan'[u] = None, pc'[u] \in {"sleep", "sleepflush", "asleep"}
               PROVE  wake_sema'[u] > 0 \/ \E s \in Threads : Owes(s, u)'
    BY Zenon DEF NoLostWakeup
  <2>1. /\ pc[t] = "sigdefer" /\ pc'[t] = "idle"
        /\ \A s \in Threads \ {t} : /\ pc'[s] = pc[s] /\ td'[s] = td[s]
                                    /\ defer_waiters'[s] = defer_waiters[s]
        /\ defer_waiters'[t] = Append(defer_waiters[t], td[t])
        /\ UNCHANGED <<waddrs, wake_sema, wchan>>
    BY <1>12, <1>0, Zenon DEF SignalDefer, Defer, Goto, queueVars
  <2>2. td[t] \in Threads
    BY <2>1, Zenon DEF IInv, LocalsOK
  <2>3. In(u, defer_waiters[t]) \/ u = td[t] => In(u, defer_waiters'[t])
    BY <1>0, <2>1, <2>2, AppendList, SMTT(30)
  <2>4. \A s \in Threads : Owes(s, u) => Owes(s, u)'
    BY Zenon, <2>1, <2>3 DEF Owes
  <2> QED BY Zenon, <1>0, <2>1, <2>4 DEF NoLostWakeup
<1>13. CASE Drop(t)
  <2> SUFFICES ASSUME NEW u \in Threads, wchan'[u] = None, pc'[u] \in {"sleep", "sleepflush", "asleep"}
               PROVE  wake_sema'[u] > 0 \/ \E s \in Threads : Owes(s, u)'
    BY Zenon DEF NoLostWakeup
  <2> DEFINE x == Head(sq_blocked[cvp[t]])
  <2>1. /\ pc[t] = "drop" /\ pc'[t] \in {"drop", "dropflush", "dropwaddrs"}
        /\ \A s \in Threads \ {t} : pc'[s] = pc[s]
        /\ UNCHANGED <<td, wake_sema>>
    BY <1>13, <1>0, Zenon DEF Drop, Goto
  <2>2. x \in Threads
    BY <1>13, DropReady, Zenon DEF Drop
  <2>3. \/ UNCHANGED <<defer_waiters, waddrs, wchan>>
        \/ /\ wchan' = [wchan EXCEPT ![x] = None]
           /\ \/ defer_waiters' = [defer_waiters EXCEPT ![t] = Append(@, x)] /\ UNCHANGED waddrs
              \/ waddrs' = [waddrs EXCEPT ![t] = Append(@, x)] /\ UNCHANGED defer_waiters
    BY <1>13, Zenon DEF Drop, Defer
  <2> HIDE DEF x
  <2>4. /\ \A y : In(y, Append(defer_waiters[t], x)) <=> y = x \/ In(y, defer_waiters[t])
        /\ \A y : In(y, Append(waddrs[t], x)) <=> y = x \/ In(y, waddrs[t])
    BY <1>0, <2>2, AppendList, Zenon
  <2>5. /\ \A s \in Threads : /\ In(u, defer_waiters[s]) => In(u, defer_waiters'[s])
                              /\ In(u, waddrs[s]) => In(u, waddrs'[s])
        /\ wchan'[u] = wchan[u] \/ In(u, defer_waiters'[t]) \/ In(u, waddrs'[t])
    <3>1. CASE UNCHANGED <<defer_waiters, waddrs, wchan>>
      BY <3>1, Zenon
    <3>2. CASE /\ wchan' = [wchan EXCEPT ![x] = None]
               /\ defer_waiters' = [defer_waiters EXCEPT ![t] = Append(@, x)] /\ UNCHANGED waddrs
      <4>1. /\ defer_waiters'[t] = Append(defer_waiters[t], x)
            /\ \A s \in Threads \ {t} : defer_waiters'[s] = defer_waiters[s]
            /\ u # x => wchan'[u] = wchan[u]
        BY <1>0, <2>2, <3>2, Zenon
      <4> QED BY <2>4, <3>2, <4>1, Zenon
    <3>3. CASE /\ wchan' = [wchan EXCEPT ![x] = None]
               /\ waddrs' = [waddrs EXCEPT ![t] = Append(@, x)] /\ UNCHANGED defer_waiters
      <4>1. /\ waddrs'[t] = Append(waddrs[t], x)
            /\ \A s \in Threads \ {t} : waddrs'[s] = waddrs[s]
            /\ u # x => wchan'[u] = wchan[u]
        BY <1>0, <2>2, <3>3, Zenon
      <4> QED BY <2>4, <3>3, <4>1, Zenon
    <3> QED BY <2>3, <3>1, <3>2, <3>3, Zenon
  <2>6. wchan'[u] = wchan[u] \/ In(u, defer_waiters'[t]) \/ In(u, waddrs'[t])
    BY <2>5, Zenon
  <2>7. \A s \in Threads : Owes(s, u) => Owes(s, u)'
    BY <2>1, <2>5, Zenon DEF Owes
  <2>8. CASE In(u, defer_waiters'[t]) \/ In(u, waddrs'[t])
    BY <2>8, ZenonT(30) DEF Owes
  <2>9. CASE wchan'[u] = wchan[u]
    BY Zenon, <1>0, <2>1, <2>7, <2>9 DEF NoLostWakeup
  <2> QED BY <2>6, <2>8, <2>9, Zenon
<1>14. CASE DropDone(t)
  <2>1. /\ UNCHANGED <<waddrs, defer_waiters, wake_sema, wchan>>
        /\ \A u \in Threads \ {t} : pc'[u] = pc[u] /\ td'[u] = td[u]
        /\ pc[t] \notin {"sigflush", "sigdefer"}
        /\ pc'[t] \in {"sleep", "sleepflush", "asleep"} => pc[t] \in {"sleep", "sleepflush", "asleep"}
    BY <1>14, <1>0, Zenon DEF DropDone, Goto, queueVars, threadVars, localVars
  <2> QED BY <1>0, <2>1, WakeupFrame, Zenon
<1>15. CASE ReleaseWaddrs(t)
  <2> SUFFICES ASSUME NEW u \in Threads, wchan'[u] = None, pc'[u] \in {"sleep", "sleepflush", "asleep"}
               PROVE  wake_sema'[u] > 0 \/ \E s \in Threads : Owes(s, u)'
    BY Zenon DEF NoLostWakeup
  <2>0. waddrs[t] \in Seq(Threads) /\ waddrs[t] # <<>> /\ pc[t] \in {"release", "dropwaddrs"}
    BY <1>15, <1>0, Zenon DEF ReleaseWaddrs, IInv, LocalsOK
  <2>1. /\ \A s \in Threads \ {t} : pc'[s] = pc[s] /\ waddrs'[s] = waddrs[s]
        /\ pc'[t] \in {"release", "dropwaddrs", "idle", "drop"}
        /\ UNCHANGED <<td, defer_waiters, wchan>>
        /\ waddrs'[t] = Tail(waddrs[t])
        /\ wake_sema' = [wake_sema EXCEPT ![Head(waddrs[t])] = @ + 1]
    BY Zenon, <1>15, <1>0 DEF ReleaseWaddrs, Release, Goto, queueVars
  <2>2. /\ Head(waddrs[t]) \in Threads
        /\ In(u, waddrs[t]) => u = Head(waddrs[t]) \/ In(u, waddrs'[t])
    BY <2>0, <2>1, PopList, SMTT(30)
  <2>3. \/ wake_sema[u] > 0
        \/ \E s \in Threads : Owes(s, u)
    BY Zenon, <1>0, <2>0, <2>1 DEF NoLostWakeup
  <2>4. wake_sema[u] > 0 \/ u = Head(waddrs[t]) => wake_sema'[u] > 0
    BY <1>0, <2>1, <2>2, SMTT(30)
  <2>5. \A s \in Threads : Owes(s, u) => Owes(s, u)' \/ u = Head(waddrs[t])
    BY <2>0, <2>1, <2>2, ZenonT(30) DEF Owes
  <2> QED BY <2>3, <2>4, <2>5, Zenon
<1>16. CASE CancelKick(t)
  BY <1>16, <1>0, SMTT(30) DEF CancelKick, Release, Goto, NoLostWakeup, Owes, mutexVars, queueVars, cancelVars, threadVars, localVars
<1>17. ASSUME NEW m \in Mutexes, Lock(t, m) PROVE NoLostWakeup'
  <2>1. /\ UNCHANGED <<waddrs, defer_waiters, wake_sema, wchan>>
        /\ \A u \in Threads \ {t} : pc'[u] = pc[u] /\ td'[u] = td[u]
        /\ pc[t] \notin {"sigflush", "sigdefer"}
        /\ pc'[t] \in {"sleep", "sleepflush", "asleep"} => pc[t] \in {"sleep", "sleepflush", "asleep"}
    BY <1>17, <1>0, Zenon DEF Lock, Goto, queueVars, threadVars, localVars
  <2> QED BY <1>0, <2>1, WakeupFrame, Zenon
<1>18. ASSUME NEW m \in Mutexes, SelfLock(t, m) PROVE NoLostWakeup'
  <2>1. /\ UNCHANGED <<waddrs, defer_waiters, wake_sema, wchan>>
        /\ \A u \in Threads \ {t} : pc'[u] = pc[u] /\ td'[u] = td[u]
        /\ pc[t] \notin {"sigflush", "sigdefer"}
        /\ pc'[t] \in {"sleep", "sleepflush", "asleep"} => pc[t] \in {"sleep", "sleepflush", "asleep"}
    BY <1>18, <1>0, Zenon DEF SelfLock, queueVars, threadVars, localVars
  <2> QED BY <1>0, <2>1, WakeupFrame, Zenon
<1>19. ASSUME NEW m \in Mutexes, UnlockRecursive(t, m) PROVE NoLostWakeup'
  <2>1. /\ UNCHANGED <<waddrs, defer_waiters, wake_sema, wchan>>
        /\ \A u \in Threads \ {t} : pc'[u] = pc[u] /\ td'[u] = td[u]
        /\ pc[t] \notin {"sigflush", "sigdefer"}
        /\ pc'[t] \in {"sleep", "sleepflush", "asleep"} => pc[t] \in {"sleep", "sleepflush", "asleep"}
    BY <1>19, <1>0, Zenon DEF UnlockRecursive, queueVars, threadVars, localVars
  <2> QED BY <1>0, <2>1, WakeupFrame, Zenon
<1>20. ASSUME NEW m \in Mutexes, Unlock(t, m) PROVE NoLostWakeup'
  <2>1. /\ UNCHANGED <<waddrs, defer_waiters, wake_sema, wchan>>
        /\ \A u \in Threads \ {t} : pc'[u] = pc[u] /\ td'[u] = td[u]
        /\ pc[t] \notin {"sigflush", "sigdefer"}
        /\ pc'[t] \in {"sleep", "sleepflush", "asleep"} => pc[t] \in {"sleep", "sleepflush", "asleep"}
    BY <1>20, <1>0, Zenon DEF Unlock, Goto, queueVars, threadVars, localVars
  <2> QED BY <1>0, <2>1, WakeupFrame, Zenon
<1>21. ASSUME NEW c \in Conds, NEW m \in Mutexes, NEW w \in BOOLEAN, Wait(t, c, m, w) PROVE NoLostWakeup'
  <2>1. /\ UNCHANGED <<waddrs, defer_waiters, wake_sema, wchan>>
        /\ \A u \in Threads \ {t} : pc'[u] = pc[u] /\ td'[u] = td[u]
        /\ pc[t] \notin {"sigflush", "sigdefer"}
        /\ pc'[t] \in {"sleep", "sleepflush", "asleep"} => pc[t] \in {"sleep", "sleepflush", "asleep"}
    BY <1>21, <1>0, Zenon DEF Wait, Goto, queueVars, threadVars, localVars
  <2> QED BY <1>0, <2>1, WakeupFrame, Zenon
<1>22. ASSUME NEW c \in Conds, SignalNobody(t, c) PROVE NoLostWakeup'
  <2>1. /\ UNCHANGED <<waddrs, defer_waiters, wake_sema, wchan>>
        /\ \A u \in Threads \ {t} : pc'[u] = pc[u] /\ td'[u] = td[u]
        /\ pc[t] \notin {"sigflush", "sigdefer"}
        /\ pc'[t] \in {"sleep", "sleepflush", "asleep"} => pc[t] \in {"sleep", "sleepflush", "asleep"}
    BY <1>22, <1>0, Zenon DEF SignalNobody, queueVars, threadVars, localVars
  <2> QED BY <1>0, <2>1, WakeupFrame, Zenon
<1>23. ASSUME NEW c \in Conds, Signal(t, c) PROVE NoLostWakeup'
  <2> SUFFICES ASSUME NEW u \in Threads, wchan'[u] = None, pc'[u] \in {"sleep", "sleepflush", "asleep"}
               PROVE  wake_sema'[u] > 0 \/ \E s \in Threads : Owes(s, u)'
    BY Zenon DEF NoLostWakeup
  <2>1. PICK x \in SignalTargets(c) : SleepqRemove(c, x) /\ SignalFate(t, c, x)
    BY <1>23, Zenon DEF Signal
  <2>2. x \in Threads /\ pc[t] = "idle" /\ UNCHANGED wake_sema
    BY <1>23, SignalReady, Zenon DEF Signal
  <2>3. wchan' = [wchan EXCEPT ![x] = None]
    BY <2>1, Zenon DEF SleepqRemove
  <2>4. waddrs[t] = <<>>
    BY <2>2, ZenonT(30) DEF IInv, LocalsOK
  <2>5. /\ \A s \in Threads \ {t} : /\ pc'[s] = pc[s] /\ td'[s] = td[s] /\ waddrs'[s] = waddrs[s]
                                    /\ defer_waiters'[s] = defer_waiters[s]
        /\ \/ defer_waiters'[t] = Append(defer_waiters[t], x) /\ UNCHANGED waddrs
           \/ pc'[t] = "sigflush" /\ td'[t] = x /\ UNCHANGED <<defer_waiters, waddrs>>
           \/ waddrs'[t] = <<x>> /\ UNCHANGED defer_waiters
        /\ pc'[t] \in {"idle", "sigflush", "release"}
    BY Zenon, <1>0, <2>1, <2>2 DEF SignalFate, Defer, Goto
  <2>6. /\ \A y : In(y, Append(defer_waiters[t], x)) <=> y = x \/ In(y, defer_waiters[t])
        /\ In(x, <<x>>) /\ ~In(u, waddrs[t])
    <3>1. \A y : In(y, Append(defer_waiters[t], x)) <=> y = x \/ In(y, defer_waiters[t])
      BY <1>0, <2>2, AppendList, Zenon
    <3>2. Len(<<x>>) = 1 /\ <<x>>[1] = x
      OBVIOUS
    <3>3. In(x, <<x>>)
      BY <3>2, SMTT(30) DEF In
    <3>4. ~In(u, waddrs[t])
      BY <2>4, SMTT(30) DEF In
    <3> QED BY <3>1, <3>3, <3>4, Zenon
  <2>7. \A s \in Threads : Owes(s, u) => Owes(s, u)'
    BY Zenon, <2>2, <2>5, <2>6 DEF Owes
  <2>8. CASE u = x
    BY Zenon, <2>5, <2>6, <2>8 DEF Owes
  <2>9. CASE u # x
    BY Zenon, <1>0, <2>2, <2>3, <2>5, <2>7, <2>9 DEF NoLostWakeup
  <2> QED BY <2>8, <2>9, Zenon
<1>24. ASSUME NEW c \in Conds, Broadcast(t, c) PROVE NoLostWakeup'
  <2>1. /\ UNCHANGED <<waddrs, defer_waiters, wake_sema, wchan>>
        /\ \A u \in Threads \ {t} : pc'[u] = pc[u] /\ td'[u] = td[u]
        /\ pc[t] \notin {"sigflush", "sigdefer"}
        /\ pc'[t] \in {"sleep", "sleepflush", "asleep"} => pc[t] \in {"sleep", "sleepflush", "asleep"}
    BY <1>24, <1>0, Zenon DEF Broadcast, Goto, queueVars, threadVars, localVars
  <2> QED BY <1>0, <2>1, WakeupFrame, Zenon
<1>25. ASSUME NEW x \in Cancellable, Cancel(t, x) PROVE NoLostWakeup'
  <2> SUFFICES ASSUME NEW u \in Threads, wchan'[u] = None, pc'[u] \in {"sleep", "sleepflush", "asleep"}
               PROVE  wake_sema'[u] > 0 \/ \E s \in Threads : Owes(s, u)'
    BY Zenon DEF NoLostWakeup
  <2>1. /\ pc[t] = "idle" /\ pc'[t] \in {"idle", "kick"}
        /\ \A s \in Threads \ {t} : pc'[s] = pc[s] /\ td'[s] = td[s]
        /\ UNCHANGED <<waddrs, defer_waiters, wake_sema, wchan>>
    BY <1>25, <1>0, ZenonT(30) DEF Cancel, Goto, queueVars
  <2>2. wake_sema[u] > 0 \/ \E s \in Threads : Owes(s, u)
    BY Zenon, <1>0, <2>1 DEF NoLostWakeup
  <2>3. \A s \in Threads : Owes(s, u) => Owes(s, u)'
    BY <2>1, Zenon DEF Owes
  <2> QED BY <2>1, <2>2, <2>3, Zenon
<1>26. CASE SetCancelState(t)
  <2>1. /\ UNCHANGED <<waddrs, defer_waiters, wake_sema, wchan>>
        /\ \A u \in Threads \ {t} : pc'[u] = pc[u] /\ td'[u] = td[u]
        /\ pc[t] \notin {"sigflush", "sigdefer"}
        /\ pc'[t] \in {"sleep", "sleepflush", "asleep"} => pc[t] \in {"sleep", "sleepflush", "asleep"}
    BY <1>26, <1>0, ZenonT(30) DEF SetCancelState, queueVars, threadVars, localVars
  <2> QED BY <1>0, <2>1, WakeupFrame, Zenon
<1> QED BY Zenon, <1>1, <1>2, <1>3, <1>4, <1>5, <1>6, <1>7, <1>8, <1>9, <1>10, <1>11, <1>12, <1>13,
           <1>14, <1>15, <1>16, <1>17, <1>18, <1>19, <1>20, <1>21, <1>22, <1>23, <1>24, <1>25, <1>26 DEF Step, Call
-----------------------------------------------------------------------------
(* How many wakeups a thread is given.                                     *)

\* t is off the queue and asleep or about to be; x is on the list at most once.
Due(t) == wchan[t] = None /\ pc[t] \in {"sleep", "sleepflush", "asleep"}
Once(x, list) == \A i, j \in 1..Len(list) : list[i] = x /\ list[j] = x => i = j

\* s owes x one wakeup at most, in one of the three places Owes looks at.
OwesOnce(s, x) ==
    /\ Once(x, defer_waiters[s]) /\ Once(x, waddrs[s])
    /\ ~(In(x, defer_waiters[s]) /\ In(x, waddrs[s]))
    /\ pc[s] \in {"sigflush", "sigdefer"} /\ td[s] = x => ~In(x, defer_waiters[s]) /\ ~In(x, waddrs[s])

\* A thread has no wakeup before a signal or a broadcast takes it off the queue
\* and one from then until it wakes: owed by one thread, or in wake_sema.
OneWakeup(t) ==
    /\ pc[t] # "expired"
    /\ pc[t] = "awake" => wchan[t] = None
    /\ wake_sema[t] # 0 => wake_sema[t] = 1 /\ Due(t)
    /\ \A s \in Threads : Owes(s, t) => Due(t) /\ wake_sema[t] = 0
    /\ \A s, r \in Threads : Owes(s, t) /\ Owes(r, t) => s = r
    /\ \A s \in Threads : OwesOnce(s, t)

\* So it is for every thread that is not cancelled, while waits do not time
\* out; posix_pthread_cancel may add a release that nobody counts.
WakeupsCounted ==
    /\ \A t \in Threads : ~cancel_pending[t] => OneWakeup(t)
    /\ \A t \in Threads : ~timed[t]
    /\ \A t \in Threads : cancel_pending[t] => t \in Cancellable
    /\ \A t \in Threads : pc[t] = "kick" => td[t] \in Threads /\ cancel_pending[td[t]]
    /\ crashed => \E t \in Cancellable : ~cancel_enable[t]

\* Taking an element off a list that it is on once takes it off for good.
LEMMA PopOnce ==
    ASSUME NEW S, NEW s \in Seq(S), s # <<>>
    PROVE  /\ \A y : Once(y, s) => Once(y, Tail(s))
           /\ Once(Head(s), s) => ~In(Head(s), Tail(s))
<1> DEFINE r == Tail(s)
<1>1. Len(r) = Len(s) - 1 /\ Len(s) \in Nat \ {0} /\ Head(s) = s[1]
  OBVIOUS
<1>2. \A i \in 1..Len(r) : r[i] = s[i + 1] /\ i + 1 \in 1..Len(s)
  BY <1>1, SMTT(30)
<1>3. 1 \in 1..Len(s)
  BY <1>1, SMTT(30)
<1> HIDE DEF r
<1>4. \A y : Once(y, s) => Once(y, r)
  BY <1>1, <1>2, SMTT(30) DEF Once
<1>5. Once(Head(s), s) => ~In(Head(s), r)
  BY <1>1, <1>2, <1>3, SMTT(30) DEF Once, In
<1> QED BY <1>4, <1>5, ZenonT(30) DEF r

\* Appending an element that is not on the list puts it there once.
LEMMA AppendOnce ==
    ASSUME NEW S, NEW s \in Seq(S), NEW x \in S
    PROVE  /\ \A y : y # x /\ Once(y, s) => Once(y, Append(s, x))
           /\ ~In(x, s) => Once(x, Append(s, x))
<1> DEFINE r == Append(s, x)
<1>1. Len(r) = Len(s) + 1 /\ Len(s) \in Nat
  OBVIOUS
<1>2. r[Len(s) + 1] = x /\ \A i \in 1..Len(s) : r[i] = s[i]
  OBVIOUS
<1>3. \A i \in 1..Len(r) : i = Len(s) + 1 \/ i \in 1..Len(s)
  BY <1>1, SMTT(30)
<1> HIDE DEF r
<1>4. \A y : y # x /\ Once(y, s) => Once(y, r)
  BY <1>2, <1>3, ZenonT(30) DEF Once
<1>5. ~In(x, s) => Once(x, r)
  BY <1>2, <1>3, ZenonT(30) DEF Once, In
<1> QED BY <1>4, <1>5, ZenonT(30) DEF r

\* A list of one, and of none.
LEMMA SingleOnce == \A x, y : Once(y, <<x>>) /\ Once(y, <<>>) /\ ~In(y, <<>>) /\ (In(y, <<x>>) <=> y = x)
<1>1. ASSUME NEW x, NEW y PROVE Once(y, <<x>>) /\ (In(y, <<x>>) <=> y = x)
  <2>1. Len(<<x>>) = 1 /\ <<x>>[1] = x
    OBVIOUS
  <2> QED BY <2>1, SMTT(30) DEF Once, In
<1>2. \A y : Once(y, <<>>) /\ ~In(y, <<>>)
  BY SMTT(30) DEF Once, In
<1> QED BY <1>1, <1>2, Zenon

\* The step of t leaves u's wakeup as it was.
LEMMA OneFrame ==
    ASSUME NEW t \in Threads, NEW u \in Threads, OneWakeup(u),
           \A s \in Threads \ {t} : /\ pc'[s] = pc[s] /\ td'[s] = td[s]
                                    /\ defer_waiters'[s] = defer_waiters[s] /\ waddrs'[s] = waddrs[s],
           wake_sema'[u] = wake_sema[u], Due(u) => Due(u)',
           pc'[u] # "expired", pc'[u] = "awake" => wchan'[u] = None,
           Owes(t, u)' => Owes(t, u), OwesOnce(t, u)'
    PROVE  OneWakeup(u)'
<1>1. \A s \in Threads : Owes(s, u)' => Owes(s, u)
  BY Zenon DEF Owes
<1>2. \A s \in Threads : OwesOnce(s, u)'
  <2>1. ASSUME NEW s \in Threads \ {t} PROVE OwesOnce(s, u)'
    BY <2>1, Zenon DEF OneWakeup, OwesOnce
  <2> QED BY <2>1, Zenon
<1>3. wake_sema'[u] # 0 => wake_sema'[u] = 1 /\ Due(u)'
  BY Zenon DEF OneWakeup
<1>4. \A s \in Threads : Owes(s, u)' => Due(u)' /\ wake_sema'[u] = 0
  BY <1>1, Zenon DEF OneWakeup
<1>5. \A s, r \in Threads : Owes(s, u)' /\ Owes(r, u)' => s = r
  BY <1>1, Zenon DEF OneWakeup
<1> QED BY <1>2, <1>3, <1>4, <1>5, Zenon DEF OneWakeup

\* A step that neither takes a thread off a queue nor touches a wakeup.
Calm(t) ==
    /\ UNCHANGED <<waddrs, defer_waiters, wake_sema, wchan, cancel_pending, crashed>>
    /\ \A s \in Threads \ {t} : pc'[s] = pc[s] /\ td'[s] = td[s] /\ timed'[s] = timed[s]
    /\ timed[t] \/ ~timed'[t]
    /\ pc[t] \in {"sleep", "sleepflush", "asleep"} => pc'[t] \in {"sleep", "sleepflush", "asleep"}
    /\ pc'[t] \notin {"awake", "expired", "sigflush", "sigdefer", "kick"}

\* Calm steps count nothing.
LEMMA CalmStep ==
    ASSUME NEW t \in Threads, WakeupsCounted, ~crashed, Calm(t)
    PROVE  WakeupsCounted'
<1>1. ASSUME NEW u \in Threads, ~cancel_pending'[u] PROVE OneWakeup(u)'
  <2>1. OneWakeup(u)
    BY <1>1, Zenon DEF WakeupsCounted, Calm
  <2>2. OwesOnce(t, u)
    BY <2>1, Zenon DEF OneWakeup
  <2>3. OwesOnce(t, u)' /\ (Owes(t, u)' => Owes(t, u))
    BY <2>2, Zenon DEF Calm, OwesOnce, Owes
  <2>4. (Due(u) => Due(u)') /\ pc'[u] # "expired" /\ (pc'[u] = "awake" => wchan'[u] = None)
    BY <2>1, Zenon DEF Calm, Due, OneWakeup
  <2> QED BY <2>1, <2>3, <2>4, OneFrame, Zenon DEF Calm
<1>2. \A u \in Threads : ~timed'[u]
  BY Zenon DEF Calm, WakeupsCounted
<1>3. \A u \in Threads : cancel_pending'[u] => u \in Cancellable
  BY Zenon DEF Calm, WakeupsCounted
<1>4. \A u \in Threads : pc'[u] = "kick" => td'[u] \in Threads /\ cancel_pending'[td'[u]]
  BY Zenon DEF Calm, WakeupsCounted
<1>5. ~crashed'
  BY Zenon DEF Calm
<1> QED BY <1>1, <1>2, <1>3, <1>4, <1>5, Zenon DEF WakeupsCounted

\* Steps that change wakeups but no cancellation.
LEMMA CountedFrame ==
    ASSUME WakeupsCounted, ~crashed', UNCHANGED <<timed, cancel_pending>>,
           \A u \in Threads : pc'[u] = "kick" => pc[u] = "kick" /\ td'[u] = td[u],
           \A u \in Threads : ~cancel_pending[u] /\ OneWakeup(u) => OneWakeup(u)'
    PROVE  WakeupsCounted'
<1>1. \A u \in Threads : pc'[u] = "kick" => td'[u] \in Threads /\ cancel_pending'[td'[u]]
  BY Zenon DEF WakeupsCounted
<1>2. \A u \in Threads : ~cancel_pending'[u] => OneWakeup(u)'
  BY Zenon DEF WakeupsCounted
<1> QED BY <1>1, <1>2, Zenon DEF WakeupsCounted

\* A release pays the one wakeup that is owed.
LEMMA Pays ==
    ASSUME IInv, NEW t \in Threads, NEW x \in Threads, OneWakeup(x), Owes(t, x),
           \A s \in Threads \ {t} : /\ pc'[s] = pc[s] /\ td'[s] = td[s]
                                    /\ defer_waiters'[s] = defer_waiters[s] /\ waddrs'[s] = waddrs[s],
           wake_sema' = [wake_sema EXCEPT ![x] = @ + 1], Due(x) => Due(x)',
           ~Owes(t, x)', OwesOnce(t, x)'
    PROVE  OneWakeup(x)'
<1>0. Due(x) /\ wake_sema[x] = 0 /\ wake_sema \in [Threads -> Nat]
  BY Zenon DEF OneWakeup, IInv, TypeOK
<1>1. \A s \in Threads : ~Owes(s, x)'
  <2>1. ASSUME NEW s \in Threads \ {t} PROVE ~Owes(s, x)'
    <3>1. ~Owes(s, x)
      BY <2>1, Zenon DEF OneWakeup
    <3> QED BY <2>1, <3>1, Zenon DEF Owes
  <2> QED BY <2>1, Zenon
<1>2. \A s \in Threads : OwesOnce(s, x)'
  <2>1. ASSUME NEW s \in Threads \ {t} PROVE OwesOnce(s, x)'
    BY <2>1, Zenon DEF OneWakeup, OwesOnce
  <2> QED BY <2>1, Zenon
<1>3. wake_sema'[x] = 1
  BY <1>0, SMTT(30)
<1>4. pc'[x] # "expired" /\ pc'[x] # "awake"
  BY <1>0, Zenon DEF Due
<1> QED BY <1>0, <1>1, <1>2, <1>3, <1>4, Zenon DEF OneWakeup

\* Off the queue, a waiter is owed one.
LEMMA NewlyOwed ==
    ASSUME NEW t \in Threads, NEW x \in Threads, OneWakeup(x), wchan[x] # None,
           pc[x] \in Queued \ {"clearwake"},
           \A s \in Threads \ {t} : /\ pc'[s] = pc[s] /\ td'[s] = td[s]
                                    /\ defer_waiters'[s] = defer_waiters[s] /\ waddrs'[s] = waddrs[s],
           wake_sema'[x] = wake_sema[x], pc'[x] = pc[x], wchan'[x] = None, OwesOnce(t, x)'
    PROVE  OneWakeup(x)'
<1>1. ~Due(x) /\ wake_sema'[x] = 0 /\ Due(x)' /\ pc'[x] # "expired" /\ pc'[x] # "awake"
  BY Zenon DEF OneWakeup, Due, Queued
<1>2. \A s \in Threads : Owes(s, x)' => s = t
  <2>1. ASSUME NEW s \in Threads \ {t} PROVE ~Owes(s, x)'
    <3>1. ~Owes(s, x)
      BY <1>1, <2>1, Zenon DEF OneWakeup
    <3> QED BY <2>1, <3>1, Zenon DEF Owes
  <2> QED BY <2>1, Zenon
<1>3. \A s \in Threads : OwesOnce(s, x)'
  <2>1. ASSUME NEW s \in Threads \ {t} PROVE OwesOnce(s, x)'
    BY <2>1, Zenon DEF OneWakeup, OwesOnce
  <2> QED BY <2>1, Zenon
<1> QED BY <1>1, <1>2, <1>3, Zenon DEF OneWakeup

\* Which steps are calm.  None times out.
LEMMA CalmSteps ==
    ASSUME IInv, WakeupsCounted, TimedWaiters = {}, NEW t \in Threads, Step(t) \/ Call(t)
    PROVE  \/ Calm(t)
           \/ WakeAll(t) \/ WaitEnqueue(t) \/ WaitClearWake(t) \/ SleepAcquire(t) \/ WaitAwake(t)
           \/ SignalDefer(t) \/ Drop(t) \/ ReleaseWaddrs(t) \/ CancelKick(t)
           \/ \E c \in Conds : Signal(t, c)
           \/ \E x \in Cancellable : Cancel(t, x)
<1>0. pc \in [Threads -> Labels] /\ timed \in [Threads -> BOOLEAN] /\ td \in [Threads -> Threads \cup {None}]
  BY Zenon DEF IInv, TypeOK
<1>1. LockOwn(t) => Calm(t)
  BY <1>0, Zenon DEF LockOwn, Goto, Calm, queueVars, threadVars, localVars, cancelVars
<1>2. UnlockHost(t) => Calm(t)
  BY <1>0, Zenon DEF UnlockHost, Goto, Calm, queueVars, threadVars, localVars, cancelVars
<1>3. Sleep(t) => Calm(t)
  BY <1>0, Zenon DEF Sleep, Goto, Calm, queueVars, threadVars, localVars, cancelVars
<1>4. ~SleepTimeout(t)
  BY Zenon DEF SleepTimeout, WakeupsCounted
<1>5. WaitCvLock(t) => Calm(t)
  BY <1>0, Zenon DEF WaitCvLock, Goto, Calm, queueVars, threadVars, localVars, cancelVars
<1>6. WaitCvOwn(t) => Calm(t)
  BY <1>0, Zenon DEF WaitCvOwn, Goto, Calm, queueVars, threadVars, localVars, cancelVars
<1>7. DropDone(t) => Calm(t)
  BY <1>0, Zenon DEF DropDone, Goto, Calm, queueVars, threadVars, localVars, cancelVars
<1>8. ASSUME NEW m \in Mutexes PROVE Lock(t, m) => Calm(t)
  BY <1>0, Zenon DEF Lock, Goto, Calm, queueVars, threadVars, localVars, cancelVars
<1>9. ASSUME NEW m \in Mutexes PROVE SelfLock(t, m) => Calm(t)
  BY <1>0, Zenon DEF SelfLock, Calm, queueVars, threadVars, localVars, cancelVars
<1>10. ASSUME NEW m \in Mutexes PROVE UnlockRecursive(t, m) => Calm(t)
  BY <1>0, Zenon DEF UnlockRecursive, Calm, queueVars, threadVars, localVars, cancelVars
<1>11. ASSUME NEW m \in Mutexes PROVE Unlock(t, m) => Calm(t)
  BY <1>0, Zenon DEF Unlock, Goto, Calm, queueVars, threadVars, localVars, cancelVars
<1>12. ASSUME NEW m \in Mutexes, NEW c \in Conds PROVE Wait(t, c, m, FALSE) => Calm(t)
  BY <1>0, Zenon DEF Wait, Goto, Calm, queueVars, threadVars, localVars, cancelVars
<1>13. ASSUME NEW c \in Conds PROVE SignalNobody(t, c) => Calm(t)
  BY <1>0, Zenon DEF SignalNobody, Calm, queueVars, threadVars, localVars, cancelVars
<1>14. ASSUME NEW c \in Conds PROVE Broadcast(t, c) => Calm(t)
  BY <1>0, Zenon DEF Broadcast, Goto, Calm, queueVars, threadVars, localVars, cancelVars
<1>15. SetCancelState(t) => Calm(t)
  BY <1>0, Zenon DEF SetCancelState, Calm, queueVars, threadVars, localVars, cancelVars
<1>16. Step(t) => \/ Calm(t)
           \/ WakeAll(t) \/ WaitEnqueue(t) \/ WaitClearWake(t) \/ SleepAcquire(t) \/ WaitAwake(t)
           \/ SignalDefer(t) \/ Drop(t) \/ ReleaseWaddrs(t) \/ CancelKick(t)
  BY <1>1, <1>2, <1>3, <1>4, <1>5, <1>6, <1>7, Zenon DEF Step
<1>17. Call(t) => Calm(t) \/ (\E c \in Conds : Signal(t, c)) \/ \E x \in Cancellable : Cancel(t, x)
  BY <1>8, <1>9, <1>10, <1>11, <1>12, <1>13, <1>14, <1>15, ZenonT(30) DEF Call
<1> QED BY <1>16, <1>17, Zenon

\* A signal or a broadcast takes x off the queue and t comes to owe its wakeup.
LEMMA TakenOff ==
    ASSUME IInv, WakeupsCounted, NEW t \in Threads, NEW x \in Threads, t # x,
           wchan[x] # None, pc[x] \in Queued \ {"clearwake"}, wchan' = [wchan EXCEPT ![x] = None],
           UNCHANGED <<wake_sema, timed, cancel_pending>>, ~crashed',
           \A s \in Threads \ {t} : /\ pc'[s] = pc[s] /\ td'[s] = td[s]
                                    /\ defer_waiters'[s] = defer_waiters[s] /\ waddrs'[s] = waddrs[s],
           pc[t] \in {"idle", "drop"}, pc'[t] \in {"idle", "drop", "sigflush", "release"},
           \/ /\ pc'[t] # "sigflush"
              /\ defer_waiters'[t] = Append(defer_waiters[t], x) /\ waddrs'[t] = waddrs[t]
           \/ /\ pc'[t] # "sigflush"
              /\ waddrs'[t] = Append(waddrs[t], x) /\ defer_waiters'[t] = defer_waiters[t]
           \/ /\ td'[t] = x
              /\ defer_waiters'[t] = defer_waiters[t] /\ waddrs'[t] = waddrs[t]
    PROVE  WakeupsCounted'
<1>0. /\ defer_waiters[t] \in Seq(Threads) /\ waddrs[t] \in Seq(Threads)
      /\ wchan \in [Threads -> Conds \cup {None}]
  BY ZenonT(30) DEF IInv, TypeOK
<1>1. \A y : /\ In(y, Append(defer_waiters[t], x)) <=> y = x \/ In(y, defer_waiters[t])
             /\ In(y, Append(waddrs[t], x)) <=> y = x \/ In(y, waddrs[t])
  BY <1>0, AppendList, Zenon
<1>2. /\ \A y : y # x /\ Once(y, defer_waiters[t]) => Once(y, Append(defer_waiters[t], x))
      /\ \A y : y # x /\ Once(y, waddrs[t]) => Once(y, Append(waddrs[t], x))
      /\ ~In(x, defer_waiters[t]) => Once(x, Append(defer_waiters[t], x))
      /\ ~In(x, waddrs[t]) => Once(x, Append(waddrs[t], x))
  BY <1>0, AppendOnce, Zenon
<1>3. ASSUME NEW u \in Threads, OneWakeup(u) PROVE OneWakeup(u)'
  <2>1. OwesOnce(t, u)
    BY <1>3, Zenon DEF OneWakeup
  <2>2. CASE u # x
    <3>1. wchan'[u] = wchan[u]
      BY <1>0, <2>2, Zenon
    <3>2. /\ In(u, defer_waiters'[t]) <=> In(u, defer_waiters[t])
          /\ In(u, waddrs'[t]) <=> In(u, waddrs[t])
          /\ Once(u, defer_waiters'[t]) /\ Once(u, waddrs'[t])
      BY <1>1, <1>2, <2>1, <2>2, ZenonT(30) DEF OwesOnce
    <3>3. pc'[t] \in {"sigflush", "sigdefer"} => td'[t] # u
      BY <2>2, Zenon
    <3>4. OwesOnce(t, u)' /\ (Owes(t, u)' => Owes(t, u))
      BY <2>1, <3>2, <3>3, Zenon DEF OwesOnce, Owes
    <3>5. (Due(u) => Due(u)') /\ pc'[u] # "expired" /\ (pc'[u] = "awake" => wchan'[u] = None)
      BY <1>3, <3>1, Zenon DEF Due, OneWakeup
    <3> QED BY <1>3, <3>4, <3>5, OneFrame, Zenon
  <2>3. CASE u = x
    <3>1. ~Owes(t, x)
      BY <1>3, <2>3, Zenon DEF OneWakeup, Due
    <3>2. ~In(x, defer_waiters[t]) /\ ~In(x, waddrs[t])
      BY <3>1, Zenon DEF Owes
    <3>3. Once(x, defer_waiters[t]) /\ Once(x, waddrs[t])
      BY <2>1, <2>3, Zenon DEF OwesOnce
    <3>4. /\ Once(x, defer_waiters'[t]) /\ Once(x, waddrs'[t])
          /\ ~(In(x, defer_waiters'[t]) /\ In(x, waddrs'[t]))
          /\ pc'[t] = "sigflush" => ~In(x, defer_waiters'[t]) /\ ~In(x, waddrs'[t])
      BY <1>2, <3>2, <3>3, ZenonT(30)
    <3>5. OwesOnce(t, x)'
      BY <3>4, Zenon DEF OwesOnce
    <3>6. wchan'[x] = None /\ pc'[x] = pc[x]
      BY <1>0, Zenon
    <3> QED BY <1>3, <2>3, <3>5, <3>6, NewlyOwed, Zenon
  <2> QED BY <2>2, <2>3, Zenon
<1> QED BY <1>3, CountedFrame, Zenon

\* No step gives a thread a wakeup too many.
LEMMA CountedStep ==
    ASSUME IInv, WakeupsCounted, TimedWaiters = {}, ~crashed, NEW t \in Threads, Step(t) \/ Call(t)
    PROVE  WakeupsCounted'
<1>0. /\ pc \in [Threads -> Labels]
      /\ td \in [Threads -> Threads \cup {None}]
      /\ wchan \in [Threads -> Conds \cup {None}]
      /\ wake_sema \in [Threads -> Nat]
      /\ defer_waiters \in [Threads -> Seq(Threads)]
      /\ waddrs \in [Threads -> Seq(Threads)]
      /\ cancel_pending \in [Threads -> BOOLEAN]
      /\ None \notin Threads /\ None \notin Conds
  BY CondvarAssumption, Zenon DEF IInv, TypeOK
<1>1. CASE WakeAll(t)
  <2>1. PICK x \in Threads : x = Head(defer_waiters[t])
    BY <1>1, WakeAllEffect, Zenon
  <2>2. /\ \A s \in Threads \ {t} : pc'[s] = pc[s] /\ td'[s] = td[s] /\ waddrs'[s] = waddrs[s] /\ defer_waiters'[s] = defer_waiters[s]
        /\ UNCHANGED <<td, waddrs, wchan, timed, cancel_pending>> /\ ~crashed'
        /\ defer_waiters'[t] = Tail(defer_waiters[t])
        /\ wake_sema' = [wake_sema EXCEPT ![x] = @ + 1]
    BY Zenon, <1>1, <1>0, <2>1, WakeAllEffect DEF WakeAll, Release, localVars, queueVars, cancelVars
  <2>3. /\ defer_waiters[t] # <<>> /\ defer_waiters[t] \in Seq(Threads)
        /\ \A y : In(y, defer_waiters[t]) <=> y = x \/ In(y, defer_waiters'[t])
        /\ pc'[t] \in {"sigflush", "sigdefer"} => pc[t] \in {"sigflush", "sigdefer"}
        /\ pc[t] \in {"sleep", "sleepflush", "asleep"} => pc'[t] \in {"sleep", "sleepflush", "asleep"}
        /\ pc'[t] \notin {"kick", "expired", "awake"}
    <3>0. \A y : In(y, defer_waiters[t]) <=> y = Head(defer_waiters[t]) \/ In(y, Tail(defer_waiters[t]))
      BY <1>1, WakeAllEffect, Zenon
    <3>1. \A y : In(y, defer_waiters[t]) <=> y = x \/ In(y, defer_waiters'[t])
      BY <2>1, <2>2, <3>0, ZenonT(30)
    <3>2. pc[t] \in {"wakeall", "sleepflush", "sigflush", "dropflush"}
      BY <1>1, Zenon DEF WakeAll
    <3>3. defer_waiters[t] # <<>>
      BY <3>2, Zenon DEF IInv, LocalsOK
    <3>4. /\ pc'[t] \in {"sigflush", "sigdefer"} => pc[t] \in {"sigflush", "sigdefer"}
          /\ pc[t] \in {"sleep", "sleepflush", "asleep"} => pc'[t] \in {"sleep", "sleepflush", "asleep"}
          /\ pc'[t] \notin {"kick", "expired", "awake"}
      BY <1>1, <3>2, WakeAllEffect, ZenonT(30)
    <3> QED BY <1>0, <3>1, <3>3, <3>4, Zenon
  <2>4. /\ \A y : Once(y, defer_waiters[t]) => Once(y, defer_waiters'[t])
        /\ Once(x, defer_waiters[t]) => ~In(x, defer_waiters'[t])
    BY <2>1, <2>2, <2>3, PopOnce, Zenon
  <2>5. ASSUME NEW u \in Threads, OneWakeup(u) PROVE OneWakeup(u)'
    <3>1. OwesOnce(t, u)
      BY <2>5, Zenon DEF OneWakeup
    <3>2. OwesOnce(t, u)' /\ (Owes(t, u)' => Owes(t, u))
      BY <2>2, <2>3, <2>4, <3>1, Zenon DEF OwesOnce, Owes
    <3>3. Due(u) => Due(u)'
      BY <2>2, <2>3, Zenon DEF Due
    <3>4. CASE u # x
      <4>1. wake_sema'[u] = wake_sema[u]
        BY <1>0, <2>2, <3>4, Zenon
      <4>2. pc'[u] # "expired" /\ (pc'[u] = "awake" => wchan'[u] = None)
        BY <2>2, <2>3, <2>5, Zenon DEF OneWakeup
      <4> QED BY <2>2, <2>5, <3>2, <3>3, <4>1, <4>2, OneFrame, Zenon
    <3>5. CASE u = x
      <4>1. Owes(t, x) /\ ~Owes(t, x)'
        BY <2>2, <2>3, <2>4, <3>1, <3>5, Zenon DEF OwesOnce, Owes
      <4> QED BY <2>2, <2>5, <3>2, <3>3, <3>5, <4>1, Pays, Zenon
    <3> QED BY <3>4, <3>5, Zenon
  <2> QED BY <2>2, <2>3, <2>5, CountedFrame, Zenon
<1>2. CASE ReleaseWaddrs(t)
  <2>0. waddrs[t] \in Seq(Threads) /\ waddrs[t] # <<>> /\ pc[t] \in {"release", "dropwaddrs"}
    BY <1>2, <1>0, Zenon DEF ReleaseWaddrs, IInv, LocalsOK
  <2>1. PICK x \in Threads : x = Head(waddrs[t])
    BY <2>0, PopList, Zenon
  <2>2. /\ \A s \in Threads \ {t} : pc'[s] = pc[s] /\ td'[s] = td[s] /\ waddrs'[s] = waddrs[s] /\ defer_waiters'[s] = defer_waiters[s]
        /\ pc'[t] \in {"release", "dropwaddrs", "idle", "drop"}
        /\ UNCHANGED <<td, defer_waiters, wchan, timed, cancel_pending>> /\ ~crashed'
        /\ waddrs'[t] = Tail(waddrs[t])
        /\ wake_sema' = [wake_sema EXCEPT ![x] = @ + 1]
    BY Zenon, <1>2, <1>0, <2>1 DEF ReleaseWaddrs, Release, Goto, queueVars, cancelVars
  <2>3. /\ \A y : In(y, waddrs[t]) <=> y = x \/ In(y, waddrs'[t])
        /\ \A y : Once(y, waddrs[t]) => Once(y, waddrs'[t])
        /\ Once(x, waddrs[t]) => ~In(x, waddrs'[t])
    <3>1. /\ \A y : In(y, waddrs[t]) <=> y = Head(waddrs[t]) \/ In(y, Tail(waddrs[t]))
          /\ \A y : Once(y, waddrs[t]) => Once(y, Tail(waddrs[t]))
          /\ Once(Head(waddrs[t]), waddrs[t]) => ~In(Head(waddrs[t]), Tail(waddrs[t]))
      BY <2>0, PopList, PopOnce, Zenon
    <3> QED BY <2>1, <2>2, <3>1, ZenonT(30)
  <2>5. ASSUME NEW u \in Threads, OneWakeup(u) PROVE OneWakeup(u)'
    <3>1. OwesOnce(t, u)
      BY <2>5, Zenon DEF OneWakeup
    <3>2. OwesOnce(t, u)' /\ (Owes(t, u)' => Owes(t, u))
      BY <2>2, <2>3, <3>1, Zenon DEF OwesOnce, Owes
    <3>3. Due(u) => Due(u)'
      BY <2>0, <2>2, Zenon DEF Due
    <3>4. CASE u # x
      <4>1. wake_sema'[u] = wake_sema[u]
        BY <1>0, <2>2, <3>4, Zenon
      <4>2. pc'[u] # "expired" /\ (pc'[u] = "awake" => wchan'[u] = None)
        BY <2>2, <2>5, Zenon DEF OneWakeup
      <4> QED BY <2>2, <2>5, <3>2, <3>3, <4>1, <4>2, OneFrame, Zenon
    <3>5. CASE u = x
      <4>1. Owes(t, x) /\ ~Owes(t, x)'
        BY <2>0, <2>2, <2>3, <3>1, <3>5, Zenon DEF OwesOnce, Owes
      <4> QED BY <2>2, <2>5, <3>2, <3>3, <3>5, <4>1, Pays, Zenon
    <3> QED BY <3>4, <3>5, Zenon
  <2> QED BY <2>2, <2>5, CountedFrame, Zenon
<1>3. CASE WaitEnqueue(t)
  <2>1. /\ pc[t] = "enqueue" /\ pc'[t] = "clearwake"
        /\ \A s \in Threads \ {t} : pc'[s] = pc[s] /\ wchan'[s] = wchan[s]
        /\ UNCHANGED <<td, waddrs, defer_waiters, wake_sema, timed, cancel_pending>> /\ ~crashed'
    BY <1>3, <1>0, Zenon DEF WaitEnqueue, SleepqAdd, Goto, localVars, cancelVars
  <2>2. ASSUME NEW u \in Threads, OneWakeup(u) PROVE OneWakeup(u)'
    <3>1. OwesOnce(t, u)' /\ (Owes(t, u)' => Owes(t, u)) /\ (Due(u) => Due(u)')
      BY <2>1, <2>2, Zenon DEF OneWakeup, OwesOnce, Owes, Due
    <3>2. pc'[u] # "expired" /\ (pc'[u] = "awake" => wchan'[u] = None)
      BY <2>1, <2>2, Zenon DEF OneWakeup
    <3> QED BY <2>1, <2>2, <3>1, <3>2, OneFrame, Zenon
  <2> QED BY <2>1, <2>2, CountedFrame, Zenon
<1>4. CASE WaitClearWake(t)
  <2>1. /\ pc[t] = "clearwake" /\ pc'[t] = "sleep"
        /\ \A s \in Threads \ {t} : pc'[s] = pc[s]
        /\ UNCHANGED <<td, waddrs, defer_waiters, wchan, timed, cancel_pending>> /\ ~crashed'
        /\ wake_sema' = [wake_sema EXCEPT ![t] = IF @ > 0 THEN @ - 1 ELSE 0]
    BY <1>4, <1>0, Zenon DEF WaitClearWake, ClearWake, Goto, localVars, queueVars, cancelVars
  <2>2. ASSUME NEW u \in Threads, OneWakeup(u) PROVE OneWakeup(u)'
    <3>1. OwesOnce(t, u)' /\ (Owes(t, u)' => Owes(t, u)) /\ (Due(u) => Due(u)')
      BY <2>1, <2>2, Zenon DEF OneWakeup, OwesOnce, Owes, Due
    <3>2. pc'[u] # "expired" /\ (pc'[u] = "awake" => wchan'[u] = None)
      BY <2>1, <2>2, Zenon DEF OneWakeup
    <3>3. u = t => wake_sema[u] = 0
      BY <2>1, <2>2, Zenon DEF OneWakeup, Due
    <3>4. wake_sema'[u] = wake_sema[u]
      BY <1>0, <2>1, <3>3, SMTT(30)
    <3> QED BY <2>1, <2>2, <3>1, <3>2, <3>4, OneFrame, Zenon
  <2> QED BY <2>1, <2>2, CountedFrame, Zenon
<1>5. CASE SleepAcquire(t)
  <2>1. /\ pc[t] = "asleep" /\ pc'[t] = "awake" /\ wake_sema[t] > 0
        /\ \A s \in Threads \ {t} : pc'[s] = pc[s]
        /\ UNCHANGED <<td, waddrs, defer_waiters, wchan, timed, cancel_pending>> /\ ~crashed'
        /\ wake_sema' = [wake_sema EXCEPT ![t] = @ - 1]
    BY <1>5, <1>0, Zenon DEF SleepAcquire, Goto, localVars, queueVars, cancelVars
  <2>2. ASSUME NEW u \in Threads, OneWakeup(u) PROVE OneWakeup(u)'
    <3>1. OwesOnce(t, u)' /\ (Owes(t, u)' => Owes(t, u))
      BY <2>1, <2>2, Zenon DEF OneWakeup, OwesOnce, Owes
    <3>2. CASE u # t
      <4>1. pc'[u] # "expired" /\ (pc'[u] = "awake" => wchan'[u] = None) /\ (Due(u) => Due(u)') /\ wake_sema'[u] = wake_sema[u]
        BY <1>0, <2>1, <2>2, <3>2, Zenon DEF OneWakeup, Due
      <4> QED BY <2>1, <2>2, <3>1, <4>1, OneFrame, Zenon
    <3>3. CASE u = t
      <4>1. wake_sema[u] # 0
        <5>1. ~(0 > 0)
          BY SMTT(30)
        <5> QED BY <2>1, <3>3, <5>1, Zenon
      <4>2. wake_sema[u] = 1 /\ wchan'[u] = None /\ \A s \in Threads : ~Owes(s, u)
        BY <2>1, <2>2, <4>1, Zenon DEF OneWakeup, Due
      <4>3. wake_sema'[u] = 0
        BY <1>0, <2>1, <3>3, <4>2, SMTT(30)
      <4>4. \A s \in Threads : ~Owes(s, u)' /\ OwesOnce(s, u)'
        <5>1. ASSUME NEW s \in Threads PROVE ~Owes(s, u)' /\ OwesOnce(s, u)'
          <6>1. ~Owes(s, u) /\ OwesOnce(s, u)
            BY <2>2, <4>2, Zenon DEF OneWakeup
          <6>2. pc'[s] \in {"sigflush", "sigdefer"} => pc[s] \in {"sigflush", "sigdefer"}
            BY <2>1, Zenon
          <6> QED BY <2>1, <6>1, <6>2, Zenon DEF Owes, OwesOnce
        <5> QED BY <5>1, Zenon
      <4> QED BY <2>1, <3>3, <4>2, <4>3, <4>4, Zenon DEF OneWakeup
    <3> QED BY <3>2, <3>3, Zenon
  <2> QED BY <2>1, <2>2, CountedFrame, Zenon
<1>6. CASE WaitAwake(t)
  <2>1. /\ pc[t] \in {"awake", "expired"}
        /\ UNCHANGED <<td, waddrs, defer_waiters, wake_sema, timed, cancel_pending, cancel_enable>>
        /\ \A s \in Threads \ {t} : pc'[s] = pc[s]
        /\ pc'[t] = pc[t] \/ pc'[t] = "cvlock"
    BY <1>0, <1>6, Zenon DEF WaitAwake, Goto, localVars, cancelVars
  <2>2. \A s \in Threads \ {t} : wchan'[s] = wchan[s]
    BY <1>6, <1>0, Zenon DEF WaitAwake, SleepqRemove, queueVars
  <2>3. CASE crashed'
    <3>1. wchan[t] # None /\ ~ShouldCancel(t) /\ pc[t] = "awake" /\ UNCHANGED <<wchan, pc>>
      BY <1>6, <2>3, Zenon DEF WaitAwake, queueVars
    <3>2. cancel_pending[t] /\ ~cancel_enable'[t]
      BY <2>1, <3>1, Zenon DEF WakeupsCounted, OneWakeup, ShouldCancel
    <3>3. \E r \in Cancellable : ~cancel_enable'[r]
      BY <3>2, Zenon DEF WakeupsCounted
    <3>4. ASSUME NEW u \in Threads, ~cancel_pending[u] PROVE OneWakeup(u)'
      <4>1. OneWakeup(u) /\ pc' = pc /\ wchan' = wchan
        BY <3>1, <3>4, Zenon DEF WakeupsCounted
      <4>2. OwesOnce(t, u)' /\ (Owes(t, u)' => Owes(t, u)) /\ (Due(u) => Due(u)')
        BY <2>1, <4>1, Zenon DEF OneWakeup, OwesOnce, Owes, Due
      <4>3. pc'[u] # "expired" /\ (pc'[u] = "awake" => wchan'[u] = None)
        BY <4>1, Zenon DEF OneWakeup
      <4> QED BY <2>1, <4>1, <4>2, <4>3, OneFrame, Zenon
    <3> QED BY <2>1, <3>1, <3>3, <3>4, Zenon DEF WakeupsCounted
  <2>4. CASE ~crashed'
    <3>1. pc'[t] = "cvlock" /\ (wchan[t] # None => cancel_pending[t])
      BY <1>0, <1>6, <2>4, Zenon DEF WaitAwake, Goto, WakeupsCounted, OneWakeup, ShouldCancel
    <3>2. wchan[t] = None => UNCHANGED wchan
      BY <1>6, Zenon DEF WaitAwake, queueVars
    <3>3. ASSUME NEW u \in Threads, ~cancel_pending[u], OneWakeup(u) PROVE OneWakeup(u)'
      <4>1. wchan'[u] = wchan[u]
        BY <2>2, <3>1, <3>2, <3>3, Zenon
      <4>2. OwesOnce(t, u)' /\ (Owes(t, u)' => Owes(t, u)) /\ (Due(u) => Due(u)')
        BY <2>1, <3>1, <3>3, <4>1, Zenon DEF OneWakeup, OwesOnce, Owes, Due
      <4>3. pc'[u] # "expired" /\ (pc'[u] = "awake" => wchan'[u] = None)
        BY <2>1, <3>1, <3>3, <4>1, Zenon DEF OneWakeup
      <4> QED BY <2>1, <3>3, <4>2, <4>3, OneFrame, Zenon
    <3> QED BY <2>1, <2>4, <3>1, <3>3, CountedFrame, Zenon
  <2> QED BY <2>3, <2>4, Zenon
<1>7. CASE SignalDefer(t)
  <2>1. PICK x \in Threads : x = td[t] /\ pc[t] = "sigdefer"
    BY <1>7, Zenon DEF SignalDefer, IInv, LocalsOK
  <2>2. /\ pc'[t] = "idle"
        /\ \A s \in Threads \ {t} : /\ pc'[s] = pc[s] /\ td'[s] = td[s] /\ waddrs'[s] = waddrs[s]
                                    /\ defer_waiters'[s] = defer_waiters[s]
        /\ defer_waiters'[t] = Append(defer_waiters[t], x)
        /\ UNCHANGED <<waddrs, wake_sema, wchan, timed, cancel_pending>> /\ ~crashed'
    BY <1>7, <1>0, <2>1, Zenon DEF SignalDefer, Defer, Goto, queueVars, cancelVars
  <2>3. /\ \A y : In(y, defer_waiters'[t]) <=> y = x \/ In(y, defer_waiters[t])
        /\ \A y : y # x /\ Once(y, defer_waiters[t]) => Once(y, defer_waiters'[t])
        /\ ~In(x, defer_waiters[t]) => Once(x, defer_waiters'[t])
    <3>1. /\ \A y : In(y, Append(defer_waiters[t], x)) <=> y = x \/ In(y, defer_waiters[t])
          /\ \A y : y # x /\ Once(y, defer_waiters[t]) => Once(y, Append(defer_waiters[t], x))
          /\ ~In(x, defer_waiters[t]) => Once(x, Append(defer_waiters[t], x))
      BY <1>0, AppendList, AppendOnce, Zenon
    <3> QED BY <2>2, <3>1, ZenonT(30)
  <2>4. ASSUME NEW u \in Threads, OneWakeup(u) PROVE OneWakeup(u)'
    <3>1. OwesOnce(t, u)
      BY <2>4, Zenon DEF OneWakeup
    <3>2. OwesOnce(t, u)' /\ (Owes(t, u)' => Owes(t, u))
      BY <2>1, <2>2, <2>3, <3>1, Zenon DEF OwesOnce, Owes
    <3>3. (Due(u) => Due(u)') /\ pc'[u] # "expired" /\ (pc'[u] = "awake" => wchan'[u] = None)
      BY <2>1, <2>2, <2>4, Zenon DEF Due, OneWakeup
    <3> QED BY <2>2, <2>4, <3>2, <3>3, OneFrame, Zenon
  <2> QED BY <2>2, <2>4, CountedFrame, Zenon
<1>8. CASE CancelKick(t)
  <2>1. PICK x \in Threads : x = td[t] /\ pc[t] = "kick" /\ cancel_pending[x]
    BY <1>8, Zenon DEF CancelKick, WakeupsCounted
  <2>2. /\ pc'[t] = "idle"
        /\ \A s \in Threads \ {t} : pc'[s] = pc[s] /\ td'[s] = td[s]
        /\ UNCHANGED <<waddrs, defer_waiters, wchan, timed, cancel_pending>> /\ ~crashed'
        /\ wake_sema' = [wake_sema EXCEPT ![x] = @ + 1]
    BY <1>8, <1>0, <2>1, Zenon DEF CancelKick, Release, Goto, queueVars, cancelVars
  <2>3. ASSUME NEW u \in Threads, ~cancel_pending[u], OneWakeup(u) PROVE OneWakeup(u)'
    <3>1. wake_sema'[u] = wake_sema[u]
      BY <1>0, <2>1, <2>2, <2>3, Zenon
    <3>2. OwesOnce(t, u)' /\ (Owes(t, u)' => Owes(t, u)) /\ (Due(u) => Due(u)')
      BY <2>1, <2>2, <2>3, Zenon DEF OneWakeup, OwesOnce, Owes, Due
    <3>3. pc'[u] # "expired" /\ (pc'[u] = "awake" => wchan'[u] = None)
      BY <2>2, <2>3, Zenon DEF OneWakeup
    <3> QED BY <2>2, <2>3, <3>1, <3>2, <3>3, OneFrame, Zenon
  <2> QED BY <2>2, <2>3, CountedFrame, Zenon
<1>9. ASSUME NEW x \in Cancellable, Cancel(t, x) PROVE WakeupsCounted'
  <2>1. /\ pc[t] = "idle" /\ pc'[t] \in {"idle", "kick"} /\ x \in Threads
        /\ \A s \in Threads \ {t} : pc'[s] = pc[s] /\ td'[s] = td[s]
        /\ UNCHANGED <<waddrs, defer_waiters, wake_sema, wchan, timed>> /\ ~crashed'
        /\ cancel_pending' = [cancel_pending EXCEPT ![x] = TRUE]
        /\ pc'[t] = "kick" => td'[t] = x
    BY <1>0, <1>9, CondvarAssumption, ZenonT(30) DEF Cancel, Goto, queueVars
  <2>2. \A u \in Threads : cancel_pending'[u] <=> cancel_pending[u] \/ u = x
    BY <1>0, <2>1, Zenon
  <2>3. ASSUME NEW u \in Threads, ~cancel_pending'[u] PROVE OneWakeup(u)'
    <3>1. OneWakeup(u)
      BY <2>2, <2>3, Zenon DEF WakeupsCounted
    <3>2. OwesOnce(t, u)' /\ (Owes(t, u)' => Owes(t, u)) /\ (Due(u) => Due(u)')
      BY <2>1, <3>1, Zenon DEF OneWakeup, OwesOnce, Owes, Due
    <3>3. pc'[u] # "expired" /\ (pc'[u] = "awake" => wchan'[u] = None)
      BY <2>1, <3>1, Zenon DEF OneWakeup
    <3> QED BY <2>1, <3>1, <3>2, <3>3, OneFrame, Zenon
  <2>4. \A u \in Threads : pc'[u] = "kick" => td'[u] \in Threads /\ cancel_pending'[td'[u]]
    BY <2>1, <2>2, Zenon DEF WakeupsCounted
  <2>5. \A u \in Threads : cancel_pending'[u] => u \in Cancellable
    BY <2>2, Zenon DEF WakeupsCounted
  <2> QED BY <2>1, <2>3, <2>4, <2>5, Zenon DEF WakeupsCounted
<1>10. ASSUME NEW c \in Conds, Signal(t, c) PROVE WakeupsCounted'
  <2>1. PICK x \in SignalTargets(c) : SleepqRemove(c, x) /\ SignalFate(t, c, x)
    BY <1>10, Zenon DEF Signal
  <2>2. /\ pc[t] = "idle" /\ sq[c] # None /\ sc_lock[c] = None
        /\ UNCHANGED <<wake_sema, timed, cancel_pending>> /\ ~crashed'
    BY <1>10, Zenon DEF Signal, cancelVars
  <2>3. x \in Threads /\ wchan[x] = c /\ wchan[x] # None /\ pc[x] \in Queued /\ cvp[x] = c
    <3>1. x \in Threads /\ wchan[x] = c /\ pc[x] \in Queued /\ cvp[x] = c
      BY <2>2, SignalReady, Zenon
    <3> QED BY <1>0, <3>1, ZenonT(30)
  <2>4. x # t /\ pc[x] # "clearwake"
    <3>1. pc[x] = "clearwake" => sc_lock[cvp[x]] = x
      BY <2>3, Zenon DEF IInv, ChainLockOK, Chained
    <3> QED BY <1>0, <2>2, <2>3, <3>1, ZenonT(30) DEF Queued
  <2>5. wchan' = [wchan EXCEPT ![x] = None] /\ waddrs[t] = <<>>
    BY <2>1, <2>2, Zenon DEF SleepqRemove, IInv, LocalsOK
  <2>6. /\ \A s \in Threads \ {t} : /\ pc'[s] = pc[s] /\ td'[s] = td[s] /\ waddrs'[s] = waddrs[s]
                                    /\ defer_waiters'[s] = defer_waiters[s]
        /\ \/ pc'[t] = "idle" /\ defer_waiters'[t] = Append(defer_waiters[t], x) /\ UNCHANGED waddrs
           \/ pc'[t] = "sigflush" /\ td'[t] = x /\ UNCHANGED <<defer_waiters, waddrs>>
           \/ pc'[t] = "release" /\ waddrs'[t] = <<x>> /\ UNCHANGED defer_waiters
    BY Zenon, <1>0, <2>1, <2>2 DEF SignalFate, Defer, Goto
  <2>7. Append(waddrs[t], x) = <<x>>
    BY <2>5, SMTT(30)
  <2>8. \/ /\ pc'[t] # "sigflush"
           /\ defer_waiters'[t] = Append(defer_waiters[t], x) /\ waddrs'[t] = waddrs[t]
        \/ /\ pc'[t] # "sigflush"
           /\ waddrs'[t] = Append(waddrs[t], x) /\ defer_waiters'[t] = defer_waiters[t]
        \/ /\ td'[t] = x
           /\ defer_waiters'[t] = defer_waiters[t] /\ waddrs'[t] = waddrs[t]
    BY <2>6, <2>7, Zenon
  <2>9. pc'[t] \in {"idle", "drop", "sigflush", "release"} /\ pc[x] \in Queued \ {"clearwake"}
    BY <2>3, <2>4, <2>6, Zenon
  <2> QED BY <2>2, <2>3, <2>4, <2>5, <2>6, <2>8, <2>9, TakenOff, ZenonT(30)
<1>11. CASE Drop(t)
  <2>1. /\ pc[t] = "drop" /\ sq_blocked[cvp[t]] # <<>> /\ pc'[t] \in {"drop", "dropflush", "dropwaddrs"}
        /\ \A s \in Threads \ {t} : pc'[s] = pc[s]
        /\ UNCHANGED <<td, wake_sema, timed, cancel_pending>> /\ ~crashed'
    BY <1>11, <1>0, Zenon DEF Drop, Goto, cancelVars
  <2>2. PICK x \in Threads : x = Head(sq_blocked[cvp[t]]) /\ wchan[x] # None /\ pc[x] \in Queued \ {"clearwake"} /\ x # t
    <3>1. /\ Head(sq_blocked[cvp[t]]) \in Threads /\ cvp[t] \in Conds /\ sc_lock[cvp[t]] = t
          /\ wchan[Head(sq_blocked[cvp[t]])] = cvp[t] /\ pc[Head(sq_blocked[cvp[t]])] \in Queued
          /\ cvp[Head(sq_blocked[cvp[t]])] = cvp[t]
      BY <2>1, DropReady, Zenon
    <3>2. PICK x \in Threads : x = Head(sq_blocked[cvp[t]]) /\ wchan[x] # None /\ pc[x] \in Queued /\ sc_lock[cvp[x]] = t
      BY <1>0, <3>1, Zenon
    <3>3. x # t /\ pc[x] # "clearwake"
      BY <2>1, <3>2, Zenon DEF Queued, IInv, ChainLockOK, Chained
    <3> QED BY <3>2, <3>3, Zenon
  <2>3. \/ UNCHANGED <<defer_waiters, waddrs, wchan>>
        \/ /\ wchan' = [wchan EXCEPT ![x] = None] /\ pc' = pc
           /\ \/ defer_waiters' = [defer_waiters EXCEPT ![t] = Append(@, x)] /\ UNCHANGED waddrs
              \/ waddrs' = [waddrs EXCEPT ![t] = Append(@, x)] /\ UNCHANGED defer_waiters
    BY <1>11, <2>2, Zenon DEF Drop, Defer
  <2>4. CASE UNCHANGED <<defer_waiters, waddrs, wchan>>
    <3>1. UNCHANGED crashed
      BY <1>11, Zenon DEF Drop
    <3>2. Calm(t)
      BY <2>1, <2>4, <3>1, Zenon DEF Calm, WakeupsCounted
    <3> QED BY <3>2, CalmStep, Zenon
  <2>5. CASE /\ wchan' = [wchan EXCEPT ![x] = None] /\ pc' = pc
             /\ \/ defer_waiters' = [defer_waiters EXCEPT ![t] = Append(@, x)] /\ UNCHANGED waddrs
                \/ waddrs' = [waddrs EXCEPT ![t] = Append(@, x)] /\ UNCHANGED defer_waiters
    <3>1. /\ \A s \in Threads \ {t} : /\ pc'[s] = pc[s] /\ td'[s] = td[s]
                                      /\ defer_waiters'[s] = defer_waiters[s] /\ waddrs'[s] = waddrs[s]
          /\ \/ defer_waiters'[t] = Append(defer_waiters[t], x) /\ waddrs'[t] = waddrs[t]
             \/ waddrs'[t] = Append(waddrs[t], x) /\ defer_waiters'[t] = defer_waiters[t]
      BY <1>0, <2>1, <2>5, Zenon
    <3>2. pc'[t] # "sigflush" /\ pc'[t] \in {"idle", "drop", "sigflush", "release"} /\ pc[t] \in {"idle", "drop"}
      BY <2>1, <2>5, Zenon
    <3> QED BY <2>1, <2>2, <2>5, <3>1, <3>2, TakenOff, Zenon
  <2> QED BY <2>3, <2>4, <2>5, Zenon
<1> QED BY <1>1, <1>2, <1>3, <1>4, <1>5, <1>6, <1>7, <1>8, <1>9, <1>10, <1>11, CalmSteps, CalmStep, ZenonT(30)

\* At first nothing is owed.
LEMMA CountedInit == Init => WakeupsCounted
<1> SUFFICES ASSUME Init PROVE WakeupsCounted
  OBVIOUS
<1>1. /\ \A t \in Threads : /\ pc[t] = "idle" /\ wake_sema[t] = 0 /\ defer_waiters[t] = <<>> /\ waddrs[t] = <<>>
                            /\ ~timed[t] /\ ~cancel_pending[t]
      /\ ~crashed
  BY Zenon DEF Init
<1>2. \A s, u \in Threads : ~Owes(s, u) /\ OwesOnce(s, u)
  BY <1>1, SingleOnce, Zenon DEF Owes, OwesOnce
<1>3. \A u \in Threads : OneWakeup(u)
  BY <1>1, <1>2, Zenon DEF OneWakeup
<1> QED BY <1>1, <1>3, Zenon DEF WakeupsCounted
-----------------------------------------------------------------------------
(* The invariant and what it shows.                                        *)

\* The static initialisers establish the invariant.
LEMMA InitIInv == Init => IInv
<1> SUFFICES ASSUME Init
             PROVE  IInv
  OBVIOUS
<1>1. TypeOK
  BY Zenon, CondvarAssumption, NoList DEF Init, TypeOK, Labels
<1>2. \A c \in Conds : \A x : ~In(x, sq_blocked[c])
  BY NoList, EmptyList, Zenon DEF Init, In
<1>3. LocalsOK /\ ChainLockOK /\ HostLockOK /\ DropOK /\ FlagsOK
  BY CondvarAssumption, Zenon DEF Init, LocalsOK, ChainLockOK, HostLockOK, OwnerHoldsLock, DropOK,
     FlagsOK, UserWaitersFlagged, Waiting, Chained, Inside, Dropping
<1>4. \A c \in Conds : Distinct(sq_blocked[c])
  BY SMTT(30) DEF Init, Distinct
<1>5. LinksOK
  BY <1>2, <1>4, Zenon DEF Init, LinksOK, LinkOK
<1>6. OwedOK
  BY Zenon DEF Init, OwedOK, Owed
<1>7. QueuePerWaiter
  BY SMTT(30) DEF Init, QueuePerWaiter
<1>8. NoLostWakeup
  BY ZenonT(30) DEF Init, NoLostWakeup
<1> QED BY <1>1, <1>3, <1>5, <1>6, <1>7, <1>8, Zenon DEF IInv

\* Every step of every thread preserves it, and so does stuttering.
LEMMA NextIInv == IInv /\ [Next]_vars => IInv'
<1>1. ASSUME IInv, Next
      PROVE  IInv'
  <2>1. PICK t \in Threads : Step(t) \/ Call(t)
    BY <1>1, Zenon DEF Next
  <2> QED BY <1>1, <2>1, TypeStep, LocalsStep, ChainLockStep, HostLockStep, DropStep, LinksStep, ZenonT(30),
             FlagsStep, OwedStep, QueueStep, WakeupStep DEF IInv
<1>2. ASSUME IInv, UNCHANGED vars
      PROVE  IInv'
  <2> USE <1>2 DEF vars, mutexVars, queueVars, cancelVars, threadVars, localVars
  <2>1. TypeOK' /\ LocalsOK' /\ ChainLockOK' /\ HostLockOK' /\ DropOK'
    BY Zenon DEF IInv, TypeOK, LocalsOK, ChainLockOK, HostLockOK, OwnerHoldsLock, DropOK
  <2>2. LinksOK' /\ FlagsOK' /\ QueuePerWaiter'
    BY Zenon DEF IInv, LinksOK, LinkOK, FlagsOK, UserWaitersFlagged, QueuePerWaiter
  <2>3. OwedOK' /\ NoLostWakeup'
    BY ZenonT(30) DEF IInv, OwedOK, Owed, WillSend, NoLostWakeup, Owes
  <2> QED BY <2>1, <2>2, <2>3, Zenon DEF IInv
<1> QED BY <1>1, <1>2, Zenon

\* IInv holds in every reachable state of the mutexes, condition variables
\* and sleep queues.
THEOREM InductiveInvariant == Spec => []IInv
BY InitIInv, NextIInv, PTL DEF Spec

\* The fields and locals of the code keep the values they are meant to have,
\* for any number of threads, condition variables and mutexes.
THEOREM TypeCorrect == Spec => []TypeOK
<1>1. IInv => TypeOK
  BY Zenon DEF IInv
<1> QED BY <1>1, InductiveInvariant, PTL

\* A thread recorded in m_owner has the host mutex: Lock and CvLock store it
\* after they took it, Unlock and CvUnlock clear it before they give it up.
THEOREM OwnerTruthful == Spec => []OwnerHoldsLock
<1>1. IInv => OwnerHoldsLock
  BY Zenon DEF IInv, HostLockOK
<1> QED BY <1>1, InductiveInvariant, PTL

\* SleepqRemove and SleepqDrop never find the free list empty, and Signal never
\* reads the front of an empty sq_blocked.
THEOREM QueuesBalanced == Spec => []QueuePerWaiter
<1>1. IInv => QueuePerWaiter
  BY Zenon DEF IInv
<1> QED BY <1>1, InductiveInvariant, PTL

\* has_user_waiters is set whenever somebody is on the queue.
THEOREM WaitersFlagged == Spec => []UserWaitersFlagged
<1>1. IInv => UserWaitersFlagged
  BY Zenon DEF IInv, FlagsOK
<1> QED BY <1>1, InductiveInvariant, PTL

\* The assertion at the start of Wait, "Thread was already on queue.", holds.
THEOREM NeverQueuedTwice == Spec => []IdleNotQueued
<1>1. IInv => IdleNotQueued
  BY Zenon DEF IInv, LinksOK, LinkOK, Queued, IdleNotQueued
<1> QED BY <1>1, InductiveInvariant, PTL

\* Wakeups deferred by Signal and Broadcast are sent by an Unlock to come.
THEOREM DeferralsCovered == Spec => []DeferredAreOwed
<1>1. IInv => DeferredAreOwed
  BY Zenon DEF IInv, OwedOK, Owed, WillSend, DeferredAreOwed
<1> QED BY <1>1, InductiveInvariant, PTL

\* A waiter taken off its queue by Signal or Broadcast has its token, or a
\* thread still owes it one: no interleaving with ClearWake, with the flush of
\* a full defer_waiters or with a timeout loses it.
THEOREM WakeupsKept == Spec => []NoLostWakeup
<1>1. IInv => NoLostWakeup
  BY ZenonT(30) DEF IInv
<1> QED BY <1>1, InductiveInvariant, PTL

\* The second invariant; without timeouts it includes the one about wakeups.
Counted == Placed /\ (TimedWaiters = {} => WakeupsCounted)

\* Placed and WakeupsCounted hold of the code too: the moves of the SleepQueues
\* between threads and conds, and the releases of wake_sema.
THEOREM CountingInvariant == Spec => []Counted
<1>1. Init => Counted
  BY PlacedInit, CountedInit, Zenon DEF Counted
<1>2. IInv /\ Counted /\ [Next]_vars => Counted'
  <2>1. ASSUME IInv, Counted, Next PROVE Counted'
    <3>1. PICK t \in Threads : ~crashed /\ (Step(t) \/ Call(t))
      BY <2>1, Zenon DEF Next
    <3> QED BY <2>1, <3>1, PlacedStep, CountedStep, Zenon DEF Counted
  <2>2. ASSUME Counted, UNCHANGED vars PROVE Counted'
    <3>1. Placed'
      BY <2>2, Zenon DEF Counted, Placed, Keeps, vars, queueVars
    <3>2. WakeupsCounted => WakeupsCounted'
      <4>1. UNCHANGED <<wchan, wake_sema, defer_waiters, waddrs, pc, td, timed, crashed>>
        BY <2>2, Zenon DEF vars, queueVars, threadVars, localVars
      <4>2. UNCHANGED <<cancel_pending, cancel_enable>>
        BY <2>2, Zenon DEF vars, threadVars, cancelVars
      <4>3. ASSUME NEW u \in Threads, OneWakeup(u) PROVE OneWakeup(u)'
        BY <4>1, <4>3, ZenonT(30) DEF OneWakeup, OwesOnce, Owes, Due
      <4> QED BY <4>1, <4>2, <4>3, Zenon DEF WakeupsCounted
    <3> QED BY <2>2, <3>1, <3>2, Zenon DEF Counted
  <2> QED BY <2>1, <2>2, Zenon
<1> QED BY <1>1, <1>2, InductiveInvariant, PTL DEF Spec

\* While waits do not time out and nobody disables cancellation, the wait loop
\* of PthreadCond::Wait does not reach UNREACHABLE(): a thread whose token did
\* not come with its removal from the queue has been cancelled.
THEOREM OnlyTimeoutsReachUnreachable == Spec => []UnreachableNeedsTimeout
<1>1. Counted => UnreachableNeedsTimeout
  BY Zenon DEF Counted, WakeupsCounted, UnreachableNeedsTimeout
<1> QED BY <1>1, CountingInvariant, PTL

\* The condition variables implement the monitor: whatever the interleaving of
\* Wait, Signal, Broadcast, timeouts and cancellations, releasing the mutex and
\* starting to wait are one step to every other thread, a signal that finds
\* nobody misses nobody, and a wait ends with the mutex as deep as it was.
THEOREM MonitorImplemented == Spec => ImplementsMonitor
<1>1. Init => DepthOK
  BY SMTT(30) DEF Init, DepthOK, Waiting
<1>2. IInv /\ DepthOK /\ [Next]_vars => DepthOK' /\ [Mon!Next]_(Mon!vars)
  <2>1. ASSUME IInv, DepthOK, Next PROVE DepthOK' /\ [Mon!Next]_(Mon!vars)
    <3>1. PICK t \in Threads : Step(t) \/ Call(t)
      BY <2>1, Zenon DEF Next
    <3> QED BY <2>1, <3>1, DepthStep, MonitorStep, Zenon DEF Mon!vars
  <2>2. ASSUME DepthOK, UNCHANGED vars PROVE DepthOK' /\ UNCHANGED Mon!vars
    <3>1. UNCHANGED <<m_owner, m_count, sq_blocked, pc, cvp, mp, recurse, unheard>>
      BY <2>2, Zenon DEF vars, mutexVars, queueVars, localVars
    <3>2. Silent
      BY <3>1, Zenon DEF Silent, SameWaits, SameWait, SameQueues, SameQueue
    <3>3. DepthOK'
      BY <2>2, <3>1, Zenon DEF DepthOK
    <3> QED BY <3>1, <3>2, <3>3, ResumeKept, WaitersSame, WaitersKept, Zenon DEF Silent, SameQueues, Mon!vars
  <2> QED BY <2>1, <2>2, Zenon
<1> QED BY <1>1, <1>2, MonitorInit, InductiveInvariant, PTL DEF Spec, ImplementsMonitor, Mon!Spec
-----------------------------------------------------------------------------
INSTANCE FiniteSetTheorems

\* One home is one place.
LEMMA PlacedConserved == IInv /\ Placed => SleepQueuesConserved
<1> SUFFICES ASSUME IInv, Placed, NEW q \in Threads PROVE Cardinality(Homes(q)) = 1
  BY ZenonT(30) DEF SleepQueuesConserved
<1>1. PICK h : Homes(q) = {h}
  BY OneHome, ZenonT(30)
<1> QED BY <1>1, FS_Singleton, ZenonT(30)

\* No SleepQueue is lost or in two places, whichever way and in whichever order
\* its threads leave the queues.
THEOREM SleepQueuesKept == Spec => []SleepQueuesConserved
<1>1. IInv /\ Counted => SleepQueuesConserved
  BY PlacedConserved, Zenon DEF Counted
<1> QED BY <1>1, InductiveInvariant, CountingInvariant, PTL
=============================================================================
