-------------------------- MODULE CondvarMonitor --------------------------
(***************************************************************************)
(* The condition variables of module Condvar implement the monitor of      *)
(* module Monitor.                                                         *)
(***************************************************************************)
EXTENDS Condvar

\* The threads a signal may pick: from the moment they hold the chain lock of
\* SleepqAdd, and none once a broadcast has taken the queue.
Waiters(c) ==
    IF \E t \in Threads : pc[t] \in {"drop", "dropflush", "dropwaddrs"} /\ cvp[t] = c
    THEN {}
    ELSE {t \in Threads : In(t, sq_blocked[c]) \/ (pc[t] = "enqueue" /\ cvp[t] = c)}

waiters == [c \in Conds |-> Waiters(c)]

\* What a thread inside Wait will get back.
resume == [t \in Threads |-> IF pc[t] \in Waiting THEN <<mp[t], recurse[t]>> ELSE <<>>]

Mon == INSTANCE Monitor WITH owner <- m_owner, depth <- m_count

\* Every step of the code is a step of the monitor or invisible to it: giving
\* up the mutex and starting to wait are one step to every other thread, no
\* signal misses a waiter, and a wait returns with the mutex and its depth.
ImplementsMonitor == Mon!Spec
=============================================================================
