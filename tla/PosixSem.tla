------------------------------ MODULE PosixSem ------------------------------
(***************************************************************************)
(* posix_sem_* of src/src/core/libraries/kernel/threads/semaphore.cpp for  *)
(* one semaphore: a host counting semaphore that callers sleep on and an   *)
(* atomic value that getvalue reports and post checks for overflow.  The   *)
(* two are changed one after the other, with no lock.                      *)
(***************************************************************************)
EXTENDS GuestThreads, Integers, FiniteSets

CONSTANTS
    Initial,    \* the value given to posix_sem_init
    Max         \* ORBIS_KERNEL_SEM_VALUE_MAX

ASSUME PosixSemAssumption == IsFiniteSet(Threads) /\ Max \in Nat /\ Initial \in 0..Max

VARIABLES
    value,      \* PthreadSem::value
    semaphore,  \* the count of PthreadSem::semaphore
    current     \* the local of post

semVars == <<value, semaphore, pc, current>>
-----------------------------------------------------------------------------
SemWait(t) ==
    /\ pc[t] = "idle"
    /\ Goto(t, "acquire")
    /\ UNCHANGED <<value, semaphore, current>>

\* semaphore.acquire(), of wait
Acquire(t) ==
    /\ pc[t] = "acquire" /\ semaphore > 0
    /\ semaphore' = semaphore - 1
    /\ Goto(t, "decrement")
    /\ UNCHANGED <<value, current>>

\* trywait, and timedwait before its deadline; a failure changes nothing.
TryWait(t) ==
    /\ pc[t] = "idle" /\ semaphore > 0
    /\ semaphore' = semaphore - 1
    /\ Goto(t, "decrement")
    /\ UNCHANGED <<value, current>>

Decrement(t) ==
    /\ pc[t] = "decrement"
    /\ value' = value - 1
    /\ Goto(t, "idle")
    /\ UNCHANGED <<semaphore, current>>
-----------------------------------------------------------------------------
Post(t) ==
    /\ pc[t] = "idle"
    /\ current' = [current EXCEPT ![t] = value]
    /\ Goto(t, "post")
    /\ UNCHANGED <<value, semaphore>>

\* EOVERFLOW
PostOverflow(t) ==
    /\ pc[t] = "post" /\ current[t] = Max
    /\ Goto(t, "idle")
    /\ current' = [current EXCEPT ![t] = 0]
    /\ UNCHANGED <<value, semaphore>>

\* As PostExchange, but the increment does not compare.
PostExchange_Add(t) ==
    /\ pc[t] = "post" /\ current[t] # Max
    /\ value' = value + 1
    /\ current' = [current EXCEPT ![t] = 0]
    /\ Goto(t, "release")
    /\ UNCHANGED semaphore

\* compare_exchange_weak; a failure, even a spurious one, loads the value again.
PostExchange(t) ==
    /\ pc[t] = "post" /\ current[t] # Max
    /\ \/ /\ value = current[t]
          /\ value' = current[t] + 1
          /\ current' = [current EXCEPT ![t] = 0]
          /\ Goto(t, "release")
       \/ /\ current' = [current EXCEPT ![t] = value]
          /\ UNCHANGED <<value, pc>>
    /\ UNCHANGED semaphore

\* As Release, but the token is lost.
Release_Lost(t) ==
    /\ pc[t] = "release"
    /\ Goto(t, "idle")
    /\ UNCHANGED <<value, semaphore, current>>

Release(t) ==
    /\ pc[t] = "release"
    /\ semaphore' = semaphore + 1
    /\ Goto(t, "idle")
    /\ UNCHANGED <<value, current>>
-----------------------------------------------------------------------------
SemInit ==
    /\ value = Initial /\ semaphore = Initial
    /\ pc = [t \in Threads |-> "idle"]
    /\ current = [t \in Threads |-> 0]

SemStep(t) == Acquire(t) \/ Decrement(t) \/ PostOverflow(t) \/ PostExchange(t) \/ Release(t)
SemNext == \E t \in Threads : SemWait(t) \/ TryWait(t) \/ Post(t) \/ SemStep(t)
SemSpec == SemInit /\ [][SemNext]_semVars
-----------------------------------------------------------------------------
(* Properties                                                              *)

\* getvalue never reports a negative number or one above the maximum, and the count
\* of the host semaphore stays within what it can represent, however many posts race
\* at the maximum.
CountersInRange == value \in 0..Max /\ semaphore \in 0..Max

\* Types of the counters and of the calls.
SemTypeOK ==
    /\ CountersInRange
    /\ pc \in [Threads -> {"idle", "acquire", "decrement", "post", "release"}]
    /\ current \in [Threads -> 0..Max]

\* The calls between their change of one counter and their change of the other.
Between == {t \in Threads : pc[t] \in {"release", "decrement"}}

\* value runs ahead of the host count by exactly the posts that have not released
\* yet and the waits that have not counted themselves yet: no token is lost or made.
TokensConserved == value = semaphore + Cardinality(Between)
=============================================================================
