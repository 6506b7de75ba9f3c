------------------------------- MODULE MCSync -------------------------------
(* Guest threads that call a POSIX semaphore, a once control or an event   *)
(* flag.  The three have no state in common, so the threads of a behaviour *)
(* all call the same object and the others stay as they were created.      *)
(* Except for "idle" the labels of the three are distinct, so the steps of *)
(* one are disabled while another is called.  Only FlagThreads call the    *)
(* event flag, whose state space is the largest.                           *)
(* Liveness is checked, so there is no symmetry.                           *)
EXTENDS PosixSem, PthreadOnce, EventFlag

CONSTANT FlagThreads

VARIABLE object

sem  == <<value, semaphore, current>>
once == <<state, local, runs>>
flag == <<m_thread_mode, m_bits, m_status, m_waiting_threads, deleted, request, owed>>

SyncInit ==
    /\ SemInit /\ OnceInit /\ Init
    /\ object \in {"sem", "once", "flag"}
    /\ object # "flag" => m_thread_mode = "Multi" /\ m_bits = {}

SyncNext ==
    /\ \/ object = "sem"  /\ SemNext  /\ UNCHANGED <<once, flag>>
       \/ object = "once" /\ OnceNext /\ UNCHANGED <<sem, flag>>
       \/ /\ object = "flag" /\ UNCHANGED <<sem, once>>
          /\ \E t \in FlagThreads : Step(t) \/ Call(t)
    /\ UNCHANGED object

syncVars == <<sem, once, flag, pc, object>>

\* The host runs every thread that is inside a call of the once control or of the
\* event flag: init_routine returns unless it is cancelled, and timeouts run out.
SyncFairness ==
    \A t \in Threads :
        WF_syncVars(\/ OnceStep(t) /\ UNCHANGED <<sem, flag, object>>
                    \/ Step(t) /\ UNCHANGED <<sem, once, object>>)

SyncSpec == SyncInit /\ [][SyncNext]_syncVars /\ SyncFairness
=============================================================================
