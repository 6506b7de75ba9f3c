------------------------------- MODULE Rwlock -------------------------------
(***************************************************************************)
(* pthread_rwlock_*: PthreadRwlock in                                      *)
(* src/src/core/libraries/kernel/threads/rwlock.cpp on top of              *)
(* src/src/common/shared_first_mutex.h, for one rwlock variable that       *)
(* starts as PTHREAD_RWLOCK_INITIALIZER.                                   *)
(*                                                                         *)
(* Each method of SharedFirstMutex runs under its mtx and is one step; its *)
(* cv.wait gives mtx up.  The owner field is written outside of it.        *)
(***************************************************************************)
EXTENDS Integers, FiniteSets

CONSTANTS
    Threads,   \* guest threads
    Timed,     \* the threads that use the timed calls
    MaxReads,  \* bound: read locks one thread holds at a time
    None

ASSUME RwlockAssumption ==
    /\ IsFiniteSet(Threads) /\ None \notin Threads
    /\ Timed \subseteq Threads /\ MaxReads \in Nat \ {0}

VARIABLES
    rwlock,         \* *rwlock: "null", "destroyed" or "object"
    readers, writer_active,   \* SharedFirstMutex
    owner,          \* PthreadRwlock::owner
    rdlock_count,   \* of each Pthread
    pc,
    op,             \* the call a thread is in: "rd", "wr", or None
    reads           \* ghost: read locks each thread was given and has not returned

lockVars == <<readers, writer_active>>
vars == <<rwlock, lockVars, owner, rdlock_count, pc, op, reads>>

Goto(t, label) == pc' = [pc EXCEPT ![t] = label]
-----------------------------------------------------------------------------
(* CHECK_AND_INIT_RWLOCK: *rwlock is read without a lock, the static       *)
(* initialiser looks again under RwlockStaticLock.                         *)
Call(t, kind) ==
    /\ pc[t] = "idle" /\ rwlock # "destroyed"
    /\ kind = "rd" => reads[t] < MaxReads
    /\ kind = "wr" => reads[t] = 0
    /\ op' = [op EXCEPT ![t] = kind]
    /\ Goto(t, IF rwlock = "null" THEN "init" ELSE "lock")
    /\ UNCHANGED <<rwlock, lockVars, owner, rdlock_count, reads>>

InitStatic(t) ==
    /\ pc[t] = "init"
    /\ IF rwlock = "null"
       THEN /\ rwlock' = "object"
            /\ readers' = 0 /\ writer_active' = FALSE /\ owner' = None
       ELSE UNCHANGED <<rwlock, lockVars, owner>>
    /\ Goto(t, "lock")
    /\ UNCHANGED <<rdlock_count, op, reads>>

\* pthread_rwlock_init of a variable nobody uses.
RwlockInit(t) ==
    /\ rwlock # "object" /\ \A x \in Threads : pc[x] = "idle"
    /\ rwlock' = "object"
    /\ readers' = 0 /\ writer_active' = FALSE /\ owner' = None
    /\ UNCHANGED <<rdlock_count, pc, op, reads>>

\* pthread_rwlock_destroy, which asks nobody; the caller has to know that the
\* lock is not in use.
Destroy(t) ==
    /\ rwlock = "object" /\ \A x \in Threads : pc[x] = "idle" /\ reads[x] = 0
    /\ rwlock' = "destroyed"
    /\ UNCHANGED <<lockVars, owner, rdlock_count, pc, op, reads>>
-----------------------------------------------------------------------------
\* try_lock, lock and try_lock_until get in when nobody is inside.
WriteFree == ~writer_active /\ readers = 0
ReadFree == ~writer_active

\* As LockShared, but blind to a writer.
LockShared_Barge(t) ==
    /\ op[t] = "rd" /\ pc[t] \in {"lock", "waiting", "notified"}
    /\ pc[t] = "waiting" => t \in Timed
    /\ readers' = readers + 1
    /\ rdlock_count' = [rdlock_count EXCEPT ![t] = @ + 1]
    /\ reads' = [reads EXCEPT ![t] = @ + 1]
    /\ op' = [op EXCEPT ![t] = None] /\ Goto(t, "idle")
    /\ UNCHANGED <<rwlock, writer_active, owner>>

\* As LockShared, but a reader lets the writers that wait go first.
LockShared_WriterFirst(t) ==
    /\ op[t] = "rd" /\ pc[t] \in {"lock", "waiting", "notified"}
    /\ pc[t] = "waiting" => t \in Timed
    /\ ReadFree /\ \A x \in Threads : op[x] = "wr" => pc[x] \notin {"waiting", "notified"}
    /\ readers' = readers + 1
    /\ rdlock_count' = [rdlock_count EXCEPT ![t] = @ + 1]
    /\ reads' = [reads EXCEPT ![t] = @ + 1]
    /\ op' = [op EXCEPT ![t] = None] /\ Goto(t, "idle")
    /\ UNCHANGED <<rwlock, writer_active, owner>>

(* Rdlock: at once, or after a wait that was notified or reached its       *)
(* deadline and finds the lock free.                                       *)
LockShared(t) ==
    /\ op[t] = "rd" /\ pc[t] \in {"lock", "waiting", "notified"}
    /\ pc[t] = "waiting" => t \in Timed
    /\ ReadFree
    /\ readers' = readers + 1
    /\ rdlock_count' = [rdlock_count EXCEPT ![t] = @ + 1]
    /\ reads' = [reads EXCEPT ![t] = @ + 1]
    /\ op' = [op EXCEPT ![t] = None] /\ Goto(t, "idle")
    /\ UNCHANGED <<rwlock, writer_active, owner>>

(* Wrlock; the thread is the owner only one step later.                    *)
Lock(t) ==
    /\ op[t] = "wr" /\ pc[t] \in {"lock", "waiting", "notified"}
    /\ pc[t] = "waiting" => t \in Timed
    /\ WriteFree
    /\ writer_active' = TRUE
    /\ Goto(t, "own")
    /\ UNCHANGED <<rwlock, readers, owner, rdlock_count, op, reads>>

SetOwner(t) ==
    /\ pc[t] = "own"
    /\ owner' = t
    /\ op' = [op EXCEPT ![t] = None] /\ Goto(t, "writing")
    /\ UNCHANGED <<rwlock, lockVars, rdlock_count, reads>>

Free(t) == IF op[t] = "rd" THEN ReadFree ELSE WriteFree

\* cv.wait finds its predicate false.
Block(t) ==
    /\ pc[t] \in {"lock", "notified"} /\ ~Free(t)
    /\ Goto(t, "waiting")
    /\ UNCHANGED <<rwlock, lockVars, owner, rdlock_count, op, reads>>

\* EBUSY of the try calls, EINVAL for an invalid time, ETIMEDOUT.
GiveUp(t) ==
    /\ \/ pc[t] = "lock"
       \/ pc[t] \in {"waiting", "notified"} /\ t \in Timed
    /\ ~Free(t)
    /\ op' = [op EXCEPT ![t] = None] /\ Goto(t, "idle")
    /\ UNCHANGED <<rwlock, lockVars, owner, rdlock_count, reads>>
-----------------------------------------------------------------------------
\* cv.notify_all()
NotifyAll(t, label) ==
    pc' = [x \in Threads |-> IF x = t THEN label
                             ELSE IF pc[x] = "waiting" THEN "notified" ELSE pc[x]]

\* As UnlockWrite, but the owner stays.
UnlockWrite_KeepOwner(t) ==
    /\ pc[t] = "writing" /\ owner = t
    /\ Goto(t, "unlock")
    /\ UNCHANGED <<rwlock, lockVars, owner, rdlock_count, op, reads>>

(* pthread_rwlock_unlock takes the write path if the caller is the owner.  *)
UnlockWrite(t) ==
    /\ pc[t] = "writing" /\ owner = t
    /\ owner' = None
    /\ Goto(t, "unlock")
    /\ UNCHANGED <<rwlock, lockVars, rdlock_count, op, reads>>

Unlock(t) ==
    /\ pc[t] = "unlock"
    /\ writer_active' = FALSE
    /\ NotifyAll(t, "idle")
    /\ UNCHANGED <<rwlock, readers, owner, rdlock_count, op, reads>>

\* As UnlockRead, but without notify_all().
UnlockRead_NoNotify(t) ==
    /\ pc[t] = "idle" /\ rwlock = "object" /\ owner # t /\ reads[t] > 0
    /\ rdlock_count' = [rdlock_count EXCEPT ![t] = IF owner = None THEN @ - 1 ELSE @]
    /\ readers' = readers - 1
    /\ reads' = [reads EXCEPT ![t] = @ - 1]
    /\ UNCHANGED <<pc, rwlock, writer_active, owner, op>>

UnlockRead(t) ==
    /\ pc[t] = "idle" /\ rwlock = "object" /\ owner # t /\ reads[t] > 0
    /\ rdlock_count' = [rdlock_count EXCEPT ![t] = IF owner = None THEN @ - 1 ELSE @]
    /\ readers' = readers - 1
    /\ IF readers' = 0 THEN NotifyAll(t, "idle") ELSE UNCHANGED pc
    /\ reads' = [reads EXCEPT ![t] = @ - 1]
    /\ UNCHANGED <<rwlock, writer_active, owner, op>>
-----------------------------------------------------------------------------
Init ==
    /\ rwlock = "null" /\ readers = 0 /\ writer_active = FALSE /\ owner = None
    /\ rdlock_count = [t \in Threads |-> 0]
    /\ pc = [t \in Threads |-> "idle"]
    /\ op = [t \in Threads |-> None]
    /\ reads = [t \in Threads |-> 0]

Step(t) ==
    \/ InitStatic(t) \/ LockShared(t) \/ Lock(t) \/ SetOwner(t) \/ Block(t) \/ GiveUp(t) \/ Unlock(t)

Next == \E t \in Threads :
    \/ Step(t) \/ (\E kind \in {"rd", "wr"} : Call(t, kind)) \/ RwlockInit(t) \/ Destroy(t)
    \/ UnlockWrite(t) \/ UnlockRead(t)

Spec == Init /\ [][Next]_vars

\* The host runs every thread that is in a call and can go on.  Holders need not
\* let go of the lock, and nothing says which of the woken threads gets mtx first.
LiveSpec == Spec /\ \A t \in Threads : WF_vars(Step(t))
-----------------------------------------------------------------------------
(* Properties                                                              *)

\* Types of the lock's fields and of the calls.
TypeOK ==
    /\ rwlock \in {"null", "object", "destroyed"}
    /\ readers \in Nat /\ writer_active \in BOOLEAN
    /\ owner \in Threads \cup {None}
    /\ rdlock_count \in [Threads -> Nat] /\ reads \in [Threads -> Nat]
    /\ pc \in [Threads -> {"idle", "init", "lock", "waiting", "notified", "own", "writing", "unlock"}]
    /\ op \in [Threads -> {"rd", "wr", None}]

Inside(t) == pc[t] \in {"own", "writing", "unlock"}

\* One writer, or readers, never both: also across the static initialisation
\* that several first users race through.
Exclusion ==
    /\ \A t, u \in Threads : Inside(t) /\ Inside(u) => t = u
    /\ \A t, u \in Threads : Inside(t) => reads[u] = 0

\* pthread_rwlock_unlock decides by the owner field, which is written without
\* the lock's own mutex: a thread that has a read lock always finds another or
\* no owner and the lock open to readers, and the writer finds itself.
UnlockTakesRightPath ==
    \A t \in Threads :
        /\ reads[t] > 0 => owner = None /\ ~writer_active
        /\ pc[t] = "writing" => owner = t /\ writer_active
        /\ owner = t => pc[t] = "writing"

\* Every thread's rdlock_count is the number of read locks it holds.
ReadCountsExact == rdlock_count = reads

\* The fields unlock decides and counts with are right although they are written
\* outside of the lock's mutex: the owner, and the counts of read locks.
OwnershipOK == TypeOK /\ UnlockTakesRightPath /\ ReadCountsExact

\* A thread asleep with no notification on its way cannot have the lock.
SleepersLockedOut == \A t \in Threads : pc[t] = "waiting" => ~Free(t)

\* "reader has priority over writer" (shared_first_mutex.h:12): once no writer holds
\* the lock any more, every thread that asks for a read lock gets it, also if other
\* readers keep theirs and writers wait for them.
ReaderHasPriority ==
    <>[]~writer_active => \A t \in Threads : op[t] = "rd" ~> op[t] # "rd"
=============================================================================
