----------------------------- MODULE EventFlag -----------------------------
(***************************************************************************)
(* The kernel event flag, class EventFlagInternal of                       *)
(* src/src/core/libraries/kernel/threads/event_flag.cpp: a set of bits     *)
(* that threads set, clear, wait for and cancel waits on.                  *)
(*                                                                         *)
(* m_mutex is held from one step's start to its end, so no variable stands *)
(* for it.  A wait on m_cond_var gives it up; so does every turn of the    *)
(* loops that sleep ten microseconds until m_status or m_waiting_threads   *)
(* has the value they are after.                                           *)
(***************************************************************************)
EXTENDS GuestThreads, Integers, FiniteSets

CONSTANTS
    Bits,      \* the bits of the flag in use
    Timed      \* the threads whose waits have a timeout; a poll is one of zero

ASSUME EventFlagAssumption == IsFiniteSet(Threads) /\ Timed \subseteq Threads

VARIABLES
    m_thread_mode, m_bits, m_status, m_waiting_threads,
    deleted,
    request,   \* arguments of the Wait a thread is in
    owed       \* ghost: waiters the Cancel in progress found and that still wait

vars == <<m_thread_mode, m_bits, m_status, m_waiting_threads, deleted, pc, request, owed>>

Requests == [bits : (SUBSET Bits) \ {{}}, wait_mode : {"And", "Or"}, clear_mode : {"None", "All", "Bits"}]
NoRequest == [bits |-> {}, wait_mode |-> "And", clear_mode |-> "None"]

InWait(t) == pc[t] \in {"sleeping", "notified"}

\* m_cond_var.notify_all()
NotifyAll(t, label) ==
    pc' = [x \in Threads |-> IF x = t THEN label
                             ELSE IF pc[x] = "sleeping" THEN "notified" ELSE pc[x]]
-----------------------------------------------------------------------------
\* The bits are what the request asks for.
Satisfied(r) == IF r.wait_mode = "And" THEN r.bits \subseteq m_bits ELSE r.bits \cap m_bits # {}

\* waitFunc, the predicate of the wait on m_cond_var.  m_status is never set
\* to Deleted.
WaitFunc(r) == m_status = "Canceled" \/ Satisfied(r)

\* What Wait does to the bits once waitFunc holds: nothing if it was cancelled.
Consume(r) ==
    m_bits' = IF m_status = "Canceled" \/ r.clear_mode = "None" THEN m_bits
              ELSE IF r.clear_mode = "All" THEN {} ELSE m_bits \ r.bits

(* Wait up to where it blocks.  A second waiter is turned away in Single   *)
(* mode (EPERM, nothing changes); if waitFunc holds at once it returns     *)
(* without giving up the mutex.                                            *)
Wait(t, r) ==
    /\ pc[t] = "idle" /\ ~deleted
    /\ ~(m_thread_mode = "Single" /\ m_waiting_threads > 0)
    /\ IF WaitFunc(r)
       THEN Consume(r) /\ UNCHANGED <<pc, request, m_waiting_threads>>
       ELSE /\ m_waiting_threads' = m_waiting_threads + 1
            /\ request' = [request EXCEPT ![t] = r]
            /\ Goto(t, "sleeping")
            /\ UNCHANGED m_bits
    /\ UNCHANGED <<m_thread_mode, m_status, deleted, owed>>

\* As WaitDone, but a cancelled wait forgets to count itself out.
WaitDone_KeepCount(t) ==
    /\ InWait(t) /\ (pc[t] = "notified" \/ t \in Timed)
    /\ WaitFunc(request[t])
    /\ Consume(request[t])
    /\ m_waiting_threads' = IF m_status = "Canceled" THEN m_waiting_threads ELSE m_waiting_threads - 1
    /\ owed' = IF m_status = "Canceled" THEN owed \ {t} ELSE owed
    /\ request' = [request EXCEPT ![t] = NoRequest]
    /\ Goto(t, "idle")
    /\ UNCHANGED <<m_thread_mode, m_status, deleted>>

\* A waiter wakes up, notified or at its deadline, and waitFunc holds.
WaitDone(t) ==
    /\ InWait(t) /\ (pc[t] = "notified" \/ t \in Timed)
    /\ WaitFunc(request[t])
    /\ Consume(request[t])
    /\ m_waiting_threads' = m_waiting_threads - 1
    /\ owed' = IF m_status = "Canceled" THEN owed \ {t} ELSE owed
    /\ request' = [request EXCEPT ![t] = NoRequest]
    /\ Goto(t, "idle")
    /\ UNCHANGED <<m_thread_mode, m_status, deleted>>

\* It was notified (or woke for no reason) and waitFunc does not hold.
WaitAgain(t) ==
    /\ pc[t] = "notified" /\ ~WaitFunc(request[t])
    /\ Goto(t, "sleeping")
    /\ UNCHANGED <<m_thread_mode, m_bits, m_status, m_waiting_threads, deleted, request, owed>>

\* The deadline passed and waitFunc does not hold: ETIMEDOUT (EBUSY for a poll).
WaitTimeout(t) ==
    /\ InWait(t) /\ t \in Timed /\ ~WaitFunc(request[t])
    /\ m_waiting_threads' = m_waiting_threads - 1
    /\ request' = [request EXCEPT ![t] = NoRequest]
    /\ Goto(t, "idle")
    /\ UNCHANGED <<m_thread_mode, m_bits, m_status, deleted, owed>>
-----------------------------------------------------------------------------
\* As Set, but only one waiter is notified.
Set_NotifyOne(t, bits) ==
    /\ pc[t] = "idle" /\ ~deleted /\ m_status = "Set"
    /\ m_bits' = m_bits \cup bits
    /\ IF \E x \in Threads : pc[x] = "sleeping"
       THEN \E x \in Threads : pc[x] = "sleeping" /\ Goto(x, "notified")
       ELSE UNCHANGED pc
    /\ UNCHANGED <<m_thread_mode, m_status, m_waiting_threads, deleted, request, owed>>

(* Set and Clear; while a Cancel is in progress they sleep and try again.  *)
Set(t, bits) ==
    /\ pc[t] = "idle" /\ ~deleted /\ m_status = "Set"
    /\ m_bits' = m_bits \cup bits
    /\ NotifyAll(t, "idle")
    /\ UNCHANGED <<m_thread_mode, m_status, m_waiting_threads, deleted, request, owed>>

Clear(t, bits) ==
    /\ pc[t] = "idle" /\ ~deleted /\ m_status = "Set"
    /\ m_bits' = m_bits \cap bits
    /\ UNCHANGED <<m_thread_mode, m_status, m_waiting_threads, deleted, pc, request, owed>>

(* Cancel: once no other Cancel is in progress it marks the flag and then  *)
(* waits, its mutex dropped in between, until every waiter has left.       *)
Cancel(t, setPattern) ==
    /\ pc[t] = "idle" /\ ~deleted /\ m_status = "Set"
    /\ m_status' = "Canceled"
    /\ m_bits' = setPattern
    /\ owed' = {x \in Threads : InWait(x)}
    /\ NotifyAll(t, "canceling")
    /\ UNCHANGED <<m_thread_mode, m_waiting_threads, deleted, request>>

\* As CancelDone, but it does not wait for the waiters.
CancelDone_NoWait(t) ==
    /\ pc[t] = "canceling"
    /\ m_status' = "Set"
    /\ Goto(t, "idle")
    /\ UNCHANGED <<m_thread_mode, m_bits, m_waiting_threads, deleted, request, owed>>

\* As CancelDone, but it waits for one waiter too many.
CancelDone_OffByOne(t) ==
    /\ pc[t] = "canceling" /\ m_waiting_threads < 0
    /\ m_status' = "Set"
    /\ Goto(t, "idle")
    /\ UNCHANGED <<m_thread_mode, m_bits, m_waiting_threads, deleted, request, owed>>

CancelDone(t) ==
    /\ pc[t] = "canceling" /\ m_waiting_threads <= 0
    /\ m_status' = "Set"
    /\ Goto(t, "idle")
    /\ UNCHANGED <<m_thread_mode, m_bits, m_waiting_threads, deleted, request, owed>>

(* sceKernelDeleteEventFlag deletes the object; the caller has to know     *)
(* that nobody uses it.                                                    *)
Delete(t) ==
    /\ ~deleted /\ \A x \in Threads : pc[x] = "idle"
    /\ deleted' = TRUE
    /\ UNCHANGED <<m_thread_mode, m_bits, m_status, m_waiting_threads, pc, request, owed>>
-----------------------------------------------------------------------------
\* sceKernelCreateEventFlag
Init ==
    /\ m_thread_mode \in {"Single", "Multi"}
    /\ m_bits \in SUBSET Bits
    /\ m_status = "Set" /\ m_waiting_threads = 0 /\ deleted = FALSE
    /\ pc = [t \in Threads |-> "idle"]
    /\ request = [t \in Threads |-> NoRequest]
    /\ owed = {}

Step(t) == WaitDone(t) \/ WaitAgain(t) \/ WaitTimeout(t) \/ CancelDone(t)

Call(t) ==
    \/ \E r \in Requests : Wait(t, r)
    \/ \E bits \in SUBSET Bits : Set(t, bits) \/ Clear(t, bits) \/ Cancel(t, bits)
    \/ Delete(t)

Next == \E t \in Threads : Step(t) \/ Call(t)

Spec == Init /\ [][Next]_vars
-----------------------------------------------------------------------------
(* Properties                                                              *)

\* Types of the event flag's fields and of the calls.
TypeOK ==
    /\ m_thread_mode \in {"Single", "Multi"}
    /\ m_bits \in SUBSET Bits
    /\ m_status \in {"Set", "Canceled"}
    /\ m_waiting_threads \in Nat
    /\ deleted \in BOOLEAN
    /\ pc \in [Threads -> {"idle", "sleeping", "notified", "canceling"}]
    /\ request \in [Threads -> Requests \cup {NoRequest}]
    /\ owed \in SUBSET Threads

Waiters == {t \in Threads : InWait(t)}

\* m_waiting_threads, which Cancel waits for and reports and Single mode tests,
\* is the number of threads inside Wait, whichever way waits end.
WaitersCounted == m_waiting_threads = Cardinality(Waiters)

\* A flag created with ATTR_SINGLE never has two threads in Wait.
SingleWaiter ==
    m_thread_mode = "Single" => \A t, u \in Threads : InWait(t) /\ InWait(u) => t = u

\* Every thread that waited when Cancel began leaves Wait with ECANCELED before
\* Cancel ends, also if its timeout runs out or its bits arrive meanwhile.
CancelReachesAll == owed \subseteq Waiters /\ (m_status = "Set" => owed = {})

\* One Cancel at a time: the status is Canceled exactly while one thread is
\* between marking the flag and resetting it.
OneCancel ==
    /\ m_status = "Canceled" <=> \E t \in Threads : pc[t] = "canceling"
    /\ \A t, u \in Threads : pc[t] = "canceling" /\ pc[u] = "canceling" => t = u

\* A thread asleep on m_cond_var that no notification is on its way to has
\* nothing to wake up for: Set and Cancel notify every thread whose waitFunc
\* they make true.
SleepersUnsatisfied == \A t \in Threads : pc[t] = "sleeping" => ~WaitFunc(request[t])

\* A Cancel that has begun ends: its waiters leave, and new calls of Wait do
\* not keep m_waiting_threads above zero.
CancelReturns == \A t \in Threads : pc[t] = "canceling" ~> pc[t] = "idle"
=============================================================================
