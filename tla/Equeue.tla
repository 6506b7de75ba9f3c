------------------------------- MODULE Equeue -------------------------------
(***************************************************************************)
(* One event queue of src/src/core/libraries/kernel/equeue.cpp: waiters on *)
(* m_cond, the events with their triggers and timers, and the small timers *)
(* waiters spin for.  A step is one critical section of m_mutex.  The      *)
(* threads that add, remove and trigger events are the environment; timer  *)
(* callbacks run one at a time on KernelServiceThread (kernel.cpp), which  *)
(* sleeps when io_context has nothing to do.  Time is abstracted: an armed *)
(* timer may expire, and a deadline pass, at any moment.  The vector       *)
(* m_events is the set of its events and the order it has them in.         *)
(***************************************************************************)
EXTENDS Integers, FiniteSets

CONSTANTS
    Waiters,       \* threads that call sceKernelWaitEqueue
    Pollers,       \* those of them that call it with a zero timeout too
    Edge, Level,   \* user events with and without the Clear flag
    Timer,         \* periodic timer events
    HrTimer,       \* one-shot timer events
    Small,         \* high-resolution timers short enough to spin for
    Num,           \* how many events a waiter asks for
    MaxCalls,      \* bound: calls of the guest and expiries of timers
    MaxOwed,       \* bound: triggers whose notify_one is still to come
    None

Ids == Edge \cup Level \cup Timer \cup HrTimer
Timed == Timer \cup HrTimer

ASSUME EqueueAssumption ==
    /\ IsFiniteSet(Ids) /\ IsFiniteSet(Waiters) /\ Pollers \subseteq Waiters
    /\ Edge \cap Level = {} /\ Timer \cap HrTimer = {} /\ (Edge \cup Level) \cap Timed = {}
    /\ Num \in Nat \ {0} /\ MaxCalls \in Nat /\ MaxOwed \in Nat
    /\ None \notin Ids

VARIABLES
    m_events,        \* the events of the vector
    before,          \* <<x, y>>: the vector has x before y
    is_triggered, data,
    m_small_timers,  \* what each small timer is: "none", "set" or "due"
    timer,           \* each steady_timer: "none", "armed", "ready" (expired) or "idle"
    adding,          \* events between AddEvent's insertion and its ScheduleEvent
    callback,        \* <<step, event>> of the callback that runs
    late,            \* completed waits of timers removed meanwhile
    service,         \* where KernelServiceThread is
    asio_requests,   \* whether the counter is not zero
    owed,            \* notify_one calls still to come
    pc, timo,        \* of each waiter
    seen, copy,      \* the events a poll has copied, and their data then
    fired, handed,   \* ghosts: occurrences since the event was added
    raced,           \* ghost: events a poll cleared in another state than it copied
    calls

events == <<m_events, before, is_triggered, data>>
timers == <<timer, adding, callback, late>>
server == <<service, asio_requests>>
locals == <<pc, timo, seen, copy>>
ghosts == <<fired, handed, raced>>
vars == <<events, m_small_timers, timers, server, owed, locals, ghosts, calls>>

Nothing == [e \in Ids |-> 0]
Clears(e) == e \notin Level
OneShot(e) == e \in HrTimer
-----------------------------------------------------------------------------
(* GetTriggeredEvents goes through the vector and hands out the first Num  *)
(* triggered events: a set of that size with no other of them before it.   *)
Ready == {e \in m_events : is_triggered[e]}
Batches ==
    {batch \in SUBSET Ready :
        /\ Cardinality(batch) = (IF Cardinality(Ready) > Num THEN Num ELSE Cardinality(Ready))
        /\ \A e \in batch, x \in Ready \ batch : <<e, x>> \in before}

Erase(gone) ==
    /\ m_events' = m_events \ gone
    /\ before' = {pair \in before : pair[1] \notin gone /\ pair[2] \notin gone}

(* The timers of erased events are destroyed; a completed wait stays. *)
DropTimers(erased) ==
    /\ timer' = [e \in Ids |-> IF e \in erased THEN "none" ELSE timer[e]]
    /\ late' = late \cup {e \in erased : timer[e] = "ready"}

\* As GetTriggeredEvents, but the count of occurrences goes on.
GetTriggeredEvents_KeepData(taken, values) ==
    /\ is_triggered' = [e \in Ids |-> is_triggered[e] /\ ~(e \in taken /\ Clears(e))]
    /\ Erase({e \in taken : OneShot(e)})
    /\ DropTimers({e \in taken \cap m_events : OneShot(e)})
    /\ handed' = [e \in Ids |-> IF e \in taken /\ Clears(e)
                                THEN handed[e] + (IF e \in Timer THEN values[e] ELSE 1) ELSE handed[e]]
    /\ UNCHANGED data

(* What the events taken leave behind.  values: event.data as it is handed *)
(* out.                                                                    *)
GetTriggeredEvents(taken, values) ==
    /\ is_triggered' = [e \in Ids |-> is_triggered[e] /\ ~(e \in taken /\ Clears(e))]
    /\ data' = [e \in Ids |-> IF e \in taken /\ Clears(e) THEN 0 ELSE data[e]]
    /\ Erase({e \in taken : OneShot(e)})
    /\ DropTimers({e \in taken \cap m_events : OneShot(e)})
    /\ handed' = [e \in Ids |-> IF e \in taken /\ Clears(e)
                                THEN handed[e] + (IF e \in Timer THEN values[e] ELSE 1) ELSE handed[e]]
-----------------------------------------------------------------------------
Return(w) ==
    /\ pc' = [pc EXCEPT ![w] = "idle"]
    /\ timo' = [timo EXCEPT ![w] = FALSE]
    /\ seen' = [seen EXCEPT ![w] = {}]
    /\ copy' = [copy EXCEPT ![w] = Nothing]

(* WaitForEvents up to its look at the small timers *)
Wait(w, deadline) ==
    /\ pc[w] = "idle"
    /\ timo' = [timo EXCEPT ![w] = deadline]
    /\ pc' = [pc EXCEPT ![w] = IF \E s \in Small : m_small_timers[s] # "none"
                               THEN "spin" ELSE "look"]
    /\ UNCHANGED <<events, m_small_timers, timers, server, owed, seen, copy, ghosts>>

\* As Look, but a waiter that was notified sleeps on.
Look_NotWoken(w) ==
    /\ pc[w] \in {"look", "expired"}
    /\ \E taken \in Batches : GetTriggeredEvents(taken, data)
    /\ IF Ready = {} /\ pc[w] # "expired"
       THEN pc' = [pc EXCEPT ![w] = "sleep"] /\ UNCHANGED <<timo, seen, copy>>
       ELSE Return(w)
    /\ UNCHANGED <<m_small_timers, adding, callback, server, owed, fired, raced>>

(* The predicate of the condition variable, on entry and after a wakeup    *)
Look(w) ==
    /\ pc[w] \in {"look", "woken", "expired"}
    /\ \E taken \in Batches : GetTriggeredEvents(taken, data)
    /\ IF Ready = {} /\ pc[w] # "expired"
       THEN pc' = [pc EXCEPT ![w] = "sleep"] /\ UNCHANGED <<timo, seen, copy>>
       ELSE Return(w)
    /\ UNCHANGED <<m_small_timers, adding, callback, server, owed, fired, raced>>

Expire(w) ==
    /\ pc[w] \in {"sleep", "woken"} /\ timo[w]
    /\ pc' = [pc EXCEPT ![w] = "expired"]
    /\ UNCHANGED <<events, m_small_timers, timers, server, owed, timo, seen, copy, ghosts>>

(* WaitForSmallTimer, one round *)
Spin(w) ==
    LET due == {s \in Small : m_small_timers[s] = "due"} IN
    /\ pc[w] = "spin"
    /\ \/ /\ due # {}
          /\ \E took \in SUBSET due :
                /\ Cardinality(took) = (IF Cardinality(due) > Num THEN Num ELSE Cardinality(due))
                /\ m_small_timers' = [s \in Small |-> IF s \in took THEN "none" ELSE m_small_timers[s]]
          /\ Return(w)
       \/ due = {} /\ timo[w] /\ UNCHANGED m_small_timers /\ Return(w)
    /\ UNCHANGED <<events, timers, server, owed, ghosts>>

(* A zero timeout: GetTriggeredEvents without the mutex, so another thread *)
(* may come between what the poll copies and what it clears.               *)
PollCopy(w) ==
    /\ pc[w] = "idle" /\ w \in Pollers
    /\ Ready # {}
    /\ \E taken \in Batches : seen' = [seen EXCEPT ![w] = taken]
    /\ copy' = [copy EXCEPT ![w] = data]
    /\ pc' = [pc EXCEPT ![w] = "poll"]
    /\ UNCHANGED <<events, m_small_timers, timers, server, owed, timo, ghosts>>

PollClear(w) ==
    /\ pc[w] = "poll"
    /\ GetTriggeredEvents(seen[w], copy[w])
    /\ Return(w)
    /\ raced' = raced \cup {e \in seen[w] : e \notin m_events \/ ~is_triggered[e] \/ data[e] # copy[w][e]}
    /\ UNCHANGED <<m_small_timers, adding, callback, server, owed, fired>>
-----------------------------------------------------------------------------

(* AddEvent for an event that is not there (for one that is only udata and *)
(* the interval change).  One thread at a time adds a given event.         *)
AddEvent(e) ==
    /\ e \notin m_events /\ e \notin adding
    /\ m_events' = m_events \cup {e}
    /\ before' = before \cup (m_events \X {e})
    /\ is_triggered' = [is_triggered EXCEPT ![e] = FALSE]
    /\ data' = [data EXCEPT ![e] = 0]
    /\ fired' = [fired EXCEPT ![e] = 0]
    /\ handed' = [handed EXCEPT ![e] = 0]
    /\ raced' = raced \ {e}
    /\ adding' = IF e \in Timed THEN adding \cup {e} ELSE adding
    /\ UNCHANGED <<m_small_timers, timer, callback, late, server, owed, locals>>

\* As ScheduleEvent, but a timer that exists is not waited for again.
ScheduleEvent_OnlyNew(e) ==
    /\ timer' = [timer EXCEPT ![e] = IF e \in m_events /\ @ = "none" THEN "armed" ELSE @]
    /\ late' = late
    /\ asio_requests' = (asio_requests \/ e \in m_events)
    /\ UNCHANGED service

(* ScheduleEvent: setting the expiry of an existing timer cancels a wait   *)
(* that is pending; a wait that has completed still calls back.  The       *)
(* service thread is told (KernelSignalRequest).                           *)
ScheduleEvent(e) ==
    /\ timer' = [timer EXCEPT ![e] = IF e \in m_events THEN "armed" ELSE @]
    /\ late' = IF e \in m_events /\ timer[e] = "ready" THEN late \cup {e} ELSE late
    /\ asio_requests' = (asio_requests \/ e \in m_events)
    /\ UNCHANGED service

AddSchedule(e) ==
    /\ e \in adding
    /\ ScheduleEvent(e)
    /\ adding' = adding \ {e}
    /\ UNCHANGED <<events, m_small_timers, callback, owed, locals, ghosts>>

(* sceKernelDeleteHRTimerEvent calls it when it saw no small timer.        *)
RemoveEvent(e) ==
    /\ e \in m_events
    /\ Erase({e})
    /\ DropTimers({e})
    /\ UNCHANGED <<is_triggered, data, m_small_timers, adding, callback, server, owed, locals, ghosts>>

(* Trigger, TriggerUser and TriggerTimer under the mutex *)
Mark(e) ==
    IF e \in m_events
    THEN /\ is_triggered' = [is_triggered EXCEPT ![e] = TRUE]
         /\ data' = [data EXCEPT ![e] = IF e \in Timed THEN @ + 1 ELSE @]
         /\ fired' = [fired EXCEPT ![e] = @ + 1]
    ELSE UNCHANGED <<is_triggered, data, fired>>

\* As TriggerEvent, but a trigger that found the event set does not notify.
TriggerEvent_Once(e) ==
    /\ e \in Edge \cup Level /\ owed < MaxOwed
    /\ Mark(e)
    /\ owed' = owed + (IF \E x \in m_events : is_triggered[x] THEN 0 ELSE 1)
    /\ UNCHANGED <<m_events, before, m_small_timers, timers, server, locals, handed, raced>>

TriggerEvent(e) ==
    /\ e \in Edge \cup Level /\ owed < MaxOwed
    /\ Mark(e)
    /\ owed' = owed + 1
    /\ UNCHANGED <<m_events, before, m_small_timers, timers, server, locals, handed, raced>>

NotifyOne ==
    /\ owed > 0
    /\ owed' = owed - 1
    /\ IF \E w \in Waiters : pc[w] = "sleep"
       THEN \E w \in Waiters : pc[w] = "sleep" /\ pc' = [pc EXCEPT ![w] = "woken"]
       ELSE UNCHANGED pc
    /\ UNCHANGED <<events, m_small_timers, timers, server, timo, seen, copy, ghosts>>
-----------------------------------------------------------------------------
TimerExpires(e) ==
    /\ timer[e] = "armed"
    /\ timer' = [timer EXCEPT ![e] = "ready"]
    /\ UNCHANGED <<events, m_small_timers, adding, callback, late, server, owed, locals, ghosts>>

(* The completion handler of async_wait starts: HrTimerCallback triggers   *)
(* at once, TimerCallback asks whether the event exists first.             *)
CallbackBegin(e) ==
    /\ service = "run" /\ callback = <<"none", None>>
    /\ \/ timer[e] = "ready" /\ timer' = [timer EXCEPT ![e] = "idle"] /\ UNCHANGED late
       \/ e \in late /\ late' = late \ {e} /\ UNCHANGED timer
    /\ callback' = IF e \in HrTimer \/ e \in m_events THEN <<"trigger", e>> ELSE <<"none", None>>
    /\ UNCHANGED <<events, m_small_timers, adding, server, owed, locals, ghosts>>

CallbackTrigger(e) ==
    /\ callback = <<"trigger", e>> /\ owed < MaxOwed
    /\ Mark(e)
    /\ owed' = owed + 1
    /\ callback' = IF e \in Timer THEN <<"schedule", e>> ELSE <<"none", None>>
    /\ UNCHANGED <<m_events, before, m_small_timers, timer, adding, late, server, locals, handed, raced>>

CallbackSchedule(e) ==
    /\ callback = <<"schedule", e>>
    /\ ScheduleEvent(e)
    /\ callback' = <<"none", None>>
    /\ UNCHANGED <<events, m_small_timers, adding, owed, locals, ghosts>>
-----------------------------------------------------------------------------
AddSmallTimer(s) ==
    /\ m_small_timers' = [m_small_timers EXCEPT ![s] = "set"]
    /\ UNCHANGED <<events, timers, server, owed, locals, ghosts>>

SmallTimerDue(s) ==
    /\ m_small_timers[s] = "set"
    /\ m_small_timers' = [m_small_timers EXCEPT ![s] = "due"]
    /\ UNCHANGED <<events, timers, server, owed, locals, ghosts>>

RemoveSmallTimer(s) ==
    /\ m_small_timers[s] # "none"
    /\ m_small_timers' = [m_small_timers EXCEPT ![s] = "none"]
    /\ UNCHANGED <<events, timers, server, owed, locals, ghosts>>
-----------------------------------------------------------------------------
(* KernelServiceThread: the wait for a request, io_context.run() until     *)
(* there is no wait left, restart(), and the reset of the counter.         *)
ServiceWake ==
    /\ service = "wait" /\ asio_requests
    /\ service' = "run"
    /\ UNCHANGED <<events, m_small_timers, timers, asio_requests, owed, locals, ghosts>>

RunReturns ==
    /\ service = "run" /\ callback = <<"none", None>> /\ late = {}
    /\ \A e \in Ids : timer[e] \notin {"armed", "ready"}
    /\ service' = "reset"
    /\ UNCHANGED <<events, m_small_timers, timers, asio_requests, owed, locals, ghosts>>

ServiceReset ==
    /\ service = "reset"
    /\ asio_requests' = FALSE
    /\ service' = "wait"
    /\ UNCHANGED <<events, m_small_timers, timers, owed, locals, ghosts>>
-----------------------------------------------------------------------------
Init ==
    /\ m_events = {} /\ before = {}
    /\ is_triggered = [e \in Ids |-> FALSE] /\ data = Nothing
    /\ m_small_timers = [s \in Small |-> "none"]
    /\ timer = [e \in Ids |-> "none"]
    /\ adding = {} /\ callback = <<"none", None>> /\ late = {}
    /\ service = "wait" /\ asio_requests = FALSE
    /\ owed = 0
    /\ pc = [w \in Waiters |-> "idle"]
    /\ timo = [w \in Waiters |-> FALSE]
    /\ seen = [w \in Waiters |-> {}] /\ copy = [w \in Waiters |-> Nothing]
    /\ fired = Nothing /\ handed = Nothing /\ raced = {}
    /\ calls = 0

Waiter(w) == Look(w) \/ Spin(w) \/ PollClear(w)
Io == \/ \E e \in Timed : CallbackBegin(e) \/ CallbackTrigger(e) \/ CallbackSchedule(e)
      \/ ServiceWake \/ RunReturns \/ ServiceReset
Adder == \E e \in Timed : AddSchedule(e)
Clock ==
    \/ \E w \in Waiters : Expire(w)
    \/ \E s \in Small : SmallTimerDue(s)
Guest ==
    \/ \E w \in Waiters : PollCopy(w) \/ \E deadline \in BOOLEAN : Wait(w, deadline)
    \/ \E e \in Ids : AddEvent(e) \/ RemoveEvent(e) \/ TriggerEvent(e)
    \/ \E s \in Small : AddSmallTimer(s) \/ RemoveSmallTimer(s)
    \/ \E e \in Timed : TimerExpires(e)

Next ==
    \/ ((\E w \in Waiters : Waiter(w)) \/ NotifyOne \/ Io \/ Adder \/ Clock) /\ UNCHANGED calls
    \/ calls < MaxCalls /\ calls' = calls + 1 /\ Guest

Spec == Init /\ [][Next]_vars

\* The host runs the waiters, whoever is in TriggerEvent or AddEvent, and the
\* service thread.  The guest need do nothing.
LiveSpec ==
    /\ Spec
    /\ \A w \in Waiters : WF_vars(Waiter(w) /\ UNCHANGED calls)
    /\ WF_vars(NotifyOne /\ UNCHANGED calls)
    /\ WF_vars(Io /\ UNCHANGED calls)
    /\ WF_vars(Adder /\ UNCHANGED calls)
-----------------------------------------------------------------------------
(* Properties                                                              *)

\* The vector has its events in one order, although AddEvent, RemoveEvent and
\* GetTriggeredEvents change it separately.
InOrder ==
    /\ before \subseteq m_events \X m_events
    /\ \A x, y \in m_events : <<x, y>> \in before <=> (x # y /\ <<y, x>> \notin before)
    /\ \A x, y, z \in m_events : <<x, y>> \in before /\ <<y, z>> \in before => <<x, z>> \in before

\* Types
TypeOK ==
    /\ m_events \subseteq Ids /\ InOrder
    /\ is_triggered \in [Ids -> BOOLEAN] /\ data \in [Ids -> Nat]
    /\ m_small_timers \in [Small -> {"none", "set", "due"}]
    /\ timer \in [Ids -> {"none", "armed", "ready", "idle"}]
    /\ \A e \in Ids \ Timed : timer[e] = "none"
    /\ adding \subseteq Timed /\ late \subseteq Timed
    /\ callback \in {<<"none", None>>} \cup ({"trigger"} \X Timed) \cup ({"schedule"} \X Timer)
    /\ service \in {"wait", "run", "reset"} /\ asio_requests \in BOOLEAN
    /\ owed \in 0..MaxOwed
    /\ pc \in [Waiters -> {"idle", "look", "sleep", "woken", "expired", "spin", "poll"}]
    /\ timo \in [Waiters -> BOOLEAN]
    /\ seen \in [Waiters -> SUBSET Ids] /\ copy \in [Waiters -> [Ids -> Nat]]
    /\ fired \in [Ids -> Nat] /\ handed \in [Ids -> Nat] /\ raced \subseteq Ids

\* While an event that clears itself is triggered nobody sleeps on in WaitForEvents
\* unless a notification is on its way or another waiter is about to look: notify_one
\* is enough.  It is while a waiter asks for more events than there are level-triggered
\* ones; otherwise those can fill what a waiter takes, and its notification is spent.
NotifyOneSuffices ==
    (\E w \in Waiters : pc[w] = "sleep") /\ (\E e \in m_events : is_triggered[e] /\ Clears(e)) =>
        owed > 0 \/ \E w \in Waiters : pc[w] \in {"look", "woken", "expired"}

\* The occurrences a periodic timer event reports add up: what waiters were handed
\* and what event.data still counts are all the expiries since it was added.  Only a
\* poll, which does not take the mutex, can spoil the sum.
OccurrencesAddUp == \A e \in (Timer \cap m_events) \ raced : handed[e] + data[e] = fired[e]

\* An event that clears itself is handed out at most once per trigger, unless a poll
\* raced with another waiter for it.
HandedOnce == \A e \in (Edge \cup HrTimer) \ raced : handed[e] <= fired[e]

\* The vector keeps its events in one order, and GetTriggeredEvents hands out every
\* expiry of a periodic timer and no trigger twice.
DeliveriesOK == TypeOK /\ OccurrencesAddUp /\ HandedOnce

\* A periodic timer in the queue is armed, or the callback or AddEvent that will arm
\* it is under way, although TimerCallback looks, triggers and schedules in three
\* critical sections.
PeriodicStaysArmed ==
    \A e \in Timer \cap m_events :
        timer[e] \in {"armed", "ready"} \/ e \in adding \/ callback[2] = e

\* A waiter that sleeps gets up, or another one takes the event, when an event that
\* clears itself is triggered.
TriggerIsTaken ==
    \A w \in Waiters, e \in Edge :
        (pc[w] = "sleep" /\ e \in m_events /\ is_triggered[e])
            ~> (pc[w] # "sleep" \/ e \notin m_events \/ ~is_triggered[e])

\* A callback scheduled for a timer event runs once the timer has expired.
ExpiryIsServed == \A e \in Timed : timer[e] = "ready" ~> timer[e] # "ready"
=============================================================================
