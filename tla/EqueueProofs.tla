---------------------------- MODULE EqueueProofs ----------------------------
(***************************************************************************)
(* Proofs about one event queue, for any sets of waiters and events and    *)
(* any number of events a waiter asks for: what GetTriggeredEvents hands   *)
(* out, that periodic timers stay armed, and when one notify_one per       *)
(* trigger is enough.                                                      *)
(***************************************************************************)
EXTENDS Equeue, TLAPS

\* HandedOnce, and room for one more delivery while the event is triggered.
Once ==
    \A e \in (Edge \cup HrTimer) \ raced :
        /\ handed[e] <= fired[e]
        /\ e \in Ready => handed[e] + 1 <= fired[e]

\* The inductive invariant.
IInv == TypeOK /\ OccurrencesAddUp /\ Once /\ PeriodicStaysArmed
-----------------------------------------------------------------------------
\* Erasing events keeps the others in order.
LEMMA EraseOrder ==
    ASSUME InOrder, NEW gone, Erase(gone)
    PROVE  InOrder'
<1>1. /\ \A x, y \in m_events' : x \in m_events /\ y \in m_events
      /\ \A x, y \in m_events' : <<x, y>> \in before' <=> <<x, y>> \in before
  BY DEF Erase
<1>2. before' \subseteq m_events' \X m_events'
  <2> SUFFICES ASSUME NEW pair \in before' PROVE pair \in m_events' \X m_events'
    OBVIOUS
  <2>1. pair \in m_events \X m_events /\ pair[1] \notin gone /\ pair[2] \notin gone
    BY DEF Erase, InOrder
  <2> QED BY <2>1 DEF Erase
<1>3. \A x, y \in m_events' : <<x, y>> \in before' <=> (x # y /\ <<y, x>> \notin before')
  BY <1>1 DEF InOrder
<1>4. \A x, y, z \in m_events' : <<x, y>> \in before' /\ <<y, z>> \in before' => <<x, z>> \in before'
  BY <1>1 DEF InOrder
<1> QED BY <1>2, <1>3, <1>4 DEF InOrder

\* emplace_back puts the new event after all others.
LEMMA AddOrder ==
    ASSUME InOrder, NEW e, e \notin m_events,
           m_events' = m_events \cup {e}, before' = before \cup (m_events \X {e})
    PROVE  InOrder'
<1>1. \A x, y \in m_events' : <<x, y>> \in before' <=> \/ x \in m_events /\ y \in m_events /\ <<x, y>> \in before
                                                       \/ x \in m_events /\ y = e
  BY DEF InOrder
<1>2. before' \subseteq m_events' \X m_events'
  BY DEF InOrder
<1>3. \A x, y \in m_events' : <<x, y>> \in before' <=> (x # y /\ <<y, x>> \notin before')
  BY <1>1 DEF InOrder
<1>4. \A x, y, z \in m_events' : <<x, y>> \in before' /\ <<y, z>> \in before' => <<x, z>> \in before'
  BY <1>1 DEF InOrder
<1> QED BY <1>2, <1>3, <1>4 DEF InOrder
-----------------------------------------------------------------------------
\* What GetTriggeredEvents leaves of the queue and its timers.
LEMMA TakeTypes ==
    ASSUME TypeOK, NEW taken \in SUBSET Ids, NEW values \in [Ids -> Nat], GetTriggeredEvents(taken, values)
    PROVE  /\ m_events' \subseteq m_events /\ InOrder'
           /\ is_triggered' \in [Ids -> BOOLEAN] /\ data' \in [Ids -> Nat]
           /\ timer' \in [Ids -> {"none", "armed", "ready", "idle"}] /\ late' \subseteq Timed
           /\ \A e \in Ids \ Timed : timer'[e] = "none"
           /\ handed' \in [Ids -> Nat]
<1>1. m_events' \subseteq m_events /\ InOrder'
  <2>1. Erase({e \in taken : OneShot(e)})
    BY DEF GetTriggeredEvents
  <2> QED BY <2>1, EraseOrder DEF TypeOK, Erase
<1>2. is_triggered' \in [Ids -> BOOLEAN] /\ data' \in [Ids -> Nat]
  BY DEF TypeOK, GetTriggeredEvents
<1>3. /\ timer' \in [Ids -> {"none", "armed", "ready", "idle"}] /\ late' \subseteq Timed
      /\ \A e \in Ids \ Timed : timer'[e] = "none"
  BY DEF TypeOK, GetTriggeredEvents, DropTimers, OneShot, Timed
<1>4. handed' \in [Ids -> Nat]
  <2>1. \A e \in Ids : handed[e] + (IF e \in Timer THEN values[e] ELSE 1) \in Nat /\ handed[e] \in Nat
    BY DEF TypeOK
  <2> QED BY <2>1 DEF GetTriggeredEvents
<1> QED BY <1>1, <1>2, <1>3, <1>4

\* GetTriggeredEvents hands out each trigger once, and all the occurrences event.data
\* counts, for the events that are as they were when they were copied.
LEMMA TakeDelivers ==
    ASSUME TypeOK, OccurrencesAddUp, Once,
           NEW taken \in SUBSET Ids, NEW values \in [Ids -> Nat], GetTriggeredEvents(taken, values),
           raced \subseteq raced', fired' = fired,
           \A e \in taken \ raced' : e \in Ready /\ data[e] = values[e]
    PROVE  OccurrencesAddUp' /\ Once'
<1>1. OccurrencesAddUp'
  <2> SUFFICES ASSUME NEW e \in (Timer \cap m_events') \ raced'
               PROVE  handed'[e] + data'[e] = fired[e]
    BY DEF OccurrencesAddUp
  <2>1. e \in Ids /\ e \in m_events /\ e \notin raced /\ Clears(e)
    BY TakeTypes, EqueueAssumption DEF Ids, Timed, Clears, EqueueAssumption
  <2>2. handed[e] + data[e] = fired[e] /\ handed[e] \in Nat /\ data[e] \in Nat /\ fired[e] \in Nat
    BY <2>1 DEF OccurrencesAddUp, TypeOK
  <2>3. CASE e \in taken
    <3>1. handed'[e] = handed[e] + values[e] /\ data'[e] = 0 /\ data[e] = values[e]
      BY <2>1, <2>3 DEF GetTriggeredEvents
    <3> QED BY <2>2, <3>1
  <2>4. CASE e \notin taken
    BY <2>1, <2>2, <2>4 DEF GetTriggeredEvents
  <2> QED BY <2>3, <2>4
<1>2. Once'
  <2> SUFFICES ASSUME NEW e \in (Edge \cup HrTimer) \ raced'
               PROVE  handed'[e] <= fired[e] /\ (e \in Ready' => handed'[e] + 1 <= fired[e])
    BY DEF Once
  <2>1. e \in Ids /\ e \notin raced /\ e \notin Timer /\ Clears(e)
    BY EqueueAssumption DEF Ids, Timed, Clears, EqueueAssumption
  <2>2. /\ handed[e] <= fired[e] /\ (e \in Ready => handed[e] + 1 <= fired[e])
        /\ handed[e] \in Nat /\ fired[e] \in Nat
    BY <2>1 DEF Once, TypeOK
  <2>3. CASE e \in taken
    <3>1. handed'[e] = handed[e] + 1 /\ ~is_triggered'[e] /\ e \in Ready
      BY <2>1, <2>3 DEF GetTriggeredEvents
    <3> QED BY <2>2, <3>1 DEF Ready
  <2>4. CASE e \notin taken
    <3>1. handed'[e] = handed[e] /\ (e \in Ready' => e \in Ready)
      BY <2>1, <2>4, TakeTypes DEF GetTriggeredEvents, Ready
    <3> QED BY <2>2, <3>1
  <2> QED BY <2>3, <2>4
<1> QED BY <1>1, <1>2

\* GetTriggeredEvents erases no periodic timer.
LEMMA TakeArmed ==
    ASSUME TypeOK, PeriodicStaysArmed, NEW taken \in SUBSET Ids, NEW values \in [Ids -> Nat],
           GetTriggeredEvents(taken, values), adding' = adding, callback' = callback
    PROVE  PeriodicStaysArmed'
<1> SUFFICES ASSUME NEW e \in Timer \cap m_events'
             PROVE  timer'[e] \in {"armed", "ready"} \/ e \in adding \/ callback[2] = e
  BY DEF PeriodicStaysArmed
<1>1. e \in m_events /\ e \in Ids /\ ~OneShot(e)
  BY TakeTypes, EqueueAssumption DEF Ids, OneShot, EqueueAssumption
<1>2. timer'[e] = timer[e]
  BY <1>1 DEF GetTriggeredEvents, DropTimers
<1> QED BY <1>1, <1>2 DEF PeriodicStaysArmed
-----------------------------------------------------------------------------
\* The order is about the vector alone.
LEMMA OrderFrame == ASSUME InOrder, m_events' = m_events, before' = before PROVE InOrder'
BY DEF InOrder

\* The deliveries are about the events and what was counted of them.
LEMMA DeliversFrame ==
    ASSUME OccurrencesAddUp, Once, m_events' = m_events, is_triggered' = is_triggered, data' = data,
           UNCHANGED <<fired, handed, raced>>
    PROVE  OccurrencesAddUp' /\ Once'
<1>1. OccurrencesAddUp'
  BY DEF OccurrencesAddUp
<1>2. Once'
  BY DEF Once, Ready
<1> QED BY <1>1, <1>2

\* A step that touches no event, no timer and no count.
LEMMA QuietStep ==
    ASSUME IInv, UNCHANGED <<events, timers, ghosts>>, TypeOK'
    PROVE  IInv'
<1>1. OccurrencesAddUp' /\ Once'
  BY DeliversFrame DEF IInv, events, ghosts
<1>2. PeriodicStaysArmed'
  BY DEF IInv, PeriodicStaysArmed, events, timers
<1> QED BY <1>1, <1>2 DEF IInv

\* A batch consists of triggered events.
LEMMA TakenTyped == ASSUME TypeOK, NEW taken \in Batches PROVE taken \in SUBSET Ids /\ taken \subseteq Ready
BY DEF Batches, Ready, TypeOK

\* The locals of a waiter that returns.
LEMMA ReturnTypes ==
    ASSUME TypeOK, NEW w \in Waiters, Return(w)
    PROVE  /\ pc' \in [Waiters -> {"idle", "look", "sleep", "woken", "expired", "spin", "poll"}]
           /\ timo' \in [Waiters -> BOOLEAN]
           /\ seen' \in [Waiters -> SUBSET Ids] /\ copy' \in [Waiters -> [Ids -> Nat]]
<1>1. Nothing \in [Ids -> Nat]
  BY DEF Nothing
<1> QED BY <1>1 DEF TypeOK, Return
-----------------------------------------------------------------------------
\* WaitForEvents begins.
LEMMA WaitStep ==
    ASSUME IInv, NEW w \in Waiters, NEW deadline \in BOOLEAN, Wait(w, deadline)
    PROVE  IInv'
<1>1. UNCHANGED <<events, timers, ghosts>>
  BY DEF Wait
<1>2. InOrder'
  BY <1>1, OrderFrame DEF IInv, TypeOK, events
<1>3. TypeOK'
  BY <1>1, <1>2 DEF IInv, TypeOK, Wait, events, timers, server, locals, ghosts
<1> QED BY <1>1, <1>3, QuietStep

\* A deadline passes.
LEMMA ExpireStep ==
    ASSUME IInv, NEW w \in Waiters, Expire(w)
    PROVE  IInv'
<1>1. UNCHANGED <<events, timers, ghosts>>
  BY DEF Expire
<1>2. InOrder'
  BY <1>1, OrderFrame DEF IInv, TypeOK, events
<1>3. TypeOK'
  BY <1>1, <1>2 DEF IInv, TypeOK, Expire, events, timers, server, locals, ghosts
<1> QED BY <1>1, <1>3, QuietStep

\* A round of WaitForSmallTimer.
LEMMA SpinStep ==
    ASSUME IInv, NEW w \in Waiters, Spin(w)
    PROVE  IInv'
<1>1. UNCHANGED <<events, timers, ghosts>>
  BY DEF Spin
<1>2. InOrder'
  BY <1>1, OrderFrame DEF IInv, TypeOK, events
<1>3. TypeOK'
  <2>1. Return(w) /\ m_small_timers' \in [Small -> {"none", "set", "due"}]
    <3>1. Return(w)
      BY DEF Spin
    <3>2. \/ UNCHANGED m_small_timers
          \/ \E took \in SUBSET Small :
                m_small_timers' = [s \in Small |-> IF s \in took THEN "none" ELSE m_small_timers[s]]
      BY DEF Spin
    <3> QED BY <3>1, <3>2 DEF IInv, TypeOK
  <2>2. UNCHANGED <<events, timers, server, owed, ghosts>>
    BY DEF Spin
  <2>3. /\ pc' \in [Waiters -> {"idle", "look", "sleep", "woken", "expired", "spin", "poll"}]
        /\ timo' \in [Waiters -> BOOLEAN]
        /\ seen' \in [Waiters -> SUBSET Ids] /\ copy' \in [Waiters -> [Ids -> Nat]]
    BY <2>1, ReturnTypes DEF IInv
  <2> QED BY <1>2, <2>1, <2>2, <2>3 DEF IInv, TypeOK, events, timers, server, ghosts
<1> QED BY <1>1, <1>3, QuietStep

\* A poll copies the triggered events.
LEMMA PollCopyStep ==
    ASSUME IInv, NEW w \in Waiters, PollCopy(w)
    PROVE  IInv'
<1>1. UNCHANGED <<events, timers, ghosts>>
  BY DEF PollCopy
<1>2. InOrder'
  BY <1>1, OrderFrame DEF IInv, TypeOK, events
<1>3. TypeOK'
  BY <1>1, <1>2, TakenTyped DEF IInv, TypeOK, PollCopy, events, timers, server, locals, ghosts
<1> QED BY <1>1, <1>3, QuietStep

\* notify_one.
LEMMA NotifyOneStep ==
    ASSUME IInv, NotifyOne
    PROVE  IInv'
<1>1. UNCHANGED <<events, timers, ghosts>>
  BY DEF NotifyOne
<1>2. InOrder'
  BY <1>1, OrderFrame DEF IInv, TypeOK, events
<1>3. TypeOK'
  <2>1. owed' \in 0..MaxOwed
    BY EqueueAssumption DEF IInv, TypeOK, NotifyOne, EqueueAssumption
  <2>2. pc' \in [Waiters -> {"idle", "look", "sleep", "woken", "expired", "spin", "poll"}]
    BY DEF IInv, TypeOK, NotifyOne
  <2>3. UNCHANGED <<events, m_small_timers, timers, server, timo, seen, copy, ghosts>>
    BY DEF NotifyOne
  <2> QED BY <1>2, <2>1, <2>2, <2>3 DEF IInv, TypeOK, events, timers, server, ghosts
<1> QED BY <1>1, <1>3, QuietStep

\* The small timers are apart from the events.
LEMMA AddSmallTimerStep ==
    ASSUME IInv, NEW s \in Small, AddSmallTimer(s)
    PROVE  IInv'
<1>1. UNCHANGED <<events, timers, ghosts>>
  BY DEF AddSmallTimer
<1>2. InOrder'
  BY <1>1, OrderFrame DEF IInv, TypeOK, events
<1>3. TypeOK'
  BY <1>1, <1>2 DEF IInv, TypeOK, AddSmallTimer, events, timers, server, locals, ghosts
<1> QED BY <1>1, <1>3, QuietStep

\* A small timer runs out.
LEMMA SmallTimerDueStep ==
    ASSUME IInv, NEW s \in Small, SmallTimerDue(s)
    PROVE  IInv'
<1>1. UNCHANGED <<events, timers, ghosts>>
  BY DEF SmallTimerDue
<1>2. InOrder'
  BY <1>1, OrderFrame DEF IInv, TypeOK, events
<1>3. TypeOK'
  BY <1>1, <1>2 DEF IInv, TypeOK, SmallTimerDue, events, timers, server, locals, ghosts
<1> QED BY <1>1, <1>3, QuietStep

\* A small timer is deleted.
LEMMA RemoveSmallTimerStep ==
    ASSUME IInv, NEW s \in Small, RemoveSmallTimer(s)
    PROVE  IInv'
<1>1. UNCHANGED <<events, timers, ghosts>>
  BY DEF RemoveSmallTimer
<1>2. InOrder'
  BY <1>1, OrderFrame DEF IInv, TypeOK, events
<1>3. TypeOK'
  BY <1>1, <1>2 DEF IInv, TypeOK, RemoveSmallTimer, events, timers, server, locals, ghosts
<1> QED BY <1>1, <1>3, QuietStep

\* The service thread: it wakes up,
LEMMA ServiceWakeStep ==
    ASSUME IInv, ServiceWake
    PROVE  IInv'
<1>1. UNCHANGED <<events, timers, ghosts>>
  BY DEF ServiceWake
<1>2. InOrder'
  BY <1>1, OrderFrame DEF IInv, TypeOK, events
<1>3. TypeOK'
  BY <1>1, <1>2 DEF IInv, TypeOK, ServiceWake, events, timers, server, locals, ghosts
<1> QED BY <1>1, <1>3, QuietStep

\* io_context.run() returns,
LEMMA RunReturnsStep ==
    ASSUME IInv, RunReturns
    PROVE  IInv'
<1>1. UNCHANGED <<events, timers, ghosts>>
  BY DEF RunReturns
<1>2. InOrder'
  BY <1>1, OrderFrame DEF IInv, TypeOK, events
<1>3. TypeOK'
  BY <1>1, <1>2 DEF IInv, TypeOK, RunReturns, events, timers, server, locals, ghosts
<1> QED BY <1>1, <1>3, QuietStep

\* and the requests are forgotten.
LEMMA ServiceResetStep ==
    ASSUME IInv, ServiceReset
    PROVE  IInv'
<1>1. UNCHANGED <<events, timers, ghosts>>
  BY DEF ServiceReset
<1>2. InOrder'
  BY <1>1, OrderFrame DEF IInv, TypeOK, events
<1>3. TypeOK'
  BY <1>1, <1>2 DEF IInv, TypeOK, ServiceReset, events, timers, server, locals, ghosts
<1> QED BY <1>1, <1>3, QuietStep
-----------------------------------------------------------------------------
\* The predicate of the wait, under the mutex: what is copied is what is cleared.
LEMMA LookStep ==
    ASSUME IInv, NEW w \in Waiters, Look(w)
    PROVE  IInv'
<1>0. TypeOK /\ OccurrencesAddUp /\ Once /\ PeriodicStaysArmed
  BY DEF IInv
<1>1. PICK taken \in Batches : GetTriggeredEvents(taken, data)
  BY DEF Look
<1>2. taken \in SUBSET Ids /\ taken \subseteq Ready /\ data \in [Ids -> Nat]
  BY <1>0, TakenTyped DEF TypeOK
<1>3. UNCHANGED <<m_small_timers, adding, callback, server, owed, fired, raced>>
  BY DEF Look
<1>4. TypeOK'
  <2>1. /\ m_events' \subseteq m_events /\ InOrder'
        /\ is_triggered' \in [Ids -> BOOLEAN] /\ data' \in [Ids -> Nat]
        /\ timer' \in [Ids -> {"none", "armed", "ready", "idle"}] /\ late' \subseteq Timed
        /\ \A e \in Ids \ Timed : timer'[e] = "none"
        /\ handed' \in [Ids -> Nat]
    BY <1>0, <1>1, <1>2, TakeTypes
  <2>2. /\ pc' \in [Waiters -> {"idle", "look", "sleep", "woken", "expired", "spin", "poll"}]
        /\ timo' \in [Waiters -> BOOLEAN]
        /\ seen' \in [Waiters -> SUBSET Ids] /\ copy' \in [Waiters -> [Ids -> Nat]]
    <3>1. CASE Return(w)
      BY <1>0, <3>1, ReturnTypes
    <3>2. CASE pc' = [pc EXCEPT ![w] = "sleep"] /\ UNCHANGED <<timo, seen, copy>>
      BY <1>0, <3>2 DEF TypeOK
    <3> QED BY <3>1, <3>2 DEF Look
  <2> QED BY <1>0, <1>3, <2>1, <2>2 DEF TypeOK, server
<1>5. OccurrencesAddUp' /\ Once'
  BY <1>0, <1>1, <1>2, <1>3, TakeDelivers
<1>6. PeriodicStaysArmed'
  BY <1>0, <1>1, <1>2, <1>3, TakeArmed
<1> QED BY <1>4, <1>5, <1>6 DEF IInv

\* A poll clears the events it copied; those that changed meanwhile have raced.
LEMMA PollClearStep ==
    ASSUME IInv, NEW w \in Waiters, PollClear(w)
    PROVE  IInv'
<1>0. TypeOK /\ OccurrencesAddUp /\ Once /\ PeriodicStaysArmed
  BY DEF IInv
<1>1. GetTriggeredEvents(seen[w], copy[w]) /\ Return(w)
  BY DEF PollClear
<1>2. seen[w] \in SUBSET Ids /\ copy[w] \in [Ids -> Nat]
  BY <1>0 DEF TypeOK
<1>3. /\ UNCHANGED <<m_small_timers, adding, callback, server, owed, fired>>
      /\ raced \subseteq raced' /\ raced' \subseteq Ids
      /\ \A e \in seen[w] \ raced' : e \in Ready /\ data[e] = copy[w][e]
  BY <1>0, <1>2 DEF PollClear, Ready, TypeOK
<1>4. TypeOK'
  <2>1. /\ m_events' \subseteq m_events /\ InOrder'
        /\ is_triggered' \in [Ids -> BOOLEAN] /\ data' \in [Ids -> Nat]
        /\ timer' \in [Ids -> {"none", "armed", "ready", "idle"}] /\ late' \subseteq Timed
        /\ \A e \in Ids \ Timed : timer'[e] = "none"
        /\ handed' \in [Ids -> Nat]
    BY <1>0, <1>1, <1>2, TakeTypes
  <2>2. /\ pc' \in [Waiters -> {"idle", "look", "sleep", "woken", "expired", "spin", "poll"}]
        /\ timo' \in [Waiters -> BOOLEAN]
        /\ seen' \in [Waiters -> SUBSET Ids] /\ copy' \in [Waiters -> [Ids -> Nat]]
    BY <1>0, <1>1, ReturnTypes
  <2> QED BY <1>0, <1>3, <2>1, <2>2 DEF TypeOK, server
<1>5. OccurrencesAddUp' /\ Once'
  BY <1>0, <1>1, <1>2, <1>3, TakeDelivers
<1>6. PeriodicStaysArmed'
  BY <1>0, <1>1, <1>2, <1>3, TakeArmed
<1> QED BY <1>4, <1>5, <1>6 DEF IInv

\* AddEvent starts the counts of its event anew.
LEMMA AddEventStep ==
    ASSUME IInv, NEW e \in Ids, AddEvent(e)
    PROVE  IInv'
<1>0. TypeOK /\ OccurrencesAddUp /\ Once /\ PeriodicStaysArmed
  BY DEF IInv
<1>1. /\ e \notin m_events /\ m_events' = m_events \cup {e}
      /\ is_triggered' = [is_triggered EXCEPT ![e] = FALSE] /\ data' = [data EXCEPT ![e] = 0]
      /\ fired' = [fired EXCEPT ![e] = 0] /\ handed' = [handed EXCEPT ![e] = 0] /\ raced' = raced \ {e}
      /\ adding' = IF e \in Timed THEN adding \cup {e} ELSE adding
      /\ UNCHANGED <<m_small_timers, timer, callback, late, server, owed, locals>>
  BY DEF AddEvent
<1>2. InOrder'
  BY <1>0, AddOrder DEF TypeOK, AddEvent
<1>3. TypeOK'
  BY <1>0, <1>1, <1>2 DEF TypeOK, server, locals
<1>4. OccurrencesAddUp'
  BY <1>0, <1>1 DEF OccurrencesAddUp, TypeOK
<1>5. Once'
  <2> SUFFICES ASSUME NEW x \in (Edge \cup HrTimer) \ raced'
               PROVE  handed'[x] <= fired'[x] /\ (x \in Ready' => handed'[x] + 1 <= fired'[x])
    BY DEF Once
  <2>1. CASE x = e
    BY <1>0, <1>1, <2>1 DEF Ready, TypeOK
  <2>2. CASE x # e
    <3>1. /\ x \in (Edge \cup HrTimer) \ raced /\ (x \in Ready' => x \in Ready)
          /\ handed'[x] = handed[x] /\ fired'[x] = fired[x]
      BY <1>0, <1>1, <2>2 DEF Ready, TypeOK, Ids, Timed
    <3> QED BY <1>0, <3>1 DEF Once
  <2> QED BY <2>1, <2>2
<1>6. PeriodicStaysArmed'
  BY <1>0, <1>1 DEF PeriodicStaysArmed, Timed
<1> QED BY <1>3, <1>4, <1>5, <1>6 DEF IInv

\* RemoveEvent destroys the timer with the event.
LEMMA RemoveEventStep ==
    ASSUME IInv, NEW e \in Ids, RemoveEvent(e)
    PROVE  IInv'
<1>0. TypeOK /\ OccurrencesAddUp /\ Once /\ PeriodicStaysArmed
  BY DEF IInv
<1>1. /\ m_events' = m_events \ {e}
      /\ timer' = [x \in Ids |-> IF x \in {e} THEN "none" ELSE timer[x]]
      /\ late' = late \cup {x \in {e} : timer[x] = "ready"}
      /\ UNCHANGED <<is_triggered, data, m_small_timers, adding, callback, server, owed, locals, ghosts>>
  BY DEF RemoveEvent, Erase, DropTimers
<1>2. InOrder'
  BY <1>0, EraseOrder DEF TypeOK, RemoveEvent
<1>3. TypeOK'
  <2>1. e \in Timed \/ timer[e] = "none"
    BY <1>0 DEF TypeOK
  <2>2. /\ timer' \in [Ids -> {"none", "armed", "ready", "idle"}] /\ late' \subseteq Timed
        /\ \A x \in Ids \ Timed : timer'[x] = "none"
    BY <1>0, <1>1, <2>1 DEF TypeOK
  <2> QED BY <1>0, <1>1, <1>2, <2>2 DEF TypeOK, server, locals, ghosts
<1>4. OccurrencesAddUp' /\ Once'
  BY <1>0, <1>1 DEF OccurrencesAddUp, Once, Ready, ghosts
<1>5. PeriodicStaysArmed'
  BY <1>0, <1>1 DEF PeriodicStaysArmed, Ids, Timed
<1> QED BY <1>3, <1>4, <1>5 DEF IInv

\* Mark counts a trigger of an event that is there.
LEMMA MarkEffect ==
    ASSUME TypeOK, OccurrencesAddUp, Once, NEW e \in Ids, Mark(e),
           m_events' = m_events, handed' = handed, raced' = raced
    PROVE  /\ is_triggered' \in [Ids -> BOOLEAN] /\ data' \in [Ids -> Nat] /\ fired' \in [Ids -> Nat]
           /\ OccurrencesAddUp' /\ Once'
<1>1. CASE e \in m_events
  <2>1. /\ is_triggered' = [is_triggered EXCEPT ![e] = TRUE]
        /\ data' = [data EXCEPT ![e] = IF e \in Timed THEN data[e] + 1 ELSE data[e]]
        /\ fired' = [fired EXCEPT ![e] = fired[e] + 1]
    BY <1>1 DEF Mark
  <2>2. is_triggered' \in [Ids -> BOOLEAN] /\ data' \in [Ids -> Nat] /\ fired' \in [Ids -> Nat]
    BY <2>1 DEF TypeOK
  <2>3. OccurrencesAddUp'
    <3> SUFFICES ASSUME NEW x \in (Timer \cap m_events) \ raced
                 PROVE  handed[x] + data'[x] = fired'[x]
      BY DEF OccurrencesAddUp
    <3>1. /\ handed[x] + data[x] = fired[x] /\ x \in Ids
          /\ handed[x] \in Nat /\ data[x] \in Nat /\ fired[x] \in Nat
      BY DEF OccurrencesAddUp, TypeOK
    <3>2. CASE x = e
      <4>1. data'[x] = data[x] + 1 /\ fired'[x] = fired[x] + 1
        BY <2>1, <3>1, <3>2 DEF TypeOK, Timed
      <4> QED BY <3>1, <4>1
    <3>3. CASE x # e
      BY <2>1, <3>1, <3>3 DEF TypeOK
    <3> QED BY <3>2, <3>3
  <2>4. Once'
    <3> SUFFICES ASSUME NEW x \in (Edge \cup HrTimer) \ raced
                 PROVE  handed[x] <= fired'[x] /\ (x \in Ready' => handed[x] + 1 <= fired'[x])
      BY DEF Once
    <3>1. /\ handed[x] <= fired[x] /\ (x \in Ready => handed[x] + 1 <= fired[x])
          /\ handed[x] \in Nat /\ fired[x] \in Nat /\ x \in Ids
      BY DEF Once, TypeOK, Ids, Timed
    <3>2. CASE x = e
      <4>1. fired'[x] = fired[x] + 1
        BY <2>1, <3>1, <3>2 DEF TypeOK
      <4> QED BY <3>1, <4>1
    <3>3. CASE x # e
      <4>1. fired'[x] = fired[x] /\ (x \in Ready' => x \in Ready)
        BY <2>1, <3>1, <3>3 DEF TypeOK, Ready
      <4> QED BY <3>1, <4>1
    <3> QED BY <3>2, <3>3
  <2> QED BY <2>2, <2>3, <2>4
<1>2. CASE e \notin m_events
  <2>1. UNCHANGED <<is_triggered, data, fired>>
    BY <1>2 DEF Mark
  <2> QED BY <2>1, DeliversFrame DEF TypeOK
<1> QED BY <1>1, <1>2

\* TriggerEvent of a user event.
LEMMA TriggerEventStep ==
    ASSUME IInv, NEW e \in Ids, TriggerEvent(e)
    PROVE  IInv'
<1>0. TypeOK /\ OccurrencesAddUp /\ Once /\ PeriodicStaysArmed
  BY DEF IInv
<1>1. /\ Mark(e) /\ owed < MaxOwed /\ owed' = owed + 1
      /\ UNCHANGED <<m_events, before, m_small_timers, timers, server, locals, handed, raced>>
  BY DEF TriggerEvent
<1>2. /\ is_triggered' \in [Ids -> BOOLEAN] /\ data' \in [Ids -> Nat] /\ fired' \in [Ids -> Nat]
      /\ OccurrencesAddUp' /\ Once'
  BY <1>0, <1>1, MarkEffect
<1>3. InOrder'
  BY <1>0, <1>1, OrderFrame DEF TypeOK
<1>4. owed' \in 0..MaxOwed
  BY <1>0, <1>1, EqueueAssumption DEF TypeOK, EqueueAssumption
<1>5. TypeOK'
  BY <1>0, <1>1, <1>2, <1>3, <1>4 DEF TypeOK, timers, server, locals
<1>6. PeriodicStaysArmed'
  BY <1>0, <1>1 DEF PeriodicStaysArmed, timers
<1> QED BY <1>2, <1>5, <1>6 DEF IInv

\* TriggerEvent of a timer callback; that of a periodic timer goes on to schedule.
LEMMA CallbackTriggerStep ==
    ASSUME IInv, NEW e \in Timed, CallbackTrigger(e)
    PROVE  IInv'
<1>0. TypeOK /\ OccurrencesAddUp /\ Once /\ PeriodicStaysArmed /\ e \in Ids
  BY DEF IInv, Ids, Timed
<1>1. /\ Mark(e) /\ owed < MaxOwed /\ owed' = owed + 1 /\ callback = <<"trigger", e>>
      /\ callback' = IF e \in Timer THEN <<"schedule", e>> ELSE <<"none", None>>
      /\ UNCHANGED <<m_events, before, m_small_timers, timer, adding, late, server, locals, handed, raced>>
  BY DEF CallbackTrigger
<1>2. /\ is_triggered' \in [Ids -> BOOLEAN] /\ data' \in [Ids -> Nat] /\ fired' \in [Ids -> Nat]
      /\ OccurrencesAddUp' /\ Once'
  BY <1>0, <1>1, MarkEffect
<1>3. InOrder'
  BY <1>0, <1>1, OrderFrame DEF TypeOK
<1>4. /\ owed' \in 0..MaxOwed
      /\ callback' \in {<<"none", None>>} \cup ({"trigger"} \X Timed) \cup ({"schedule"} \X Timer)
  BY <1>0, <1>1, EqueueAssumption DEF TypeOK, EqueueAssumption
<1>5. TypeOK'
  BY <1>0, <1>1, <1>2, <1>3, <1>4 DEF TypeOK, server, locals
<1>6. PeriodicStaysArmed'
  <2> SUFFICES ASSUME NEW x \in Timer \cap m_events
               PROVE  timer[x] \in {"armed", "ready"} \/ x \in adding \/ callback'[2] = x
    BY <1>1 DEF PeriodicStaysArmed
  <2>1. callback[2] = x => callback'[2] = x
    BY <1>1
  <2> QED BY <1>0, <2>1 DEF PeriodicStaysArmed
<1> QED BY <1>2, <1>5, <1>6 DEF IInv

\* ScheduleEvent arms the timer of an event that is there.
LEMMA ScheduleEffect ==
    ASSUME TypeOK, NEW e \in Timed, ScheduleEvent(e)
    PROVE  /\ timer' \in [Ids -> {"none", "armed", "ready", "idle"}] /\ late' \subseteq Timed
           /\ \A x \in Ids \ Timed : timer'[x] = "none"
           /\ asio_requests' \in BOOLEAN /\ service' = service
           /\ e \in m_events => timer'[e] = "armed"
           /\ \A x \in Ids \ {e} : timer'[x] = timer[x]
<1>1. /\ timer' = [timer EXCEPT ![e] = IF e \in m_events THEN "armed" ELSE timer[e]]
      /\ late' = IF e \in m_events /\ timer[e] = "ready" THEN late \cup {e} ELSE late
      /\ asio_requests' = (asio_requests \/ e \in m_events) /\ service' = service
  BY DEF ScheduleEvent
<1>2. e \in Ids /\ timer \in [Ids -> {"none", "armed", "ready", "idle"}] /\ timer[e] \in {"none", "armed", "ready", "idle"}
  BY DEF TypeOK, Ids, Timed
<1>3. timer' \in [Ids -> {"none", "armed", "ready", "idle"}]
  BY <1>1, <1>2
<1>4. /\ \A x \in Ids \ Timed : timer'[x] = "none"
      /\ e \in m_events => timer'[e] = "armed"
      /\ \A x \in Ids \ {e} : timer'[x] = timer[x]
  BY <1>1, <1>2 DEF TypeOK
<1>5. late' \subseteq Timed
  BY <1>1 DEF TypeOK
<1>6. asio_requests' \in BOOLEAN /\ service' = service
  BY <1>1
<1> QED BY <1>3, <1>4, <1>5, <1>6

\* AddEvent arms the timer it has added, if it is still there.
LEMMA AddScheduleStep ==
    ASSUME IInv, NEW e \in Timed, AddSchedule(e)
    PROVE  IInv'
<1>0. TypeOK /\ OccurrencesAddUp /\ Once /\ PeriodicStaysArmed
  BY DEF IInv
<1>1. /\ ScheduleEvent(e) /\ adding' = adding \ {e}
      /\ UNCHANGED <<events, m_small_timers, callback, owed, locals, ghosts>>
  BY DEF AddSchedule
<1>2. /\ timer' \in [Ids -> {"none", "armed", "ready", "idle"}] /\ late' \subseteq Timed
      /\ \A x \in Ids \ Timed : timer'[x] = "none"
      /\ asio_requests' \in BOOLEAN /\ service' = service
      /\ e \in m_events => timer'[e] = "armed"
      /\ \A x \in Ids \ {e} : timer'[x] = timer[x]
  BY <1>0, <1>1, ScheduleEffect
<1>3. InOrder'
  BY <1>0, <1>1, OrderFrame DEF TypeOK, events
<1>4. TypeOK'
  BY <1>0, <1>1, <1>2, <1>3 DEF TypeOK, events, locals, ghosts
<1>5. OccurrencesAddUp' /\ Once'
  BY <1>0, <1>1, DeliversFrame DEF events, ghosts
<1>6. PeriodicStaysArmed'
  BY <1>0, <1>1, <1>2 DEF PeriodicStaysArmed, events, Ids, Timed
<1> QED BY <1>4, <1>5, <1>6 DEF IInv

\* TimerCallback arms the timer again, if it is still there.
LEMMA CallbackScheduleStep ==
    ASSUME IInv, NEW e \in Timed, CallbackSchedule(e)
    PROVE  IInv'
<1>0. TypeOK /\ OccurrencesAddUp /\ Once /\ PeriodicStaysArmed
  BY DEF IInv
<1>1. /\ ScheduleEvent(e) /\ callback = <<"schedule", e>> /\ callback' = <<"none", None>>
      /\ UNCHANGED <<events, m_small_timers, adding, owed, locals, ghosts>>
  BY DEF CallbackSchedule
<1>2. /\ timer' \in [Ids -> {"none", "armed", "ready", "idle"}] /\ late' \subseteq Timed
      /\ \A x \in Ids \ Timed : timer'[x] = "none"
      /\ asio_requests' \in BOOLEAN /\ service' = service
      /\ e \in m_events => timer'[e] = "armed"
      /\ \A x \in Ids \ {e} : timer'[x] = timer[x]
  BY <1>0, <1>1, ScheduleEffect
<1>3. InOrder'
  BY <1>0, <1>1, OrderFrame DEF TypeOK, events
<1>4. TypeOK'
  BY <1>0, <1>1, <1>2, <1>3 DEF TypeOK, events, locals, ghosts
<1>5. OccurrencesAddUp' /\ Once'
  BY <1>0, <1>1, DeliversFrame DEF events, ghosts
<1>6. PeriodicStaysArmed'
  <2> SUFFICES ASSUME NEW x \in Timer \cap m_events
               PROVE  timer'[x] \in {"armed", "ready"} \/ x \in adding
    BY <1>1 DEF PeriodicStaysArmed, events
  <2>1. callback[2] = e /\ x \in Ids
    BY <1>1 DEF Ids, Timed
  <2> QED BY <1>0, <1>2, <2>1 DEF PeriodicStaysArmed
<1> QED BY <1>4, <1>5, <1>6 DEF IInv

\* A completed wait calls back; the timer is idle until the callback schedules it.
LEMMA CallbackBeginStep ==
    ASSUME IInv, NEW e \in Timed, CallbackBegin(e)
    PROVE  IInv'
<1>0. TypeOK /\ OccurrencesAddUp /\ Once /\ PeriodicStaysArmed /\ e \in Ids
  BY DEF IInv, Ids, Timed
<1>1. /\ callback = <<"none", None>>
      /\ callback' = IF e \in HrTimer \/ e \in m_events THEN <<"trigger", e>> ELSE <<"none", None>>
      /\ UNCHANGED <<events, m_small_timers, adding, server, owed, locals, ghosts>>
  BY DEF CallbackBegin
<1>2. /\ timer' \in [Ids -> {"none", "armed", "ready", "idle"}] /\ late' \subseteq Timed
      /\ \A x \in Ids \ Timed : timer'[x] = "none"
      /\ \A x \in Ids \ {e} : timer'[x] = timer[x]
  BY <1>0 DEF TypeOK, CallbackBegin
<1>3. InOrder'
  BY <1>0, <1>1, OrderFrame DEF TypeOK, events
<1>4. callback' \in {<<"none", None>>} \cup ({"trigger"} \X Timed) \cup ({"schedule"} \X Timer)
  BY <1>1
<1>5. TypeOK'
  BY <1>0, <1>1, <1>2, <1>3, <1>4 DEF TypeOK, events, server, locals, ghosts
<1>6. OccurrencesAddUp' /\ Once'
  BY <1>0, <1>1, DeliversFrame DEF events, ghosts
<1>7. PeriodicStaysArmed'
  <2> SUFFICES ASSUME NEW x \in Timer \cap m_events
               PROVE  timer'[x] \in {"armed", "ready"} \/ x \in adding \/ callback'[2] = x
    BY <1>1 DEF PeriodicStaysArmed, events
  <2>1. CASE x = e
    BY <1>1, <2>1
  <2>2. CASE x # e
    <3>1. callback[2] # x
      BY <1>0, <1>1, EqueueAssumption DEF TypeOK, EqueueAssumption
    <3> QED BY <1>0, <1>2, <2>2, <3>1 DEF PeriodicStaysArmed, TypeOK
  <2> QED BY <2>1, <2>2
<1> QED BY <1>5, <1>6, <1>7 DEF IInv

\* A timer expires: its wait completes.
LEMMA TimerExpiresStep ==
    ASSUME IInv, NEW e \in Timed, TimerExpires(e)
    PROVE  IInv'
<1>0. TypeOK /\ OccurrencesAddUp /\ Once /\ PeriodicStaysArmed
  BY DEF IInv
<1>1. /\ timer' = [timer EXCEPT ![e] = "ready"]
      /\ UNCHANGED <<events, m_small_timers, adding, callback, late, server, owed, locals, ghosts>>
  BY DEF TimerExpires
<1>2. InOrder'
  BY <1>0, <1>1, OrderFrame DEF TypeOK, events
<1>3. TypeOK'
  BY <1>0, <1>1, <1>2 DEF TypeOK, events, server, locals, ghosts
<1>4. OccurrencesAddUp' /\ Once'
  BY <1>0, <1>1, DeliversFrame DEF events, ghosts
<1>5. PeriodicStaysArmed'
  BY <1>0, <1>1 DEF PeriodicStaysArmed, TypeOK, events
<1> QED BY <1>3, <1>4, <1>5 DEF IInv
-----------------------------------------------------------------------------
\* An empty queue.
LEMMA InitInv == Init => IInv
<1> SUFFICES ASSUME Init PROVE IInv
  OBVIOUS
<1>1. Nothing \in [Ids -> Nat]
  BY DEF Nothing
<1>2. InOrder
  BY DEF Init, InOrder
<1>3. TypeOK
  <2>1. /\ m_events \subseteq Ids
        /\ is_triggered \in [Ids -> BOOLEAN] /\ data \in [Ids -> Nat]
        /\ fired \in [Ids -> Nat] /\ handed \in [Ids -> Nat] /\ raced \subseteq Ids
    BY <1>1 DEF Init
  <2>2. /\ m_small_timers \in [Small -> {"none", "set", "due"}]
        /\ timer \in [Ids -> {"none", "armed", "ready", "idle"}]
        /\ \A e \in Ids \ Timed : timer[e] = "none"
        /\ adding \subseteq Timed /\ late \subseteq Timed /\ callback = <<"none", None>>
    BY DEF Init
  <2>3. service \in {"wait", "run", "reset"} /\ asio_requests \in BOOLEAN
    BY DEF Init
  <2>4. owed \in 0..MaxOwed
    BY EqueueAssumption DEF Init, EqueueAssumption
  <2>5. /\ pc \in [Waiters -> {"idle", "look", "sleep", "woken", "expired", "spin", "poll"}]
        /\ timo \in [Waiters -> BOOLEAN]
        /\ seen \in [Waiters -> SUBSET Ids] /\ copy \in [Waiters -> [Ids -> Nat]]
    BY <1>1 DEF Init
  <2> QED BY <1>2, <2>1, <2>2, <2>3, <2>4, <2>5 DEF TypeOK
<1>4. OccurrencesAddUp /\ PeriodicStaysArmed
  BY DEF Init, OccurrencesAddUp, PeriodicStaysArmed
<1>5. Once
  BY DEF Init, Once, Ready, Nothing, Ids, Timed
<1> QED BY <1>3, <1>4, <1>5 DEF IInv

\* The inductive invariant holds in every reachable state of the queue.
THEOREM InductiveInvariant == Spec => []IInv
<1>1. IInv /\ [Next]_vars => IInv'
  <2> SUFFICES ASSUME IInv, [Next]_vars PROVE IInv'
    OBVIOUS
  <2>1. CASE Next
    <3>1. ASSUME NEW w \in Waiters, Waiter(w) PROVE IInv'
      BY <3>1, LookStep, SpinStep, PollClearStep DEF Waiter
    <3>2. CASE Io
      BY <3>2, CallbackBeginStep, CallbackTriggerStep, CallbackScheduleStep, ServiceWakeStep,
         RunReturnsStep, ServiceResetStep DEF Io
    <3>3. CASE Adder \/ Clock \/ NotifyOne
      BY <3>3, AddScheduleStep, ExpireStep, SmallTimerDueStep, NotifyOneStep DEF Adder, Clock
    <3>4. CASE Guest
      BY <3>4, PollCopyStep, WaitStep, AddEventStep, RemoveEventStep, TriggerEventStep, AddSmallTimerStep,
         RemoveSmallTimerStep, TimerExpiresStep DEF Guest
    <3> QED BY <2>1, <3>1, <3>2, <3>3, <3>4 DEF Next
  <2>2. CASE UNCHANGED vars
    <3>1. InOrder'
      BY <2>2, OrderFrame DEF IInv, TypeOK, vars, events
    <3>2. TypeOK'
      BY <2>2, <3>1 DEF IInv, TypeOK, vars, events, timers, server, locals, ghosts
    <3> QED BY <2>2, <3>2, QuietStep DEF vars
  <2> QED BY <2>1, <2>2
<1> QED BY <1>1, InitInv, PTL DEF Spec

\* The events of the vector stay in one order, every occurrence a periodic timer counts
\* is handed out or still in event.data, and no trigger is handed out twice, except where
\* a poll, which does not take the mutex, has raced for the event.
THEOREM Deliveries == Spec => []DeliveriesOK
<1>1. IInv => DeliveriesOK
  BY DEF IInv, DeliveriesOK, Once, HandedOnce
<1> QED BY <1>1, InductiveInvariant, PTL

\* A periodic timer in the queue is armed, or somebody is about to arm it, although
\* TimerCallback, AddEvent and RemoveEvent each take the mutex several times.
THEOREM Armed == Spec => []PeriodicStaysArmed
<1>1. IInv => PeriodicStaysArmed
  BY DEF IInv
<1> QED BY <1>1, InductiveInvariant, PTL
-----------------------------------------------------------------------------
\* Sets that are counted: used only from here on.
INSTANCE FiniteSetTheorems

\* GetTriggeredEvents has one result: the loop of the code and the set of batches agree.
THEOREM BatchUnique ==
    ASSUME TypeOK, NEW b \in Batches, NEW c \in Batches
    PROVE  b = c
<1>1. /\ b \subseteq Ready /\ c \subseteq Ready /\ Ready \subseteq m_events
      /\ Cardinality(b) = Cardinality(c)
      /\ \A e \in b, x \in Ready \ b : <<e, x>> \in before
      /\ \A e \in c, x \in Ready \ c : <<e, x>> \in before
  BY DEF Batches, Ready
<1>2. IsFiniteSet(Ids)
  BY EqueueAssumption DEF EqueueAssumption
<1>3. IsFiniteSet(b) /\ IsFiniteSet(c)
  BY <1>1, <1>2, FS_Subset DEF TypeOK
<1>4. b \subseteq c \/ c \subseteq b
  <2> SUFFICES ASSUME NEW e \in b, e \notin c, NEW x \in c, x \notin b PROVE FALSE
    OBVIOUS
  <2>1. <<e, x>> \in before /\ <<x, e>> \in before /\ e \in m_events /\ x \in m_events
    BY <1>1
  <2> QED BY <2>1 DEF TypeOK, InOrder
<1> QED BY <1>1, <1>3, <1>4, FS_Subset

\* y is a proper part of x.
Below(y, x) == y \subseteq x /\ y # x

\* Among finitely many sets one has no other below it.
LEMMA LeastSet ==
    ASSUME NEW S, IsFiniteSet(S), NEW F, F \subseteq SUBSET S, F # {}
    PROVE  \E x \in F : \A y \in F : ~Below(y, x)
<1>1. F \subseteq FiniteSubsetsOf(S)
  BY FS_Subset DEF FiniteSubsetsOf
<1>2. IsWellFoundedOn(StrictSubsetOrdering(S), FiniteSubsetsOf(S))
  BY FS_StrictSubsetOrderingWellFounded
<1>3. \E x \in F : \A y \in F : ~(<<y, x>> \in StrictSubsetOrdering(S))
  BY <1>1, <1>2, WFMin
<1> QED BY <1>3 DEF StrictSubsetOrdering, Below

\* GetTriggeredEvents always has a result: its loop finds the first triggered event
\* that it has not taken until it has enough.
THEOREM BatchExists == ASSUME TypeOK PROVE Batches # {}
<1> DEFINE k == IF Cardinality(Ready) > Num THEN Num ELSE Cardinality(Ready)
           Closed(d) == \A e \in d, x \in Ready \ d : <<e, x>> \in before
           Starts == {d \in SUBSET Ready : Cardinality(d) <= k /\ Closed(d)}
           Rests == {Ready \ d : d \in Starts}
<1>1. IsFiniteSet(Ready) /\ Cardinality(Ready) \in Nat /\ Num \in Nat \ {0}
  <2>1. IsFiniteSet(Ids) /\ Num \in Nat \ {0}
    BY EqueueAssumption DEF EqueueAssumption
  <2>2. Ready \in SUBSET Ids
    BY DEF TypeOK, Ready
  <2> QED BY <2>1, <2>2, FS_Subset, FS_CardinalityType
<1>2. k \in Nat /\ k <= Cardinality(Ready)
  BY <1>1
<1>3. {} \in Starts
  BY <1>2, FS_EmptySet
<1>4. PICK d \in Starts : \A c \in Starts : ~Below(Ready \ c, Ready \ d)
  <2>1. Rests \subseteq SUBSET Ready /\ Rests # {}
    BY <1>3
  <2> HIDE DEF Rests
  <2>2. PICK x \in Rests : \A y \in Rests : ~Below(y, x)
    BY <1>1, <2>1, LeastSet
  <2> HIDE DEF Starts
  <2> USE DEF Rests
  <2>3. PICK d \in Starts : x = Ready \ d
    BY <2>2
  <2> QED BY <2>2, <2>3
<1>5. d \in SUBSET Ready /\ IsFiniteSet(d) /\ Cardinality(d) \in Nat /\ Cardinality(d) <= k /\ Closed(d)
  BY <1>1, <1>4, FS_Subset, FS_CardinalityType
<1>6. CASE Cardinality(d) = k
  BY <1>5, <1>6 DEF Batches
<1>7. CASE Cardinality(d) < k
  <2> DEFINE Earlier(e) == {x \in Ready : <<x, e>> \in before}
             Befores == {Earlier(e) : e \in Ready \ d}
  <2>1. Ready \ d # {}
    BY <1>1, <1>2, <1>5, <1>7
  <2>2. PICK e \in Ready \ d : \A y \in Ready \ d : ~Below(Earlier(y), Earlier(e))
    <3>1. Befores \subseteq SUBSET Ready /\ Befores # {}
      BY <2>1
    <3> HIDE DEF Befores
    <3>2. PICK x \in Befores : \A y \in Befores : ~Below(y, x)
      BY <1>1, <3>1, LeastSet
    <3> HIDE DEF Earlier
    <3> USE DEF Befores
    <3>3. PICK e \in Ready \ d : x = Earlier(e)
      BY <3>2
    <3> QED BY <3>2, <3>3
  <2>3. Ready \subseteq m_events /\ InOrder
    BY DEF Ready, TypeOK
  <2>4. \A y \in Ready \ d : y # e => <<e, y>> \in before
    <3> SUFFICES ASSUME NEW y \in Ready \ d, y # e, <<e, y>> \notin before PROVE FALSE
      OBVIOUS
    <3>1. <<y, e>> \in before /\ <<y, y>> \notin before
      BY <2>3 DEF InOrder
    <3>2. \A x \in Ready : <<x, y>> \in before => <<x, e>> \in before
      BY <2>3, <3>1 DEF InOrder
    <3>3. y \in Earlier(e) /\ y \notin Earlier(y) /\ Earlier(y) \subseteq Earlier(e)
      BY <3>1, <3>2
    <3> QED BY <2>2, <3>3 DEF Below
  <2>5. d \cup {e} \in Starts
    <3>1. Cardinality(d \cup {e}) = Cardinality(d) + 1
      BY <1>5, FS_AddElement
    <3>2. Closed(d \cup {e})
      BY <1>5, <2>4
    <3>3. Cardinality(d \cup {e}) <= k
      BY <1>2, <1>5, <1>7, <3>1
    <3> QED BY <1>5, <3>2, <3>3
  <2> QED BY <1>4, <1>5, <2>2, <2>5 DEF Below
<1> HIDE DEF k
<1> QED BY <1>2, <1>5, <1>6, <1>7
-----------------------------------------------------------------------------
\* The triggered events that clear themselves, the waiters about to look at the queue,
\* and what makes notify_one enough: as long as anybody sleeps, every such event has a
\* notification or a waiter of its own on the way.
Pending == {e \in Ready : Clears(e)}
Lookers == {w \in Waiters : pc[w] \in {"look", "woken", "expired"}}
Asleep == \E w \in Waiters : pc[w] = "sleep"
Enough == Asleep => Cardinality(Pending) <= owed + Cardinality(Lookers)

\* The sets that are counted are finite.
LEMMA Counts ==
    ASSUME TypeOK
    PROVE  /\ IsFiniteSet(Ready) /\ IsFiniteSet(Pending) /\ IsFiniteSet(Lookers)
           /\ Cardinality(Ready) \in Nat /\ Cardinality(Pending) \in Nat /\ Cardinality(Lookers) \in Nat
           /\ owed \in Nat
<1>1. IsFiniteSet(Ids) /\ IsFiniteSet(Waiters) /\ MaxOwed \in Nat
  BY EqueueAssumption DEF EqueueAssumption
<1>2. Ready \subseteq Ids /\ Pending \subseteq Ids /\ Lookers \subseteq Waiters
  BY DEF TypeOK, Ready, Pending, Lookers
<1>3. IsFiniteSet(Ready) /\ IsFiniteSet(Pending) /\ IsFiniteSet(Lookers)
  BY <1>1, <1>2, FS_Subset
<1>4. owed \in Nat
  BY <1>1 DEF TypeOK
<1> QED BY <1>3, <1>4, FS_CardinalityType

\* So are the waiters after a step.
LEMMA LookersFinite == IsFiniteSet(Lookers')
<1>1. Lookers' \subseteq Waiters
  BY DEF Lookers
<1> QED BY <1>1, EqueueAssumption, FS_Subset DEF EqueueAssumption

\* A step that takes away no waiter that is about to look.
LEMMA EnoughFrame ==
    ASSUME TypeOK, Enough, Pending' \subseteq Pending, Lookers \subseteq Lookers',
           owed' = owed, Asleep' => Asleep
    PROVE  Enough'
<1>1. /\ IsFiniteSet(Pending) /\ IsFiniteSet(Lookers)
      /\ Cardinality(Pending) \in Nat /\ Cardinality(Lookers) \in Nat /\ owed \in Nat
  BY Counts
<1>2. /\ Cardinality(Pending') <= Cardinality(Pending) /\ Cardinality(Pending') \in Nat
      /\ Cardinality(Lookers) <= Cardinality(Lookers') /\ Cardinality(Lookers') \in Nat
  BY <1>1, LookersFinite, FS_Subset, FS_CardinalityType
<1> QED BY <1>1, <1>2 DEF Enough

\* A trigger brings its notification with it.
LEMMA TriggerEnough ==
    ASSUME TypeOK, Enough, NEW e \in Ids, Mark(e), m_events' = m_events, owed' = owed + 1, pc' = pc
    PROVE  Enough'
<1>1. Pending' \subseteq Pending \cup {e}
  BY DEF Pending, Ready, Mark, TypeOK
<1>2. Lookers' = Lookers /\ (Asleep' <=> Asleep)
  BY DEF Lookers, Asleep
<1>3. IsFiniteSet(Pending) /\ Cardinality(Pending) \in Nat /\ Cardinality(Lookers) \in Nat /\ owed \in Nat
  BY Counts
<1>4. /\ IsFiniteSet(Pending \cup {e}) /\ Cardinality(Pending \cup {e}) \in Nat
      /\ Cardinality(Pending \cup {e}) <= Cardinality(Pending) + 1
  <2>1. /\ IsFiniteSet(Pending \cup {e})
        /\ Cardinality(Pending \cup {e}) = IF e \in Pending THEN Cardinality(Pending) ELSE Cardinality(Pending) + 1
    BY <1>3, FS_AddElement
  <2> QED BY <1>3, <2>1
<1>5. Cardinality(Pending') <= Cardinality(Pending \cup {e}) /\ Cardinality(Pending') \in Nat
  BY <1>1, <1>4, FS_Subset, FS_CardinalityType
<1> QED BY <1>2, <1>3, <1>4, <1>5 DEF Enough

\* A notification turns into a waiter that looks, or nobody sleeps.
LEMMA NotifyEnough ==
    ASSUME TypeOK, Enough, NotifyOne
    PROVE  Enough'
<1>1. Pending' = Pending /\ owed' = owed - 1 /\ owed > 0
  BY DEF NotifyOne, Pending, Ready, events
<1>2. /\ Cardinality(Pending) \in Nat /\ Cardinality(Lookers) \in Nat /\ owed \in Nat
      /\ IsFiniteSet(Lookers)
  BY Counts
<1>3. CASE ~Asleep
  <2>1. ~Asleep'
    BY <1>3 DEF Asleep, NotifyOne
  <2> QED BY <2>1 DEF Enough
<1>4. CASE Asleep
  <2>1. PICK w \in Waiters : pc[w] = "sleep" /\ pc' = [pc EXCEPT ![w] = "woken"]
    BY <1>4 DEF Asleep, NotifyOne
  <2>2. w \notin Lookers /\ Lookers' = Lookers \cup {w}
    BY <2>1 DEF Lookers, TypeOK
  <2>3. Cardinality(Lookers') = Cardinality(Lookers) + 1
    BY <1>2, <2>2, FS_AddElement
  <2> QED BY <1>1, <1>2, <1>4, <2>3 DEF Enough
<1> QED BY <1>3, <1>4

\* As a waiter asks for more events than there are level-triggered ones, it takes one
\* that clears itself if there is one.
LEMMA TakesPending ==
    ASSUME TypeOK, Cardinality(Level) < Num, NEW taken \in Batches, Pending # {}
    PROVE  \E e \in taken : e \in Pending
<1> SUFFICES ASSUME taken \cap Pending = {} PROVE FALSE
  OBVIOUS
<1>1. taken \subseteq Ready
  BY DEF Batches
<1>2. taken \subseteq Level
  BY <1>1 DEF Pending, Clears
<1>3. IsFiniteSet(Level)
  BY EqueueAssumption, FS_Subset DEF EqueueAssumption, Ids
<1>4. /\ Cardinality(taken) <= Cardinality(Level) /\ Cardinality(Level) \in Nat /\ Cardinality(taken) \in Nat
  BY <1>2, <1>3, FS_Subset, FS_CardinalityType
<1>5. Cardinality(taken) = Cardinality(Ready)
  BY <1>4, EqueueAssumption DEF Batches, EqueueAssumption
<1>6. taken = Ready
  BY <1>1, <1>5, Counts, FS_Subset
<1> QED BY <1>6 DEF Pending

\* A waiter that looks takes one of the events that clear themselves with it, or finds
\* none.
LEMMA LookEnough ==
    ASSUME TypeOK, Enough, Cardinality(Level) < Num, NEW w \in Waiters, Look(w)
    PROVE  Enough'
<1>1. PICK taken \in Batches : GetTriggeredEvents(taken, data)
  BY DEF Look
<1>2. taken \in SUBSET Ids /\ data \in [Ids -> Nat]
  BY TakenTyped DEF TypeOK
<1>3. m_events' \subseteq m_events
  BY <1>1, <1>2, TakeTypes
<1>4. Pending' \subseteq Pending \ taken
  BY <1>1, <1>3 DEF Pending, Ready, GetTriggeredEvents, TypeOK
<1>5. /\ IsFiniteSet(Pending) /\ IsFiniteSet(Lookers) /\ owed \in Nat /\ owed' = owed
      /\ Cardinality(Pending) \in Nat /\ Cardinality(Lookers) \in Nat
      /\ IsFiniteSet(Pending') /\ Cardinality(Pending') \in Nat /\ Cardinality(Lookers') \in Nat
  <2>1. IsFiniteSet(Pending) /\ IsFiniteSet(Lookers) /\ owed \in Nat
    BY Counts
  <2>2. IsFiniteSet(Pending')
    BY <1>4, <2>1, FS_Subset
  <2>3. owed' = owed
    BY DEF Look
  <2> QED BY <2>1, <2>2, <2>3, LookersFinite, FS_CardinalityType
<1>6. CASE Pending = {}
  <2>1. Cardinality(Pending') = 0
    BY <1>4, <1>6, FS_EmptySet
  <2> QED BY <1>5, <2>1 DEF Enough
<1>7. CASE Pending # {}
  <2>1. PICK e \in taken : e \in Pending
    BY <1>7, TakesPending
  <2>2. Cardinality(Pending') <= Cardinality(Pending) - 1
    <3>1. Pending' \subseteq Pending \ {e}
      BY <1>4, <2>1
    <3>2. IsFiniteSet(Pending \ {e}) /\ Cardinality(Pending \ {e}) = Cardinality(Pending) - 1
      BY <1>5, <2>1, FS_RemoveElement
    <3> QED BY <3>1, <3>2, FS_Subset
  <2>3. pc' = [pc EXCEPT ![w] = "idle"]
    BY <2>1 DEF Look, Return, Pending
  <2>4. w \in Lookers /\ Lookers' = Lookers \ {w} /\ (Asleep' => Asleep)
    BY <2>3 DEF Look, Lookers, Asleep, TypeOK
  <2>5. Cardinality(Lookers') = Cardinality(Lookers) - 1
    BY <1>5, <2>4, FS_RemoveElement
  <2> QED BY <1>5, <2>2, <2>4, <2>5 DEF Enough
<1> QED BY <1>6, <1>7

\* Every step keeps enough notifications and waiters on the way.
LEMMA EnoughStep ==
    ASSUME IInv, Enough, Cardinality(Level) < Num, Next
    PROVE  Enough'
<1>0. TypeOK
  BY DEF IInv
<1>1. ASSUME NEW w \in Waiters, Look(w) PROVE Enough'
  BY <1>0, <1>1, LookEnough
<1>2. CASE NotifyOne
  BY <1>0, <1>2, NotifyEnough
<1>3. ASSUME NEW e \in Ids, TriggerEvent(e) \/ CallbackTrigger(e) PROVE Enough'
  <2>1. Mark(e) /\ m_events' = m_events /\ owed' = owed + 1 /\ pc' = pc
    BY <1>3 DEF TriggerEvent, CallbackTrigger, locals
  <2> QED BY <1>0, <2>1, TriggerEnough
<1>4. ASSUME NEW w \in Waiters, NEW deadline \in BOOLEAN,
             Wait(w, deadline) \/ Expire(w) \/ PollCopy(w) \/ Spin(w)
      PROVE  Enough'
  <2>1. Pending' = Pending /\ owed' = owed
    BY <1>4 DEF Wait, Expire, PollCopy, Spin, Pending, Ready, events
  <2>2. \E label \in {"look", "expired", "spin", "poll", "idle"} :
          /\ pc' = [pc EXCEPT ![w] = label]
          /\ pc[w] \in {"look", "woken", "expired"} => label = "expired"
    BY <1>4 DEF Wait, Expire, PollCopy, Spin, Return
  <2>3. Lookers \subseteq Lookers' /\ (Asleep' => Asleep)
    BY <1>0, <2>2 DEF Lookers, Asleep, TypeOK
  <2> QED BY <1>0, <2>1, <2>3, EnoughFrame
<1>5. ASSUME NEW w \in Waiters, PollClear(w) PROVE Enough'
  <2>1. /\ GetTriggeredEvents(seen[w], copy[w]) /\ pc[w] = "poll" /\ owed' = owed
        /\ pc' = [pc EXCEPT ![w] = "idle"]
    BY <1>5 DEF PollClear, Return
  <2>2. Pending' \subseteq Pending
    BY <1>0, <2>1 DEF Pending, Ready, GetTriggeredEvents, Erase, TypeOK
  <2>3. Lookers \subseteq Lookers' /\ (Asleep' => Asleep)
    BY <1>0, <2>1 DEF Lookers, Asleep, TypeOK
  <2> QED BY <1>0, <2>1, <2>2, <2>3, EnoughFrame
<1>6. ASSUME NEW e \in Ids, AddEvent(e) \/ RemoveEvent(e) PROVE Enough'
  <2>1. owed' = owed /\ pc' = pc
    BY <1>6 DEF AddEvent, RemoveEvent, locals
  <2>2. Pending' \subseteq Pending
    BY <1>0, <1>6 DEF AddEvent, RemoveEvent, Erase, Pending, Ready, TypeOK
  <2>3. Lookers \subseteq Lookers' /\ (Asleep' => Asleep)
    BY <2>1 DEF Lookers, Asleep
  <2> QED BY <1>0, <2>1, <2>2, <2>3, EnoughFrame
<1>7. CASE UNCHANGED <<events, owed, pc>>
  <2>1. Pending' = Pending /\ Lookers' = Lookers /\ (Asleep' <=> Asleep) /\ owed' = owed
    BY <1>7 DEF events, Pending, Ready, Lookers, Asleep
  <2> QED BY <1>0, <2>1, EnoughFrame
<1>8. \/ \E w \in Waiters : \/ Look(w) \/ Expire(w) \/ PollCopy(w) \/ Spin(w) \/ PollClear(w)
                            \/ \E deadline \in BOOLEAN : Wait(w, deadline)
      \/ NotifyOne
      \/ \E e \in Ids : TriggerEvent(e) \/ CallbackTrigger(e) \/ AddEvent(e) \/ RemoveEvent(e)
      \/ UNCHANGED <<events, owed, pc>>
  <2>1. CASE Io
    BY <2>1 DEF Io, Ids, Timed, CallbackBegin, CallbackSchedule, ServiceWake, RunReturns, ServiceReset, locals
  <2>2. CASE Adder \/ Clock
    BY <2>2 DEF Adder, Clock, AddSchedule, SmallTimerDue, locals
  <2>3. CASE Guest
    BY <2>3 DEF Guest, AddSmallTimer, RemoveSmallTimer, TimerExpires, locals
  <2>4. ASSUME NEW w \in Waiters, Waiter(w) PROVE Look(w) \/ Spin(w) \/ PollClear(w)
    BY <2>4 DEF Waiter
  <2> QED BY <2>1, <2>2, <2>3, <2>4 DEF Next
<1> QED BY <1>1, <1>2, <1>3, <1>4, <1>5, <1>6, <1>7, <1>8

\* With enough on the way, nobody sleeps while an event waits unattended.
LEMMA EnoughSuffices == TypeOK /\ Enough => NotifyOneSuffices
<1> SUFFICES ASSUME TypeOK, Enough PROVE NotifyOneSuffices
  OBVIOUS
<1>0. owed \in Nat
  BY Counts
<1> SUFFICES ASSUME Asleep, NEW e \in m_events, is_triggered[e], Clears(e), owed = 0, Lookers = {}
             PROVE  FALSE
  BY <1>0 DEF NotifyOneSuffices, Asleep, Lookers
<1>1. e \in Pending /\ IsFiniteSet(Pending) /\ Cardinality(Pending) \in Nat
  BY Counts DEF Pending, Ready
<1>2. Cardinality(Lookers) = 0
  BY FS_EmptySet
<1>3. Cardinality(Pending) # 0
  BY <1>1, FS_EmptySet
<1> QED BY <1>1, <1>2, <1>3 DEF Enough

\* TriggerEvent's notify_one is enough for any number of waiters and events, as long as
\* a waiter asks for more events than there are level-triggered ones.  Otherwise these,
\* which stay triggered, can fill the batches of all the waiters that are notified.
THEOREM OneIsEnough == ASSUME Cardinality(Level) < Num PROVE Spec => []NotifyOneSuffices
<1>1. Init => Enough
  BY DEF Init, Enough, Asleep
<1>2. IInv /\ Enough /\ [Next]_vars => Enough'
  <2> SUFFICES ASSUME IInv, Enough, UNCHANGED vars PROVE Enough'
    BY EnoughStep
  <2>1. Pending' = Pending /\ Lookers' = Lookers /\ (Asleep' <=> Asleep) /\ owed' = owed
    BY DEF vars, locals, events, Pending, Ready, Lookers, Asleep
  <2> QED BY <2>1, EnoughFrame DEF IInv
<1>3. IInv /\ Enough => NotifyOneSuffices
  BY EnoughSuffices DEF IInv
<1> QED BY <1>1, <1>2, <1>3, InductiveInvariant, PTL DEF Spec
=============================================================================
