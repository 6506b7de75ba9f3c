------------------------------ MODULE OrbisSem ------------------------------
(***************************************************************************)
(* The kernel semaphore sceKernel*Sema, class OrbisSem of                  *)
(* src/src/core/libraries/kernel/threads/semaphore.cpp, for one slot of    *)
(* orbis_sems from its creation to its deletion.                           *)
(*                                                                         *)
(* Wait, Cancel and Delete change nothing another thread can see between   *)
(* taking and dropping `mutex', so each is one step.  The loop of Signal   *)
(* takes one step per waiter and holds `mutex' (the variable lock) while   *)
(* the waiters it released already wake up and queue for it.               *)
(***************************************************************************)
EXTENDS Integers, Sequences

CONSTANTS
    Threads,     \* guest threads
    Prio,        \* attr.prio of each thread: a smaller number goes first
    Timed,       \* the threads that pass a timeout
    Deleters,    \* the threads that may call sceKernelDeleteSema
    MaxCount,    \* bound: largest max_count a semaphore is created with
    None

ASSUME OrbisSemAssumption ==
    /\ None \notin Threads
    /\ Prio \in [Threads -> Nat]
    /\ Timed \subseteq Threads
    /\ Deleters \subseteq Threads
    /\ MaxCount \in Nat \ {0}

VARIABLES
    allocated,   \* the slot's bit in orbis_sems: "never", "yes" or "erased"
    is_fifo, init_count, max_count,
    lock,        \* the thread inside Signal's loop, or None
    token_count,
    wait_list,
    it,          \* Signal's iterator, as a position in wait_list
    \* WaitingThread, on the stack of the thread that waits
    need_count,
    was,         \* which of was_signaled, was_deleted, was_canceled are set
    sem,         \* tokens in its BinarySemaphore
    \* the call a thread is in
    pc,
    result,
    crashed,     \* ValidateIndex asserted, or a destroyed object was used
    \* ghosts
    charged,     \* tokens taken from the semaphore on account of the call
    arrival      \* the threads on wait_list in the order they came

objVars  == <<allocated, is_fifo, init_count, max_count>>
waitVars == <<need_count, was, sem>>
ghosts   == <<charged, arrival>>
vars == <<objVars, lock, token_count, wait_list, it, waitVars, pc, result, crashed, ghosts>>
-----------------------------------------------------------------------------
In(x, s) == \E i \in 1..Len(s) : s[i] = x
Goto(t, label) == pc' = [pc EXCEPT ![t] = label]

\* list.erase of the element at position i
EraseAt(s, i) == SubSeq(s, 1, i - 1) \o SubSeq(s, i + 1, Len(s))
Erase(s, x) == IF In(x, s) THEN EraseAt(s, CHOOSE i \in 1..Len(s) : s[i] = x) ELSE s

\* GetResult: the first of the three flags that is set decides.
GetResult(flags) ==
    CASE "signaled" \in flags -> "OK"
      [] "signaled" \notin flags /\ "deleted" \in flags -> "EACCES"
      [] "signaled" \notin flags /\ "deleted" \notin flags /\ "canceled" \in flags -> "ECANCELED"
      [] flags = {} -> "ETIMEDOUT"


\* As AddWaiter, but a waiter is put before the ones of its own priority.
AddWaiter_Strict(list, t) ==
    LET before == {i \in 0..Len(list) : \A j \in 1..i : Prio[list[j]] < Prio[t]}
        n == CHOOSE i \in before : \A j \in before : j <= i
    IN  IF is_fifo THEN Append(list, t)
        ELSE SubSeq(list, 1, n) \o <<t>> \o SubSeq(list, n + 1, Len(list))

\* The new waiter goes to the end (FIFO), or right before the first waiter of
\* lower priority: after the longest prefix of waiters at least as urgent.
AddWaiter(list, t) ==
    LET before == {i \in 0..Len(list) : \A j \in 1..i : Prio[list[j]] <= Prio[t]}
        n == CHOOSE i \in before : \A j \in before : j <= i
    IN  IF is_fifo THEN Append(list, t)
        ELSE SubSeq(list, 1, n) \o <<t>> \o SubSeq(list, n + 1, Len(list))
-----------------------------------------------------------------------------
(* sceKernelCreateSema; once in a behaviour. *)
Create(t) ==
    /\ allocated = "never" /\ pc[t] = "idle"
    /\ allocated' = "yes"
    /\ max_count' \in 1..MaxCount
    /\ init_count' \in 0..max_count'
    /\ is_fifo' \in BOOLEAN
    /\ token_count' = init_count'
    /\ UNCHANGED <<lock, wait_list, it, waitVars, pc, result, crashed, ghosts>>

(* Every other entry point first asks is_allocated, and indexes orbis_sems *)
(* again for the operation itself.                                         *)
Lookup(t) ==
    /\ pc[t] = "idle" /\ allocated = "yes"
    /\ Goto(t, "lookup")
    /\ UNCHANGED <<objVars, lock, token_count, wait_list, it, waitVars, result, crashed, ghosts>>

\* orbis_sems[sem]->f(): ValidateIndex passes and f locks the mutex.
Enter(t) == pc[t] = "lookup" /\ allocated = "yes" /\ lock = None

\* ValidateIndex finds the slot empty: DEBUG_ASSERT.
InvalidIndex(t) ==
    /\ pc[t] = "lookup" /\ allocated = "erased"
    /\ crashed' = TRUE
    /\ UNCHANGED <<objVars, lock, token_count, wait_list, it, waitVars, pc, result, ghosts>>

(* Wait, for sceKernelWaitSema and sceKernelPollSema. *)
WaitTake(t, n) ==
    /\ Enter(t) /\ token_count >= n
    /\ token_count' = token_count - n
    /\ Goto(t, "idle")
    /\ UNCHANGED <<objVars, lock, wait_list, it, waitVars, result, crashed, ghosts>>

\* can_block is false, or the timeout is zero.
WaitRefuse(t, n) ==
    /\ Enter(t) /\ token_count < n
    /\ Goto(t, "idle")
    /\ UNCHANGED <<objVars, lock, token_count, wait_list, it, waitVars, result, crashed, ghosts>>

WaitBlock(t, n) ==
    /\ Enter(t) /\ token_count < n
    /\ wait_list' = AddWaiter(wait_list, t)
    /\ need_count' = [need_count EXCEPT ![t] = n]
    /\ was' = [was EXCEPT ![t] = {}]
    /\ sem' = [sem EXCEPT ![t] = 0]
    /\ arrival' = Append(arrival, t)
    /\ Goto(t, "waiting")
    /\ UNCHANGED <<objVars, lock, token_count, it, result, crashed, charged>>

\* WaitingThread::Wait: the acquire ends with a token or, with a timeout,
\* without one; the deadline is not followed by a last attempt.
Acquire(t) ==
    /\ pc[t] = "waiting" /\ sem[t] > 0
    /\ sem' = [sem EXCEPT ![t] = @ - 1]
    /\ Goto(t, "woken")
    /\ UNCHANGED <<objVars, lock, token_count, wait_list, it, need_count, was, result, crashed, ghosts>>

Expire(t) ==
    /\ pc[t] = "waiting" /\ t \in Timed
    /\ Goto(t, "expired")
    /\ UNCHANGED <<objVars, lock, token_count, wait_list, it, waitVars, result, crashed, ghosts>>

Return(t, res) ==
    /\ Goto(t, "returned")
    /\ result' = [result EXCEPT ![t] = res]
    /\ wait_list' = IF res = "ETIMEDOUT" THEN Erase(wait_list, t) ELSE wait_list
    /\ arrival' = IF res = "ETIMEDOUT" THEN Erase(arrival, t) ELSE arrival

\* As Relock, but an expired acquire is reported without a look at the flags.
Relock_TrustClock(t) ==
    /\ pc[t] \in {"woken", "expired"} /\ lock = None
    /\ Return(t, IF pc[t] = "expired" THEN "ETIMEDOUT" ELSE GetResult(was[t]))
    /\ UNCHANGED <<objVars, lock, token_count, it, waitVars, crashed, charged>>

\* Back under the mutex, which the waiter takes even if the object is gone
\* by now (then see UseAfterErase): the result, and wait_list.erase(it) if
\* nobody took the waiter off.  What is written to *timeout is left out.
Relock(t) ==
    /\ pc[t] \in {"woken", "expired"} /\ lock = None
    /\ Return(t, GetResult(was[t]))
    /\ UNCHANGED <<objVars, lock, token_count, it, waitVars, crashed, charged>>

\* The WaitingThread goes out of scope.
Leave(t) ==
    /\ pc[t] = "returned"
    /\ Goto(t, "idle")
    /\ need_count' = [need_count EXCEPT ![t] = 1]
    /\ was' = [was EXCEPT ![t] = {}]
    /\ sem' = [sem EXCEPT ![t] = 0]
    /\ result' = [result EXCEPT ![t] = None]
    /\ charged' = [charged EXCEPT ![t] = 0]
    /\ UNCHANGED <<objVars, lock, token_count, wait_list, it, crashed, arrival>>

\* The mutex of a deleted OrbisSem is freed memory: what the waiters that
\* Delete released find there is anybody's guess.
UseAfterErase(t) ==
    /\ pc[t] \in {"woken", "expired"} /\ allocated = "erased"
    /\ crashed' = TRUE
    /\ UNCHANGED <<objVars, lock, token_count, wait_list, it, waitVars, pc, result, ghosts>>
-----------------------------------------------------------------------------
(* Signal *)
SignalRefuse(t, n) ==
    /\ Enter(t) /\ token_count + n > max_count
    /\ Goto(t, "idle")
    /\ UNCHANGED <<objVars, lock, token_count, wait_list, it, waitVars, result, crashed, ghosts>>

SignalAdd(t, n) ==
    /\ Enter(t) /\ token_count + n <= max_count
    /\ token_count' = token_count + n
    /\ lock' = t /\ it' = 1
    /\ Goto(t, "signaling")
    /\ UNCHANGED <<objVars, wait_list, waitVars, result, crashed, ghosts>>

SignalSkip(t) ==
    /\ pc[t] = "signaling" /\ it <= Len(wait_list)
    /\ need_count[wait_list[it]] > token_count
    /\ it' = it + 1
    /\ UNCHANGED <<objVars, lock, token_count, wait_list, waitVars, pc, result, crashed, ghosts>>

\* As SignalGrant, but without sem.release().
SignalGrant_NoRelease(t) ==
    /\ pc[t] = "signaling" /\ it <= Len(wait_list)
    /\ LET waiter == wait_list[it]
       IN  /\ need_count[waiter] <= token_count
           /\ wait_list' = EraseAt(wait_list, it)
           /\ arrival' = Erase(arrival, waiter)
           /\ token_count' = token_count - need_count[waiter]
           /\ charged' = [charged EXCEPT ![waiter] = @ + need_count[waiter]]
           /\ was' = [was EXCEPT ![waiter] = @ \cup {"signaled"}]
    /\ UNCHANGED <<objVars, lock, it, need_count, sem, pc, result, crashed>>

SignalGrant(t) ==
    /\ pc[t] = "signaling" /\ it <= Len(wait_list)
    /\ LET waiter == wait_list[it]
       IN  /\ need_count[waiter] <= token_count
           /\ wait_list' = EraseAt(wait_list, it)
           /\ arrival' = Erase(arrival, waiter)
           /\ token_count' = token_count - need_count[waiter]
           /\ charged' = [charged EXCEPT ![waiter] = @ + need_count[waiter]]
           /\ was' = [was EXCEPT ![waiter] = @ \cup {"signaled"}]
           /\ sem' = [sem EXCEPT ![waiter] = @ + 1]
    /\ UNCHANGED <<objVars, lock, it, need_count, pc, result, crashed>>

\* As SignalDone, but the loop ends at the first waiter it cannot serve.
SignalDone_First(t) ==
    /\ pc[t] = "signaling"
    /\ it <= Len(wait_list) => need_count[wait_list[it]] > token_count
    /\ lock' = None /\ it' = 1
    /\ Goto(t, "idle")
    /\ UNCHANGED <<objVars, token_count, wait_list, waitVars, result, crashed, ghosts>>

SignalDone(t) ==
    /\ pc[t] = "signaling" /\ it > Len(wait_list)
    /\ lock' = None /\ it' = 1
    /\ Goto(t, "idle")
    /\ UNCHANGED <<objVars, token_count, wait_list, waitVars, result, crashed, ghosts>>
-----------------------------------------------------------------------------
\* The loops of Cancel and Delete over the waiters, and wait_list.clear().
ReleaseAll(flag) ==
    /\ was' = [x \in Threads |-> IF In(x, wait_list) THEN was[x] \cup {flag} ELSE was[x]]
    /\ sem' = [x \in Threads |-> IF In(x, wait_list) THEN sem[x] + 1 ELSE sem[x]]
    /\ wait_list' = <<>> /\ arrival' = <<>>

\* As Cancel, but without wait_list.clear().
Cancel_NoClear(t, set_count) ==
    /\ Enter(t)
    /\ was' = [x \in Threads |-> IF In(x, wait_list) THEN was[x] \cup {"canceled"} ELSE was[x]]
    /\ sem' = [x \in Threads |-> IF In(x, wait_list) THEN sem[x] + 1 ELSE sem[x]]
    /\ token_count' = IF set_count < 0 THEN init_count ELSE set_count
    /\ Goto(t, "idle")
    /\ UNCHANGED <<objVars, lock, it, wait_list, arrival, need_count, result, crashed, charged>>

Cancel(t, set_count) ==
    /\ Enter(t)
    /\ ReleaseAll("canceled")
    /\ token_count' = IF set_count < 0 THEN init_count ELSE set_count
    /\ Goto(t, "idle")
    /\ UNCHANGED <<objVars, lock, it, need_count, result, crashed, charged>>

(* sceKernelDeleteSema: Delete under the mutex, then erase of the slot.    *)
Delete(t) ==
    /\ Enter(t) /\ t \in Deleters
    /\ ReleaseAll("deleted")
    /\ Goto(t, "erase")
    /\ UNCHANGED <<objVars, lock, token_count, it, need_count, result, crashed, charged>>

EraseSlot(t) ==
    /\ pc[t] = "erase"
    /\ allocated' = "erased"
    /\ Goto(t, "idle")
    /\ UNCHANGED <<is_fifo, init_count, max_count, lock, token_count, wait_list, it, waitVars,
                   result, crashed, ghosts>>
-----------------------------------------------------------------------------
Init ==
    /\ allocated = "never" /\ is_fifo = FALSE /\ init_count = 0 /\ max_count = 1
    /\ lock = None /\ it = 1 /\ token_count = 0 /\ wait_list = <<>>
    /\ need_count = [t \in Threads |-> 1]
    /\ was = [t \in Threads |-> {}]
    /\ sem = [t \in Threads |-> 0]
    /\ pc = [t \in Threads |-> "idle"]
    /\ result = [t \in Threads |-> None]
    /\ crashed = FALSE
    /\ charged = [t \in Threads |-> 0]
    /\ arrival = <<>>

\* The steps a thread takes by itself once it is in a call.
Step(t) ==
    \/ \E n \in 1..max_count :
          WaitTake(t, n) \/ WaitRefuse(t, n) \/ WaitBlock(t, n) \/ SignalRefuse(t, n) \/ SignalAdd(t, n)
    \/ Acquire(t) \/ Expire(t) \/ Relock(t) \/ Leave(t)
    \/ SignalSkip(t) \/ SignalGrant(t) \/ SignalDone(t)
    \/ \E n \in -1..max_count : Cancel(t, n)
    \/ Delete(t) \/ EraseSlot(t)

Fault(t) == InvalidIndex(t) \/ UseAfterErase(t)

Next == ~crashed /\ \E t \in Threads : Create(t) \/ Lookup(t) \/ Step(t) \/ Fault(t)

Spec == Init /\ [][Next]_vars

\* The host runs every thread and hands a mutex that is free again and again
\* to each thread that waits for it.
LiveSpec == Spec /\ \A t \in Threads : SF_vars(~crashed /\ Step(t))
-----------------------------------------------------------------------------
(* Properties                                                              *)

Labels == {"idle", "lookup", "waiting", "woken", "expired", "returned", "signaling", "erase"}
Flags == {"signaled", "deleted", "canceled"}
Results == {"OK", "ETIMEDOUT", "EACCES", "ECANCELED", None}
Blocked(t) == pc[t] \in {"waiting", "woken", "expired"}

\* Types of the semaphore's fields and of the calls; token_count stays between
\* zero and max_count although Wait, Signal and Cancel all assign it.
TypeOK ==
    /\ allocated \in {"never", "yes", "erased"} /\ is_fifo \in BOOLEAN /\ crashed \in BOOLEAN
    /\ max_count \in 1..MaxCount /\ init_count \in 0..max_count
    /\ token_count \in 0..max_count
    /\ lock \in Threads \cup {None}
    /\ wait_list \in Seq(Threads) /\ arrival \in Seq(Threads)
    /\ it \in Nat \ {0}
    /\ need_count \in [Threads -> Nat \ {0}]
    /\ was \in [Threads -> SUBSET Flags]
    /\ sem \in [Threads -> Nat]
    /\ pc \in [Threads -> Labels]
    /\ result \in [Threads -> Results]
    /\ charged \in [Threads -> Nat]

\* Whenever the mutex is free, no listed waiter could be served with the
\* tokens there are: Signal's single pass over wait_list, which skips the
\* waiters that need too much, leaves nobody behind it could have woken.
NoServableWaiter ==
    lock = None => \A i \in 1..Len(wait_list) : need_count[wait_list[i]] > token_count

\* wait_list holds exactly the blocked threads nobody has decided about, each
\* once.  Relock erases an iterator only for such a thread, so it never erases
\* an element Signal, Cancel or Delete took off before; and no pointer to a
\* WaitingThread stays listed after the stack frame it is in has returned.
ListedAreUndecided ==
    /\ \A t \in Threads : In(t, wait_list) <=> Blocked(t) /\ was[t] = {}
    /\ \A i, j \in 1..Len(wait_list) : wait_list[i] = wait_list[j] => i = j

\* The bookkeeping of Wait, Signal, Cancel and Delete: token_count stays between zero
\* and max_count, and wait_list holds exactly the undecided waiters.
BookkeepingOK == TypeOK /\ ListedAreUndecided

\* A wait that blocked and returns ORBIS_OK was charged need_count tokens exactly
\* once, and one that returns anything else was charged nothing: a timeout that
\* races Signal neither loses the tokens nor gets them for nothing.
ChargedIffOK ==
    \A t \in Threads : pc[t] = "returned" =>
        charged[t] = IF result[t] = "OK" THEN need_count[t] ELSE 0

Pos(s, x) == CHOOSE i \in 1..Len(s) : s[i] = x
\* t is to be served before u: AddWaiter's comment.
Before(t, u) ==
    /\ In(t, arrival) /\ In(u, arrival)
    /\ IF is_fifo \/ Prio[t] = Prio[u] THEN Pos(arrival, t) < Pos(arrival, u)
       ELSE Prio[t] < Prio[u]

\* Signal never serves a waiter while one that is more urgent, or as urgent and
\* was there first, and needs no more, is still waiting.
ServedInOrder ==
    [][\A t, u \in Threads :
         Before(t, u) /\ was[u] = {} /\ was'[u] = {"signaled"} => need_count[t] > need_count[u]]_vars

\* A waiter that was signalled, cancelled or deleted gets out of Wait, and so
\* does one with a timeout, unless the semaphore was destroyed under it.
DecidedReturns ==
    \A t \in Threads :
        Blocked(t) /\ (was[t] # {} \/ t \in Timed) ~> pc[t] = "idle" \/ crashed
=============================================================================
