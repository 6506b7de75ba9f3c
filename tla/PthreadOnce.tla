----------------------------- MODULE PthreadOnce -----------------------------
(***************************************************************************)
(* posix_pthread_once of                                                   *)
(* src/src/core/libraries/kernel/threads/pthread.cpp for one PthreadOnce:  *)
(* a word of state that the callers change with compare-and-exchange and   *)
(* sleep on with std::atomic wait and notify_all.  A step is one atomic    *)
(* operation.  The thread that runs init_routine may be cancelled in it,   *)
(* and then once_cancel_handler runs as its cleanup.                       *)
(***************************************************************************)
EXTENDS GuestThreads, Integers

CONSTANT Cancellable   \* the threads that may be cancelled inside init_routine

ASSUME OnceAssumption == Cancellable \subseteq Threads

VARIABLES
    state,    \* PthreadOnce::state
    local,    \* the variable `state' of each call
    runs      \* ghost: how often init_routine ran to its end

onceVars == <<state, pc, local, runs>>

States == {"NeverDone", "InProgress", "Wait", "Done"}
-----------------------------------------------------------------------------
CallOnce(t) ==
    /\ pc[t] = "idle"
    /\ Goto(t, "load")
    /\ UNCHANGED <<state, local, runs>>

Load(t) ==
    /\ pc[t] = "load"
    /\ local' = [local EXCEPT ![t] = state]
    /\ Goto(t, "loaded")
    /\ UNCHANGED <<state, runs>>

\* `return 0', the only return of a caller that does not run init_routine
ReturnDone(t) ==
    /\ pc[t] = "loaded" /\ local[t] = "Done"
    /\ Goto(t, "idle")
    /\ UNCHANGED <<state, local, runs>>

Claim(t) ==
    /\ pc[t] = "loaded" /\ local[t] = "NeverDone"
    /\ IF state = "NeverDone"
       THEN state' = "InProgress" /\ Goto(t, "run")
       ELSE UNCHANGED state /\ Goto(t, "load")
    /\ UNCHANGED <<local, runs>>

\* As Announce, but the state is left alone.
Announce_NoMark(t) ==
    /\ pc[t] = "loaded" /\ local[t] = "InProgress"
    /\ IF state = "InProgress" THEN Goto(t, "sleep") ELSE Goto(t, "load")
    /\ UNCHANGED <<state, local, runs>>

Announce(t) ==
    /\ pc[t] = "loaded" /\ local[t] = "InProgress"
    /\ IF state = "InProgress"
       THEN state' = "Wait" /\ Goto(t, "wait")
       ELSE UNCHANGED state /\ Goto(t, "load")
    /\ UNCHANGED <<local, runs>>

JoinWait(t) ==
    /\ pc[t] = "loaded" /\ local[t] = "Wait"
    /\ Goto(t, "wait")
    /\ UNCHANGED <<state, local, runs>>

\* As AtomicWait, but the value is not loaded anew.
AtomicWait_Spin(t) ==
    /\ pc[t] = "wait"
    /\ Goto(t, IF state = "Wait" THEN "sleep" ELSE "wait")
    /\ UNCHANGED <<state, local, runs>>

\* state.wait(Wait) returns if the value is another one, and sleeps otherwise.
AtomicWait(t) ==
    /\ pc[t] = "wait"
    /\ Goto(t, IF state = "Wait" THEN "sleep" ELSE "load")
    /\ UNCHANGED <<state, local, runs>>
-----------------------------------------------------------------------------
(* init_routine returns: done if nobody announced itself, else the store   *)
(* and the notification.                                                   *)
FinishRun(t) ==
    /\ pc[t] = "run"
    /\ runs' = runs + 1
    /\ IF state = "InProgress"
       THEN state' = "Done" /\ Goto(t, "idle")
       ELSE UNCHANGED state /\ Goto(t, "storedone")
    /\ UNCHANGED local

\* As StoreDone, but it stores the value of the other path, NeverDone.
StoreDone_Never(t) ==
    /\ pc[t] = "storedone"
    /\ state' = "NeverDone"
    /\ Goto(t, "notifydone")
    /\ UNCHANGED <<local, runs>>

StoreDone(t) ==
    /\ pc[t] = "storedone"
    /\ state' = "Done"
    /\ Goto(t, "notifydone")
    /\ UNCHANGED <<local, runs>>

(* once_cancel_handler *)
CancelRun(t) ==
    /\ pc[t] = "run" /\ t \in Cancellable
    /\ IF state = "InProgress"
       THEN state' = "NeverDone" /\ Goto(t, "gone")
       ELSE UNCHANGED state /\ Goto(t, "storenever")
    /\ UNCHANGED <<local, runs>>

\* As StoreNever, but it stores the value of the other path, Done.
StoreNever_Done(t) ==
    /\ pc[t] = "storenever"
    /\ state' = "Done"
    /\ Goto(t, "notifynever")
    /\ UNCHANGED <<local, runs>>

StoreNever(t) ==
    /\ pc[t] = "storenever"
    /\ state' = "NeverDone"
    /\ Goto(t, "notifynever")
    /\ UNCHANGED <<local, runs>>

\* state.notify_all(): the sleepers look at the value again.
NotifySleepers(t) ==
    /\ pc[t] \in {"notifydone", "notifynever"}
    /\ pc' = [x \in Threads |->
                 IF x = t THEN IF pc[t] = "notifydone" THEN "idle" ELSE "gone"
                 ELSE IF pc[x] = "sleep" THEN "wait" ELSE pc[x]]
    /\ UNCHANGED <<state, local, runs>>
-----------------------------------------------------------------------------
OnceInit ==
    /\ state = "NeverDone"
    /\ pc = [t \in Threads |-> "idle"]
    /\ local = [t \in Threads |-> "NeverDone"]
    /\ runs = 0

OnceStep(t) ==
    \/ Load(t) \/ ReturnDone(t) \/ Claim(t) \/ Announce(t) \/ JoinWait(t) \/ AtomicWait(t)
    \/ FinishRun(t) \/ StoreDone(t) \/ CancelRun(t) \/ StoreNever(t) \/ NotifySleepers(t)

OnceNext == \E t \in Threads : CallOnce(t) \/ OnceStep(t)

OnceSpec == OnceInit /\ [][OnceNext]_onceVars
-----------------------------------------------------------------------------
(* Properties                                                              *)

Labels == {"idle", "load", "loaded", "run", "wait", "sleep", "storedone", "notifydone",
           "storenever", "notifynever", "gone"}

\* Types of the state word and of the calls.
OnceTypeOK ==
    /\ state \in States
    /\ pc \in [Threads -> Labels]
    /\ local \in [Threads -> States]
    /\ runs \in Nat

\* init_routine runs to its end at most once, and never starts again after it did.
RunsOnce ==
    /\ runs <= 1
    /\ runs = 1 => \A t \in Threads : pc[t] # "run"

\* At most one thread at a time is inside init_routine or cleaning up after it.
OneRunner ==
    \A t, u \in Threads : {pc[t], pc[u]} \subseteq {"run", "storedone", "storenever"} => t = u

\* pthread_once returns to a caller only once init_routine is done: whoever has
\* seen Done may rely on it.
DoneMeansRun ==
    /\ state = "Done" => runs = 1
    /\ \A t \in Threads : pc[t] = "loaded" /\ local[t] = "Done" => runs = 1

\* A thread asleep on the state word has somebody to wake it: the state still is
\* Wait, so the runner will notify, or a notification is on its way.
SleepersAreHeard ==
    \A t \in Threads : pc[t] = "sleep" =>
        \/ state = "Wait" /\ \E u \in Threads : pc[u] \in {"run", "storedone", "storenever"}
        \/ \E u \in Threads : pc[u] \in {"notifydone", "notifynever"}

\* Every call returns (or its thread is cancelled), although runners may be
\* cancelled and the routine starts over.
EveryCallReturns == \A t \in Threads : pc[t] \in Labels ~> pc[t] \in {"idle", "gone"}
=============================================================================
