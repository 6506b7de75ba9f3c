------------------------------ MODULE Monitor ------------------------------
(***************************************************************************)
(* What condition variables promise a guest: the mutex is given up and the *)
(* thread starts to wait in one step, a signal releases one of the waiting *)
(* threads and a broadcast all of them, a signal goes unheard only when    *)
(* nobody waits, and a wait ends with the mutex and its recursion depth    *)
(* restored.                                                               *)
(***************************************************************************)
EXTENDS Naturals

CONSTANTS Threads, Conds, Mutexes, None

VARIABLES
    owner,    \* owner[m]: the thread that has mutex m, or None
    depth,    \* depth[m]: acquisitions on top of the first
    waiters,  \* waiters[c]: the threads waiting to be signalled on c
    resume,   \* resume[t]: the mutex and depth a waiting thread gets back, else <<>>
    unheard   \* unheard[c]: a signal found no waiter since the last wait

vars == <<owner, depth, waiters, resume, unheard>>

Init ==
    /\ owner = [m \in Mutexes |-> None]
    /\ depth = [m \in Mutexes |-> 0]
    /\ waiters = [c \in Conds |-> {}]
    /\ resume = [t \in Threads |-> <<>>]
    /\ unheard = [c \in Conds |-> FALSE]

Running(t) == resume[t] = <<>>

Acquire(t, m) ==
    /\ Running(t) /\ owner[m] = None
    /\ owner' = [owner EXCEPT ![m] = t]
    /\ UNCHANGED <<depth, waiters, resume, unheard>>

Deepen(t, m) ==
    /\ Running(t) /\ owner[m] = t
    /\ depth' = [depth EXCEPT ![m] = @ + 1]
    /\ UNCHANGED <<owner, waiters, resume, unheard>>

Yield(t, m) ==
    /\ Running(t) /\ owner[m] = t
    /\ IF depth[m] > 0
       THEN depth' = [depth EXCEPT ![m] = @ - 1] /\ UNCHANGED owner
       ELSE owner' = [owner EXCEPT ![m] = None] /\ UNCHANGED depth
    /\ UNCHANGED <<waiters, resume, unheard>>

Wait(t, c, m) ==
    /\ Running(t) /\ owner[m] = t
    /\ owner' = [owner EXCEPT ![m] = None]
    /\ depth' = [depth EXCEPT ![m] = 0]
    /\ waiters' = [waiters EXCEPT ![c] = @ \cup {t}]
    /\ resume' = [resume EXCEPT ![t] = <<m, depth[m]>>]
    /\ unheard' = [unheard EXCEPT ![c] = FALSE]

Notify(c) ==
    /\ \E x \in waiters[c] : waiters' = [waiters EXCEPT ![c] = @ \ {x}]
    /\ UNCHANGED <<owner, depth, resume, unheard>>

NotifyAll(c) ==
    /\ waiters' = [waiters EXCEPT ![c] = {}]
    /\ UNCHANGED <<owner, depth, resume, unheard>>

NotifyNobody(c) ==
    /\ waiters[c] = {}
    /\ unheard' = [unheard EXCEPT ![c] = TRUE]
    /\ UNCHANGED <<owner, depth, waiters, resume>>

\* A timeout or a cancellation ends the wait; to other threads it looks
\* like a Notify that picked this thread.
GiveUp(t, c) ==
    /\ t \in waiters[c]
    /\ waiters' = [waiters EXCEPT ![c] = @ \ {t}]
    /\ UNCHANGED <<owner, depth, resume, unheard>>

Resume(t) ==
    /\ ~Running(t)
    /\ \A c \in Conds : t \notin waiters[c]
    /\ LET m == resume[t][1]
       IN  /\ owner[m] = None
           /\ owner' = [owner EXCEPT ![m] = t]
           /\ depth' = [depth EXCEPT ![m] = resume[t][2]]
    /\ resume' = [resume EXCEPT ![t] = <<>>]
    /\ UNCHANGED <<waiters, unheard>>

Next ==
    \/ \E t \in Threads, m \in Mutexes : Acquire(t, m) \/ Deepen(t, m) \/ Yield(t, m)
    \/ \E t \in Threads, c \in Conds, m \in Mutexes : Wait(t, c, m)
    \/ \E c \in Conds : Notify(c) \/ NotifyAll(c) \/ NotifyNobody(c)
    \/ \E t \in Threads, c \in Conds : GiveUp(t, c)
    \/ \E t \in Threads : Resume(t)

Spec == Init /\ [][Next]_vars
=============================================================================
