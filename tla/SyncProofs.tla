----------------------------- MODULE SyncProofs -----------------------------
(***************************************************************************)
(* Proofs about three synchronization objects of the guest's threads, for  *)
(* any set of threads (finite where waiters are counted): pthread_once,    *)
(* the POSIX semaphore with any initial value and any maximum, and the     *)
(* event flag with any set of bits.                                        *)
(***************************************************************************)
EXTENDS PthreadOnce, PosixSem, EventFlag, TLAPS
-----------------------------------------------------------------------------
(* pthread_once                                                            *)

Running   == {"run", "storedone", "storenever"}
Notifying == {"notifydone", "notifynever"}

\* The state word says whether somebody runs init_routine, and the slow paths are
\* taken only after a caller announced itself.
WordOK ==
    /\ state \in {"InProgress", "Wait"} <=> \E t \in Threads : pc[t] \in Running
    /\ \A t \in Threads : pc[t] \in {"storedone", "storenever"} => state = "Wait"

\* init_routine has run to its end when the word is Done or is about to be.
RunsOK ==
    /\ runs \in {0, 1}
    /\ runs = 1 <=> state = "Done" \/ \E t \in Threads : pc[t] = "storedone"

\* Done is final, so a caller that has seen it may rely on it.
SeenOK == \A t \in Threads : local[t] = "Done" => state = "Done"

\* Who sleeps does so on the value Wait, or is about to be notified.
SleepOK ==
    \A t \in Threads : pc[t] = "sleep" =>
        state = "Wait" \/ \E u \in Threads : pc[u] \in Notifying

OnceInv == OnceTypeOK /\ OneRunner /\ WordOK /\ RunsOK /\ SeenOK /\ SleepOK

\* Init establishes the invariant.
LEMMA OnceInitInv == OnceInit => OnceInv
BY DEF OnceInit, OnceInv, OnceTypeOK, Labels, States, OneRunner, WordOK, RunsOK, SeenOK, SleepOK, Running, Notifying

\* Steps that leave the word, the running thread, the sleepers and the notifiers
\* alone: only the place of a thread that is none of these changes, or it falls asleep
\* on the value Wait.
LEMMA OnceQuietStep ==
    ASSUME OnceInv, NEW t \in Threads,
           CallOnce(t) \/ Load(t) \/ ReturnDone(t) \/ JoinWait(t) \/ AtomicWait(t)
    PROVE  OnceInv'
<1>1. /\ UNCHANGED <<state, runs>>
      /\ pc[t] \in {"idle", "load", "loaded", "wait"}
      /\ \E l \in {"idle", "load", "loaded", "wait", "sleep"} :
            pc' = [pc EXCEPT ![t] = l] /\ (l = "sleep" => state = "Wait")
      /\ local' = local \/ local' = [local EXCEPT ![t] = state]
  BY DEF CallOnce, Load, ReturnDone, JoinWait, AtomicWait, Goto
<1>2. /\ \A u \in Threads : pc'[u] \in Running <=> pc[u] \in Running
      /\ \A u \in Threads : pc[u] \in Running \cup Notifying \/ pc'[u] \in Running \cup Notifying => pc'[u] = pc[u]
      /\ \A u \in Threads : pc'[u] = "sleep" => pc[u] = "sleep" \/ state = "Wait"
  BY <1>1 DEF OnceInv, OnceTypeOK, Running, Notifying
<1>3. OnceTypeOK'
  BY <1>1 DEF OnceInv, OnceTypeOK, Labels
<1>4. OneRunner'
  BY <1>2 DEF OnceInv, OneRunner, Running
<1>5. WordOK' /\ RunsOK'
  BY <1>1, <1>2 DEF OnceInv, WordOK, RunsOK, Running
<1>6. SeenOK'
  BY <1>1 DEF OnceInv, OnceTypeOK, SeenOK
<1>7. SleepOK'
  BY <1>1, <1>2 DEF OnceInv, SleepOK
<1> QED BY <1>3, <1>4, <1>5, <1>6, <1>7 DEF OnceInv

\* A caller claims the routine; nobody else runs it, as the word was NeverDone.
LEMMA ClaimStep ==
    ASSUME OnceInv, NEW t \in Threads, Claim(t)
    PROVE  OnceInv'
<1>1. CASE state = "NeverDone"
  <2>1. /\ state' = "InProgress" /\ UNCHANGED <<local, runs>>
        /\ pc[t] = "loaded" /\ pc' = [pc EXCEPT ![t] = "run"]
    BY <1>1 DEF Claim, Goto
  <2>2. \A u \in Threads : pc[u] \notin Running
    BY <1>1 DEF OnceInv, WordOK
  <2>3. /\ \A u \in Threads \ {t} : pc'[u] = pc[u]
        /\ pc'[t] = "run"
    BY <2>1 DEF OnceInv, OnceTypeOK
  <2>4. OnceTypeOK'
    BY <2>1 DEF OnceInv, OnceTypeOK, Labels, States
  <2>5. OneRunner' /\ WordOK'
    BY <2>1, <2>2, <2>3 DEF OneRunner, WordOK, Running
  <2>6. RunsOK' /\ SeenOK'
    BY <1>1, <2>1, <2>2, <2>3 DEF OnceInv, RunsOK, SeenOK, Running
  <2>7. SleepOK'
    BY <1>1, <2>1, <2>3 DEF OnceInv, SleepOK, Notifying
  <2> QED BY <2>4, <2>5, <2>6, <2>7 DEF OnceInv
<1>2. CASE state # "NeverDone"
  <2>1. UNCHANGED <<state, local, runs>> /\ pc[t] = "loaded" /\ pc' = [pc EXCEPT ![t] = "load"]
    BY <1>2 DEF Claim, Goto
  <2>2. pc'[t] = "load" /\ \A u \in Threads \ {t} : pc'[u] = pc[u]
    BY <2>1 DEF OnceInv, OnceTypeOK
  <2>3. OnceTypeOK'
    BY <2>1 DEF OnceInv, OnceTypeOK, Labels
  <2> QED BY <2>1, <2>2, <2>3 DEF OnceInv, OneRunner, WordOK, RunsOK, SeenOK, SleepOK, Running, Notifying
<1> QED BY <1>1, <1>2

\* A caller announces itself, or finds that the word has changed.
LEMMA AnnounceStep ==
    ASSUME OnceInv, NEW t \in Threads, Announce(t)
    PROVE  OnceInv'
<1>1. /\ \/ state = "InProgress" /\ state' = "Wait"
         \/ UNCHANGED state
      /\ UNCHANGED <<local, runs>>
      /\ pc[t] = "loaded"
      /\ \E l \in {"wait", "load"} : pc' = [pc EXCEPT ![t] = l]
  BY DEF Announce, Goto
<1>2. pc'[t] \in {"wait", "load"} /\ \A u \in Threads \ {t} : pc'[u] = pc[u]
  BY <1>1 DEF OnceInv, OnceTypeOK
<1>3. OnceTypeOK'
  BY <1>1 DEF OnceInv, OnceTypeOK, Labels, States
<1>4. OneRunner' /\ WordOK'
  BY <1>1, <1>2 DEF OnceInv, OneRunner, WordOK, Running
<1>5. RunsOK' /\ SeenOK' /\ SleepOK'
  BY <1>1, <1>2 DEF OnceInv, RunsOK, SeenOK, SleepOK, Notifying
<1> QED BY <1>3, <1>4, <1>5 DEF OnceInv

\* The running thread is the only one, and a word that says InProgress or Wait.
LEMMA RunnerAlone ==
    ASSUME OnceInv, NEW t \in Threads, pc[t] \in Running
    PROVE  /\ state \in {"InProgress", "Wait"}
           /\ \A u \in Threads \ {t} : pc[u] \notin Running
           /\ \A u \in Threads : local[u] # "Done"
BY DEF OnceInv, OneRunner, WordOK, SeenOK, Running

\* init_routine ends, or is cancelled, and the word is InProgress or Wait.
LEMMA EndStep ==
    ASSUME OnceInv, NEW t \in Threads, FinishRun(t) \/ CancelRun(t)
    PROVE  OnceInv'
<1>0. pc[t] = "run" /\ UNCHANGED local
  BY DEF FinishRun, CancelRun
<1>1. /\ state \in {"InProgress", "Wait"}
      /\ \A u \in Threads \ {t} : pc[u] \notin Running
      /\ \A u \in Threads : local[u] # "Done"
  BY <1>0, RunnerAlone DEF Running
<1>2. runs = 0
  BY <1>0, <1>1 DEF OnceInv, RunsOK, Running
<1>3. \/ /\ state = "InProgress" /\ state' = "Done"
         /\ runs' = 1 /\ pc' = [pc EXCEPT ![t] = "idle"]
      \/ /\ state = "InProgress" /\ state' = "NeverDone"
         /\ runs' = 0 /\ pc' = [pc EXCEPT ![t] = "gone"]
      \/ /\ state = "Wait" /\ state' = "Wait"
         /\ runs' = 1 /\ pc' = [pc EXCEPT ![t] = "storedone"]
      \/ /\ state = "Wait" /\ state' = "Wait"
         /\ runs' = 0 /\ pc' = [pc EXCEPT ![t] = "storenever"]
  BY <1>1, <1>2 DEF FinishRun, CancelRun, Goto
<1>4. \A u \in Threads \ {t} : pc'[u] = pc[u]
  BY <1>3 DEF OnceInv, OnceTypeOK
<1>5. \/ state' = "Done" /\ runs' = 1 /\ pc'[t] = "idle"
      \/ state' = "NeverDone" /\ runs' = 0 /\ pc'[t] = "gone"
      \/ state' = "Wait" /\ runs' = 1 /\ pc'[t] = "storedone"
      \/ state' = "Wait" /\ runs' = 0 /\ pc'[t] = "storenever"
  BY <1>3 DEF OnceInv, OnceTypeOK
<1>6. OnceTypeOK'
  BY <1>0, <1>3 DEF OnceInv, OnceTypeOK, Labels, States
<1>7. OneRunner' /\ WordOK'
  BY <1>1, <1>4, <1>5 DEF OneRunner, WordOK, Running
<1>8. RunsOK' /\ SeenOK'
  BY <1>0, <1>1, <1>4, <1>5 DEF RunsOK, SeenOK, Running
<1>9. SleepOK'
  BY <1>0, <1>3, <1>4, <1>5 DEF OnceInv, SleepOK, Notifying
<1> QED BY <1>6, <1>7, <1>8, <1>9 DEF OnceInv

\* The stores of the slow paths.
LEMMA StoreStep ==
    ASSUME OnceInv, NEW t \in Threads, StoreDone(t) \/ StoreNever(t)
    PROVE  OnceInv'
<1>0. pc[t] \in {"storedone", "storenever"} /\ UNCHANGED <<local, runs>>
  BY DEF StoreDone, StoreNever
<1>1. /\ state = "Wait"
      /\ \A u \in Threads \ {t} : pc[u] \notin Running
      /\ \A u \in Threads : local[u] # "Done"
  BY <1>0, RunnerAlone DEF OnceInv, WordOK, Running
<1>2. \/ pc[t] = "storedone" /\ state' = "Done" /\ pc' = [pc EXCEPT ![t] = "notifydone"]
      \/ pc[t] = "storenever" /\ state' = "NeverDone" /\ pc' = [pc EXCEPT ![t] = "notifynever"]
  BY DEF StoreDone, StoreNever, Goto
<1>3. /\ \A u \in Threads \ {t} : pc'[u] = pc[u]
      /\ \/ pc[t] = "storedone" /\ state' = "Done" /\ pc'[t] = "notifydone"
         \/ pc[t] = "storenever" /\ state' = "NeverDone" /\ pc'[t] = "notifynever"
  BY <1>2 DEF OnceInv, OnceTypeOK
<1>4. OnceTypeOK'
  BY <1>0, <1>2 DEF OnceInv, OnceTypeOK, Labels, States
<1>5. OneRunner' /\ WordOK'
  BY <1>1, <1>3 DEF OneRunner, WordOK, Running
<1>6. RunsOK' /\ SeenOK'
  BY <1>0, <1>1, <1>3 DEF OnceInv, RunsOK, SeenOK, Running
<1>7. SleepOK'
  BY <1>3 DEF SleepOK, Notifying
<1> QED BY <1>4, <1>5, <1>6, <1>7 DEF OnceInv

\* The notification leaves no thread asleep.
LEMMA WakeStep ==
    ASSUME OnceInv, NEW t \in Threads, NotifySleepers(t)
    PROVE  OnceInv'
<1>1. /\ UNCHANGED <<state, local, runs>>
      /\ pc[t] \in Notifying /\ pc'[t] \in {"idle", "gone"}
      /\ \A u \in Threads \ {t} : pc'[u] = IF pc[u] = "sleep" THEN "wait" ELSE pc[u]
  BY DEF NotifySleepers, Notifying
<1>2. OnceTypeOK'
  BY DEF NotifySleepers, OnceInv, OnceTypeOK, Labels
<1>3. /\ \A u \in Threads : pc'[u] # "sleep"
      /\ \A u \in Threads : pc'[u] \in Running \/ pc[u] \in Running => pc'[u] = pc[u]
  BY <1>1 DEF Running, Notifying
<1>4. OneRunner' /\ WordOK' /\ RunsOK'
  BY <1>1, <1>3 DEF OnceInv, OneRunner, WordOK, RunsOK, Running
<1>5. SeenOK' /\ SleepOK'
  BY <1>1, <1>3 DEF OnceInv, SeenOK, SleepOK
<1> QED BY <1>2, <1>4, <1>5 DEF OnceInv

\* The invariant is inductive.
THEOREM OnceInductive == OnceSpec => []OnceInv
<1>1. ASSUME OnceInv, OnceNext PROVE OnceInv'
  BY <1>1, OnceQuietStep, ClaimStep, AnnounceStep, EndStep, StoreStep, WakeStep DEF OnceNext, OnceStep
<1>2. ASSUME OnceInv, UNCHANGED onceVars PROVE OnceInv'
  BY <1>2 DEF OnceInv, OnceTypeOK, OneRunner, WordOK, RunsOK, SeenOK, SleepOK, onceVars
<1>3. OnceInv /\ [OnceNext]_onceVars => OnceInv'
  BY <1>1, <1>2
<1> QED BY <1>3, OnceInitInv, PTL DEF OnceSpec

\* pthread_once runs its routine to the end at most once, and never starts it again
\* afterwards, whatever is cancelled in between.
THEOREM OnceOnly == OnceSpec => []RunsOnce
<1>1. OnceInv => RunsOnce
  BY DEF OnceInv, RunsOK, RunsOnce, WordOK, OneRunner, Running
<1> QED BY <1>1, OnceInductive, PTL

\* pthread_once returns only once the routine is done.
THEOREM ReturnsAfterRun == OnceSpec => []DoneMeansRun
<1>1. OnceInv => DoneMeansRun
  BY DEF OnceInv, RunsOK, SeenOK, DoneMeansRun
<1> QED BY <1>1, OnceInductive, PTL

\* Nobody sleeps in pthread_once without a notification to come.
THEOREM NoLostWakeup == OnceSpec => []SleepersAreHeard
<1>1. OnceInv => SleepersAreHeard
  BY DEF OnceInv, WordOK, SleepOK, SleepersAreHeard, Running, Notifying
<1> QED BY <1>1, OnceInductive, PTL
-----------------------------------------------------------------------------
(* The POSIX semaphore                                                     *)

INSTANCE FiniteSetTheorems

SemInv == SemTypeOK /\ TokensConserved

\* What joining and leaving the calls in between does to their number.
LEMMA BetweenCounts ==
    /\ Cardinality(Between) \in Nat
    /\ \A t : t \notin Between => Cardinality(Between \cup {t}) = Cardinality(Between) + 1
    /\ \A t : t \in Between => /\ Cardinality(Between \ {t}) = Cardinality(Between) - 1
                               /\ Cardinality(Between) > 0
<1>1. IsFiniteSet(Between)
  BY FS_Subset, PosixSemAssumption DEF Between
<1>2. Cardinality(Between) \in Nat
  BY <1>1, FS_CardinalityType
<1>3. \A t : t \notin Between => Cardinality(Between \cup {t}) = Cardinality(Between) + 1
  BY <1>1, FS_AddElement
<1>4. \A t : t \in Between => Cardinality(Between \ {t}) = Cardinality(Between) - 1
  BY <1>1, FS_RemoveElement
<1>5. \A t : t \in Between => Cardinality(Between) > 0
  BY <1>1, <1>2, FS_EmptySet
<1> QED BY <1>2, <1>3, <1>4, <1>5

\* posix_sem_init establishes the invariant.
LEMMA SemInitInv == SemInit => SemInv
<1> SUFFICES ASSUME SemInit PROVE SemInv OBVIOUS
<1>1. Between = {}
  BY DEF SemInit, Between
<1>2. SemTypeOK
  BY PosixSemAssumption DEF SemInit, SemTypeOK, CountersInRange
<1>3. TokensConserved
  BY <1>1, PosixSemAssumption, FS_EmptySet DEF SemInit, TokensConserved
<1> QED BY <1>2, <1>3 DEF SemInv

\* A token is taken from the host semaphore: wait, trywait and timedwait.
LEMMA TakeStep ==
    ASSUME SemInv, NEW t \in Threads, Acquire(t) \/ TryWait(t)
    PROVE  SemInv'
<1>1. /\ semaphore > 0 /\ semaphore' = semaphore - 1
      /\ pc[t] \in {"acquire", "idle"} /\ pc' = [pc EXCEPT ![t] = "decrement"]
      /\ UNCHANGED <<value, current>>
  BY DEF Acquire, TryWait, Goto
<1>2. Between' = Between \cup {t} /\ t \notin Between
  BY <1>1 DEF SemInv, SemTypeOK, CountersInRange, Between
<1>3. SemTypeOK'
  BY <1>1, PosixSemAssumption DEF SemInv, SemTypeOK, CountersInRange
<1>4. TokensConserved'
  BY <1>1, <1>2, BetweenCounts DEF SemInv, SemTypeOK, CountersInRange, TokensConserved
<1> QED BY <1>3, <1>4 DEF SemInv

\* The value is decremented after a token was taken; it was positive.
LEMMA DecrementStep ==
    ASSUME SemInv, NEW t \in Threads, Decrement(t)
    PROVE  SemInv'
<1>1. /\ value' = value - 1 /\ UNCHANGED <<semaphore, current>>
      /\ pc[t] = "decrement" /\ pc' = [pc EXCEPT ![t] = "idle"]
  BY DEF Decrement, Goto
<1>2. Between' = Between \ {t} /\ t \in Between
  BY <1>1 DEF SemInv, SemTypeOK, CountersInRange, Between
<1>3. value > 0
  BY <1>2, BetweenCounts DEF SemInv, SemTypeOK, CountersInRange, TokensConserved
<1>4. SemTypeOK'
  BY <1>1, <1>3, PosixSemAssumption DEF SemInv, SemTypeOK, CountersInRange
<1>5. TokensConserved'
  BY <1>1, <1>2, BetweenCounts DEF SemInv, SemTypeOK, CountersInRange, TokensConserved
<1> QED BY <1>4, <1>5 DEF SemInv

\* The exchange of post, whose comparison keeps the value at most Max.
LEMMA ExchangeStep ==
    ASSUME SemInv, NEW t \in Threads, PostExchange(t)
    PROVE  SemInv'
<1>1. CASE value = current[t] /\ pc' # pc
  <2>1. /\ pc[t] = "post" /\ pc' = [pc EXCEPT ![t] = "release"]
        /\ value # Max /\ value' = value + 1 /\ UNCHANGED semaphore
        /\ current' = [current EXCEPT ![t] = 0]
    BY <1>1 DEF PostExchange, Goto
  <2>2. Between' = Between \cup {t} /\ t \notin Between
    BY <2>1 DEF SemInv, SemTypeOK, CountersInRange, Between
  <2>3. SemTypeOK'
    BY <2>1, PosixSemAssumption DEF SemInv, SemTypeOK, CountersInRange
  <2>4. TokensConserved'
    BY <2>1, <2>2, BetweenCounts DEF SemInv, SemTypeOK, CountersInRange, TokensConserved
  <2> QED BY <2>3, <2>4 DEF SemInv
<1>2. CASE current' = [current EXCEPT ![t] = value] /\ UNCHANGED <<value, pc, semaphore>>
  BY <1>2 DEF SemInv, SemTypeOK, CountersInRange, TokensConserved, Between
<1>3. pc[t] = "post" /\ (pc' = [pc EXCEPT ![t] = "release"] => pc' # pc)
  BY DEF PostExchange, SemInv, SemTypeOK, CountersInRange
<1> QED BY <1>1, <1>2, <1>3 DEF PostExchange, Goto

\* The token goes to the host semaphore, whose count was below Max.
LEMMA ReleaseStep ==
    ASSUME SemInv, NEW t \in Threads, Release(t)
    PROVE  SemInv'
<1>1. /\ semaphore' = semaphore + 1 /\ UNCHANGED <<value, current>>
      /\ pc[t] = "release" /\ pc' = [pc EXCEPT ![t] = "idle"]
  BY DEF Release, Goto
<1>2. Between' = Between \ {t} /\ t \in Between
  BY <1>1 DEF SemInv, SemTypeOK, CountersInRange, Between
<1>3. semaphore < Max
  BY <1>2, BetweenCounts, PosixSemAssumption DEF SemInv, SemTypeOK, CountersInRange, TokensConserved
<1>4. SemTypeOK'
  BY <1>1, <1>3, PosixSemAssumption DEF SemInv, SemTypeOK, CountersInRange
<1>5. TokensConserved'
  BY <1>1, <1>2, BetweenCounts DEF SemInv, SemTypeOK, CountersInRange, TokensConserved
<1> QED BY <1>4, <1>5 DEF SemInv

\* The steps that touch neither counter, and stuttering.
LEMMA SemQuietStep ==
    ASSUME SemInv, \/ UNCHANGED semVars
                 \/ \E t \in Threads : SemWait(t) \/ Post(t) \/ PostOverflow(t)
    PROVE  SemInv'
<1>1. CASE UNCHANGED semVars
  BY <1>1 DEF SemInv, SemTypeOK, CountersInRange, TokensConserved, Between, semVars
<1>2. CASE \E t \in Threads : SemWait(t) \/ Post(t) \/ PostOverflow(t)
  <2>1. PICK t \in Threads : SemWait(t) \/ Post(t) \/ PostOverflow(t)
    BY <1>2
  <2>2. /\ UNCHANGED <<value, semaphore>>
        /\ pc[t] \in {"idle", "post"}
        /\ \E l \in {"idle", "acquire", "post"} : pc' = [pc EXCEPT ![t] = l]
        /\ \E x \in {0, value} : current' = current \/ current' = [current EXCEPT ![t] = x]
    BY <2>1 DEF SemWait, Post, PostOverflow, Goto
  <2>3. Between' = Between
    BY <2>2 DEF SemInv, SemTypeOK, CountersInRange, Between
  <2>4. SemTypeOK'
    BY <2>2, PosixSemAssumption DEF SemInv, SemTypeOK, CountersInRange
  <2> QED BY <2>2, <2>3, <2>4 DEF SemInv, TokensConserved
<1> QED BY <1>1, <1>2

\* The invariant is inductive: value and host count agree up to the calls in
\* progress, and both stay between zero and the maximum.
THEOREM SemInductive == SemSpec => []SemInv
<1>1. SemInv /\ [SemNext]_semVars => SemInv'
  BY TakeStep, DecrementStep, ExchangeStep, ReleaseStep, SemQuietStep DEF SemNext, SemStep
<1> QED BY <1>1, SemInitInv, PTL DEF SemSpec

\* posix_sem_post and the waits neither lose nor invent a token.
THEOREM Conserved == SemSpec => []TokensConserved
<1>1. SemInv => TokensConserved
  BY DEF SemInv
<1> QED BY <1>1, SemInductive, PTL

\* posix_sem_getvalue reports a number between zero and the maximum, and the host
\* semaphore never counts past the maximum.
THEOREM InRange == SemSpec => []CountersInRange
<1>1. SemInv => CountersInRange
  BY DEF SemInv, SemTypeOK
<1> QED BY <1>1, SemInductive, PTL
-----------------------------------------------------------------------------
(* The event flag                                                          *)

FlagInv ==
    /\ TypeOK /\ WaitersCounted /\ SingleWaiter
    /\ CancelReachesAll /\ OneCancel /\ SleepersUnsatisfied

\* The number of waiters is a natural number, zero only if there are none, and
\* goes up and down by one with a thread that joins or leaves.
LEMMA Counting ==
    /\ Cardinality(Waiters) \in Nat
    /\ Cardinality(Waiters) = 0 => Waiters = {}
    /\ \A t : t \notin Waiters => Cardinality(Waiters \cup {t}) = Cardinality(Waiters) + 1
    /\ \A t : t \in Waiters => Cardinality(Waiters \ {t}) = Cardinality(Waiters) - 1
<1>1. IsFiniteSet(Waiters)
  BY FS_Subset, EventFlagAssumption DEF Waiters
<1>2. Cardinality(Waiters) \in Nat
  BY <1>1, FS_CardinalityType
<1>3. Cardinality(Waiters) = 0 => Waiters = {}
  BY <1>1, FS_EmptySet
<1>4. \A t : t \notin Waiters => Cardinality(Waiters \cup {t}) = Cardinality(Waiters) + 1
  BY <1>1, FS_AddElement
<1>5. \A t : t \in Waiters => Cardinality(Waiters \ {t}) = Cardinality(Waiters) - 1
  BY <1>1, FS_RemoveElement
<1> QED BY <1>2, <1>3, <1>4, <1>5

\* Init establishes the invariant.
LEMMA FlagInitInv == Init => FlagInv
<1> SUFFICES ASSUME Init PROVE FlagInv OBVIOUS
<1>1. Waiters = {}
  BY DEF Init, Waiters, InWait
<1>2. WaitersCounted
  BY <1>1, FS_EmptySet DEF Init, WaitersCounted
<1>3. TypeOK
  BY DEF Init, TypeOK
<1>4. SingleWaiter /\ CancelReachesAll /\ OneCancel /\ SleepersUnsatisfied
  BY DEF Init, SingleWaiter, InWait, CancelReachesAll, OneCancel, SleepersUnsatisfied
<1> QED BY <1>2, <1>3, <1>4 DEF FlagInv

\* A thread that joins the waiters: Wait, when waitFunc does not hold.
LEMMA JoinStep ==
    ASSUME NEW t \in Threads, NEW r \in Requests, FlagInv, Wait(t, r), ~WaitFunc(r)
    PROVE  FlagInv'
<1> USE DEF FlagInv
<1>1. pc[t] = "idle" /\ pc' = [pc EXCEPT ![t] = "sleeping"] /\ request' = [request EXCEPT ![t] = r]
  BY DEF Wait, Goto
<1>2. UNCHANGED <<m_thread_mode, m_bits, m_status, deleted, owed>> /\ m_waiting_threads' = m_waiting_threads + 1
  BY DEF Wait
<1>3. Waiters' = Waiters \cup {t} /\ t \notin Waiters
  BY <1>1 DEF Waiters, InWait, TypeOK
<1>4. TypeOK'
  BY <1>1, <1>2 DEF TypeOK
<1>5. WaitersCounted'
  BY <1>2, <1>3, Counting DEF WaitersCounted
<1>6. SingleWaiter'
  <2>1. m_thread_mode = "Single" => Waiters = {}
    BY Counting DEF Wait, WaitersCounted
  <2>2. m_thread_mode = "Single" => Waiters' = {t}
    BY <1>3, <2>1
  <2> QED BY <1>2, <2>2 DEF SingleWaiter, Waiters
<1>7. CancelReachesAll'
  BY <1>2, <1>3 DEF CancelReachesAll
<1>8. OneCancel'
  BY <1>1, <1>2 DEF OneCancel, TypeOK
<1>9. SleepersUnsatisfied'
  BY <1>1, <1>2 DEF SleepersUnsatisfied, WaitFunc, Satisfied, TypeOK
<1> QED BY <1>4, <1>5, <1>6, <1>7, <1>8, <1>9

\* A thread that leaves the waiters, having found waitFunc true.
LEMMA LeaveStep ==
    ASSUME NEW t \in Threads, FlagInv, WaitDone(t)
    PROVE  FlagInv'
<1> USE DEF FlagInv
<1>1. InWait(t) /\ pc' = [pc EXCEPT ![t] = "idle"] /\ request' = [request EXCEPT ![t] = NoRequest]
  BY DEF WaitDone, Goto
<1>2. /\ UNCHANGED <<m_thread_mode, m_status, deleted>> /\ m_waiting_threads' = m_waiting_threads - 1
      /\ owed' = IF m_status = "Canceled" THEN owed \ {t} ELSE owed
  BY DEF WaitDone
<1>3. Waiters' = Waiters \ {t} /\ t \in Waiters
  BY <1>1 DEF Waiters, InWait, TypeOK
<1>4. m_bits' \subseteq m_bits
  BY DEF WaitDone, Consume
<1>5. WaitersCounted' /\ m_waiting_threads' \in Nat
  BY <1>2, <1>3, Counting DEF WaitersCounted
<1>6. TypeOK'
  BY <1>1, <1>2, <1>4, <1>5 DEF TypeOK
<1>7. SingleWaiter'
  BY <1>2, <1>3 DEF SingleWaiter, Waiters
<1>8. CancelReachesAll'
  BY <1>2, <1>3 DEF CancelReachesAll, TypeOK
<1>9. OneCancel'
  BY <1>1, <1>2 DEF OneCancel, InWait, TypeOK
<1>10. SleepersUnsatisfied'
  BY <1>1, <1>2, <1>4 DEF SleepersUnsatisfied, WaitFunc, Satisfied, TypeOK
<1> QED BY <1>5, <1>6, <1>7, <1>8, <1>9, <1>10

\* A thread that leaves the waiters at its deadline.  A Cancel in progress makes
\* waitFunc true, so a thread it owes an ECANCELED does not leave this way.
LEMMA TimeoutStep ==
    ASSUME NEW t \in Threads, FlagInv, WaitTimeout(t)
    PROVE  FlagInv'
<1> USE DEF FlagInv
<1>1. InWait(t) /\ pc' = [pc EXCEPT ![t] = "idle"] /\ request' = [request EXCEPT ![t] = NoRequest]
  BY DEF WaitTimeout, Goto
<1>2. UNCHANGED <<m_thread_mode, m_bits, m_status, deleted, owed>> /\ m_waiting_threads' = m_waiting_threads - 1
  BY DEF WaitTimeout
<1>3. Waiters' = Waiters \ {t} /\ t \in Waiters
  BY <1>1 DEF Waiters, InWait, TypeOK
<1>4. m_status = "Set"
  BY DEF WaitTimeout, WaitFunc, TypeOK
<1>5. WaitersCounted' /\ m_waiting_threads' \in Nat
  BY <1>2, <1>3, Counting DEF WaitersCounted
<1>6. TypeOK'
  BY <1>1, <1>2, <1>5 DEF TypeOK
<1>7. SingleWaiter'
  BY <1>2, <1>3 DEF SingleWaiter, Waiters
<1>8. CancelReachesAll'
  BY <1>2, <1>4 DEF CancelReachesAll
<1>9. OneCancel'
  BY <1>1, <1>2 DEF OneCancel, InWait, TypeOK
<1>10. SleepersUnsatisfied'
  BY <1>1, <1>2 DEF SleepersUnsatisfied, WaitFunc, Satisfied, TypeOK
<1> QED BY <1>5, <1>6, <1>7, <1>8, <1>9, <1>10

\* Set and Cancel notify: the threads in Wait stay the same and none of them
\* sleeps any more.
LEMMA NotifyStep ==
    ASSUME NEW t \in Threads, NEW bits \in SUBSET Bits, FlagInv, Set(t, bits) \/ Cancel(t, bits)
    PROVE  FlagInv'
<1> USE DEF FlagInv

<1>1. pc[t] = "idle" /\ m_status = "Set" /\ UNCHANGED <<m_thread_mode, m_waiting_threads, deleted, request>>
  BY DEF Set, Cancel
<1>2. \/ NotifyAll(t, "idle") /\ m_status' = "Set" /\ owed' = owed
      \/ NotifyAll(t, "canceling") /\ m_status' = "Canceled" /\ owed' = Waiters
  BY <1>1 DEF Set, Cancel, Waiters
<1>3. m_bits' \in SUBSET Bits
  BY DEF Set, Cancel, TypeOK
<1>4. /\ pc' \in [Threads -> {"idle", "sleeping", "notified", "canceling"}]
      /\ \A x \in Threads : pc'[x] # "sleeping"
      /\ \A x \in Threads : InWait(x)' <=> InWait(x)
  BY <1>1, <1>2 DEF NotifyAll, InWait, TypeOK
<1>5. Waiters' = Waiters
  BY <1>4 DEF Waiters
<1>6. TypeOK'
  BY <1>1, <1>2, <1>3, <1>4 DEF TypeOK, Waiters
<1>7. WaitersCounted' /\ SingleWaiter'
  BY <1>1, <1>4, <1>5 DEF WaitersCounted, SingleWaiter
<1>8. CancelReachesAll'
  BY <1>1, <1>2, <1>5 DEF CancelReachesAll
<1>9. OneCancel'
  <2>1. \A x \in Threads : pc[x] # "canceling"
    BY <1>1 DEF OneCancel
  <2> QED BY <1>1, <1>2, <2>1 DEF OneCancel, NotifyAll, TypeOK
<1>10. SleepersUnsatisfied'
  BY <1>4 DEF SleepersUnsatisfied
<1> QED BY <1>6, <1>7, <1>8, <1>9, <1>10

\* The remaining steps: Wait that returns at once, a waiter that goes back to
\* sleep, Clear, the end of Cancel, Delete.
LEMMA OtherStep ==
    ASSUME NEW t \in Threads, FlagInv,
           \/ \E r \in Requests : Wait(t, r) /\ WaitFunc(r)
           \/ WaitAgain(t)
           \/ \E bits \in SUBSET Bits : Clear(t, bits)
           \/ CancelDone(t)
           \/ Delete(t)
    PROVE  FlagInv'
<1> USE DEF FlagInv
<1>1. CASE WaitAgain(t)
  <2>1. pc[t] = "notified" /\ ~WaitFunc(request[t]) /\ pc' = [pc EXCEPT ![t] = "sleeping"]
    BY <1>1 DEF WaitAgain, Goto
  <2>2. UNCHANGED <<m_thread_mode, m_bits, m_status, m_waiting_threads, deleted, request, owed>>
    BY <1>1 DEF WaitAgain
  <2>3. Waiters' = Waiters
    BY <2>1 DEF Waiters, InWait, TypeOK
  <2>4. TypeOK' /\ OneCancel'
    BY <2>1, <2>2 DEF TypeOK, OneCancel
  <2>5. WaitersCounted' /\ SingleWaiter' /\ CancelReachesAll'
    BY <2>2, <2>3 DEF WaitersCounted, SingleWaiter, Waiters, CancelReachesAll
  <2>6. SleepersUnsatisfied'
    BY <2>1, <2>2 DEF SleepersUnsatisfied, WaitFunc, Satisfied, TypeOK
  <2> QED BY <2>4, <2>5, <2>6
<1>2. CASE CancelDone(t)
  <2>1. pc[t] = "canceling" /\ m_status' = "Set" /\ pc' = [pc EXCEPT ![t] = "idle"]
    BY <1>2 DEF CancelDone, Goto
  <2>2. UNCHANGED <<m_thread_mode, m_bits, m_waiting_threads, deleted, request, owed>>
    BY <1>2 DEF CancelDone
  <2>3. Waiters' = Waiters
    BY <2>1 DEF Waiters, InWait, TypeOK
  <2>4. Waiters = {}
    BY <1>2, Counting DEF CancelDone, WaitersCounted
  <2>5. TypeOK' /\ OneCancel'
    BY <2>1, <2>2 DEF TypeOK, OneCancel
  <2>6. WaitersCounted' /\ SingleWaiter' /\ CancelReachesAll'
    BY <2>2, <2>3, <2>4 DEF WaitersCounted, SingleWaiter, Waiters, CancelReachesAll
  <2>7. SleepersUnsatisfied'
    BY <2>3, <2>4 DEF SleepersUnsatisfied, Waiters, InWait
  <2> QED BY <2>5, <2>6, <2>7
<1>3. ASSUME UNCHANGED <<m_thread_mode, m_status, m_waiting_threads, pc, request, owed>>,
             m_bits' \subseteq m_bits, deleted' \in BOOLEAN
      PROVE  FlagInv'
  <2>1. Waiters' = Waiters
    BY <1>3 DEF Waiters, InWait
  <2>2. TypeOK' /\ OneCancel'
    BY <1>3 DEF TypeOK, OneCancel
  <2>3. WaitersCounted' /\ SingleWaiter' /\ CancelReachesAll'
    BY <1>3, <2>1 DEF WaitersCounted, SingleWaiter, Waiters, CancelReachesAll
  <2>4. SleepersUnsatisfied'
    BY <1>3 DEF SleepersUnsatisfied, WaitFunc, Satisfied
  <2> QED BY <2>2, <2>3, <2>4
<1>4. CASE \E r \in Requests : Wait(t, r) /\ WaitFunc(r)
  BY <1>3, <1>4 DEF Wait, Consume, TypeOK
<1>5. CASE \E bits \in SUBSET Bits : Clear(t, bits)
  BY <1>3, <1>5 DEF Clear, TypeOK
<1>6. CASE Delete(t)
  BY <1>3, <1>6 DEF Delete, TypeOK
<1> QED BY <1>1, <1>2, <1>4, <1>5, <1>6

\* The conjunction of the invariants is inductive: for any number of threads an
\* event flag counts its waiters, cancels all of them and wakes whom it must.
THEOREM FlagInductive == Spec => []FlagInv
<1>1. FlagInv /\ [Next]_vars => FlagInv'
  <2> SUFFICES ASSUME FlagInv, [Next]_vars PROVE FlagInv' OBVIOUS
  <2>1. CASE Next
    <3>1. PICK t \in Threads : Step(t) \/ Call(t)
      BY <2>1 DEF Next
    <3>2. CASE Step(t)
      BY <3>2, LeaveStep, TimeoutStep, OtherStep DEF Step
    <3>3. CASE Call(t)
      BY <3>3, JoinStep, NotifyStep, OtherStep DEF Call
    <3> QED BY <3>1, <3>2, <3>3
  <2>2. CASE UNCHANGED vars
    BY <2>2 DEF vars, FlagInv, TypeOK, WaitersCounted, SingleWaiter, CancelReachesAll, OneCancel,
                SleepersUnsatisfied, Waiters, InWait, WaitFunc, Satisfied
  <2> QED BY <2>1, <2>2
<1> QED BY <1>1, FlagInitInv, PTL DEF Spec

\* m_waiting_threads is exact for any number of threads and any way waits end.
THEOREM WaitersExact == Spec => []WaitersCounted
BY FlagInductive, PTL DEF FlagInv

\* In Single mode at most one thread is ever inside Wait.
THEOREM SingleModeKept == Spec => []SingleWaiter
BY FlagInductive, PTL DEF FlagInv

\* Cancel ends only after every waiter it found has returned ECANCELED.
THEOREM CancelComplete == Spec => []CancelReachesAll
BY FlagInductive, PTL DEF FlagInv

\* Nobody sleeps, without a notification on its way, through a Set or a Cancel
\* that satisfies them.
THEOREM NoMissedNotification == Spec => []SleepersUnsatisfied
BY FlagInductive, PTL DEF FlagInv
=============================================================================
