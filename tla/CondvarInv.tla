----------------------------- MODULE CondvarInv -----------------------------
(***************************************************************************)
(* The inductive invariant IInv of module Condvar, what its proof needs to *)
(* know about the lists of the code and about joining and leaving a sleep  *)
(* queue, and that every step preserves the parts of IInv about the sleep  *)
(* queues.  On top of IInv, a second invariant, Placed, says where the     *)
(* SleepQueue objects are, and every step is matched with a step of        *)
(* module Monitor.                                                         *)
(***************************************************************************)
EXTENDS CondvarMonitor, TLAPS

Distinct(s) == \A i, j \in 1..Len(s) : s[i] = s[j] => i = j

\* Holding the chain lock of cvp; inside the host mutex mp but not yet, or no
\* longer, its owner; between SleepqAdd and the end of the wait loop; in the
\* middle of SleepqDrop.
Chained  == {"enqueue", "clearwake", "sigflush", "sigdefer", "drop", "dropflush", "dropwaddrs"}
Inside   == {"own", "unlock", "unlock_deferred", "enqueue", "cvown"}
Queued   == {"clearwake", "sleep", "sleepflush", "asleep", "awake", "expired"}
Dropping == {"drop", "dropflush", "dropwaddrs"}

\* The locals a label reads are set, the list it pops is not empty.
LocalsOK ==
    \A t \in Threads :
        /\ pc[t] \in Waiting \cup Chained => cvp[t] \in Conds
        /\ pc[t] \in Waiting \cup Inside \cup {"sigflush", "sigdefer"} => mp[t] \in Mutexes
        /\ pc[t] \in {"sigflush", "sigdefer", "kick"} => td[t] \in Threads
        /\ pc[t] \in {"wakeall", "sleepflush", "sigflush", "dropflush"} => defer_waiters[t] # <<>>
        /\ pc[t] \in {"release", "dropwaddrs"} => waddrs[t] # <<>>
        /\ pc[t] \notin {"release", "drop", "dropflush", "dropwaddrs"} => waddrs[t] = <<>>

\* The chain lock is held by the thread whose label says so.
ChainLockOK ==
    /\ \A t \in Threads : pc[t] \in Chained => sc_lock[cvp[t]] = t
    /\ \A c \in Conds : sc_lock[c] # None => pc[sc_lock[c]] \in Chained /\ cvp[sc_lock[c]] = c

\* So is the host mutex, and m_owner names nobody else meanwhile.
HostLockOK ==
    /\ OwnerHoldsLock
    /\ \A t \in Threads : pc[t] \in Inside => m_lock[mp[t]] = t /\ m_owner[mp[t]] = None

\* Waiters without a queue are seen only by the broadcast that is dropping
\* them.
DropOK ==
    /\ \A c \in Conds : sq[c] = None /\ sq_blocked[c] # <<>> =>
           sc_lock[c] # None /\ pc[sc_lock[c]] \in Dropping
    /\ \A t \in Threads : pc[t] \in Dropping => sq[cvp[t]] = None

\* wchan names the one queue a thread is on, once.
LinkOK(t) ==
    /\ wchan[t] # None => /\ In(t, sq_blocked[wchan[t]])
                          /\ pc[t] \in Queued
                          /\ cvp[t] = wchan[t]
                          /\ mutex_obj[t] \in Mutexes
    /\ wchan[t] = None => sleepqueue[t] \in Threads
    /\ pc[t] = "clearwake" => wchan[t] = cvp[t]
    /\ \A c \in Conds : In(t, sq_blocked[c]) => wchan[t] = c
LinksOK ==
    /\ \A t \in Threads : LinkOK(t)
    /\ \A c \in Conds : Distinct(sq_blocked[c])

\* has_user_waiters is set before its thread is on the queue.
FlagsOK ==
    /\ UserWaitersFlagged
    /\ \A t \in Threads : pc[t] = "enqueue" => has_user_waiters[cvp[t]]

\* A thread that owes deferred wakeups is on its way to send them or owns a
\* flagged mutex.
WillSend(t) ==
    \/ pc[t] \in {"enqueue", "clearwake", "sleep", "sleepflush", "unlock_deferred", "wakeall"}
    \/ \E m \in Mutexes : m_owner[m] = t /\ m_deferred[m]
Owed(t) ==
    /\ will_sleep[t] => pc[t] \in {"enqueue", "clearwake", "sleep"}
    /\ pc[t] \in {"sigflush", "sigdefer"} => m_owner[mp[t]] = t
    /\ defer_waiters[t] # <<>> => WillSend(t)
OwedOK == \A t \in Threads : Owed(t)

IInv ==
    /\ TypeOK /\ LocalsOK /\ ChainLockOK /\ HostLockOK /\ DropOK /\ LinksOK /\ FlagsOK /\ OwedOK
    /\ QueuePerWaiter /\ NoLostWakeup
-----------------------------------------------------------------------------
(* The lists of the code.                                                  *)

\* A list is empty when its length is 0, and then nothing is in it.
LEMMA EmptyList ==
    ASSUME NEW S, NEW s \in Seq(S)
    PROVE  /\ s = <<>> <=> Len(s) = 0
           /\ s = <<>> => \A y : ~In(y, s)
           /\ \A y : In(y, s) => y \in S
           /\ Len(s) \in Nat
BY SMTT(30) DEF In

\* The empty list is a list of anything.
LEMMA NoList == \A S : <<>> \in Seq(S)
OBVIOUS

\* push_front puts one element on a list.
LEMMA PushFrontList ==
    ASSUME NEW S, NEW s \in Seq(S), NEW x \in S
    PROVE  /\ PushFront(x, s) \in Seq(S)
           /\ PushFront(x, s) # <<>>
           /\ Len(PushFront(x, s)) = Len(s) + 1
           /\ \A y : In(y, PushFront(x, s)) <=> y = x \/ In(y, s)
           /\ Distinct(s) /\ ~In(x, s) => Distinct(PushFront(x, s))
<1> DEFINE p == PushFront(x, s)
<1>1. p \in Seq(S) /\ Len(p) = Len(s) + 1
  BY SMTT(30) DEF PushFront
<1>2. p[1] = x /\ \A i \in 1..Len(s) : p[i + 1] = s[i]
  BY SMTT(30) DEF PushFront
<1>3. \A i \in 1..Len(p) : i = 1 \/ (i - 1 \in 1..Len(s) /\ p[i] = s[i - 1])
  BY <1>1, <1>2, SMTT(30)
<1> HIDE DEF p
<1>4. \A y : In(y, p) <=> y = x \/ In(y, s)
  <2>1. \A y : In(y, p) => y = x \/ In(y, s)
    BY <1>1, <1>2, <1>3, ZenonT(30) DEF In
  <2>2. 1 \in 1..Len(p) /\ \A i \in 1..Len(s) : i + 1 \in 1..Len(p)
    BY <1>1, SMTT(30)
  <2>3. \A y : In(y, s) => In(y, p)
    BY <1>2, <2>2, Zenon DEF In
  <2>4. In(x, p)
    BY <1>2, <2>2, Zenon DEF In
  <2> QED BY <2>1, <2>3, <2>4, ZenonT(30)
<1>5. Distinct(s) /\ ~In(x, s) => Distinct(p)
  <2> SUFFICES ASSUME Distinct(s), ~In(x, s),
                      NEW i \in 1..Len(p), NEW j \in 1..Len(p), p[i] = p[j]
               PROVE  i = j
    BY Zenon DEF Distinct
  <2>1. CASE i = 1 /\ j # 1
    BY <2>1, <1>2, <1>3, Zenon DEF In
  <2>2. CASE i # 1 /\ j = 1
    BY <2>2, <1>2, <1>3, ZenonT(30) DEF In
  <2>3. CASE i # 1 /\ j # 1
    <3>1. i - 1 \in 1..Len(s) /\ j - 1 \in 1..Len(s) /\ s[i - 1] = s[j - 1]
      BY <2>3, <1>3, ZenonT(30)
    <3> QED BY <3>1, SMTT(30) DEF Distinct
  <2> QED BY <2>1, <2>2, <2>3, Zenon
<1>6. p # <<>>
  BY <1>1, SMTT(30)
<1> QED BY <1>1, <1>4, <1>5, <1>6, ZenonT(30) DEF p

\* Defer appends one element to a list.
LEMMA AppendList ==
    ASSUME NEW S, NEW s \in Seq(S), NEW x \in S
    PROVE  /\ Append(s, x) \in Seq(S)
           /\ Append(s, x) # <<>>
           /\ \A y : In(y, Append(s, x)) <=> y = x \/ In(y, s)
<1> DEFINE p == Append(s, x)
<1>1. p \in Seq(S) /\ Len(p) = Len(s) + 1
  OBVIOUS
<1>2. p[Len(s) + 1] = x /\ \A i \in 1..Len(s) : p[i] = s[i]
  OBVIOUS
<1>3. \A i \in 1..Len(p) : i = Len(s) + 1 \/ i \in 1..Len(s)
  BY <1>1, SMTT(30)
<1> QED BY <1>1, <1>2, <1>3, SMTT(30) DEF In

\* Walking a list takes its first element off.
LEMMA PopList ==
    ASSUME NEW S, NEW s \in Seq(S), s # <<>>
    PROVE  /\ Head(s) \in S
           /\ In(Head(s), s)
           /\ Tail(s) \in Seq(S)
           /\ Len(Tail(s)) = Len(s) - 1
           /\ \A y : In(y, s) <=> y = Head(s) \/ In(y, Tail(s))
           /\ Distinct(s) => Distinct(Tail(s)) /\ ~In(Head(s), Tail(s))
<1> DEFINE r == Tail(s)
<1>1. r \in Seq(S) /\ Len(r) = Len(s) - 1 /\ Len(s) \in Nat \ {0} /\ Head(s) = s[1]
  OBVIOUS
<1>2. \A i \in 1..Len(r) : i + 1 \in 1..Len(s) /\ r[i] = s[i + 1]
  BY <1>1, SMTT(30)
<1>3. \A i \in 1..Len(s) : i = 1 \/ (i - 1 \in 1..Len(r) /\ r[i - 1] = s[i])
  BY <1>1, <1>2, SMTT(30)
<1>4. 1 \in 1..Len(s) /\ Head(s) \in S /\ In(Head(s), s)
  BY <1>1, SMTT(30) DEF In
<1>5. \A y : In(y, s) <=> y = Head(s) \/ In(y, r)
  BY <1>1, <1>2, <1>3, <1>4, ZenonT(30) DEF In
<1>6. Distinct(s) => Distinct(r) /\ ~In(Head(s), r)
  BY <1>1, <1>2, <1>4, SMTT(30) DEF In, Distinct
<1> QED BY <1>1, <1>4, <1>5, <1>6, ZenonT(30)

\* std::erase takes one element out of a list without repetitions.
LEMMA EraseList ==
    ASSUME NEW S, NEW s \in Seq(S), NEW x, In(x, s), Distinct(s)
    PROVE  /\ Erase(s, x) \in Seq(S)
           /\ Len(Erase(s, x)) = Len(s) - 1
           /\ \A y : In(y, Erase(s, x)) <=> In(y, s) /\ y # x
           /\ Distinct(Erase(s, x))
<1> DEFINE k == CHOOSE i \in 1..Len(s) : s[i] = x
           e == [i \in 1..(Len(s) - 1) |-> IF i < k THEN s[i] ELSE s[i + 1]]
<1>1. k \in 1..Len(s) /\ s[k] = x
  BY ZenonT(30) DEF In
<1>2. Erase(s, x) = e
  BY ZenonT(30) DEF Erase
<1> HIDE DEF k
<1>3. Len(s) \in Nat /\ Len(s) - 1 \in Nat
  BY <1>1, SMTT(30)
<1>4. e \in Seq(S) /\ Len(e) = Len(s) - 1
  <2>1. \A i \in 1..(Len(s) - 1) : e[i] \in S
    BY <1>1, <1>3, SMTT(30)
  <2> QED BY <2>1, <1>3, SMTT(30)
<1>5. \A i \in 1..Len(e) :
          \/ i < k /\ e[i] = s[i]
          \/ i >= k /\ e[i] = s[i + 1] /\ i + 1 \in 1..Len(s)
  BY <1>1, <1>3, <1>4, SMTT(30)
<1>6. \A j \in 1..Len(s) :
          \/ j = k
          \/ j < k /\ j \in 1..Len(e) /\ e[j] = s[j]
          \/ j > k /\ j - 1 \in 1..Len(e) /\ e[j - 1] = s[j]
  BY <1>1, <1>3, <1>4, SMTT(30)
<1> HIDE DEF e
<1>7. \A y : In(y, e) => In(y, s) /\ y # x
  <2> SUFFICES ASSUME NEW i \in 1..Len(e)
               PROVE  In(e[i], s) /\ e[i] # x
    BY Zenon DEF In
  <2>1. \E j \in 1..Len(s) : j # k /\ e[i] = s[j]
    BY <1>1, <1>3, <1>4, <1>5, SMTT(30)
  <2> QED BY <2>1, <1>1, Zenon DEF In, Distinct
<1>8. \A y : In(y, s) /\ y # x => In(y, e)
  BY <1>1, <1>6, Zenon DEF In
<1>9. Distinct(e)
  <2> SUFFICES ASSUME NEW i \in 1..Len(e), NEW j \in 1..Len(e), e[i] = e[j]
               PROVE  i = j
    BY ZenonT(30) DEF Distinct
  <2> DEFINE up(n) == IF n < k THEN n ELSE n + 1
  <2>1. up(i) \in 1..Len(s) /\ up(j) \in 1..Len(s) /\ e[i] = s[up(i)] /\ e[j] = s[up(j)]
    BY <1>1, <1>3, <1>4, <1>5, SMTT(30)
  <2>2. up(i) = up(j)
    BY Zenon, <2>1 DEF Distinct
  <2> QED BY <2>2, <1>1, <1>4, SMTT(30)
<1> QED BY <1>2, <1>4, <1>7, <1>8, <1>9, Zenon
-----------------------------------------------------------------------------
(* What joining and leaving a sleep queue does.                            *)

\* A thread that is on no queue joins that of c.
LEMMA SleepqAddEffect ==
    ASSUME IInv, NEW c \in Conds, NEW t \in Threads, wchan[t] = None, SleepqAdd(c, t),
           sq[c] = None => sq_blocked[c] = <<>>
    PROVE  /\ sq_blocked' \in [Conds -> Seq(Threads)]
           /\ sq_freeq' \in [Conds -> Seq(Threads)]
           /\ sq' \in [Conds -> Threads \cup {None}]
           /\ sleepqueue' = [sleepqueue EXCEPT ![t] = None]
           /\ wchan' = [wchan EXCEPT ![t] = c]
           /\ \A d \in Conds \ {c} : /\ sq_blocked'[d] = sq_blocked[d]
                                     /\ sq_freeq'[d] = sq_freeq[d]
                                     /\ sq'[d] = sq[d]
           /\ \A y : In(y, sq_blocked'[c]) <=> y = t \/ In(y, sq_blocked[c])
           /\ Distinct(sq_blocked'[c])
           /\ sq'[c] # None
           /\ Len(sq_blocked'[c]) = Len(sq_freeq'[c]) + 1
<1>0. /\ sq \in [Conds -> Threads \cup {None}]
      /\ sq_blocked \in [Conds -> Seq(Threads)]
      /\ sq_freeq \in [Conds -> Seq(Threads)]
      /\ sleepqueue \in [Threads -> Threads \cup {None}]
      /\ wchan \in [Threads -> Conds \cup {None}]
      /\ has_user_waiters \in [Conds -> BOOLEAN]
      /\ None \notin Threads
  BY Zenon, CondvarAssumption DEF IInv, TypeOK
<1>1. sleepqueue[t] \in Threads /\ sleepqueue[t] # None
  BY <1>0, Zenon DEF IInv, LinksOK, LinkOK
<1>2. ~In(t, sq_blocked[c]) /\ Distinct(sq_blocked[c])
  BY <1>0, CondvarAssumption, Zenon DEF IInv, LinksOK, LinkOK
<1>3. sq_blocked' = [sq_blocked EXCEPT ![c] = PushFront(t, @)]
  BY ZenonT(30) DEF SleepqAdd
<1>4. /\ PushFront(t, sq_blocked[c]) \in Seq(Threads)
      /\ Len(PushFront(t, sq_blocked[c])) = Len(sq_blocked[c]) + 1
      /\ \A y : In(y, PushFront(t, sq_blocked[c])) <=> y = t \/ In(y, sq_blocked[c])
      /\ Distinct(PushFront(t, sq_blocked[c]))
  BY Zenon, <1>0, <1>2, PushFrontList
<1>5. /\ sq_blocked' \in [Conds -> Seq(Threads)]
      /\ sq_blocked'[c] = PushFront(t, sq_blocked[c])
      /\ \A d \in Conds \ {c} : sq_blocked'[d] = sq_blocked[d]
  BY <1>0, <1>3, <1>4, ZenonT(30)
<1>6. /\ PushFront(sleepqueue[t], sq_freeq[c]) \in Seq(Threads)
      /\ Len(PushFront(sleepqueue[t], sq_freeq[c])) = Len(sq_freeq[c]) + 1
  BY <1>0, <1>1, PushFrontList, ZenonT(30)
<1>7. Len(sq_blocked[c]) = Len(sq_freeq[c]) + (IF sq[c] = None THEN 0 ELSE 1)
  BY Zenon DEF IInv, QueuePerWaiter
<1>8. /\ sq_freeq' \in [Conds -> Seq(Threads)]
      /\ sq' \in [Conds -> Threads \cup {None}]
      /\ sq'[c] # None
      /\ \A d \in Conds \ {c} : sq_freeq'[d] = sq_freeq[d] /\ sq'[d] = sq[d]
  <2>1. CASE sq[c] = None
    BY Zenon, <2>1, <1>0, <1>1 DEF SleepqAdd
  <2>2. CASE sq[c] # None
    <3>1. sq' = sq /\ sq_freeq' = [sq_freeq EXCEPT ![c] = PushFront(sleepqueue[t], @)]
      BY <2>2, ZenonT(30) DEF SleepqAdd
    <3> QED BY <2>2, <3>1, <1>0, <1>6, Zenon
  <2> QED BY <2>1, <2>2, ZenonT(30)
<1>9. Len(sq_blocked'[c]) = Len(sq_freeq'[c]) + 1
  <2>1. CASE sq[c] = None
    <3>1. sq_freeq' = sq_freeq
      BY <2>1, Zenon DEF SleepqAdd
    <3> QED BY <2>1, <3>1, <1>0, <1>4, <1>5, <1>7, EmptyList, SMTT(30)
  <2>2. CASE sq[c] # None
    <3>1. sq_freeq'[c] = PushFront(sleepqueue[t], sq_freeq[c])
      BY <2>2, <1>0, Zenon DEF SleepqAdd
    <3>2. Len(sq_blocked'[c]) = Len(sq_freeq[c]) + 1 + 1
      BY <2>2, <1>0, <1>4, <1>5, <1>7, Zenon
    <3> QED BY <3>1, <3>2, <1>0, <1>6, Zenon
  <2> QED BY <2>1, <2>2, Zenon
<1>10. sleepqueue' = [sleepqueue EXCEPT ![t] = None] /\ wchan' = [wchan EXCEPT ![t] = c]
  BY ZenonT(30) DEF SleepqAdd
<1> QED BY <1>4, <1>5, <1>8, <1>9, <1>10, Zenon

\* A thread on the queue of c leaves it, with a SleepQueue of its own again.
LEMMA SleepqRemoveEffect ==
    ASSUME IInv, NEW c \in Conds, NEW x \in Threads, In(x, sq_blocked[c]), sq[c] # None,
           SleepqRemove(c, x)
    PROVE  /\ sq_blocked' \in [Conds -> Seq(Threads)]
           /\ sq_freeq' \in [Conds -> Seq(Threads)]
           /\ sq' \in [Conds -> Threads \cup {None}]
           /\ sleepqueue' \in [Threads -> Threads \cup {None}]
           /\ has_user_waiters' \in [Conds -> BOOLEAN]
           /\ wchan' = [wchan EXCEPT ![x] = None]
           /\ sleepqueue'[x] \in Threads
           /\ \A y \in Threads \ {x} : sleepqueue'[y] = sleepqueue[y]
           /\ \A d \in Conds \ {c} : /\ sq_blocked'[d] = sq_blocked[d]
                                     /\ sq_freeq'[d] = sq_freeq[d]
                                     /\ sq'[d] = sq[d]
                                     /\ has_user_waiters'[d] = has_user_waiters[d]
           /\ \A y : In(y, sq_blocked'[c]) <=> In(y, sq_blocked[c]) /\ y # x
           /\ Distinct(sq_blocked'[c])
           /\ has_user_waiters'[c] <=> sq_blocked'[c] # <<>>
           /\ sq'[c] = None <=> sq_blocked'[c] = <<>>
           /\ Len(sq_blocked'[c]) = Len(sq_freeq'[c]) + (IF sq'[c] = None THEN 0 ELSE 1)
<1> DEFINE rest == Erase(sq_blocked[c], x)
<1>0. /\ sq \in [Conds -> Threads \cup {None}]
      /\ sq_blocked \in [Conds -> Seq(Threads)]
      /\ sq_freeq \in [Conds -> Seq(Threads)]
      /\ sleepqueue \in [Threads -> Threads \cup {None}]
      /\ wchan \in [Threads -> Conds \cup {None}]
      /\ has_user_waiters \in [Conds -> BOOLEAN]
      /\ None \notin Threads
  BY CondvarAssumption, Zenon DEF IInv, TypeOK
<1>1. Distinct(sq_blocked[c])
  BY Zenon DEF IInv, LinksOK, LinkOK
<1>2. /\ rest \in Seq(Threads)
      /\ Len(rest) = Len(sq_blocked[c]) - 1
      /\ \A y : In(y, rest) <=> In(y, sq_blocked[c]) /\ y # x
      /\ Distinct(rest)
  BY <1>0, <1>1, EraseList, ZenonT(30)
<1>3. /\ sq_blocked' = [sq_blocked EXCEPT ![c] = rest]
      /\ wchan' = [wchan EXCEPT ![x] = None]
      /\ has_user_waiters' = [has_user_waiters EXCEPT ![c] = rest # <<>>]
  BY Zenon DEF SleepqRemove
<1>4. rest = <<>> => /\ sleepqueue' = [sleepqueue EXCEPT ![x] = sq[c]]
                     /\ sq' = [sq EXCEPT ![c] = None]
                     /\ UNCHANGED sq_freeq
  BY Zenon DEF SleepqRemove
<1>5. rest # <<>> => /\ sleepqueue' = [sleepqueue EXCEPT ![x] = Head(sq_freeq[c])]
                     /\ sq_freeq' = [sq_freeq EXCEPT ![c] = Tail(@)]
                     /\ UNCHANGED sq
  BY ZenonT(30) DEF SleepqRemove
<1> HIDE DEF rest
<1>6. Len(sq_blocked[c]) = Len(sq_freeq[c]) + 1
  BY <1>0, Zenon DEF IInv, QueuePerWaiter
<1>7. Len(rest) = Len(sq_freeq[c])
  BY <1>0, <1>2, <1>6, SMTT(30)
<1>8. rest = <<>> <=> sq_freeq[c] = <<>>
  BY <1>0, <1>2, <1>7, EmptyList, SMTT(30)
<1>9. /\ sq_blocked' \in [Conds -> Seq(Threads)]
      /\ sq_blocked'[c] = rest
      /\ has_user_waiters' \in [Conds -> BOOLEAN]
      /\ has_user_waiters'[c] <=> rest # <<>>
      /\ \A d \in Conds \ {c} : /\ sq_blocked'[d] = sq_blocked[d]
                                /\ has_user_waiters'[d] = has_user_waiters[d]
  BY Zenon, <1>0, <1>2, <1>3
<1>10. CASE rest = <<>>
  <2>1. /\ sq' \in [Conds -> Threads \cup {None}]
        /\ sq'[c] = None
        /\ \A d \in Conds \ {c} : sq'[d] = sq[d]
        /\ sq_freeq' = sq_freeq
        /\ sleepqueue' \in [Threads -> Threads \cup {None}]
        /\ sleepqueue'[x] \in Threads
        /\ \A y \in Threads \ {x} : sleepqueue'[y] = sleepqueue[y]
    BY Zenon, <1>10, <1>0, <1>4
  <2>2. Len(sq_blocked'[c]) = Len(sq_freeq'[c]) + 0
    BY <2>1, <1>0, <1>7, <1>9, SMTT(30)
  <2>3. sq_blocked'[c] = <<>>
    BY <1>9, <1>10, ZenonT(30)
  <2> QED BY Zenon, <1>10, <1>0, <1>2, <1>3, <1>9, <2>1, <2>2, <2>3
<1>11. CASE rest # <<>>
  <2>1. /\ Head(sq_freeq[c]) \in Threads
        /\ Tail(sq_freeq[c]) \in Seq(Threads)
        /\ Len(Tail(sq_freeq[c])) = Len(sq_freeq[c]) - 1
    BY <1>0, <1>8, <1>11, PopList, ZenonT(30)
  <2>2. /\ sq' = sq
        /\ sq_freeq' \in [Conds -> Seq(Threads)]
        /\ sq_freeq'[c] = Tail(sq_freeq[c])
        /\ sleepqueue' \in [Threads -> Threads \cup {None}]
        /\ sleepqueue'[x] \in Threads
        /\ \A y \in Threads \ {x} : sleepqueue'[y] = sleepqueue[y]
        /\ \A d \in Conds \ {c} : sq_freeq'[d] = sq_freeq[d]
    <3>1. /\ sq' = sq
          /\ sq_freeq' = [sq_freeq EXCEPT ![c] = Tail(@)]
          /\ sleepqueue' = [sleepqueue EXCEPT ![x] = Head(sq_freeq[c])]
      BY Zenon, <1>5, <1>11
    <3> QED BY <1>0, <2>1, <3>1, Zenon
  <2>3. Len(sq_blocked'[c]) = Len(sq_freeq'[c]) + 1
    BY <1>0, <1>2, <1>6, <1>9, <2>1, <2>2, SMTT(30)
  <2> QED BY Zenon, <1>11, <1>0, <1>2, <1>3, <1>9, <2>2, <2>3
<1> QED BY Zenon, <1>10, <1>11
-----------------------------------------------------------------------------
(* What the steps that change a queue may rely on.                         *)

\* The waiter that is about to join a queue is on none, and nobody is in the
\* middle of dropping that queue.
LEMMA EnqueueReady ==
    ASSUME IInv, NEW t \in Threads, pc[t] = "enqueue"
    PROVE  /\ cvp[t] \in Conds
           /\ mp[t] \in Mutexes
           /\ wchan[t] = None
           /\ sq[cvp[t]] = None => sq_blocked[cvp[t]] = <<>>
<1>1. cvp[t] \in Conds /\ mp[t] \in Mutexes
  BY Zenon DEF IInv, LocalsOK, Waiting
<1>2. wchan[t] = None
  BY Zenon DEF IInv, LinksOK, LinkOK, Queued
<1>3. sc_lock[cvp[t]] = t
  BY Zenon DEF IInv, ChainLockOK, Chained
<1>4. sq[cvp[t]] = None => sq_blocked[cvp[t]] = <<>>
  BY <1>1, <1>3, Zenon DEF IInv, DropOK, Dropping
<1> QED BY <1>1, <1>2, <1>4, Zenon

\* A waiter that wakes while on the queue finds the queue of its cond there.
LEMMA AwakeReady ==
    ASSUME IInv, NEW t \in Threads, pc[t] \in {"awake", "expired"}, sc_lock[cvp[t]] = None
    PROVE  /\ cvp[t] \in Conds
           /\ mp[t] \in Mutexes
           /\ wchan[t] # None => wchan[t] = cvp[t] /\ In(t, sq_blocked[cvp[t]]) /\ sq[cvp[t]] # None
<1>1. cvp[t] \in Conds /\ mp[t] \in Mutexes
  BY Zenon DEF IInv, LocalsOK, Waiting
<1>2. wchan[t] # None => wchan[t] = cvp[t] /\ In(t, sq_blocked[cvp[t]])
  BY Zenon DEF IInv, LinksOK, LinkOK
<1>3. In(t, sq_blocked[cvp[t]]) => sq_blocked[cvp[t]] # <<>>
  BY <1>1, EmptyList, ZenonT(30) DEF IInv, TypeOK
<1>4. sq_blocked[cvp[t]] # <<>> => sq[cvp[t]] # None
  BY <1>1, Zenon DEF IInv, DropOK
<1> QED BY <1>1, <1>2, <1>3, <1>4, Zenon

\* The thread a signal picks is on the queue and waits with a mutex.
LEMMA SignalReady ==
    ASSUME IInv, NEW c \in Conds, sq[c] # None, NEW x \in SignalTargets(c)
    PROVE  /\ x \in Threads
           /\ In(x, sq_blocked[c])
           /\ wchan[x] = c
           /\ pc[x] \in Queued
           /\ cvp[x] = c
           /\ mutex_obj[x] \in Mutexes
<1>0. sq_blocked[c] \in Seq(Threads) /\ sq_freeq[c] \in Seq(Threads)
  BY ZenonT(30) DEF IInv, TypeOK
<1>1. Len(sq_blocked[c]) = Len(sq_freeq[c]) + 1
  BY Zenon DEF IInv, QueuePerWaiter
<1>2. sq_blocked[c] # <<>>
  BY <1>0, <1>1, EmptyList, SMTT(30)
<1>3. x \in Threads /\ In(x, sq_blocked[c])
  BY <1>0, <1>2, PopList, SMTT(30) DEF SignalTargets
<1>4. wchan[x] = c /\ c # None
  BY <1>3, CondvarAssumption, Zenon DEF IInv, LinksOK, LinkOK
<1> QED BY <1>3, <1>4, Zenon DEF IInv, LinksOK, LinkOK

\* SleepqDrop has a SleepQueue for the next waiter it wakes.
LEMMA DropReady ==
    ASSUME IInv, NEW t \in Threads, pc[t] = "drop", sq_blocked[cvp[t]] # <<>>
    PROVE  LET c == cvp[t]
               x == Head(sq_blocked[c])
           IN  /\ c \in Conds
               /\ sq[c] = None
               /\ sc_lock[c] = t
               /\ x \in Threads
               /\ wchan[x] = c
               /\ pc[x] \in Queued
               /\ cvp[x] = c
               /\ mutex_obj[x] \in Mutexes
               /\ Head(sq_freeq[c]) \in Threads
               /\ Tail(sq_freeq[c]) \in Seq(Threads)
               /\ Tail(sq_blocked[c]) \in Seq(Threads)
               /\ Len(Tail(sq_blocked[c])) = Len(Tail(sq_freeq[c]))
               /\ Distinct(Tail(sq_blocked[c]))
               /\ \A y : In(y, Tail(sq_blocked[c])) <=> In(y, sq_blocked[c]) /\ y # x
<1> DEFINE c == cvp[t]
           x == Head(sq_blocked[c])
<1>1. c \in Conds
  BY Zenon DEF IInv, LocalsOK, Chained
<1>2. sq[c] = None /\ sc_lock[c] = t
  BY <1>1, Zenon DEF IInv, DropOK, Dropping, ChainLockOK, Chained
<1>3. sq_blocked[c] \in Seq(Threads) /\ sq_freeq[c] \in Seq(Threads)
  BY <1>1, ZenonT(30) DEF IInv, TypeOK
<1>4. Len(sq_blocked[c]) = Len(sq_freeq[c]) + 0
  BY Zenon, <1>1, <1>2 DEF IInv, QueuePerWaiter
<1>5. sq_freeq[c] # <<>>
  BY <1>3, <1>4, EmptyList, SMTT(30)
<1>6. Distinct(sq_blocked[c])
  BY <1>1, Zenon DEF IInv, LinksOK, LinkOK
<1>7. /\ x \in Threads
      /\ In(x, sq_blocked[c])
      /\ Tail(sq_blocked[c]) \in Seq(Threads)
      /\ Len(Tail(sq_blocked[c])) = Len(sq_blocked[c]) - 1
      /\ \A y : In(y, sq_blocked[c]) <=> y = x \/ In(y, Tail(sq_blocked[c]))
      /\ Distinct(Tail(sq_blocked[c])) /\ ~In(x, Tail(sq_blocked[c]))
  BY <1>3, <1>6, PopList, Zenon
<1>8. /\ Head(sq_freeq[c]) \in Threads
      /\ Tail(sq_freeq[c]) \in Seq(Threads)
      /\ Len(Tail(sq_freeq[c])) = Len(sq_freeq[c]) - 1
  BY <1>3, <1>5, PopList, Zenon
<1>9. Len(Tail(sq_blocked[c])) = Len(Tail(sq_freeq[c]))
  BY <1>3, <1>4, <1>7, <1>8, SMTT(30)
<1>10. wchan[x] = c /\ c # None
  BY <1>1, <1>7, CondvarAssumption, ZenonT(30) DEF IInv, LinksOK, LinkOK
<1>11. pc[x] \in Queued /\ cvp[x] = c /\ mutex_obj[x] \in Mutexes
  BY <1>7, <1>10, Zenon DEF IInv, LinksOK, LinkOK
<1> HIDE DEF c, x
<1>12. \A y : In(y, Tail(sq_blocked[c])) <=> In(y, sq_blocked[c]) /\ y # x
  BY <1>7, Zenon
<1> QED BY <1>1, <1>2, <1>7, <1>8, <1>9, <1>10, <1>11, <1>12, Zenon DEF c, x

\* Pthread::WakeAll releases one thread and goes on until its list is empty.
LEMMA WakeAllEffect ==
    ASSUME IInv, NEW t \in Threads, WakeAll(t)
    PROVE  /\ Head(defer_waiters[t]) \in Threads
           /\ Tail(defer_waiters[t]) \in Seq(Threads)
           /\ \A y : In(y, defer_waiters[t]) <=>
                         y = Head(defer_waiters[t]) \/ In(y, Tail(defer_waiters[t]))
           /\ \A u \in Threads \ {t} : pc'[u] = pc[u]
           /\ \/ pc'[t] = pc[t] /\ Tail(defer_waiters[t]) # <<>>
              \/ /\ Tail(defer_waiters[t]) = <<>>
                 /\ \/ pc[t] = "wakeall" /\ pc'[t] = "idle"
                    \/ pc[t] = "sleepflush" /\ pc'[t] = "asleep"
                    \/ pc[t] = "sigflush" /\ pc'[t] = "sigdefer"
                    \/ pc[t] = "dropflush" /\ pc'[t] = "drop"
<1>1. defer_waiters[t] # <<>> /\ defer_waiters[t] \in Seq(Threads)
  BY Zenon DEF IInv, WakeAll, LocalsOK, TypeOK
<1>2. /\ Head(defer_waiters[t]) \in Threads
      /\ Tail(defer_waiters[t]) \in Seq(Threads)
      /\ \A y : In(y, defer_waiters[t]) <=>
                    y = Head(defer_waiters[t]) \/ In(y, Tail(defer_waiters[t]))
  BY <1>1, PopList, Zenon
<1>3. pc \in [Threads -> Labels]
  BY Zenon DEF IInv, TypeOK
<1>4. CASE Tail(defer_waiters[t]) # <<>>
  BY <1>2, <1>4, Zenon DEF WakeAll
<1>5. CASE Tail(defer_waiters[t]) = <<>>
  <2>1. pc' = [pc EXCEPT ![t] = After(pc[t])]
    BY <1>5, Zenon DEF WakeAll, Goto
  <2>2. pc[t] \in {"wakeall", "sleepflush", "sigflush", "dropflush"}
    BY Zenon DEF WakeAll
  <2> QED BY <1>2, <1>3, <1>5, <2>1, <2>2, Zenon DEF After
<1> QED BY <1>4, <1>5, Zenon
-----------------------------------------------------------------------------
(* Every step preserves the parts of IInv about the sleep queues.           *)

\* Only the broadcast that drops them sees waiters without a queue.
LEMMA DropStep ==
    ASSUME IInv, NEW t \in Threads, Step(t) \/ Call(t)
    PROVE  DropOK'
<1>0. /\ DropOK
      /\ \A u \in Threads : pc[u] \in Chained => cvp[u] \in Conds /\ sc_lock[cvp[u]] = u
      /\ pc \in [Threads -> Labels]
      /\ cvp \in [Threads -> Conds \cup {None}]
      /\ sc_lock \in [Conds -> Threads \cup {None}]
      /\ sq \in [Conds -> Threads \cup {None}]
      /\ sq_blocked \in [Conds -> Seq(Threads)]
      /\ None \notin Threads
  BY CondvarAssumption, ZenonT(30) DEF IInv, TypeOK, LocalsOK, ChainLockOK
<1>1. CASE LockOwn(t)
  BY <1>1, <1>0, ZenonT(30) DEF LockOwn, Goto, DropOK, Dropping, Chained, mutexVars, queueVars, cancelVars, threadVars, localVars
<1>2. CASE UnlockHost(t)
  BY <1>2, <1>0, ZenonT(30) DEF UnlockHost, Goto, DropOK, Dropping, Chained, mutexVars, queueVars, cancelVars, threadVars, localVars
<1>3. CASE WakeAll(t)
  <2>1. /\ \A u \in Threads \ {t} : pc'[u] = pc[u]
        /\ \/ pc'[t] = pc[t]
           \/ pc[t] = "wakeall" /\ pc'[t] = "idle"
           \/ pc[t] = "sleepflush" /\ pc'[t] = "asleep"
           \/ pc[t] = "sigflush" /\ pc'[t] = "sigdefer"
           \/ pc[t] = "dropflush" /\ pc'[t] = "drop"
    BY <1>3, WakeAllEffect, Zenon
  <2>2. UNCHANGED <<cvp, sc_lock, sq, sq_blocked>>
    BY <1>3, Zenon DEF WakeAll, localVars, queueVars
  <2> QED BY Zenon, <1>0, <2>1, <2>2 DEF DropOK, Dropping, Chained
<1>4. CASE WaitEnqueue(t)
  <2>1. /\ cvp[t] \in Conds /\ pc[t] = "enqueue" /\ sc_lock[cvp[t]] = t /\ wchan[t] = None
        /\ sq[cvp[t]] = None => sq_blocked[cvp[t]] = <<>>
    BY <1>4, <1>0, EnqueueReady, Zenon DEF WaitEnqueue, Chained
  <2>2. /\ sq'[cvp[t]] # None
        /\ \A d \in Conds \ {cvp[t]} : sq_blocked'[d] = sq_blocked[d] /\ sq'[d] = sq[d]
    BY <1>4, <2>1, SleepqAddEffect, Zenon DEF WaitEnqueue
  <2>3. UNCHANGED <<cvp, sc_lock>> /\ pc' = [pc EXCEPT ![t] = "clearwake"]
    BY <1>4, ZenonT(30) DEF WaitEnqueue, Goto, localVars
  <2> QED BY <1>0, <2>1, <2>2, <2>3, SMTT(30) DEF DropOK, Dropping, Chained
<1>5. CASE WaitClearWake(t)
  BY <1>5, <1>0, ZenonT(30) DEF WaitClearWake, ClearWake, Goto, DropOK, Dropping, Chained, mutexVars, queueVars, cancelVars, threadVars, localVars
<1>6. CASE Sleep(t)
  BY <1>6, <1>0, ZenonT(30) DEF Sleep, Goto, DropOK, Dropping, Chained, mutexVars, queueVars, cancelVars, threadVars, localVars
<1>7. CASE SleepAcquire(t)
  BY <1>7, <1>0, ZenonT(30) DEF SleepAcquire, Goto, DropOK, Dropping, Chained, mutexVars, queueVars, cancelVars, threadVars, localVars
<1>8. CASE SleepTimeout(t)
  BY <1>8, <1>0, Zenon DEF SleepTimeout, Goto, DropOK, Dropping, Chained, mutexVars, queueVars, cancelVars, threadVars, localVars
<1>9. CASE WaitAwake(t)
  <2>1. /\ cvp[t] \in Conds /\ pc[t] \in {"awake", "expired"} /\ sc_lock[cvp[t]] = None
        /\ wchan[t] # None => In(t, sq_blocked[cvp[t]]) /\ sq[cvp[t]] # None
    BY <1>9, AwakeReady, Zenon DEF WaitAwake
  <2>2. /\ UNCHANGED <<cvp, sc_lock>> /\ pc'[t] \in {"awake", "expired", "cvlock"}
        /\ \A u \in Threads \ {t} : pc'[u] = pc[u]
    BY <1>9, <1>0, Zenon DEF WaitAwake, Goto, localVars
  <2>3. CASE wchan[t] # None /\ SleepqRemove(cvp[t], t)
    <3>1. /\ sq'[cvp[t]] = None <=> sq_blocked'[cvp[t]] = <<>>
          /\ \A d \in Conds \ {cvp[t]} : sq_blocked'[d] = sq_blocked[d] /\ sq'[d] = sq[d]
      BY Zenon, <2>1, <2>3, SleepqRemoveEffect
    <3>2. ASSUME NEW d \in Conds, sq'[d] = None, sq_blocked'[d] # <<>>
          PROVE  sc_lock'[d] # None /\ pc'[sc_lock'[d]] \in Dropping
      BY <1>0, <2>1, <2>2, <3>1, <3>2, Zenon DEF DropOK, Dropping
    <3>3. ASSUME NEW u \in Threads, pc'[u] \in Dropping
          PROVE  sq'[cvp'[u]] = None
      <4>1. u # t /\ pc[u] \in Dropping /\ cvp'[u] = cvp[u]
        BY <2>2, <3>3, Zenon DEF Dropping
      <4>2. cvp[u] \in Conds /\ sc_lock[cvp[u]] = u
        BY <1>0, <4>1, Zenon DEF Dropping, Chained
      <4>3. cvp[u] # cvp[t]
        BY <1>0, <2>1, <4>2, Zenon
      <4> QED BY <1>0, <3>1, <4>1, <4>2, <4>3, Zenon DEF DropOK
    <3> QED BY <3>2, <3>3, ZenonT(30) DEF DropOK
  <2>4. CASE UNCHANGED <<sq, sq_blocked>>
    BY <1>0, <2>1, <2>2, <2>4, Zenon DEF DropOK, Dropping, Chained
  <2> QED BY <1>9, <2>3, <2>4, Zenon DEF WaitAwake, queueVars
<1>10. CASE WaitCvLock(t)
  BY <1>10, <1>0, SMTT(30) DEF WaitCvLock, Goto, DropOK, Dropping, Chained, mutexVars, queueVars, cancelVars, threadVars, localVars
<1>11. CASE WaitCvOwn(t)
  BY <1>11, <1>0, ZenonT(30) DEF WaitCvOwn, Goto, DropOK, Dropping, Chained, mutexVars, queueVars, cancelVars, threadVars, localVars
<1>12. CASE SignalDefer(t)
  BY <1>12, <1>0, ZenonT(30) DEF SignalDefer, Defer, Goto, DropOK, Dropping, Chained, mutexVars, queueVars, cancelVars, threadVars, localVars
<1>13. CASE Drop(t)
  <2>1. pc[t] = "drop" /\ UNCHANGED <<sq, cvp, sc_lock>>
    BY <1>13, Zenon DEF Drop
  <2>2. /\ \A u \in Threads \ {t} : pc'[u] = pc[u]
        /\ pc'[t] \in {"drop", "dropflush", "dropwaddrs"}
    BY <1>13, <1>0, <2>1, Zenon DEF Drop, Goto
  <2>3. cvp[t] \in Conds /\ sc_lock[cvp[t]] = t
    BY <1>0, <2>1, Zenon DEF Chained
  <2>4. \A d \in Conds \ {cvp[t]} : sq_blocked'[d] = sq_blocked[d]
    BY <1>13, <1>0, Zenon DEF Drop
  <2> QED BY ZenonT(30), <1>0, <2>1, <2>2, <2>3, <2>4 DEF DropOK, Dropping, Chained
<1>14. CASE DropDone(t)
  <2>1. /\ pc[t] = "drop" /\ sq_blocked[cvp[t]] = <<>> /\ UNCHANGED <<sq, sq_blocked, cvp>>
        /\ sc_lock' = [sc_lock EXCEPT ![cvp[t]] = None]
    BY <1>14, Zenon DEF DropDone, localVars
  <2>2. /\ \A u \in Threads \ {t} : pc'[u] = pc[u]
        /\ pc'[t] \in {"idle", "release"}
    BY <1>14, <1>0, Zenon DEF DropDone, Goto
  <2>3. cvp[t] \in Conds /\ sc_lock[cvp[t]] = t
    BY <1>0, <2>1, Zenon DEF Chained
  <2>4. \A c \in Conds \ {cvp[t]} : sc_lock[c] # t
    BY <1>0, ZenonT(30) DEF IInv, ChainLockOK
  <2> QED BY <1>0, <2>1, <2>2, <2>3, <2>4, SMTT(30) DEF DropOK, Dropping, Chained
<1>15. CASE ReleaseWaddrs(t)
  <2>1. UNCHANGED <<sq, sq_blocked, cvp, sc_lock>>
    BY <1>15, Zenon DEF ReleaseWaddrs, queueVars
  <2>2. \/ pc' = pc
        \/ pc[t] = "release" /\ pc' = [pc EXCEPT ![t] = "idle"]
        \/ pc[t] = "dropwaddrs" /\ pc' = [pc EXCEPT ![t] = "drop"]
    BY <1>15, Zenon DEF ReleaseWaddrs, Goto
  <2> QED BY <1>0, <2>1, <2>2, SMTT(30) DEF DropOK, Dropping, Chained
<1>16. CASE CancelKick(t)
  BY <1>16, <1>0, ZenonT(30) DEF CancelKick, Release, Goto, DropOK, Dropping, Chained, mutexVars, queueVars, cancelVars, threadVars, localVars
<1>17. ASSUME NEW m \in Mutexes, Lock(t, m) PROVE DropOK'
  BY <1>17, <1>0, ZenonT(30) DEF Lock, Goto, DropOK, Dropping, Chained, mutexVars, queueVars, cancelVars, threadVars, localVars
<1>18. ASSUME NEW m \in Mutexes, SelfLock(t, m) PROVE DropOK'
  BY <1>18, <1>0, Zenon DEF SelfLock, DropOK, Dropping, Chained, mutexVars, queueVars, cancelVars, threadVars, localVars
<1>19. ASSUME NEW m \in Mutexes, UnlockRecursive(t, m) PROVE DropOK'
  BY <1>19, <1>0, Zenon DEF UnlockRecursive, DropOK, Dropping, Chained, mutexVars, queueVars, cancelVars, threadVars, localVars
<1>20. ASSUME NEW m \in Mutexes, Unlock(t, m) PROVE DropOK'
  BY <1>20, <1>0, ZenonT(30) DEF Unlock, Goto, DropOK, Dropping, Chained, mutexVars, queueVars, cancelVars, threadVars, localVars
<1>21. ASSUME NEW c \in Conds, NEW m \in Mutexes, NEW w \in BOOLEAN, Wait(t, c, m, w) PROVE DropOK'
  BY <1>21, <1>0, ZenonT(30) DEF Wait, Goto, DropOK, Dropping, Chained, mutexVars, queueVars, cancelVars, threadVars, localVars
<1>22. ASSUME NEW c \in Conds, SignalNobody(t, c) PROVE DropOK'
  BY <1>22, <1>0, Zenon DEF SignalNobody, DropOK, Dropping, Chained, mutexVars, queueVars, cancelVars, threadVars, localVars
<1>23. ASSUME NEW c \in Conds, Signal(t, c) PROVE DropOK'
  <2>1. PICK x \in SignalTargets(c) : SleepqRemove(c, x) /\ SignalFate(t, c, x)
    BY <1>23, Zenon DEF Signal
  <2>2. /\ x \in Threads /\ In(x, sq_blocked[c]) /\ sq[c] # None
        /\ sc_lock[c] = None /\ pc[t] = "idle"
    BY <1>23, SignalReady, ZenonT(30) DEF Signal
  <2>3. /\ sq'[c] = None <=> sq_blocked'[c] = <<>>
        /\ \A d \in Conds \ {c} : sq_blocked'[d] = sq_blocked[d] /\ sq'[d] = sq[d]
    BY Zenon, <2>1, <2>2, SleepqRemoveEffect
  <2>4. /\ \A d \in Conds \ {c} : sc_lock'[d] = sc_lock[d]
        /\ \A u \in Threads \ {t} : pc'[u] = pc[u] /\ cvp'[u] = cvp[u]
        /\ pc'[t] \in {"idle", "sigflush", "release"}
    BY <1>0, <2>1, <2>2, ZenonT(30) DEF SignalFate, Goto
  <2>5. ASSUME NEW d \in Conds, sq'[d] = None, sq_blocked'[d] # <<>>
        PROVE  sc_lock'[d] # None /\ pc'[sc_lock'[d]] \in Dropping
    <3>1. d # c
      BY <2>3, <2>5, Zenon
    <3>2. sq[d] = None /\ sq_blocked[d] # <<>> /\ sc_lock'[d] = sc_lock[d]
      BY <2>3, <2>4, <2>5, <3>1, Zenon
    <3>3. sc_lock[d] \in Threads /\ sc_lock[d] # None /\ pc[sc_lock[d]] \in Dropping
      BY <1>0, <3>2, Zenon DEF DropOK
    <3>4. sc_lock[d] # t
      BY <2>2, <3>3, Zenon DEF Dropping
    <3> QED BY <2>4, <3>2, <3>3, <3>4, Zenon
  <2>6. ASSUME NEW u \in Threads, pc'[u] \in Dropping
        PROVE  sq'[cvp'[u]] = None
    <3>1. u # t /\ pc[u] \in Dropping /\ cvp'[u] = cvp[u]
      BY <2>4, <2>6, Zenon DEF Dropping
    <3>2. cvp[u] \in Conds /\ sc_lock[cvp[u]] = u
      BY <1>0, <3>1, Zenon DEF Dropping, Chained
    <3>3. cvp[u] # c
      BY <1>0, <2>2, <3>2, Zenon
    <3> QED BY <1>0, <2>3, <3>1, <3>2, <3>3, Zenon DEF DropOK
  <2> QED BY <2>5, <2>6, Zenon DEF DropOK
<1>24. ASSUME NEW c \in Conds, Broadcast(t, c) PROVE DropOK'
  BY <1>24, <1>0, ZenonT(30) DEF Broadcast, Goto, DropOK, Dropping, Chained, mutexVars, queueVars, cancelVars, threadVars, localVars
<1>25. ASSUME NEW x \in Cancellable, Cancel(t, x) PROVE DropOK'
  BY <1>25, <1>0, ZenonT(30) DEF Cancel, Goto, DropOK, Dropping, Chained, mutexVars, queueVars, cancelVars, threadVars, localVars
<1>26. CASE SetCancelState(t)
  BY <1>26, <1>0, ZenonT(30) DEF SetCancelState, DropOK, Dropping, Chained, mutexVars, queueVars, cancelVars, threadVars, localVars
<1> QED BY ZenonT(30), <1>1, <1>2, <1>3, <1>4, <1>5, <1>6, <1>7, <1>8, <1>9, <1>10, <1>11, <1>12, <1>13,
           <1>14, <1>15, <1>16, <1>17, <1>18, <1>19, <1>20, <1>21, <1>22, <1>23, <1>24, <1>25, <1>26 DEF Step, Call

\* Every step leaves a SleepQueue for every waiter.
LEMMA QueueStep ==
    ASSUME IInv, NEW t \in Threads, Step(t) \/ Call(t)
    PROVE  QueuePerWaiter'
<1>0. /\ QueuePerWaiter
      /\ sq \in [Conds -> Threads \cup {None}]
      /\ sq_blocked \in [Conds -> Seq(Threads)]
      /\ sq_freeq \in [Conds -> Seq(Threads)]
      /\ None \notin Threads
  BY CondvarAssumption, Zenon DEF IInv, TypeOK
<1>1. CASE LockOwn(t)
  BY <1>1, <1>0, Zenon DEF LockOwn, Goto, QueuePerWaiter, mutexVars, queueVars, cancelVars, threadVars, localVars
<1>2. CASE UnlockHost(t)
  BY <1>2, <1>0, Zenon DEF UnlockHost, Goto, QueuePerWaiter, mutexVars, queueVars, cancelVars, threadVars, localVars
<1>3. CASE WakeAll(t)
  BY <1>3, <1>0, ZenonT(30) DEF WakeAll, Release, Goto, QueuePerWaiter, mutexVars, queueVars, cancelVars, threadVars, localVars
<1>4. CASE WaitEnqueue(t)
  <2>1. /\ cvp[t] \in Conds /\ wchan[t] = None
        /\ sq[cvp[t]] = None => sq_blocked[cvp[t]] = <<>>
    BY <1>4, EnqueueReady, Zenon DEF WaitEnqueue
  <2>2. /\ sq'[cvp[t]] # None
        /\ Len(sq_blocked'[cvp[t]]) = Len(sq_freeq'[cvp[t]]) + 1
        /\ \A d \in Conds \ {cvp[t]} : /\ sq_blocked'[d] = sq_blocked[d]
                                        /\ sq_freeq'[d] = sq_freeq[d]
                                        /\ sq'[d] = sq[d]
    BY <1>4, <2>1, SleepqAddEffect, Zenon DEF WaitEnqueue
  <2> QED BY Zenon, <1>0, <2>1, <2>2 DEF QueuePerWaiter
<1>5. CASE WaitClearWake(t)
  BY <1>5, <1>0, Zenon DEF WaitClearWake, ClearWake, Goto, QueuePerWaiter, mutexVars, queueVars, cancelVars, threadVars, localVars
<1>6. CASE Sleep(t)
  BY <1>6, <1>0, Zenon DEF Sleep, Goto, QueuePerWaiter, mutexVars, queueVars, cancelVars, threadVars, localVars
<1>7. CASE SleepAcquire(t)
  BY <1>7, <1>0, Zenon DEF SleepAcquire, Goto, QueuePerWaiter, mutexVars, queueVars, cancelVars, threadVars, localVars
<1>8. CASE SleepTimeout(t)
  BY <1>8, <1>0, Zenon DEF SleepTimeout, Goto, QueuePerWaiter, mutexVars, queueVars, cancelVars, threadVars, localVars
<1>9. CASE WaitAwake(t)
  <2>1. /\ cvp[t] \in Conds
        /\ wchan[t] # None => In(t, sq_blocked[cvp[t]]) /\ sq[cvp[t]] # None
    BY <1>9, AwakeReady, ZenonT(30) DEF WaitAwake
  <2>2. CASE wchan[t] # None /\ SleepqRemove(cvp[t], t)
    <3>1. /\ Len(sq_blocked'[cvp[t]]) = Len(sq_freeq'[cvp[t]]) + (IF sq'[cvp[t]] = None THEN 0 ELSE 1)
          /\ \A d \in Conds \ {cvp[t]} : /\ sq_blocked'[d] = sq_blocked[d]
                                          /\ sq_freeq'[d] = sq_freeq[d]
                                          /\ sq'[d] = sq[d]
      BY Zenon, <2>1, <2>2, SleepqRemoveEffect
    <3> QED BY Zenon, <1>0, <2>1, <3>1 DEF QueuePerWaiter
  <2>3. CASE UNCHANGED <<sq, sq_blocked, sq_freeq>>
    BY <1>0, <2>3, Zenon DEF QueuePerWaiter
  <2> QED BY <1>9, <2>2, <2>3, Zenon DEF WaitAwake, queueVars
<1>10. CASE WaitCvLock(t)
  BY <1>10, <1>0, Zenon DEF WaitCvLock, Goto, QueuePerWaiter, mutexVars, queueVars, cancelVars, threadVars, localVars
<1>11. CASE WaitCvOwn(t)
  BY <1>11, <1>0, Zenon DEF WaitCvOwn, Goto, QueuePerWaiter, mutexVars, queueVars, cancelVars, threadVars, localVars
<1>12. CASE SignalDefer(t)
  BY <1>12, <1>0, Zenon DEF SignalDefer, Defer, Goto, QueuePerWaiter, mutexVars, queueVars, cancelVars, threadVars, localVars
<1>13. CASE Drop(t)
  <2> DEFINE c == cvp[t]
  <2>1. pc[t] = "drop" /\ sq_blocked[c] # <<>> /\ UNCHANGED sq
    BY <1>13, Zenon DEF Drop
  <2>2. /\ c \in Conds /\ sq[c] = None
        /\ Len(Tail(sq_blocked[c])) = Len(Tail(sq_freeq[c]))
        /\ Tail(sq_blocked[c]) \in Seq(Threads) /\ Tail(sq_freeq[c]) \in Seq(Threads)
    BY <2>1, DropReady, Zenon
  <2>3. CASE UNCHANGED <<sq_blocked, sq_freeq>>
    BY <1>0, <2>1, <2>3, ZenonT(30) DEF QueuePerWaiter
  <2>4. CASE /\ sq_blocked' = [sq_blocked EXCEPT ![c] = Tail(@)]
             /\ sq_freeq' = [sq_freeq EXCEPT ![c] = Tail(@)]
    <3>1. /\ sq_blocked'[c] = Tail(sq_blocked[c]) /\ sq_freeq'[c] = Tail(sq_freeq[c])
          /\ \A d \in Conds \ {c} : sq_blocked'[d] = sq_blocked[d] /\ sq_freeq'[d] = sq_freeq[d]
      BY <1>0, <2>2, <2>4, Zenon
    <3>2. Len(sq_blocked'[c]) = Len(sq_freeq'[c]) + 0
      BY <2>2, <3>1, SMTT(30)
    <3> HIDE DEF c
    <3> QED BY Zenon, <1>0, <2>1, <2>2, <3>1, <3>2 DEF QueuePerWaiter
  <2> QED BY <1>13, <2>3, <2>4, Zenon DEF Drop
<1>14. CASE DropDone(t)
  BY <1>14, <1>0, Zenon DEF DropDone, Goto, QueuePerWaiter, mutexVars, queueVars, cancelVars, threadVars, localVars
<1>15. CASE ReleaseWaddrs(t)
  BY <1>15, <1>0, Zenon DEF ReleaseWaddrs, Release, Goto, QueuePerWaiter, mutexVars, queueVars, cancelVars, threadVars, localVars
<1>16. CASE CancelKick(t)
  BY <1>16, <1>0, Zenon DEF CancelKick, Release, Goto, QueuePerWaiter, mutexVars, queueVars, cancelVars, threadVars, localVars
<1>17. ASSUME NEW m \in Mutexes, Lock(t, m) PROVE QueuePerWaiter'
  BY <1>17, <1>0, Zenon DEF Lock, Goto, QueuePerWaiter, mutexVars, queueVars, cancelVars, threadVars, localVars
<1>18. ASSUME NEW m \in Mutexes, SelfLock(t, m) PROVE QueuePerWaiter'
  BY <1>18, <1>0, Zenon DEF SelfLock, QueuePerWaiter, mutexVars, queueVars, cancelVars, threadVars, localVars
<1>19. ASSUME NEW m \in Mutexes, UnlockRecursive(t, m) PROVE QueuePerWaiter'
  BY <1>19, <1>0, Zenon DEF UnlockRecursive, QueuePerWaiter, mutexVars, queueVars, cancelVars, threadVars, localVars
<1>20. ASSUME NEW m \in Mutexes, Unlock(t, m) PROVE QueuePerWaiter'
  BY <1>20, <1>0, Zenon DEF Unlock, Goto, QueuePerWaiter, mutexVars, queueVars, cancelVars, threadVars, localVars
<1>21. ASSUME NEW c \in Conds, NEW m \in Mutexes, NEW w \in BOOLEAN, Wait(t, c, m, w) PROVE QueuePerWaiter'
  BY <1>21, <1>0, Zenon DEF Wait, Goto, QueuePerWaiter, mutexVars, queueVars, cancelVars, threadVars, localVars
<1>22. ASSUME NEW c \in Conds, SignalNobody(t, c) PROVE QueuePerWaiter'
  BY <1>22, <1>0, ZenonT(30) DEF SignalNobody, QueuePerWaiter, mutexVars, queueVars, cancelVars, threadVars, localVars
<1>23. ASSUME NEW c \in Conds, Signal(t, c) PROVE QueuePerWaiter'
  <2>1. PICK x \in SignalTargets(c) : SleepqRemove(c, x)
    BY <1>23, Zenon DEF Signal
  <2>2. x \in Threads /\ In(x, sq_blocked[c]) /\ sq[c] # None
    BY <1>23, SignalReady, ZenonT(30) DEF Signal
  <2>3. /\ Len(sq_blocked'[c]) = Len(sq_freeq'[c]) + (IF sq'[c] = None THEN 0 ELSE 1)
        /\ \A d \in Conds \ {c} : /\ sq_blocked'[d] = sq_blocked[d]
                                  /\ sq_freeq'[d] = sq_freeq[d]
                                  /\ sq'[d] = sq[d]
    BY Zenon, <2>1, <2>2, SleepqRemoveEffect
  <2> QED BY Zenon, <1>0, <2>3 DEF QueuePerWaiter
<1>24. ASSUME NEW c \in Conds, Broadcast(t, c) PROVE QueuePerWaiter'
  <2>1. sq[c] \in Threads /\ sq_freeq[c] \in Seq(Threads) /\ sq[c] # None
    BY <1>24, <1>0, ZenonT(30) DEF Broadcast
  <2>2. Len(PushFront(sq[c], sq_freeq[c])) = Len(sq_freeq[c]) + 1
    BY Zenon, <2>1, PushFrontList
  <2>3. /\ sq_freeq'[c] = PushFront(sq[c], sq_freeq[c])
        /\ sq'[c] = None
        /\ \A d \in Conds \ {c} : sq_freeq'[d] = sq_freeq[d] /\ sq'[d] = sq[d]
        /\ UNCHANGED sq_blocked
    BY <1>24, <1>0, Zenon DEF Broadcast
  <2>4. Len(sq_blocked[c]) = Len(sq_freeq[c]) + 1
    BY <1>0, <2>1, Zenon DEF QueuePerWaiter
  <2>5. Len(sq_blocked'[c]) = Len(sq_freeq'[c]) + 0
    BY <2>1, <2>2, <2>3, <2>4, SMTT(30)
  <2> QED BY Zenon, <1>0, <2>3, <2>5 DEF QueuePerWaiter
<1>25. ASSUME NEW x \in Cancellable, Cancel(t, x) PROVE QueuePerWaiter'
  BY <1>25, <1>0, Zenon DEF Cancel, Goto, QueuePerWaiter, mutexVars, queueVars, cancelVars, threadVars, localVars
<1>26. CASE SetCancelState(t)
  BY <1>26, <1>0, Zenon DEF SetCancelState, QueuePerWaiter, mutexVars, queueVars, cancelVars, threadVars, localVars
<1> QED BY Zenon, <1>1, <1>2, <1>3, <1>4, <1>5, <1>6, <1>7, <1>8, <1>9, <1>10, <1>11, <1>12, <1>13,
           <1>14, <1>15, <1>16, <1>17, <1>18, <1>19, <1>20, <1>21, <1>22, <1>23, <1>24, <1>25, <1>26 DEF Step, Call

\* A step of a thread that is on no queue disturbs no link when it leaves the
\* queues, wchan and every other thread alone.
LEMMA LinksFrame ==
    ASSUME LinksOK, NEW t \in Threads,
           UNCHANGED <<wchan, sq_blocked, sleepqueue, mutex_obj>>,
           wchan[t] = None, pc'[t] # "clearwake",
           \A u \in Threads \ {t} : pc'[u] = pc[u] /\ cvp'[u] = cvp[u]
    PROVE  LinksOK'
<1>1. ASSUME NEW u \in Threads PROVE LinkOK(u)'
  <2>1. LinkOK(u)
    BY ZenonT(30) DEF LinksOK
  <2>2. CASE u = t
    BY Zenon, <2>1, <2>2 DEF LinkOK
  <2>3. CASE u # t
    BY Zenon, <2>1, <2>3 DEF LinkOK
  <2> QED BY <2>2, <2>3, Zenon
<1>2. \A c \in Conds : Distinct(sq_blocked'[c])
  BY ZenonT(30) DEF LinksOK
<1> QED BY <1>1, <1>2, Zenon DEF LinksOK

\* Every step leaves wchan and the queues in agreement.
LEMMA LinksStep ==
    ASSUME IInv, NEW t \in Threads, Step(t) \/ Call(t)
    PROVE  LinksOK'
<1>0. /\ LinksOK
      /\ \A u \in Threads : pc[u] \in Chained => cvp[u] \in Conds /\ sc_lock[cvp[u]] = u
      /\ pc \in [Threads -> Labels]
      /\ cvp \in [Threads -> Conds \cup {None}]
      /\ wchan \in [Threads -> Conds \cup {None}]
      /\ mutex_obj \in [Threads -> Mutexes \cup {None}]
      /\ sleepqueue \in [Threads -> Threads \cup {None}]
      /\ sq_blocked \in [Conds -> Seq(Threads)]
      /\ None \notin Threads /\ None \notin Conds
  BY CondvarAssumption, Zenon DEF IInv, TypeOK, LocalsOK, ChainLockOK
<1>idle. /\ pc[t] = "idle" => wchan[t] = None
         /\ pc \in [Threads -> Labels] /\ cvp \in [Threads -> Conds \cup {None}]
  BY <1>0, Zenon DEF LinksOK, LinkOK, Queued
<1>1. CASE LockOwn(t)
  BY <1>1, <1>0, Zenon DEF LockOwn, Goto, LinksOK, LinkOK, Queued, mutexVars, queueVars, cancelVars, threadVars, localVars
<1>2. CASE UnlockHost(t)
  BY <1>2, <1>0, Zenon DEF UnlockHost, Goto, LinksOK, LinkOK, Queued, mutexVars, queueVars, cancelVars, threadVars, localVars
<1>3. CASE WakeAll(t)
  <2>1. /\ \A u \in Threads \ {t} : pc'[u] = pc[u]
        /\ \/ pc'[t] = pc[t]
           \/ pc[t] \in {"wakeall", "sigflush", "dropflush"} /\ pc'[t] \in {"idle", "sigdefer", "drop"}
           \/ pc[t] = "sleepflush" /\ pc'[t] = "asleep"
    BY <1>3, WakeAllEffect, Zenon
  <2>2. UNCHANGED <<cvp, wchan, sq_blocked, sleepqueue, mutex_obj>>
    BY <1>3, Zenon DEF WakeAll, localVars, queueVars
  <2> QED BY <1>0, <2>1, <2>2, SMTT(30) DEF LinksOK, LinkOK, Queued
<1>4. CASE WaitEnqueue(t)
  <2> DEFINE c == cvp[t]
  <2>1. /\ c \in Conds /\ wchan[t] = None /\ mp[t] \in Mutexes
        /\ sq[c] = None => sq_blocked[c] = <<>>
    BY <1>4, EnqueueReady, Zenon DEF WaitEnqueue
  <2>2. /\ sleepqueue' = [sleepqueue EXCEPT ![t] = None]
        /\ wchan' = [wchan EXCEPT ![t] = c]
        /\ \A d \in Conds \ {c} : sq_blocked'[d] = sq_blocked[d]
        /\ \A y : In(y, sq_blocked'[c]) <=> y = t \/ In(y, sq_blocked[c])
        /\ Distinct(sq_blocked'[c])
    BY ZenonT(30), <1>4, <2>1, SleepqAddEffect DEF WaitEnqueue
  <2>3. /\ cvp' = cvp
        /\ pc' = [pc EXCEPT ![t] = "clearwake"]
        /\ mutex_obj' = [mutex_obj EXCEPT ![t] = mp[t]]
    BY <1>4, Zenon DEF WaitEnqueue, Goto, localVars
  <2> HIDE DEF c
  <2>4. c = cvp[t]
    BY Zenon DEF c
  <2>5. ASSUME NEW u \in Threads
        PROVE  LinkOK(u)'
    <3>1. CASE u = t
      BY <1>0, <2>1, <2>2, <2>3, <2>4, <3>1, SMTT(30) DEF LinksOK, LinkOK, Queued
    <3>2. CASE u # t
      <4>1. /\ wchan'[u] = wchan[u] /\ sleepqueue'[u] = sleepqueue[u] /\ pc'[u] = pc[u]
            /\ cvp'[u] = cvp[u] /\ mutex_obj'[u] = mutex_obj[u]
            /\ \A d \in Conds : In(u, sq_blocked'[d]) <=> In(u, sq_blocked[d])
        BY <1>0, <2>1, <2>2, <2>3, <3>2, ZenonT(30)
      <4> QED BY <1>0, <4>1, SMTT(30) DEF LinksOK, LinkOK
    <3> QED BY <3>1, <3>2, Zenon
  <2>6. \A d \in Conds : Distinct(sq_blocked'[d])
    BY <1>0, <2>2, Zenon DEF LinksOK
  <2> QED BY <2>5, <2>6, Zenon DEF LinksOK
<1>5. CASE WaitClearWake(t)
  BY <1>5, <1>0, Zenon DEF WaitClearWake, ClearWake, Goto, LinksOK, LinkOK, Queued, mutexVars, queueVars, cancelVars, threadVars, localVars
<1>6. CASE Sleep(t)
  BY <1>6, <1>0, ZenonT(30) DEF Sleep, Goto, LinksOK, LinkOK, Queued, mutexVars, queueVars, cancelVars, threadVars, localVars
<1>7. CASE SleepAcquire(t)
  BY <1>7, <1>0, ZenonT(30) DEF SleepAcquire, Goto, LinksOK, LinkOK, Queued, mutexVars, queueVars, cancelVars, threadVars, localVars
<1>8. CASE SleepTimeout(t)
  BY <1>8, <1>0, ZenonT(30) DEF SleepTimeout, Goto, LinksOK, LinkOK, Queued, mutexVars, queueVars, cancelVars, threadVars, localVars
<1>9. CASE WaitAwake(t)
  <2> DEFINE c == cvp[t]
  <2>1. /\ c \in Conds /\ pc[t] \in {"awake", "expired"}
        /\ wchan[t] # None => In(t, sq_blocked[c]) /\ sq[c] # None
    BY <1>9, AwakeReady, Zenon DEF WaitAwake
  <2>2. /\ cvp' = cvp
        /\ \A u \in Threads \ {t} : pc'[u] = pc[u] /\ mutex_obj'[u] = mutex_obj[u]
        /\ pc'[t] \in {"awake", "expired", "cvlock"}
    BY <1>9, <1>0, Zenon DEF WaitAwake, Goto, localVars
  <2>3. CASE wchan[t] # None /\ SleepqRemove(c, t)
    <3>1. /\ wchan' = [wchan EXCEPT ![t] = None]
          /\ sleepqueue'[t] \in Threads
          /\ \A y \in Threads \ {t} : sleepqueue'[y] = sleepqueue[y]
          /\ \A d \in Conds \ {c} : sq_blocked'[d] = sq_blocked[d]
          /\ \A y : In(y, sq_blocked'[c]) <=> In(y, sq_blocked[c]) /\ y # t
          /\ Distinct(sq_blocked'[c])
      BY Zenon, <2>1, <2>3, SleepqRemoveEffect
    <3>2. wchan[t] = c
      BY <1>0, <2>1, <2>3, Zenon DEF LinksOK, LinkOK
    <3> HIDE DEF c
    <3>3. ASSUME NEW u \in Threads
          PROVE  LinkOK(u)'
      <4>1. CASE u = t
        <5>1. LinkOK(t)
          BY <1>0, Zenon DEF LinksOK
        <5>2. \A d \in Conds : ~In(t, sq_blocked'[d])
          BY <3>1, <3>2, <5>1, Zenon DEF LinkOK
        <5>3. wchan'[t] = None
          BY <1>0, <3>1, Zenon
        <5> QED BY <2>2, <3>1, <4>1, <5>2, <5>3, Zenon DEF LinkOK
      <4>2. CASE u # t
        <5>1. /\ wchan'[u] = wchan[u] /\ sleepqueue'[u] = sleepqueue[u] /\ pc'[u] = pc[u]
              /\ cvp'[u] = cvp[u] /\ mutex_obj'[u] = mutex_obj[u]
              /\ \A d \in Conds : In(u, sq_blocked'[d]) <=> In(u, sq_blocked[d])
          BY <1>0, <2>1, <2>2, <3>1, <4>2, Zenon
        <5>2. LinkOK(u) /\ wchan[u] \in Conds \cup {None}
          BY <1>0, Zenon DEF LinksOK
        <5> QED BY <5>1, <5>2, Zenon DEF LinkOK
      <4> QED BY <4>1, <4>2, Zenon
    <3>4. \A d \in Conds : Distinct(sq_blocked'[d])
      BY Zenon, <1>0, <3>1 DEF LinksOK
    <3> QED BY <3>3, <3>4, Zenon DEF LinksOK
  <2>4. CASE wchan[t] = None /\ UNCHANGED queueVars
    BY <1>0, <2>1, <2>2, <2>4, Zenon DEF LinksOK, LinkOK, Queued, queueVars
  <2>5. CASE UNCHANGED <<queueVars, mutex_obj, pc>>
    BY <1>0, <2>2, <2>5, Zenon DEF LinksOK, LinkOK, queueVars
  <2> QED BY <1>9, <2>3, <2>4, <2>5, Zenon DEF WaitAwake
<1>10. CASE WaitCvLock(t)
  BY <1>10, <1>0, ZenonT(30) DEF WaitCvLock, Goto, LinksOK, LinkOK, Queued, mutexVars, queueVars, cancelVars, threadVars, localVars
<1>11. CASE WaitCvOwn(t)
  BY <1>11, <1>0, Zenon DEF WaitCvOwn, Goto, LinksOK, LinkOK, Queued, mutexVars, queueVars, cancelVars, threadVars, localVars
<1>12. CASE SignalDefer(t)
  BY <1>12, <1>0, Zenon DEF SignalDefer, Defer, Goto, LinksOK, LinkOK, Queued, mutexVars, queueVars, cancelVars, threadVars, localVars
<1>13. CASE Drop(t)
  <2> DEFINE c == cvp[t]
             x == Head(sq_blocked[c])
  <2>1. /\ pc[t] = "drop" /\ sq_blocked[c] # <<>> /\ UNCHANGED <<cvp, mutex_obj>>
        /\ \A u \in Threads \ {t} : pc'[u] = pc[u]
        /\ pc'[t] \in {"drop", "dropflush", "dropwaddrs"}
    BY <1>13, <1>0, Zenon DEF Drop, Goto
  <2>2. wchan[t] = None
    BY <1>0, <2>1, Zenon DEF LinksOK, LinkOK, Queued
  <2>3. CASE UNCHANGED <<sq_blocked, sleepqueue, wchan>>
    BY <1>0, <2>1, <2>2, <2>3, Zenon DEF LinksOK, LinkOK
  <2>4. CASE /\ sleepqueue' = [sleepqueue EXCEPT ![x] = Head(sq_freeq[c])]
             /\ wchan' = [wchan EXCEPT ![x] = None]
             /\ sq_blocked' = [sq_blocked EXCEPT ![c] = Tail(@)]
    <3>1. /\ c \in Conds /\ x \in Threads /\ sc_lock[c] = t
          /\ wchan[x] = c /\ cvp[x] = c
          /\ Head(sq_freeq[c]) \in Threads
          /\ Tail(sq_blocked[c]) \in Seq(Threads)
          /\ Distinct(Tail(sq_blocked[c]))
          /\ \A y : In(y, Tail(sq_blocked[c])) <=> In(y, sq_blocked[c]) /\ y # x
      BY Zenon, <2>1, DropReady
    <3>2. /\ sq_blocked'[c] = Tail(sq_blocked[c])
          /\ sleepqueue'[x] = Head(sq_freeq[c])
          /\ \A d \in Conds \ {c} : sq_blocked'[d] = sq_blocked[d]
          /\ \A y \in Threads \ {x} : sleepqueue'[y] = sleepqueue[y] /\ wchan'[y] = wchan[y]
          /\ wchan'[x] = None
      BY <1>0, <2>4, <3>1, Zenon
    <3>3. x # t /\ pc[x] # "clearwake"
      BY <1>0, <2>2, <3>1, Zenon DEF Chained
    <3> HIDE DEF c, x
    <3>4. ASSUME NEW u \in Threads
          PROVE  LinkOK(u)'
      <4>1. CASE u = x
        <5>0. \A d \in Conds : In(x, sq_blocked[d]) => d = c
          BY <1>0, <3>1, Zenon DEF LinksOK, LinkOK
        <5>1. \A d \in Conds : ~In(x, sq_blocked'[d])
          BY <3>1, <3>2, <5>0, Zenon
        <5> QED BY <2>1, <3>1, <3>2, <3>3, <4>1, <5>1, Zenon DEF LinkOK
      <4>2. CASE u = t
        <5>0. \A d \in Conds : ~In(t, sq_blocked[d])
          BY <1>0, <2>2, ZenonT(30) DEF LinksOK, LinkOK
        <5>1. \A d \in Conds : ~In(t, sq_blocked'[d])
          BY <3>1, <3>2, <5>0, ZenonT(30)
        <5>2. wchan'[t] = None /\ sleepqueue'[t] \in Threads
          BY <1>0, <2>2, <3>2, <3>3, Zenon DEF LinksOK, LinkOK
        <5> QED BY <2>1, <4>2, <5>1, <5>2, Zenon DEF LinkOK
      <4>3. CASE u # x /\ u # t
        <5>1. /\ wchan'[u] = wchan[u] /\ sleepqueue'[u] = sleepqueue[u] /\ pc'[u] = pc[u]
              /\ cvp'[u] = cvp[u] /\ mutex_obj'[u] = mutex_obj[u]
              /\ \A d \in Conds : In(u, sq_blocked'[d]) <=> In(u, sq_blocked[d])
          BY <2>1, <3>1, <3>2, <4>3, ZenonT(30)
        <5> QED BY <1>0, <5>1, SMTT(30) DEF LinksOK, LinkOK
      <4> QED BY <4>1, <4>2, <4>3, Zenon
    <3>5. \A d \in Conds : Distinct(sq_blocked'[d])
      BY Zenon, <1>0, <3>1, <3>2 DEF LinksOK
    <3> QED BY <3>4, <3>5, Zenon DEF LinksOK
  <2> QED BY <1>13, <2>3, <2>4, Zenon DEF Drop
<1>14. CASE DropDone(t)
  BY <1>14, <1>0, Zenon DEF DropDone, Goto, LinksOK, LinkOK, Queued, mutexVars, queueVars, cancelVars, threadVars, localVars
<1>15. CASE ReleaseWaddrs(t)
  <2>1. UNCHANGED <<cvp, wchan, sq_blocked, sleepqueue, mutex_obj>>
    BY <1>15, Zenon DEF ReleaseWaddrs, queueVars
  <2>2. /\ \A u \in Threads \ {t} : pc'[u] = pc[u]
        /\ pc[t] \in {"release", "dropwaddrs"}
        /\ pc'[t] \in {"release", "dropwaddrs", "idle", "drop"}
    BY <1>15, <1>0, Zenon DEF ReleaseWaddrs, Goto
  <2> QED BY <1>0, <2>1, <2>2, Zenon DEF LinksOK, LinkOK, Queued
<1>16. CASE CancelKick(t)
  BY <1>16, <1>0, Zenon DEF CancelKick, Release, Goto, LinksOK, LinkOK, Queued, mutexVars, queueVars, cancelVars, threadVars, localVars
<1>17. ASSUME NEW m \in Mutexes, Lock(t, m) PROVE LinksOK'
  BY <1>17, <1>0, ZenonT(30) DEF Lock, Goto, LinksOK, LinkOK, Queued, mutexVars, queueVars, cancelVars, threadVars, localVars
<1>18. ASSUME NEW m \in Mutexes, SelfLock(t, m) PROVE LinksOK'
  BY <1>18, <1>0, Zenon DEF SelfLock, LinksOK, LinkOK, Queued, mutexVars, queueVars, cancelVars, threadVars, localVars
<1>19. ASSUME NEW m \in Mutexes, UnlockRecursive(t, m) PROVE LinksOK'
  BY <1>19, <1>0, Zenon DEF UnlockRecursive, LinksOK, LinkOK, Queued, mutexVars, queueVars, cancelVars, threadVars, localVars
<1>20. ASSUME NEW m \in Mutexes, Unlock(t, m) PROVE LinksOK'
  <2>1. /\ UNCHANGED <<wchan, sq_blocked, sleepqueue, mutex_obj>>
        /\ UNCHANGED cvp
        /\ pc[t] = "idle"
        /\ pc' = [pc EXCEPT ![t] = "unlock_deferred"] \/ pc' = [pc EXCEPT ![t] = "unlock"]
    BY <1>20, Zenon DEF Unlock, Goto, queueVars, threadVars
  <2>2. wchan[t] = None /\ pc'[t] # "clearwake" /\ \A u \in Threads \ {t} : pc'[u] = pc[u] /\ cvp'[u] = cvp[u]
    BY <1>idle, <2>1, Zenon
  <2> QED BY Zenon, <1>0, <2>1, <2>2, LinksFrame
<1>21. ASSUME NEW c \in Conds, NEW m \in Mutexes, NEW w \in BOOLEAN, Wait(t, c, m, w) PROVE LinksOK'
  <2>1. /\ UNCHANGED <<wchan, sq_blocked, sleepqueue, mutex_obj>>
        /\ cvp' = [cvp EXCEPT ![t] = c]
        /\ pc[t] = "idle"
        /\ pc' = [pc EXCEPT ![t] = "enqueue"]
    BY <1>21, Zenon DEF Wait, Goto
  <2>2. wchan[t] = None /\ pc'[t] # "clearwake" /\ \A u \in Threads \ {t} : pc'[u] = pc[u] /\ cvp'[u] = cvp[u]
    BY <1>idle, <2>1, Zenon
  <2> QED BY Zenon, <1>0, <2>1, <2>2, LinksFrame
<1>22. ASSUME NEW c \in Conds, SignalNobody(t, c) PROVE LinksOK'
  BY <1>22, <1>0, Zenon DEF SignalNobody, LinksOK, LinkOK, Queued, mutexVars, queueVars, cancelVars, threadVars, localVars
<1>23. ASSUME NEW c \in Conds, Signal(t, c) PROVE LinksOK'
  <2>1. PICK x \in SignalTargets(c) : SleepqRemove(c, x) /\ SignalFate(t, c, x)
    BY <1>23, Zenon DEF Signal
  <2>2. /\ x \in Threads /\ In(x, sq_blocked[c]) /\ sq[c] # None /\ wchan[x] = c /\ cvp[x] = c
        /\ sc_lock[c] = None /\ pc[t] = "idle" /\ pc[x] \in Queued
        /\ UNCHANGED mutex_obj
    BY <1>23, SignalReady, ZenonT(30) DEF Signal
  <2>3. /\ wchan' = [wchan EXCEPT ![x] = None]
        /\ sleepqueue'[x] \in Threads
        /\ \A y \in Threads \ {x} : sleepqueue'[y] = sleepqueue[y]
        /\ \A d \in Conds \ {c} : sq_blocked'[d] = sq_blocked[d]
        /\ \A y : In(y, sq_blocked'[c]) <=> In(y, sq_blocked[c]) /\ y # x
        /\ Distinct(sq_blocked'[c])
    BY ZenonT(30), <2>1, <2>2, SleepqRemoveEffect
  <2>4. /\ \A u \in Threads \ {t} : pc'[u] = pc[u] /\ cvp'[u] = cvp[u]
        /\ pc'[t] \in {"idle", "sigflush", "release"}
    BY <1>0, <2>1, <2>2, Zenon DEF SignalFate, Goto
  <2>5. x # t /\ wchan[t] = None /\ pc[x] # "clearwake"
    <3>1. x # t
      BY <2>2, Zenon DEF Queued
    <3>2. wchan[t] = None
      BY <1>0, <2>2, Zenon DEF LinksOK, LinkOK, Queued
    <3>3. pc[x] # "clearwake"
      BY <1>0, <2>2, Zenon DEF Chained
    <3> QED BY <3>1, <3>2, <3>3, Zenon
  <2>6. ASSUME NEW u \in Threads
        PROVE  LinkOK(u)'
    <3>1. CASE u = x
      <4>1. \A d \in Conds : In(x, sq_blocked[d]) => d = c
        BY <1>0, <2>2, Zenon DEF LinksOK, LinkOK
      <4>2. \A d \in Conds : ~In(x, sq_blocked'[d])
        BY <2>3, <4>1, Zenon
      <4>3. wchan'[x] = None /\ sleepqueue'[x] \in Threads /\ pc'[x] # "clearwake"
        BY <1>0, <2>2, <2>3, <2>4, <2>5, Zenon
      <4> QED BY <3>1, <4>2, <4>3, Zenon DEF LinkOK
    <3>2. CASE u = t
      <4>1. \A d \in Conds : ~In(t, sq_blocked'[d])
        BY <1>0, <2>3, <2>5, ZenonT(30) DEF LinksOK, LinkOK
      <4>2. wchan'[t] = None /\ sleepqueue'[t] \in Threads
        BY <1>0, <2>2, <2>3, <2>5, Zenon DEF LinksOK, LinkOK
      <4> QED BY <2>4, <3>2, <4>1, <4>2, Zenon DEF LinkOK
    <3>3. CASE u # x /\ u # t
      <4>1. /\ wchan'[u] = wchan[u] /\ sleepqueue'[u] = sleepqueue[u] /\ pc'[u] = pc[u]
            /\ cvp'[u] = cvp[u] /\ mutex_obj'[u] = mutex_obj[u]
            /\ \A d \in Conds : In(u, sq_blocked'[d]) <=> In(u, sq_blocked[d])
        BY <1>0, <2>2, <2>3, <2>4, <3>3, Zenon
      <4>2. LinkOK(u) /\ wchan[u] \in Conds \cup {None}
        BY <1>0, Zenon DEF LinksOK
      <4> QED BY <4>1, <4>2, Zenon DEF LinkOK
    <3> QED BY <3>1, <3>2, <3>3, Zenon
  <2>7. \A d \in Conds : Distinct(sq_blocked'[d])
    BY <1>0, <2>3, Zenon DEF LinksOK
  <2> QED BY <2>6, <2>7, Zenon DEF LinksOK
<1>24. ASSUME NEW c \in Conds, Broadcast(t, c) PROVE LinksOK'
  <2>1. /\ UNCHANGED <<wchan, sq_blocked, sleepqueue, mutex_obj>>
        /\ cvp' = [cvp EXCEPT ![t] = c]
        /\ pc[t] = "idle"
        /\ pc' = [pc EXCEPT ![t] = "drop"]
    BY <1>24, Zenon DEF Broadcast, Goto, threadVars
  <2>2. wchan[t] = None /\ pc'[t] # "clearwake" /\ \A u \in Threads \ {t} : pc'[u] = pc[u] /\ cvp'[u] = cvp[u]
    BY <1>idle, <2>1, ZenonT(30)
  <2> QED BY Zenon, <1>0, <2>1, <2>2, LinksFrame
<1>25. ASSUME NEW x \in Cancellable, Cancel(t, x) PROVE LinksOK'
  <2>1. /\ UNCHANGED <<wchan, sq_blocked, sleepqueue, mutex_obj>>
        /\ UNCHANGED cvp
        /\ pc[t] = "idle"
        /\ UNCHANGED pc \/ pc' = [pc EXCEPT ![t] = "kick"]
    BY <1>25, Zenon DEF Cancel, Goto, queueVars
  <2>2. wchan[t] = None /\ pc'[t] # "clearwake" /\ \A u \in Threads \ {t} : pc'[u] = pc[u] /\ cvp'[u] = cvp[u]
    BY <1>idle, <2>1, Zenon
  <2> QED BY Zenon, <1>0, <2>1, <2>2, LinksFrame
<1>26. CASE SetCancelState(t)
  BY <1>26, <1>0, ZenonT(30) DEF SetCancelState, LinksOK, LinkOK, Queued, mutexVars, queueVars, cancelVars, threadVars, localVars
<1> QED BY Zenon, <1>1, <1>2, <1>3, <1>4, <1>5, <1>6, <1>7, <1>8, <1>9, <1>10, <1>11, <1>12, <1>13,
           <1>14, <1>15, <1>16, <1>17, <1>18, <1>19, <1>20, <1>21, <1>22, <1>23, <1>24, <1>25, <1>26 DEF Step, Call

\* Every step leaves has_user_waiters set where there are waiters.
LEMMA FlagsStep ==
    ASSUME IInv, NEW t \in Threads, Step(t) \/ Call(t)
    PROVE  FlagsOK'
<1>0. /\ FlagsOK
      /\ \A u \in Threads : pc[u] = "enqueue" => cvp[u] \in Conds /\ sc_lock[cvp[u]] = u
      /\ pc \in [Threads -> Labels]
      /\ cvp \in [Threads -> Conds \cup {None}]
      /\ sq_blocked \in [Conds -> Seq(Threads)]
      /\ has_user_waiters \in [Conds -> BOOLEAN]
      /\ None \notin Threads
  BY CondvarAssumption, Zenon DEF IInv, TypeOK, LocalsOK, ChainLockOK, Chained
<1>1. CASE LockOwn(t)
  BY <1>1, <1>0, Zenon DEF LockOwn, Goto, FlagsOK, UserWaitersFlagged, mutexVars, queueVars, cancelVars, threadVars, localVars
<1>2. CASE UnlockHost(t)
  BY <1>2, <1>0, Zenon DEF UnlockHost, Goto, FlagsOK, UserWaitersFlagged, mutexVars, queueVars, cancelVars, threadVars, localVars
<1>3. CASE WakeAll(t)
  <2>1. \A u \in Threads : pc'[u] = "enqueue" => pc[u] = "enqueue"
    BY <1>3, WakeAllEffect, Zenon
  <2>2. UNCHANGED <<cvp, has_user_waiters, sq_blocked>>
    BY <1>3, Zenon DEF WakeAll, localVars, queueVars
  <2> QED BY <1>0, <2>1, <2>2, Zenon DEF FlagsOK, UserWaitersFlagged
<1>4. CASE WaitEnqueue(t)
  <2>1. /\ cvp[t] \in Conds /\ wchan[t] = None /\ has_user_waiters[cvp[t]]
        /\ sq[cvp[t]] = None => sq_blocked[cvp[t]] = <<>>
    BY <1>4, <1>0, EnqueueReady, Zenon DEF WaitEnqueue, FlagsOK
  <2>2. \A d \in Conds \ {cvp[t]} : sq_blocked'[d] = sq_blocked[d]
    BY <1>4, <2>1, SleepqAddEffect, Zenon DEF WaitEnqueue
  <2>3. UNCHANGED <<cvp, has_user_waiters>> /\ pc' = [pc EXCEPT ![t] = "clearwake"]
    BY <1>4, Zenon DEF WaitEnqueue, Goto, localVars
  <2> QED BY <1>0, <2>1, <2>2, <2>3, Zenon DEF FlagsOK, UserWaitersFlagged
<1>5. CASE WaitClearWake(t)
  BY <1>5, <1>0, Zenon DEF WaitClearWake, ClearWake, Goto, FlagsOK, UserWaitersFlagged, mutexVars, queueVars, cancelVars, threadVars, localVars
<1>6. CASE Sleep(t)
  BY <1>6, <1>0, Zenon DEF Sleep, Goto, FlagsOK, UserWaitersFlagged, mutexVars, queueVars, cancelVars, threadVars, localVars
<1>7. CASE SleepAcquire(t)
  BY <1>7, <1>0, Zenon DEF SleepAcquire, Goto, FlagsOK, UserWaitersFlagged, mutexVars, queueVars, cancelVars, threadVars, localVars
<1>8. CASE SleepTimeout(t)
  BY <1>8, <1>0, Zenon DEF SleepTimeout, Goto, FlagsOK, UserWaitersFlagged, mutexVars, queueVars, cancelVars, threadVars, localVars
<1>9. CASE WaitAwake(t)
  <2>1. /\ cvp[t] \in Conds /\ pc[t] \in {"awake", "expired"} /\ sc_lock[cvp[t]] = None
        /\ wchan[t] # None => In(t, sq_blocked[cvp[t]]) /\ sq[cvp[t]] # None
    BY <1>9, AwakeReady, Zenon DEF WaitAwake
  <2>2. /\ UNCHANGED cvp
        /\ \A u \in Threads : pc'[u] = "enqueue" => pc[u] = "enqueue"
    BY <1>9, <1>0, Zenon DEF WaitAwake, Goto, localVars
  <2>3. CASE wchan[t] # None /\ SleepqRemove(cvp[t], t)
    <3>1. /\ has_user_waiters'[cvp[t]] <=> sq_blocked'[cvp[t]] # <<>>
          /\ \A d \in Conds \ {cvp[t]} : /\ sq_blocked'[d] = sq_blocked[d]
                                          /\ has_user_waiters'[d] = has_user_waiters[d]
      BY Zenon, <2>1, <2>3, SleepqRemoveEffect
    <3>2. UserWaitersFlagged'
      BY <1>0, <3>1, Zenon DEF FlagsOK, UserWaitersFlagged
    <3>3. \A u \in Threads : pc[u] = "enqueue" => cvp[u] # cvp[t]
      BY <1>0, <2>1, Zenon
    <3> QED BY <1>0, <2>2, <3>1, <3>2, <3>3, Zenon DEF FlagsOK
  <2>4. CASE UNCHANGED <<has_user_waiters, sq_blocked>>
    BY <1>0, <2>2, <2>4, Zenon DEF FlagsOK, UserWaitersFlagged
  <2> QED BY <1>9, <2>3, <2>4, Zenon DEF WaitAwake, queueVars
<1>10. CASE WaitCvLock(t)
  BY <1>10, <1>0, Zenon DEF WaitCvLock, Goto, FlagsOK, UserWaitersFlagged, mutexVars, queueVars, cancelVars, threadVars, localVars
<1>11. CASE WaitCvOwn(t)
  BY <1>11, <1>0, Zenon DEF WaitCvOwn, Goto, FlagsOK, UserWaitersFlagged, mutexVars, queueVars, cancelVars, threadVars, localVars
<1>12. CASE SignalDefer(t)
  BY <1>12, <1>0, Zenon DEF SignalDefer, Defer, Goto, FlagsOK, UserWaitersFlagged, mutexVars, queueVars, cancelVars, threadVars, localVars
<1>13. CASE Drop(t)
  <2>1. UNCHANGED <<has_user_waiters, cvp>> /\ sq_blocked[cvp[t]] # <<>> /\ cvp[t] \in Conds
    BY <1>13, DropReady, Zenon DEF Drop
  <2>2. \A u \in Threads : pc'[u] = "enqueue" => pc[u] = "enqueue"
    BY <1>13, <1>0, Zenon DEF Drop, Goto
  <2>3. \A d \in Conds \ {cvp[t]} : sq_blocked'[d] = sq_blocked[d]
    BY <1>13, <1>0, Zenon DEF Drop
  <2> QED BY <1>0, <2>1, <2>2, <2>3, Zenon DEF FlagsOK, UserWaitersFlagged
<1>14. CASE DropDone(t)
  <2>1. /\ pc[t] = "drop" /\ sq_blocked[cvp[t]] = <<>> /\ UNCHANGED <<sq_blocked, cvp>>
        /\ has_user_waiters' = [has_user_waiters EXCEPT ![cvp[t]] = FALSE]
    BY <1>14, Zenon DEF DropDone, localVars
  <2>2. \A u \in Threads : pc'[u] = "enqueue" => pc[u] = "enqueue"
    BY <1>14, <1>0, Zenon DEF DropDone, Goto
  <2>3. sc_lock[cvp[t]] = t
    BY <2>1, Zenon DEF IInv, ChainLockOK, Chained
  <2>4. \A u \in Threads : pc[u] = "enqueue" => cvp[u] # cvp[t]
    BY <1>0, <2>1, <2>3, Zenon
  <2> QED BY <1>0, <2>1, <2>2, <2>4, Zenon DEF FlagsOK, UserWaitersFlagged
<1>15. CASE ReleaseWaddrs(t)
  BY <1>15, <1>0, ZenonT(30) DEF ReleaseWaddrs, Release, Goto, FlagsOK, UserWaitersFlagged, mutexVars, queueVars, cancelVars, threadVars, localVars
<1>16. CASE CancelKick(t)
  BY <1>16, <1>0, Zenon DEF CancelKick, Release, Goto, FlagsOK, UserWaitersFlagged, mutexVars, queueVars, cancelVars, threadVars, localVars
<1>17. ASSUME NEW m \in Mutexes, Lock(t, m) PROVE FlagsOK'
  BY <1>17, <1>0, Zenon DEF Lock, Goto, FlagsOK, UserWaitersFlagged, mutexVars, queueVars, cancelVars, threadVars, localVars
<1>18. ASSUME NEW m \in Mutexes, SelfLock(t, m) PROVE FlagsOK'
  BY <1>18, <1>0, Zenon DEF SelfLock, FlagsOK, UserWaitersFlagged, mutexVars, queueVars, cancelVars, threadVars, localVars
<1>19. ASSUME NEW m \in Mutexes, UnlockRecursive(t, m) PROVE FlagsOK'
  BY <1>19, <1>0, Zenon DEF UnlockRecursive, FlagsOK, UserWaitersFlagged, mutexVars, queueVars, cancelVars, threadVars, localVars
<1>20. ASSUME NEW m \in Mutexes, Unlock(t, m) PROVE FlagsOK'
  BY <1>20, <1>0, Zenon DEF Unlock, Goto, FlagsOK, UserWaitersFlagged, mutexVars, queueVars, cancelVars, threadVars, localVars
<1>21. ASSUME NEW c \in Conds, NEW m \in Mutexes, NEW w \in BOOLEAN, Wait(t, c, m, w) PROVE FlagsOK'
  BY <1>21, <1>0, Zenon DEF Wait, Goto, FlagsOK, UserWaitersFlagged, mutexVars, queueVars, cancelVars, threadVars, localVars
<1>22. ASSUME NEW c \in Conds, SignalNobody(t, c) PROVE FlagsOK'
  BY <1>22, <1>0, Zenon DEF SignalNobody, FlagsOK, UserWaitersFlagged, mutexVars, queueVars, cancelVars, threadVars, localVars
<1>23. ASSUME NEW c \in Conds, Signal(t, c) PROVE FlagsOK'
  <2>1. PICK x \in SignalTargets(c) : SleepqRemove(c, x) /\ SignalFate(t, c, x)
    BY <1>23, Zenon DEF Signal
  <2>2. /\ x \in Threads /\ In(x, sq_blocked[c]) /\ sq[c] # None
        /\ sc_lock[c] = None /\ pc[t] = "idle"
    BY <1>23, SignalReady, Zenon DEF Signal
  <2>3. /\ has_user_waiters'[c] <=> sq_blocked'[c] # <<>>
        /\ \A d \in Conds \ {c} : /\ sq_blocked'[d] = sq_blocked[d]
                                  /\ has_user_waiters'[d] = has_user_waiters[d]
    BY Zenon, <2>1, <2>2, SleepqRemoveEffect
  <2>4. \A u \in Threads : pc'[u] = "enqueue" => pc[u] = "enqueue" /\ cvp'[u] = cvp[u]
    BY <1>0, <2>1, <2>2, Zenon DEF SignalFate, Goto
  <2>5. UserWaitersFlagged'
    BY <1>0, <2>3, Zenon DEF FlagsOK, UserWaitersFlagged
  <2>6. \A u \in Threads : pc[u] = "enqueue" => cvp[u] # c
    BY <1>0, <2>2, Zenon
  <2> QED BY <1>0, <2>3, <2>4, <2>5, <2>6, Zenon DEF FlagsOK
<1>24. ASSUME NEW c \in Conds, Broadcast(t, c) PROVE FlagsOK'
  BY <1>24, <1>0, Zenon DEF Broadcast, Goto, FlagsOK, UserWaitersFlagged, mutexVars, queueVars, cancelVars, threadVars, localVars
<1>25. ASSUME NEW x \in Cancellable, Cancel(t, x) PROVE FlagsOK'
  BY <1>25, <1>0, Zenon DEF Cancel, Goto, FlagsOK, UserWaitersFlagged, mutexVars, queueVars, cancelVars, threadVars, localVars
<1>26. CASE SetCancelState(t)
  BY <1>26, <1>0, ZenonT(30) DEF SetCancelState, FlagsOK, UserWaitersFlagged, mutexVars, queueVars, cancelVars, threadVars, localVars
<1> QED BY Zenon, <1>1, <1>2, <1>3, <1>4, <1>5, <1>6, <1>7, <1>8, <1>9, <1>10, <1>11, <1>12, <1>13,
           <1>14, <1>15, <1>16, <1>17, <1>18, <1>19, <1>20, <1>21, <1>22, <1>23, <1>24, <1>25, <1>26 DEF Step, Call
-----------------------------------------------------------------------------
(* Where the SleepQueue objects are.                                       *)

\* The cond c has the SleepQueue q: as its queue, or on the free list of that.
Keeps(c, q) == sq[c] = q \/ In(q, sq_freeq[c])

\* A SleepQueue is with one thread or one cond, and there once; a thread on a
\* queue has none.
Placed ==
    /\ \A q \in Threads : (\E u \in Threads : sleepqueue[u] = q) \/ (\E c \in Conds : Keeps(c, q))
    /\ \A u, v \in Threads : sleepqueue[u] = sleepqueue[v] /\ sleepqueue[u] # None => u = v
    /\ \A u \in Threads, c \in Conds : sleepqueue[u] # None => ~Keeps(c, sleepqueue[u])
    /\ \A q \in Threads, c, d \in Conds : Keeps(c, q) /\ Keeps(d, q) => c = d
    /\ \A c \in Conds : Distinct(sq_freeq[c]) /\ (sq[c] # None => ~In(sq[c], sq_freeq[c]))
    /\ \A u \in Threads : wchan[u] # None => sleepqueue[u] = None

\* A thread gives its SleepQueue to a cond.
LEMMA Gives ==
    ASSUME Placed, IInv, NEW c \in Conds, NEW t \in Threads, NEW q \in Threads, sleepqueue[t] = q,
           sleepqueue' = [sleepqueue EXCEPT ![t] = None],
           \A d \in Conds \ {c} : sq'[d] = sq[d] /\ sq_freeq'[d] = sq_freeq[d],
           \A y \in Threads : Keeps(c, y)' <=> Keeps(c, y) \/ y = q,
           Distinct(sq_freeq'[c]), sq'[c] # None => ~In(sq'[c], sq_freeq'[c]),
           \A u \in Threads \ {t} : wchan'[u] = wchan[u]
    PROVE  Placed'
<1>0. sleepqueue \in [Threads -> Threads \cup {None}] /\ None \notin Threads
  BY CondvarAssumption, Zenon DEF IInv, TypeOK
<1>1. \A d \in Conds, y \in Threads : Keeps(d, y)' <=> Keeps(d, y) \/ (d = c /\ y = q)
  BY Zenon DEF Keeps
<1>2. sleepqueue'[t] = None /\ \A u \in Threads \ {t} : sleepqueue'[u] = sleepqueue[u]
  BY <1>0, Zenon
<1>3. ASSUME NEW y \in Threads
      PROVE  (\E u \in Threads : sleepqueue'[u] = y) \/ (\E d \in Conds : Keeps(d, y)')
  <2>1. CASE y = q
    BY <1>1, <2>1, Zenon
  <2>2. CASE \E u \in Threads \ {t} : sleepqueue[u] = y
    BY <1>2, <2>2, Zenon
  <2>3. CASE \E d \in Conds : Keeps(d, y)
    BY <1>1, <2>3, Zenon
  <2> QED BY <2>1, <2>2, <2>3, Zenon DEF Placed
<1>4. \A u, v \in Threads : sleepqueue'[u] = sleepqueue'[v] /\ sleepqueue'[u] # None => u = v
  BY <1>2, SMTT(30) DEF Placed
<1>5. ASSUME NEW u \in Threads, NEW d \in Conds, sleepqueue'[u] # None PROVE ~Keeps(d, sleepqueue[u])'
  <2>1. u # t /\ sleepqueue'[u] = sleepqueue[u] /\ sleepqueue[u] \in Threads
    BY <1>0, <1>2, <1>5, ZenonT(30)
  <2>2. sleepqueue[u] # q /\ ~Keeps(d, sleepqueue[u])
    BY <2>1, <1>0, SMTT(30) DEF Placed
  <2>3. \A y \in Threads : y = sleepqueue[u] => ~Keeps(d, y)'
    BY <1>1, <2>2, Zenon
  <2> QED BY <2>1, <2>3, Zenon
<1>6. \A y \in Threads, d, e \in Conds : Keeps(d, y)' /\ Keeps(e, y)' => d = e
  BY <1>0, <1>1, SMTT(30) DEF Placed
<1>7. \A d \in Conds : Distinct(sq_freeq'[d]) /\ (sq'[d] # None => ~In(sq'[d], sq_freeq'[d]))
  BY Zenon DEF Placed
<1>8. \A u \in Threads : wchan'[u] # None => sleepqueue'[u] = None
  BY <1>2, Zenon DEF Placed
<1> QED BY <1>3, <1>4, <1>5, <1>6, <1>7, <1>8, Zenon DEF Placed

\* A thread that has none takes one back.
LEMMA Takes ==
    ASSUME Placed, IInv, NEW c \in Conds, NEW x \in Threads, NEW q \in Threads, sleepqueue[x] = None, Keeps(c, q),
           sleepqueue' = [sleepqueue EXCEPT ![x] = q],
           \A d \in Conds \ {c} : sq'[d] = sq[d] /\ sq_freeq'[d] = sq_freeq[d],
           \A y \in Threads : Keeps(c, y)' <=> Keeps(c, y) /\ y # q,
           Distinct(sq_freeq'[c]), sq'[c] # None => ~In(sq'[c], sq_freeq'[c]),
           wchan'[x] = None, \A u \in Threads \ {x} : wchan'[u] = wchan[u]
    PROVE  Placed'
<1>0. sleepqueue \in [Threads -> Threads \cup {None}] /\ None \notin Threads
  BY CondvarAssumption, Zenon DEF IInv, TypeOK
<1>1. \A d \in Conds, y \in Threads : Keeps(d, y)' <=> Keeps(d, y) /\ ~(d = c /\ y = q)
  BY SMTT(30) DEF Keeps
<1>2. sleepqueue'[x] = q /\ \A u \in Threads \ {x} : sleepqueue'[u] = sleepqueue[u]
  BY <1>0, Zenon
<1>3. \A y \in Threads : (\E u \in Threads : sleepqueue'[u] = y) \/ (\E d \in Conds : Keeps(d, y)')
  BY <1>0, <1>1, <1>2, SMTT(30) DEF Placed
<1>4. \A u \in Threads : sleepqueue[u] # q
  BY <1>0, SMTT(30) DEF Placed
<1>5. \A u, v \in Threads : sleepqueue'[u] = sleepqueue'[v] /\ sleepqueue'[u] # None => u = v
  BY <1>2, <1>4, SMTT(30) DEF Placed
<1>6. ASSUME NEW u \in Threads, NEW d \in Conds, sleepqueue'[u] # None PROVE ~Keeps(d, sleepqueue[u])'
  <2>1. CASE u = x
    <3>1. ~Keeps(d, q)'
      BY <1>1, Zenon DEF Placed
    <3> QED BY <2>1, <3>1, <1>2, ZenonT(60) DEF Keeps
  <2>2. CASE u # x
    <3>1. sleepqueue'[u] = sleepqueue[u] /\ sleepqueue[u] \in Threads
      BY <1>0, <1>2, <1>6, <2>2, Zenon
    <3>2. \A y \in Threads : y = sleepqueue[u] => ~Keeps(d, y)'
      BY <1>0, <1>1, <3>1, SMTT(30) DEF Placed
    <3> QED BY <3>1, <3>2, ZenonT(30)
  <2> QED BY <2>1, <2>2, Zenon
<1>7. \A y \in Threads, d, e \in Conds : Keeps(d, y)' /\ Keeps(e, y)' => d = e
  BY <1>1, Zenon DEF Placed
<1>8. \A d \in Conds : Distinct(sq_freeq'[d]) /\ (sq'[d] # None => ~In(sq'[d], sq_freeq'[d]))
  BY Zenon DEF Placed
<1>9. \A u \in Threads : wchan'[u] # None => sleepqueue'[u] = None
  BY <1>2, Zenon DEF Placed
<1> QED BY <1>3, <1>5, <1>6, <1>7, <1>8, <1>9, Zenon DEF Placed

\* Leaving a queue takes a SleepQueue back.
LEMMA RemovePlaced ==
    ASSUME Placed, IInv, NEW c \in Conds, NEW x \in Threads, In(x, sq_blocked[c]), sq[c] # None,
           SleepqRemove(c, x)
    PROVE  Placed'
<1>0. /\ sq \in [Conds -> Threads \cup {None}] /\ sq_freeq \in [Conds -> Seq(Threads)]
      /\ sleepqueue \in [Threads -> Threads \cup {None}] /\ wchan \in [Threads -> Conds \cup {None}]
      /\ None \notin Threads /\ None \notin Conds
  BY CondvarAssumption, Zenon DEF IInv, TypeOK
<1>1. wchan[x] = c /\ sleepqueue[x] = None
  BY <1>0, SMTT(30) DEF IInv, LinksOK, LinkOK, Placed
<1>2. wchan'[x] = None /\ \A u \in Threads \ {x} : wchan'[u] = wchan[u]
  BY <1>0, Zenon DEF SleepqRemove
<1>3. sq[c] \in Threads /\ Distinct(sq_freeq[c]) /\ ~In(sq[c], sq_freeq[c]) /\ sq_freeq[c] \in Seq(Threads)
  BY <1>0, Zenon DEF Placed
<1>4. CASE Erase(sq_blocked[c], x) = <<>>
  <2>1. sleepqueue' = [sleepqueue EXCEPT ![x] = sq[c]] /\ sq' = [sq EXCEPT ![c] = None] /\ sq_freeq' = sq_freeq
    BY <1>4, Zenon DEF SleepqRemove
  <2>2. sq'[c] = None /\ \A d \in Conds \ {c} : sq'[d] = sq[d] /\ sq_freeq'[d] = sq_freeq[d]
    BY <1>0, <2>1, Zenon
  <2>3. \A y \in Threads : Keeps(c, y)' <=> Keeps(c, y) /\ y # sq[c]
    BY <1>0, <1>3, <2>1, <2>2, Zenon DEF Keeps
  <2>4. Keeps(c, sq[c])
    BY Zenon DEF Keeps
  <2> QED BY <1>1, <1>2, <1>3, <2>1, <2>2, <2>3, <2>4, Takes, Zenon
<1>5. CASE Erase(sq_blocked[c], x) # <<>>
  <2>1. /\ sleepqueue' = [sleepqueue EXCEPT ![x] = Head(sq_freeq[c])]
        /\ sq_freeq' = [sq_freeq EXCEPT ![c] = Tail(@)] /\ sq' = sq
    BY <1>5, Zenon DEF SleepqRemove
  <2>2. sq_freeq[c] # <<>>
    <3>1. sq'[c] # None /\ sq_blocked'[c] # <<>>
      BY <1>5, <2>1, <1>0, Zenon DEF SleepqRemove, IInv, TypeOK
    <3>2. Len(sq_blocked[c]) = Len(sq_freeq[c]) + 1 /\ sq_blocked[c] \in Seq(Threads) /\ Distinct(sq_blocked[c])
      BY Zenon DEF IInv, QueuePerWaiter, TypeOK, LinksOK
    <3>3. Len(Erase(sq_blocked[c], x)) = Len(sq_blocked[c]) - 1 /\ Erase(sq_blocked[c], x) \in Seq(Threads)
      BY <3>2, EraseList, Zenon
    <3>4. Len(Erase(sq_blocked[c], x)) # 0
      BY <3>3, <1>5, EmptyList, Zenon
    <3> QED BY <1>3, <3>2, <3>3, <3>4, SMTT(30)
  <2>3. /\ Head(sq_freeq[c]) \in Threads /\ In(Head(sq_freeq[c]), sq_freeq[c])
        /\ \A y : In(y, sq_freeq[c]) <=> y = Head(sq_freeq[c]) \/ In(y, Tail(sq_freeq[c]))
        /\ Distinct(Tail(sq_freeq[c])) /\ ~In(Head(sq_freeq[c]), Tail(sq_freeq[c]))
    BY <1>3, <2>2, PopList, Zenon
  <2>4. sq_freeq'[c] = Tail(sq_freeq[c]) /\ \A d \in Conds \ {c} : sq'[d] = sq[d] /\ sq_freeq'[d] = sq_freeq[d]
    BY <1>0, <2>1, Zenon
  <2>5. \A y \in Threads : Keeps(c, y)' <=> Keeps(c, y) /\ y # Head(sq_freeq[c])
    BY <1>3, <2>1, <2>3, <2>4, Zenon DEF Keeps
  <2>6. Keeps(c, Head(sq_freeq[c]))
    BY <2>3, Zenon DEF Keeps
  <2>7. Distinct(sq_freeq'[c]) /\ ~In(sq'[c], sq_freeq'[c])
    BY <1>3, <2>1, <2>3, <2>4, Zenon
  <2> QED BY <1>1, <1>2, <2>1, <2>3, <2>4, <2>5, <2>6, <2>7, Takes, ZenonT(30)
<1> QED BY <1>4, <1>5, Zenon

\* Which steps touch a SleepQueue: joining a queue, and the four ways off it.
LEMMA QuietSteps ==
    ASSUME NEW t \in Threads, Step(t) \/ Call(t)
    PROVE  \/ UNCHANGED <<sq, sq_freeq, sleepqueue, wchan>>
           \/ WaitEnqueue(t) \/ WaitAwake(t) \/ Drop(t)
           \/ \E c \in Conds : Signal(t, c) \/ Broadcast(t, c)
<1>1. Step(t) => \/ UNCHANGED <<sq, sq_freeq, sleepqueue, wchan>>
                 \/ WaitEnqueue(t) \/ WaitAwake(t) \/ Drop(t)
  BY ZenonT(60) DEF Step, LockOwn, UnlockHost, WakeAll, WaitClearWake, Sleep, SleepAcquire, SleepTimeout,
     WaitCvLock, WaitCvOwn, SignalDefer, DropDone, ReleaseWaddrs, CancelKick, queueVars
<1>2. Call(t) => \/ UNCHANGED <<sq, sq_freeq, sleepqueue, wchan>>
                 \/ \E c \in Conds : Signal(t, c) \/ Broadcast(t, c)
  BY ZenonT(60) DEF Call, Lock, SelfLock, UnlockRecursive, Unlock, Wait, SignalNobody, Cancel, SetCancelState, queueVars
<1> QED BY <1>1, <1>2, Zenon

\* Every step keeps every SleepQueue in its one place.
LEMMA PlacedStep ==
    ASSUME IInv, Placed, NEW t \in Threads, Step(t) \/ Call(t)
    PROVE  Placed'
<1>0. /\ sq \in [Conds -> Threads \cup {None}] /\ sq_freeq \in [Conds -> Seq(Threads)]
      /\ sleepqueue \in [Threads -> Threads \cup {None}] /\ wchan \in [Threads -> Conds \cup {None}]
      /\ None \notin Threads /\ None \notin Conds
  BY CondvarAssumption, Zenon DEF IInv, TypeOK
<1>1. CASE UNCHANGED <<sq, sq_freeq, sleepqueue, wchan>>
  BY <1>1, Zenon DEF Placed, Keeps
<1>2. CASE WaitEnqueue(t)
  <2>1. PICK c \in Conds, q \in Threads : c = cvp[t] /\ q = sleepqueue[t]
    BY <1>2, EnqueueReady, Zenon DEF WaitEnqueue, IInv, LinksOK, LinkOK
  <2>2. /\ sleepqueue' = [sleepqueue EXCEPT ![t] = None] /\ SleepqAdd(c, t)
        /\ \A u \in Threads \ {t} : wchan'[u] = wchan[u]
    BY <1>0, <1>2, <2>1, Zenon DEF WaitEnqueue, SleepqAdd
  <2>3. Distinct(sq_freeq[c]) /\ sq_freeq[c] \in Seq(Threads) /\ (sq[c] # None => ~In(sq[c], sq_freeq[c])) /\ ~Keeps(c, q)
    BY <1>0, <2>1, ZenonT(30) DEF Placed
  <2>4. CASE sq[c] # None
    <3>1. sq' = sq /\ sq_freeq' = [sq_freeq EXCEPT ![c] = PushFront(q, @)]
      BY <2>1, <2>2, <2>4, Zenon DEF SleepqAdd
    <3>2. sq_freeq'[c] = PushFront(q, sq_freeq[c]) /\ \A d \in Conds \ {c} : sq'[d] = sq[d] /\ sq_freeq'[d] = sq_freeq[d]
      BY <1>0, <2>1, <3>1, Zenon
    <3>3. /\ \A y : In(y, PushFront(q, sq_freeq[c])) <=> y = q \/ In(y, sq_freeq[c])
          /\ Distinct(sq_freeq[c]) /\ ~In(q, sq_freeq[c]) => Distinct(PushFront(q, sq_freeq[c]))
      BY <2>1, <2>3, PushFrontList, Zenon
    <3>4. Distinct(sq_freeq'[c]) /\ ~In(sq'[c], sq_freeq'[c])
      BY <2>3, <2>4, <3>1, <3>2, <3>3, Zenon DEF Keeps
    <3>5. \A y \in Threads : Keeps(c, y)' <=> Keeps(c, y) \/ y = q
      BY <3>1, <3>2, <3>3, Zenon DEF Keeps
    <3> QED BY <2>1, <2>2, <3>2, <3>4, <3>5, Gives, ZenonT(30)
  <2>5. CASE sq[c] = None
    <3>1. sq' = [sq EXCEPT ![c] = q] /\ sq_freeq' = sq_freeq
      BY <2>1, <2>2, <2>5, Zenon DEF SleepqAdd
    <3>2. sq'[c] = q /\ \A d \in Conds \ {c} : sq'[d] = sq[d] /\ sq_freeq'[d] = sq_freeq[d]
      BY <1>0, <2>1, <3>1, Zenon
    <3>3. Distinct(sq_freeq'[c]) /\ ~In(sq'[c], sq_freeq'[c])
      BY <2>3, <3>1, <3>2, Zenon DEF Keeps
    <3>4. \A y \in Threads : Keeps(c, y)' <=> Keeps(c, y) \/ y = q
      BY <1>0, <2>5, <3>1, <3>2, Zenon DEF Keeps
    <3> QED BY <2>1, <2>2, <3>2, <3>3, <3>4, Gives, ZenonT(30)
  <2> QED BY <2>4, <2>5, Zenon
<1>3. CASE WaitAwake(t)
  <2>1. /\ cvp[t] \in Conds
        /\ wchan[t] # None => In(t, sq_blocked[cvp[t]]) /\ sq[cvp[t]] # None
    BY <1>3, AwakeReady, ZenonT(30) DEF WaitAwake
  <2>2. CASE wchan[t] # None /\ SleepqRemove(cvp[t], t)
    BY <2>1, <2>2, RemovePlaced, Zenon
  <2> QED BY <1>1, <1>3, <2>2, Zenon DEF WaitAwake, queueVars
<1>4. CASE Drop(t)
  <2>1. pc[t] = "drop" /\ sq_blocked[cvp[t]] # <<>> /\ UNCHANGED sq
    BY <1>4, Zenon DEF Drop
  <2>2. PICK c \in Conds, x \in Threads, q \in Threads :
            /\ c = cvp[t] /\ x = Head(sq_blocked[c]) /\ q = Head(sq_freeq[c])
            /\ sq[c] = None /\ wchan[x] = c
    <3>1. /\ cvp[t] \in Conds /\ sq[cvp[t]] = None /\ Head(sq_blocked[cvp[t]]) \in Threads
          /\ wchan[Head(sq_blocked[cvp[t]])] = cvp[t] /\ Head(sq_freeq[cvp[t]]) \in Threads
      BY <2>1, DropReady, Zenon
    <3> QED BY <3>1, Zenon
  <2>3. CASE UNCHANGED <<sq_freeq, sleepqueue, wchan>>
    BY <1>1, <2>1, <2>3, Zenon
  <2>4. CASE /\ sleepqueue' = [sleepqueue EXCEPT ![x] = q]
             /\ wchan' = [wchan EXCEPT ![x] = None]
             /\ sq_freeq' = [sq_freeq EXCEPT ![c] = Tail(@)]
    <3>1. sq_freeq[c] \in Seq(Threads) /\ Distinct(sq_freeq[c]) /\ sleepqueue[x] = None
      BY <1>0, <2>2, ZenonT(30) DEF Placed
    <3>2. sq_freeq[c] # <<>>
      <4>1. Len(sq_blocked[c]) = Len(sq_freeq[c]) + 0 /\ sq_blocked[c] \in Seq(Threads)
        BY <2>2, Zenon DEF IInv, QueuePerWaiter, TypeOK
      <4>2. Len(sq_blocked[c]) # 0
        BY <4>1, <2>1, <2>2, EmptyList, Zenon
      <4> QED BY <3>1, <4>1, <4>2, SMTT(30)
    <3>3. /\ q \in Threads /\ In(q, sq_freeq[c])
          /\ \A y : In(y, sq_freeq[c]) <=> y = q \/ In(y, Tail(sq_freeq[c]))
          /\ Distinct(Tail(sq_freeq[c])) /\ ~In(q, Tail(sq_freeq[c]))
      BY <2>2, <3>1, <3>2, PopList, Zenon
    <3>4. /\ sq_freeq'[c] = Tail(sq_freeq[c]) /\ sq'[c] = None
          /\ \A d \in Conds \ {c} : sq'[d] = sq[d] /\ sq_freeq'[d] = sq_freeq[d]
          /\ wchan'[x] = None /\ \A u \in Threads \ {x} : wchan'[u] = wchan[u]
      BY <1>0, <2>1, <2>2, <2>4, Zenon
    <3>5. \A y \in Threads : Keeps(c, y)' <=> Keeps(c, y) /\ y # q
      BY <1>0, <2>1, <2>2, <3>3, <3>4, SMTT(30) DEF Keeps
    <3>6. Keeps(c, q)
      BY <3>3, Zenon DEF Keeps
    <3>7. Distinct(sq_freeq'[c]) /\ (sq'[c] # None => ~In(sq'[c], sq_freeq'[c]))
      BY <3>3, <3>4, Zenon
    <3> QED BY <2>4, <3>1, <3>4, <3>5, <3>6, <3>7, Takes, Zenon
  <2> QED BY <1>4, <2>2, <2>3, <2>4, Zenon DEF Drop
<1>5. ASSUME NEW c \in Conds, Signal(t, c) PROVE Placed'
  <2>1. PICK x \in SignalTargets(c) : SleepqRemove(c, x)
    BY <1>5, Zenon DEF Signal
  <2>2. x \in Threads /\ In(x, sq_blocked[c]) /\ sq[c] # None
    BY <1>5, SignalReady, ZenonT(30) DEF Signal
  <2> QED BY <2>1, <2>2, RemovePlaced, Zenon
<1>6. ASSUME NEW c \in Conds, Broadcast(t, c) PROVE Placed'
  <2>1. sq[c] \in Threads /\ sq_freeq[c] \in Seq(Threads) /\ Distinct(sq_freeq[c]) /\ ~In(sq[c], sq_freeq[c])
    BY <1>6, <1>0, ZenonT(30) DEF Broadcast, Placed
  <2>2. /\ \A y : In(y, PushFront(sq[c], sq_freeq[c])) <=> y = sq[c] \/ In(y, sq_freeq[c])
        /\ Distinct(PushFront(sq[c], sq_freeq[c]))
    BY <2>1, PushFrontList, Zenon
  <2>3. /\ sq_freeq'[c] = PushFront(sq[c], sq_freeq[c])
        /\ sq'[c] = None
        /\ \A d \in Conds \ {c} : sq_freeq'[d] = sq_freeq[d] /\ sq'[d] = sq[d]
        /\ UNCHANGED <<sleepqueue, wchan>>
    BY <1>6, <1>0, Zenon DEF Broadcast
  <2>4. \A d \in Conds, y \in Threads : Keeps(d, y)' <=> Keeps(d, y)
    BY <1>0, <2>2, <2>3, ZenonT(30) DEF Keeps
  <2>5. \A d \in Conds : Distinct(sq_freeq'[d]) /\ (sq'[d] # None => ~In(sq'[d], sq_freeq'[d]))
    BY <2>2, <2>3, ZenonT(30) DEF Placed
  <2>6. \A u \in Threads, d \in Conds : sleepqueue'[u] # None => ~Keeps(d, sleepqueue[u])'
    BY <1>0, <2>3, <2>4, SMTT(30) DEF Placed
  <2> QED BY <2>3, <2>4, <2>5, <2>6, ZenonT(30) DEF Placed
<1> QED BY <1>1, <1>2, <1>3, <1>4, <1>5, <1>6, QuietSteps, ZenonT(30)

\* At first every thread has its own.
LEMMA PlacedInit == Init => Placed
<1> SUFFICES ASSUME Init PROVE Placed
  OBVIOUS
<1>1. /\ \A u \in Threads : sleepqueue[u] = u /\ wchan[u] = None
      /\ \A c \in Conds : sq[c] = None /\ sq_freeq[c] = <<>>
      /\ None \notin Threads
  BY CondvarAssumption, Zenon DEF Init
<1>2. \A c \in Conds, y \in Threads : ~Keeps(c, y)
  BY <1>1, SMTT(30) DEF Keeps, In
<1>3. \A c \in Conds : Distinct(sq_freeq[c])
  BY <1>1, SMTT(30) DEF Distinct
<1> QED BY <1>1, <1>2, <1>3, ZenonT(30) DEF Placed

\* A SleepQueue that is Placed has one home.
LEMMA OneHome ==
    ASSUME IInv, Placed, NEW q \in Threads
    PROVE  \E h : Homes(q) = {h}
<1>0. sq_freeq \in [Conds -> Seq(Threads)] /\ None \notin Threads
  BY CondvarAssumption, Zenon DEF IInv, TypeOK
<1> DEFINE T == {<<"thread", u>> : u \in {v \in Threads : sleepqueue[v] = q}}
           C == {<<"chain", c>> : c \in {d \in Conds : sq[d] = q}}
           F(c) == {<<"free", c, i>> : i \in {j \in 1..Len(sq_freeq[c]) : sq_freeq[c][j] = q}}
<1>1. Homes(q) = T \cup C \cup UNION {F(c) : c \in Conds}
  BY ZenonT(30) DEF Homes
<1>2. ASSUME NEW u \in Threads, sleepqueue[u] = q PROVE \E h : Homes(q) = {h}
  <2>1. \A c \in Conds : ~Keeps(c, q)
    BY <1>0, <1>2, ZenonT(30) DEF Placed
  <2>2. T = {<<"thread", u>>}
    BY <1>0, <1>2, SMTT(30) DEF Placed
  <2>3. C = {} /\ \A c \in Conds : F(c) = {}
    BY <2>1, ZenonT(30) DEF Keeps, In
  <2> HIDE DEF T, C, F
  <2>4. UNION {F(c) : c \in Conds} = {}
    BY <2>3, ZenonT(30)
  <2> QED BY <1>1, <2>2, <2>3, <2>4, ZenonT(30)
<1>3. ASSUME NEW c \in Conds, Keeps(c, q) PROVE \E h : Homes(q) = {h}
  <2>1. T = {}
    BY <1>0, <1>3, SMTT(30) DEF Placed
  <2>2. \A d \in Conds : Keeps(d, q) => d = c
    BY <1>3, Zenon DEF Placed
  <2>3. \A d \in Conds \ {c} : sq[d] # q /\ F(d) = {}
    BY <2>2, ZenonT(30) DEF Keeps, In
  <2>4. CASE sq[c] = q
    <3>1. C = {<<"chain", c>>}
      BY <2>3, <2>4, SMTT(30)
    <3>2. ~In(q, sq_freeq[c])
      BY <1>0, <2>4, Zenon DEF Placed
    <3>3. F(c) = {}
      BY <3>2, ZenonT(30) DEF In
    <3> HIDE DEF T, C, F
    <3>4. UNION {F(d) : d \in Conds} = {}
      BY <2>3, <3>3, ZenonT(30)
    <3> QED BY <1>1, <2>1, <3>1, <3>4, ZenonT(30)
  <2>5. CASE sq[c] # q
    <3>1. C = {}
      BY <2>3, <2>5, ZenonT(30)
    <3>2. PICK i \in 1..Len(sq_freeq[c]) : sq_freeq[c][i] = q
      BY <1>3, <2>5, ZenonT(30) DEF Keeps, In
    <3>3. \A j \in 1..Len(sq_freeq[c]) : sq_freeq[c][j] = q => j = i
      BY <1>0, <3>2, ZenonT(30) DEF Placed, Distinct
    <3>4. F(c) = {<<"free", c, i>>}
      BY <3>2, <3>3, ZenonT(30)
    <3> HIDE DEF T, C, F
    <3>5. UNION {F(d) : d \in Conds} = {<<"free", c, i>>}
      BY <2>3, <3>4, SMTT(30)
    <3> QED BY <1>1, <2>1, <3>1, <3>5, ZenonT(30)
  <2> QED BY <2>4, <2>5, Zenon
<1> QED BY <1>2, <1>3, Zenon DEF Placed
-----------------------------------------------------------------------------
(* The steps of module Monitor.                                            *)

\* Only recursive mutexes have a recursion count, in m_count or, during a wait,
\* in the waiter's local.
DepthOK ==
    /\ \A m \in Mutexes \ Recursive : m_count[m] = 0
    /\ \A t \in Threads : pc[t] \in Waiting /\ mp[t] \notin Recursive => recurse[t] = 0

\* A step neither starts nor ends a wait of u, nor touches what u gets back ...
SameWait(u) ==
    /\ pc'[u] \in Waiting <=> pc[u] \in Waiting
    /\ pc[u] \in Waiting => mp'[u] = mp[u] /\ recurse'[u] = recurse[u]

\* ... and leaves alone what Waiters(c) looks at.
SameQueue(c) ==
    /\ sq_blocked'[c] = sq_blocked[c]
    /\ \A u \in Threads :
           /\ (pc'[u] = "enqueue" /\ cvp'[u] = c) <=> (pc[u] = "enqueue" /\ cvp[u] = c)
           /\ (pc'[u] \in Dropping /\ cvp'[u] = c) <=> (pc[u] \in Dropping /\ cvp[u] = c)

SameWaits == \A u \in Threads : SameWait(u)
SameQueues == \A c \in Conds : SameQueue(c)
Silent == SameWaits /\ SameQueues /\ UNCHANGED <<m_owner, m_count, unheard>>

\* A thread that is not in Wait runs, to the monitor.
LEMMA ResumeAt ==
    ASSUME NEW t \in Threads
    PROVE  /\ pc[t] \notin Waiting => resume[t] = <<>>
           /\ pc[t] \in Waiting => resume[t] = <<mp[t], recurse[t]>> /\ resume[t] # <<>>
BY ZenonT(30) DEF resume

\* What the monitor knows of the waiting threads, after a step about t alone.
LEMMA ResumeSet ==
    ASSUME NEW t \in Threads, \A u \in Threads \ {t} : SameWait(u), NEW v,
           pc'[t] \in Waiting => v = <<mp'[t], recurse'[t]>>,
           pc'[t] \notin Waiting => v = <<>>
    PROVE  resume' = [resume EXCEPT ![t] = v]
<1>1. \A u \in Threads \ {t} : resume'[u] = resume[u]
  BY ZenonT(30) DEF resume, SameWait
<1>2. resume'[t] = v
  BY Zenon DEF resume
<1>3. resume' = [u \in Threads |-> resume'[u]] /\ resume = [u \in Threads |-> resume[u]]
  BY ZenonT(30) DEF resume
<1> QED BY <1>1, <1>2, <1>3, ZenonT(30)

\* Nothing changes for the waiting threads ...
LEMMA ResumeKept == SameWaits => resume' = resume
BY ZenonT(30) DEF resume, SameWaits, SameWait

\* ... nor for the waiters of c.
LEMMA WaitersSame ==
    ASSUME NEW c \in Conds, SameQueue(c)
    PROVE  Waiters(c)' = Waiters(c)
<1>1. (\E u \in Threads : pc'[u] \in Dropping /\ cvp'[u] = c) <=> (\E u \in Threads : pc[u] \in Dropping /\ cvp[u] = c)
  BY Zenon DEF SameQueue
<1>2. {u \in Threads : In(u, sq_blocked'[c]) \/ (pc'[u] = "enqueue" /\ cvp'[u] = c)}
      = {u \in Threads : In(u, sq_blocked[c]) \/ (pc[u] = "enqueue" /\ cvp[u] = c)}
  BY ZenonT(30) DEF SameQueue
<1> QED BY <1>1, <1>2, Zenon DEF Waiters, Dropping

\* The waiters of the other conds stay.
LEMMA WaitersSet ==
    ASSUME NEW c \in Conds, \A d \in Conds \ {c} : SameQueue(d), NEW S, Waiters(c)' = S
    PROVE  waiters' = [waiters EXCEPT ![c] = S] /\ waiters[c] = Waiters(c)
<1>1. \A d \in Conds \ {c} : Waiters(d)' = Waiters(d)
  BY WaitersSame, Zenon
<1>2. waiters'[c] = S /\ waiters[c] = Waiters(c) /\ \A d \in Conds \ {c} : waiters'[d] = waiters[d]
  BY <1>1, Zenon DEF waiters
<1>3. waiters' = [d \in Conds |-> waiters'[d]] /\ waiters = [d \in Conds |-> waiters[d]]
  BY ZenonT(30) DEF waiters
<1> QED BY <1>2, <1>3, ZenonT(30)

\* The waiters of all conds stay.
LEMMA WaitersKept ==
    ASSUME \A d \in Conds : Waiters(d)' = Waiters(d)
    PROVE  waiters' = waiters
BY ZenonT(30) DEF waiters

\* While the chain lock is free nobody joins the queue and nobody drops it.
LEMMA FreeChain ==
    ASSUME IInv, NEW c \in Conds, sc_lock[c] = None
    PROVE  /\ \A u \in Threads : pc[u] \in Chained => cvp[u] # c
           /\ Waiters(c) = {u \in Threads : In(u, sq_blocked[c])}
<1>1. \A u \in Threads : pc[u] \in Chained => cvp[u] # c
  BY CondvarAssumption, SMTT(30) DEF IInv, ChainLockOK
<1>2. \A u \in Threads : ~(pc[u] \in Dropping /\ cvp[u] = c) /\ ~(pc[u] = "enqueue" /\ cvp[u] = c)
  BY <1>1, Zenon DEF Chained, Dropping
<1> QED BY <1>1, <1>2, ZenonT(30) DEF Waiters, Dropping

\* While t has it, nobody else does.
LEMMA HeldChain ==
    ASSUME IInv, NEW t \in Threads, pc[t] \in Chained
    PROVE  cvp[t] \in Conds /\ \A u \in Threads \ {t} : pc[u] \in Chained => cvp[u] # cvp[t]
BY ZenonT(30) DEF IInv, ChainLockOK, LocalsOK

\* Most steps are invisible to the monitor.
LEMMA SilentSteps ==
    ASSUME IInv, NEW t \in Threads, Step(t) \/ Call(t)
    PROVE  \/ Silent
           \/ LockOwn(t) \/ WaitEnqueue(t) \/ WaitAwake(t) \/ WaitCvOwn(t) \/ Drop(t) \/ DropDone(t)
           \/ \E m \in Mutexes : SelfLock(t, m) \/ UnlockRecursive(t, m) \/ Unlock(t, m)
           \/ \E c \in Conds, m \in Mutexes, b \in BOOLEAN : Wait(t, c, m, b)
           \/ \E c \in Conds : SignalNobody(t, c) \/ Signal(t, c) \/ Broadcast(t, c)
<1>0. pc \in [Threads -> Labels]
  BY Zenon DEF IInv, TypeOK
<1>1. UnlockHost(t) => Silent
  BY <1>0, ZenonT(30) DEF UnlockHost, Goto, Silent, SameWaits, SameWait, SameQueues, SameQueue, Waiting, Dropping, mutexVars, queueVars, localVars, threadVars
<1>2. WaitClearWake(t) => Silent
  BY <1>0, ZenonT(30) DEF WaitClearWake, Goto, Silent, SameWaits, SameWait, SameQueues, SameQueue, Waiting, Dropping, mutexVars, queueVars, localVars, threadVars
<1>3. Sleep(t) => Silent
  BY <1>0, ZenonT(30) DEF Sleep, Goto, Silent, SameWaits, SameWait, SameQueues, SameQueue, Waiting, Dropping, mutexVars, queueVars, localVars, threadVars
<1>4. SleepAcquire(t) => Silent
  BY <1>0, ZenonT(30) DEF SleepAcquire, Goto, Silent, SameWaits, SameWait, SameQueues, SameQueue, Waiting, Dropping, mutexVars, queueVars, localVars, threadVars
<1>5. SleepTimeout(t) => Silent
  BY <1>0, ZenonT(30) DEF SleepTimeout, Goto, Silent, SameWaits, SameWait, SameQueues, SameQueue, Waiting, Dropping, mutexVars, queueVars, localVars, threadVars
<1>6. WaitCvLock(t) => Silent
  BY <1>0, ZenonT(30) DEF WaitCvLock, Goto, Silent, SameWaits, SameWait, SameQueues, SameQueue, Waiting, Dropping, mutexVars, queueVars, localVars, threadVars
<1>7. SignalDefer(t) => Silent
  BY <1>0, ZenonT(30) DEF SignalDefer, Goto, Silent, SameWaits, SameWait, SameQueues, SameQueue, Waiting, Dropping, mutexVars, queueVars, localVars, threadVars
<1>8. ReleaseWaddrs(t) => Silent
  BY <1>0, ZenonT(30) DEF ReleaseWaddrs, Goto, Silent, SameWaits, SameWait, SameQueues, SameQueue, Waiting, Dropping, mutexVars, queueVars, localVars, threadVars
<1>9. CancelKick(t) => Silent
  BY <1>0, ZenonT(30) DEF CancelKick, Goto, Silent, SameWaits, SameWait, SameQueues, SameQueue, Waiting, Dropping, mutexVars, queueVars, localVars, threadVars
<1>10. ASSUME WakeAll(t) PROVE Silent
  <2>1. UNCHANGED <<m_owner, m_count, unheard, sq_blocked, cvp, mp, recurse>>
    BY <1>10, Zenon DEF WakeAll, mutexVars, queueVars, localVars
  <2>2. /\ \A u \in Threads : pc'[u] \in Waiting <=> pc[u] \in Waiting
        /\ \A u \in Threads : pc'[u] = "enqueue" <=> pc[u] = "enqueue"
        /\ \A u \in Threads : pc'[u] \in Dropping <=> pc[u] \in Dropping
    BY <1>10, WakeAllEffect, ZenonT(30) DEF Waiting, Dropping
  <2> QED BY <2>1, <2>2, Zenon DEF Silent, SameWaits, SameWait, SameQueues, SameQueue
<1>11. Step(t) => \/ Silent
                  \/ LockOwn(t) \/ WaitEnqueue(t) \/ WaitAwake(t) \/ WaitCvOwn(t) \/ Drop(t) \/ DropDone(t)
  BY <1>1, <1>2, <1>3, <1>4, <1>5, <1>6, <1>7, <1>8, <1>9, <1>10, Zenon DEF Step
<1>12. ASSUME NEW m \in Mutexes, Lock(t, m) PROVE Silent
  BY <1>0, <1>12, SMTT(30) DEF Lock, Goto, Silent, SameWaits, SameWait, SameQueues, SameQueue, Waiting, Dropping, mutexVars, queueVars, localVars, threadVars
<1>13. ASSUME NEW x \in Cancellable, Cancel(t, x) PROVE Silent
  BY <1>0, <1>13, ZenonT(30) DEF Cancel, Goto, Silent, SameWaits, SameWait, SameQueues, SameQueue, Waiting, Dropping, mutexVars, queueVars, localVars, threadVars
<1>14. SetCancelState(t) => Silent
  BY <1>0, ZenonT(30) DEF SetCancelState, Silent, SameWaits, SameWait, SameQueues, SameQueue, Waiting, Dropping, mutexVars, queueVars, localVars, threadVars
<1>15. Call(t) => \/ Silent
                  \/ \E m \in Mutexes : SelfLock(t, m) \/ UnlockRecursive(t, m) \/ Unlock(t, m)
                  \/ \E c \in Conds, m \in Mutexes, b \in BOOLEAN : Wait(t, c, m, b)
                  \/ \E c \in Conds : SignalNobody(t, c) \/ Signal(t, c) \/ Broadcast(t, c)
  <2>1. ASSUME NEW c \in Conds, NEW m \in Mutexes, Wait(t, c, m, FALSE) \/ Wait(t, c, m, TRUE)
        PROVE  \E b \in BOOLEAN : Wait(t, c, m, b)
    BY <2>1, ZenonT(30)
  <2> QED BY <1>12, <1>13, <1>14, <2>1, Zenon DEF Call
<1> QED BY <1>11, <1>15, Zenon

\* Lock, Unlock and their recursive forms are the monitor's.
LEMMA MutexSteps ==
    ASSUME IInv, DepthOK, NEW t \in Threads
    PROVE  /\ LockOwn(t) => \E m \in Mutexes : Mon!Acquire(t, m)
           /\ \A m \in Mutexes : SelfLock(t, m) => Mon!Deepen(t, m)
           /\ \A m \in Mutexes : UnlockRecursive(t, m) \/ Unlock(t, m) => Mon!Yield(t, m)
<1>0. pc \in [Threads -> Labels] /\ m_count \in [Mutexes -> Nat]
  BY Zenon DEF IInv, TypeOK
<1>1. ASSUME SameWaits, SameQueues PROVE resume' = resume /\ waiters' = waiters
  BY <1>1, ResumeKept, WaitersSame, WaitersKept, Zenon DEF SameQueues
<1>2. pc[t] \in {"own", "idle"} => resume[t] = <<>>
  BY ResumeAt, ZenonT(30) DEF Waiting
<1>3. ASSUME LockOwn(t) PROVE \E m \in Mutexes : Mon!Acquire(t, m)
  <2>1. SameWaits /\ SameQueues
    BY <1>0, <1>3, ZenonT(30) DEF LockOwn, Goto, SameWaits, SameWait, SameQueues, SameQueue, Waiting, Dropping, queueVars, localVars
  <2>2. PICK m \in Mutexes : m = mp[t]
    BY <1>3, Zenon DEF LockOwn, IInv, LocalsOK, Inside
  <2>3. m_owner[m] = None /\ m_owner' = [m_owner EXCEPT ![m] = t] /\ UNCHANGED <<m_count, unheard>> /\ resume[t] = <<>>
    BY <1>2, <1>3, <2>2, Zenon DEF LockOwn, IInv, HostLockOK, Inside
  <2> QED BY <1>1, <2>1, <2>3, Zenon DEF Mon!Acquire, Mon!Running
<1>4. ASSUME NEW m \in Mutexes, SelfLock(t, m) PROVE Mon!Deepen(t, m)
  <2>1. SameWaits /\ SameQueues
    BY <1>4, ZenonT(30) DEF SelfLock, SameWaits, SameWait, SameQueues, SameQueue, Waiting, Dropping, queueVars, localVars
  <2> QED BY <1>1, <1>2, <1>4, <2>1, Zenon DEF SelfLock, Mon!Deepen, Mon!Running
<1>5. ASSUME NEW m \in Mutexes, UnlockRecursive(t, m) PROVE Mon!Yield(t, m)
  <2>1. SameWaits /\ SameQueues
    BY <1>5, ZenonT(30) DEF UnlockRecursive, SameWaits, SameWait, SameQueues, SameQueue, Waiting, Dropping, queueVars, localVars
  <2> QED BY <1>1, <1>2, <1>5, <2>1, Zenon DEF UnlockRecursive, Mon!Yield, Mon!Running
<1>6. ASSUME NEW m \in Mutexes, Unlock(t, m) PROVE Mon!Yield(t, m)
  <2>1. SameWaits /\ SameQueues
    BY <1>0, <1>6, SMTT(30) DEF Unlock, Goto, SameWaits, SameWait, SameQueues, SameQueue, Waiting, Dropping, queueVars, localVars
  <2>2. ~(m_count[m] > 0)
    BY <1>0, <1>6, SMTT(30) DEF Unlock, DepthOK
  <2> QED BY <1>1, <1>2, <1>6, <2>1, <2>2, Zenon DEF Unlock, Mon!Yield, Mon!Running
<1> QED BY <1>3, <1>4, <1>5, <1>6, Zenon

\* Wait gives up the mutex and joins the waiters in one step of the monitor,
\* although the thread is on the queue only later: it has the chain lock.
LEMMA WaitStep ==
    ASSUME IInv, NEW t \in Threads, NEW c \in Conds, NEW m \in Mutexes, NEW b, Wait(t, c, m, b)
    PROVE  Mon!Wait(t, c, m)
<1>0. /\ pc \in [Threads -> Labels] /\ cvp \in [Threads -> Conds \cup {None}]
      /\ mp \in [Threads -> Mutexes \cup {None}] /\ recurse \in [Threads -> Nat]
  BY Zenon DEF IInv, TypeOK
<1>1. /\ pc[t] = "idle" /\ pc'[t] = "enqueue" /\ cvp'[t] = c /\ mp'[t] = m /\ recurse'[t] = m_count[m]
      /\ \A u \in Threads \ {t} : pc'[u] = pc[u] /\ cvp'[u] = cvp[u] /\ mp'[u] = mp[u] /\ recurse'[u] = recurse[u]
      /\ sq_blocked' = sq_blocked
  BY <1>0, Zenon DEF Wait, Goto
<1>2. \A u \in Threads \ {t} : SameWait(u)
  BY <1>1, Zenon DEF SameWait
<1>3. resume' = [resume EXCEPT ![t] = <<m, m_count[m]>>]
  <2>1. pc'[t] \in Waiting /\ <<m, m_count[m]>> = <<mp'[t], recurse'[t]>>
    BY <1>1, ZenonT(30) DEF Waiting
  <2> QED BY <1>2, <2>1, ResumeSet, Zenon
<1>4. \A d \in Conds \ {c} : SameQueue(d)
  BY <1>1, ZenonT(30) DEF SameQueue, Dropping
<1>5. Waiters(c)' = Waiters(c) \cup {t}
  <2>1. sc_lock[c] = None
    BY Zenon DEF Wait
  <2>2. /\ \A u \in Threads : pc[u] \in Chained => cvp[u] # c
        /\ Waiters(c) = {u \in Threads : In(u, sq_blocked[c])}
    BY <2>1, FreeChain, Zenon
  <2>3. \A u \in Threads : ~(pc'[u] \in Dropping /\ cvp'[u] = c)
    BY <1>1, <2>2, ZenonT(30) DEF Dropping, Chained
  <2>4. \A u \in Threads : pc'[u] = "enqueue" /\ cvp'[u] = c <=> u = t
    BY <1>1, <2>2, ZenonT(30) DEF Chained
  <2>5. Waiters(c)' = {u \in Threads : In(u, sq_blocked[c]) \/ u = t}
    BY <1>1, <2>3, <2>4, ZenonT(30) DEF Waiters, Dropping
  <2> QED BY <2>2, <2>5, ZenonT(30)
<1>6. waiters' = [waiters EXCEPT ![c] = waiters[c] \cup {t}]
  BY <1>4, <1>5, WaitersSet, Zenon
<1>7. resume[t] = <<>>
  BY <1>1, ResumeAt, ZenonT(30) DEF Waiting
<1> QED BY <1>3, <1>6, <1>7, Zenon DEF Wait, Mon!Wait, Mon!Running

\* Joining the queue under the chain lock changes nothing to the monitor.
LEMMA EnqueueStep ==
    ASSUME IInv, NEW t \in Threads, WaitEnqueue(t)
    PROVE  UNCHANGED <<m_owner, m_count, waiters, resume, unheard>>
<1>0. pc \in [Threads -> Labels]
  BY Zenon DEF IInv, TypeOK
<1>1. PICK c \in Conds : c = cvp[t]
  BY EnqueueReady, Zenon DEF WaitEnqueue
<1>2. /\ pc[t] = "enqueue" /\ pc'[t] = "clearwake" /\ \A u \in Threads \ {t} : pc'[u] = pc[u]
      /\ UNCHANGED <<cvp, mp, recurse, m_owner, m_count, unheard>> /\ SleepqAdd(c, t)
  BY <1>0, <1>1, Zenon DEF WaitEnqueue, Goto, localVars
<1>3. SameWaits
  BY <1>2, ZenonT(30) DEF SameWaits, SameWait, Waiting
<1>4. /\ \A d \in Conds \ {c} : sq_blocked'[d] = sq_blocked[d]
      /\ \A y : In(y, sq_blocked'[c]) <=> y = t \/ In(y, sq_blocked[c])
  BY <1>1, <1>2, EnqueueReady, SleepqAddEffect, Zenon
<1>5. \A d \in Conds \ {c} : SameQueue(d)
  BY <1>1, <1>2, <1>4, ZenonT(30) DEF SameQueue, Dropping
<1>6. Waiters(c)' = Waiters(c)
  <2>1. \A u \in Threads \ {t} : pc[u] \in Chained => cvp[u] # c
    BY <1>1, <1>2, HeldChain, Zenon DEF Chained
  <2>2. \A u \in Threads : ~(pc[u] \in Dropping /\ cvp[u] = c) /\ ~(pc'[u] \in Dropping /\ cvp'[u] = c)
    BY <1>2, <2>1, ZenonT(30) DEF Dropping, Chained
  <2>3. \A u \in Threads : /\ pc[u] = "enqueue" /\ cvp[u] = c <=> u = t
                           /\ ~(pc'[u] = "enqueue" /\ cvp'[u] = c)
    BY <1>1, <1>2, <2>1, ZenonT(30) DEF Chained
  <2>4. Waiters(c) = {u \in Threads : In(u, sq_blocked[c]) \/ u = t}
    BY <2>2, <2>3, ZenonT(30) DEF Waiters, Dropping
  <2>5. Waiters(c)' = {u \in Threads : In(u, sq_blocked'[c])}
    BY <2>2, <2>3, ZenonT(30) DEF Waiters, Dropping
  <2> QED BY <1>4, <2>4, <2>5, ZenonT(30)
<1> QED BY <1>2, <1>3, <1>5, <1>6, ResumeKept, WaitersSame, WaitersKept, Zenon

\* A waiter that times out or is cancelled gives up its place in the queue.
LEMMA AwakeStep ==
    ASSUME IInv, NEW t \in Threads, WaitAwake(t)
    PROVE  \/ UNCHANGED <<m_owner, m_count, waiters, resume, unheard>>
           \/ \E c \in Conds : Mon!GiveUp(t, c)
<1>0. pc \in [Threads -> Labels]
  BY Zenon DEF IInv, TypeOK
<1>1. PICK c \in Conds : c = cvp[t]
  BY AwakeReady, Zenon DEF WaitAwake
<1>2. /\ UNCHANGED <<cvp, mp, recurse, m_owner, m_count, unheard>> /\ sc_lock[c] = None
      /\ pc[t] \in {"awake", "expired"} /\ pc'[t] \in {"awake", "expired", "cvlock"}
      /\ \A u \in Threads \ {t} : pc'[u] = pc[u]
  BY <1>0, <1>1, ZenonT(30) DEF WaitAwake, Goto, mutexVars, localVars
<1>3. SameWaits
  BY <1>2, ZenonT(30) DEF SameWaits, SameWait, Waiting
<1>4. ASSUME NEW d \in Conds, sq_blocked'[d] = sq_blocked[d] PROVE SameQueue(d)
  BY <1>2, <1>4, ZenonT(30) DEF SameQueue, Dropping
<1>5. CASE UNCHANGED queueVars
  <2>1. \A d \in Conds : SameQueue(d)
    BY <1>4, <1>5, Zenon DEF queueVars
  <2> QED BY <1>2, <1>3, <2>1, ResumeKept, WaitersSame, WaitersKept, Zenon
<1>6. CASE wchan[t] # None /\ SleepqRemove(c, t)
  <2>1. In(t, sq_blocked[c]) /\ sq[c] # None
    BY <1>1, <1>2, <1>6, AwakeReady, Zenon
  <2>2. /\ \A d \in Conds \ {c} : sq_blocked'[d] = sq_blocked[d]
        /\ \A y : In(y, sq_blocked'[c]) <=> In(y, sq_blocked[c]) /\ y # t
    BY <1>6, <2>1, SleepqRemoveEffect, Zenon
  <2>3. /\ \A u \in Threads : pc[u] \in Chained => cvp[u] # c
        /\ Waiters(c) = {u \in Threads : In(u, sq_blocked[c])}
    BY <1>2, FreeChain, Zenon
  <2>4. \A u \in Threads : ~(pc'[u] \in Dropping /\ cvp'[u] = c) /\ ~(pc'[u] = "enqueue" /\ cvp'[u] = c)
    BY <1>2, <2>3, ZenonT(30) DEF Dropping, Chained
  <2>5. Waiters(c)' = {u \in Threads : In(u, sq_blocked'[c])}
    BY <2>4, ZenonT(30) DEF Waiters, Dropping
  <2>6. t \in Waiters(c) /\ Waiters(c)' = Waiters(c) \ {t}
    BY <2>1, <2>2, <2>3, <2>5, ZenonT(30)
  <2>7. t \in waiters[c] /\ waiters' = [waiters EXCEPT ![c] = waiters[c] \ {t}]
    BY <1>4, <2>2, <2>6, WaitersSet, Zenon
  <2> QED BY <1>2, <1>3, <2>7, ResumeKept, Zenon DEF Mon!GiveUp
<1> QED BY <1>1, <1>5, <1>6, Zenon DEF WaitAwake

\* CvLock ends the wait: the thread is on no queue, and gets its mutex back as
\* deep as it had it.
LEMMA ResumeStep ==
    ASSUME IInv, NEW t \in Threads, WaitCvOwn(t)
    PROVE  Mon!Resume(t)
<1>0. pc \in [Threads -> Labels]
  BY Zenon DEF IInv, TypeOK
<1>1. PICK m \in Mutexes : m = mp[t]
  BY Zenon DEF WaitCvOwn, IInv, LocalsOK, Inside
<1>2. /\ pc[t] = "cvown" /\ pc'[t] = "idle" /\ \A u \in Threads \ {t} : pc'[u] = pc[u]
      /\ UNCHANGED <<cvp, mp, recurse, sq_blocked, unheard>>
      /\ m_owner' = [m_owner EXCEPT ![m] = t] /\ m_count' = [m_count EXCEPT ![m] = recurse[t]]
  BY <1>0, <1>1, Zenon DEF WaitCvOwn, Goto, localVars, queueVars
<1>3. m_owner[m] = None
  BY <1>1, <1>2, Zenon DEF IInv, HostLockOK, Inside
<1>4. resume[t] # <<>> /\ resume[t][1] = m /\ resume[t][2] = recurse[t]
  <2>1. resume[t] = <<m, recurse[t]>> /\ resume[t] # <<>>
    BY <1>1, <1>2, ResumeAt, ZenonT(30) DEF Waiting
  <2> QED BY <2>1
<1>5. resume' = [resume EXCEPT ![t] = <<>>]
  <2>1. pc'[t] \notin Waiting /\ \A u \in Threads \ {t} : SameWait(u)
    BY <1>2, ZenonT(30) DEF SameWait, Waiting
  <2> QED BY <2>1, ResumeSet, Zenon
<1>6. SameQueues
  BY <1>2, ZenonT(30) DEF SameQueues, SameQueue, Dropping
<1>7. waiters' = waiters
  BY <1>6, WaitersSame, WaitersKept, Zenon DEF SameQueues
<1>8. \A c \in Conds : t \notin waiters[c]
  <2>1. \A c \in Conds : ~In(t, sq_blocked[c])
    BY <1>2, CondvarAssumption, SMTT(30) DEF IInv, LinksOK, LinkOK, Queued
  <2>2. \A c \in Conds : t \notin Waiters(c)
    BY <1>2, <2>1, ZenonT(30) DEF Waiters
  <2> QED BY <2>2, Zenon DEF waiters
<1> QED BY <1>2, <1>3, <1>4, <1>5, <1>7, <1>8, Zenon DEF Mon!Resume, Mon!Running

\* A signal or a broadcast that finds no queue misses no waiter.
LEMMA NobodyStep ==
    ASSUME IInv, NEW t \in Threads, NEW c \in Conds, SignalNobody(t, c)
    PROVE  Mon!NotifyNobody(c)
<1>1. /\ sc_lock[c] = None /\ sq[c] = None /\ unheard' = [unheard EXCEPT ![c] = TRUE]
      /\ UNCHANGED <<m_owner, m_count, sq_blocked, pc, cvp, mp, recurse>>
  BY Zenon DEF SignalNobody, mutexVars, queueVars, localVars
<1>2. SameWaits /\ SameQueues
  BY <1>1, ZenonT(30) DEF SameWaits, SameWait, SameQueues, SameQueue
<1>3. sq_blocked[c] = <<>>
  BY <1>1, Zenon DEF IInv, DropOK
<1>4. \A y : ~In(y, sq_blocked[c])
  BY <1>3, EmptyList, ZenonT(30) DEF IInv, TypeOK
<1>5. Waiters(c) = {}
  BY <1>1, <1>4, FreeChain, ZenonT(30)
<1>6. waiters[c] = {}
  BY <1>5, Zenon DEF waiters
<1> QED BY <1>1, <1>2, <1>6, ResumeKept, WaitersSame, WaitersKept, Zenon DEF SameQueues, Mon!NotifyNobody

\* A signal picks one waiter, wherever it leaves the wakeup.
LEMMA SignalStep ==
    ASSUME IInv, NEW t \in Threads, NEW c \in Conds, Signal(t, c)
    PROVE  Mon!Notify(c)
<1>0. pc \in [Threads -> Labels] /\ cvp \in [Threads -> Conds \cup {None}] /\ mp \in [Threads -> Mutexes \cup {None}]
  BY Zenon DEF IInv, TypeOK
<1>1. PICK x \in SignalTargets(c) : SleepqRemove(c, x) /\ SignalFate(t, c, x)
  BY Zenon DEF Signal
<1>2. /\ pc[t] = "idle" /\ sc_lock[c] = None /\ sq[c] # None
      /\ UNCHANGED <<m_owner, m_count, recurse, unheard>>
  BY Zenon DEF Signal
<1>3. /\ pc'[t] \in {"idle", "sigflush", "release"}
      /\ \A u \in Threads \ {t} : pc'[u] = pc[u] /\ cvp'[u] = cvp[u] /\ mp'[u] = mp[u]
  BY <1>0, <1>1, <1>2, SMTT(30) DEF SignalFate, Goto
<1>4. SameWaits
  BY <1>2, <1>3, ZenonT(30) DEF SameWaits, SameWait, Waiting
<1>5. x \in Threads /\ In(x, sq_blocked[c])
  BY <1>1, <1>2, SignalReady, Zenon
<1>6. /\ \A d \in Conds \ {c} : sq_blocked'[d] = sq_blocked[d]
      /\ \A y : In(y, sq_blocked'[c]) <=> In(y, sq_blocked[c]) /\ y # x
  BY <1>1, <1>2, <1>5, SleepqRemoveEffect, Zenon
<1>7. \A d \in Conds \ {c} : SameQueue(d)
  BY <1>2, <1>3, <1>6, ZenonT(30) DEF SameQueue, Dropping
<1>8. x \in Waiters(c) /\ Waiters(c)' = Waiters(c) \ {x}
  <2>1. /\ \A u \in Threads : pc[u] \in Chained => cvp[u] # c
        /\ Waiters(c) = {u \in Threads : In(u, sq_blocked[c])}
    BY <1>2, FreeChain, Zenon
  <2>2. \A u \in Threads : ~(pc'[u] \in Dropping /\ cvp'[u] = c) /\ ~(pc'[u] = "enqueue" /\ cvp'[u] = c)
    BY <1>3, <2>1, ZenonT(30) DEF Dropping, Chained
  <2>3. Waiters(c)' = {u \in Threads : In(u, sq_blocked'[c])}
    BY <2>2, ZenonT(30) DEF Waiters, Dropping
  <2> QED BY <1>5, <1>6, <2>1, <2>3, ZenonT(30)
<1>9. x \in waiters[c] /\ waiters' = [waiters EXCEPT ![c] = waiters[c] \ {x}]
  BY <1>7, <1>8, WaitersSet, Zenon
<1> QED BY <1>2, <1>4, <1>9, ResumeKept, Zenon DEF Mon!Notify

\* A broadcast releases all of them when it unlinks the queue ...
LEMMA BroadcastStep ==
    ASSUME IInv, NEW t \in Threads, NEW c \in Conds, Broadcast(t, c)
    PROVE  Mon!NotifyAll(c)
<1>0. pc \in [Threads -> Labels] /\ cvp \in [Threads -> Conds \cup {None}]
  BY Zenon DEF IInv, TypeOK
<1>1. /\ pc[t] = "idle" /\ pc'[t] = "drop" /\ cvp'[t] = c
      /\ \A u \in Threads \ {t} : pc'[u] = pc[u] /\ cvp'[u] = cvp[u]
      /\ UNCHANGED <<m_owner, m_count, sq_blocked, mp, recurse, unheard>>
  BY <1>0, Zenon DEF Broadcast, Goto, mutexVars
<1>2. SameWaits
  BY <1>1, ZenonT(30) DEF SameWaits, SameWait, Waiting
<1>3. \A d \in Conds \ {c} : SameQueue(d)
  BY <1>1, ZenonT(30) DEF SameQueue, Dropping
<1>4. Waiters(c)' = {}
  BY <1>1, ZenonT(30) DEF Waiters
<1>5. waiters' = [waiters EXCEPT ![c] = {}]
  BY <1>3, <1>4, WaitersSet, Zenon
<1> QED BY <1>1, <1>2, <1>5, ResumeKept, Zenon DEF Mon!NotifyAll

\* SleepqDrop takes one waiter off the queue, or makes room for it first.
LEMMA DropEffect ==
    ASSUME IInv, NEW t \in Threads, Drop(t)
    PROVE  /\ pc'[t] \in Dropping /\ \A u \in Threads \ {t} : pc'[u] = pc[u]
           /\ \A d \in Conds \ {cvp[t]} : sq_blocked'[d] = sq_blocked[d]
           /\ UNCHANGED <<m_owner, m_count, cvp, mp, recurse, unheard>>
<1>0. pc \in [Threads -> Labels] /\ sq_blocked \in [Conds -> Seq(Threads)]
  BY Zenon DEF IInv, TypeOK
<1>1. pc[t] = "drop" /\ UNCHANGED <<m_owner, m_count, cvp, mp, recurse, unheard>>
  BY Zenon DEF Drop
<1>2. \/ pc' = [pc EXCEPT ![t] = "dropflush"] /\ UNCHANGED sq_blocked
      \/ pc' = [pc EXCEPT ![t] = "dropwaddrs"] /\ UNCHANGED sq_blocked
      \/ UNCHANGED pc /\ sq_blocked' = [sq_blocked EXCEPT ![cvp[t]] = Tail(@)]
  BY Zenon DEF Drop, Goto
<1>3. pc'[t] \in Dropping /\ \A u \in Threads \ {t} : pc'[u] = pc[u]
  BY <1>0, <1>1, <1>2, Zenon DEF Dropping
<1>4. \A d \in Conds \ {cvp[t]} : sq_blocked'[d] = sq_blocked[d]
  BY <1>0, <1>2, Zenon
<1> QED BY <1>1, <1>3, <1>4

\* Dropping the waiters one by one is invisible.
LEMMA DropSteps ==
    ASSUME IInv, NEW t \in Threads, Drop(t) \/ DropDone(t)
    PROVE  UNCHANGED <<m_owner, m_count, waiters, resume, unheard>>
<1>0. pc \in [Threads -> Labels] /\ sq_blocked \in [Conds -> Seq(Threads)]
  BY Zenon DEF IInv, TypeOK
<1>1. pc[t] = "drop"
  BY Zenon DEF Drop, DropDone
<1>2. PICK c \in Conds : c = cvp[t]
  BY <1>1, HeldChain, Zenon DEF Chained
<1>3. /\ UNCHANGED <<m_owner, m_count, cvp, mp, recurse, unheard>>
      /\ \A u \in Threads \ {t} : pc'[u] = pc[u]
      /\ \A d \in Conds \ {c} : sq_blocked'[d] = sq_blocked[d]
  <2>1. CASE Drop(t)
    BY <1>2, <2>1, DropEffect, Zenon
  <2>2. CASE DropDone(t)
    BY <1>0, <2>2, Zenon DEF DropDone, Goto, mutexVars, localVars
  <2> QED BY <2>1, <2>2
<1>4. \/ pc'[t] \in Dropping
      \/ pc'[t] \in {"idle", "release"} /\ sq_blocked'[c] = <<>>
  <2>1. CASE Drop(t)
    BY <2>1, DropEffect, Zenon
  <2>2. CASE DropDone(t)
    BY <1>0, <1>2, <2>2, ZenonT(30) DEF DropDone, Goto
  <2> QED BY <2>1, <2>2
<1>5. SameWaits
  BY <1>1, <1>3, <1>4, ZenonT(30) DEF SameWaits, SameWait, Waiting, Dropping
<1>6. \A d \in Conds \ {c} : SameQueue(d)
  BY <1>1, <1>2, <1>3, <1>4, ZenonT(30) DEF SameQueue, Dropping
<1>7. Waiters(c) = {}
  BY <1>1, <1>2, ZenonT(30) DEF Waiters
<1>8. Waiters(c)' = {}
  <2>1. CASE pc'[t] \in Dropping
    BY <1>2, <1>3, <2>1, ZenonT(30) DEF Waiters, Dropping
  <2>2. CASE pc'[t] \in {"idle", "release"} /\ sq_blocked'[c] = <<>>
    <3>1. \A u \in Threads \ {t} : pc[u] \in Chained => cvp[u] # c
      BY <1>1, <1>2, HeldChain, Zenon DEF Chained
    <3>2. \A u \in Threads : ~(pc'[u] = "enqueue" /\ cvp'[u] = c)
      BY <1>3, <2>2, <3>1, ZenonT(30) DEF Chained
    <3>3. \A y : ~In(y, sq_blocked'[c])
      BY <2>2, SMTT(30) DEF In
    <3> QED BY <3>2, <3>3, ZenonT(30) DEF Waiters
  <2> QED BY <1>4, <2>1, <2>2
<1> QED BY <1>3, <1>5, <1>6, <1>7, <1>8, ResumeKept, WaitersSame, WaitersKept, Zenon

\* Every step of the code is one of the monitor, or invisible.
LEMMA MonitorStep ==
    ASSUME IInv, DepthOK, NEW t \in Threads, Step(t) \/ Call(t)
    PROVE  Mon!Next \/ UNCHANGED <<m_owner, m_count, waiters, resume, unheard>>
<1>1. CASE Silent
  BY <1>1, ResumeKept, WaitersSame, WaitersKept, Zenon DEF Silent, SameQueues
<1>2. CASE LockOwn(t) \/ \E m \in Mutexes : SelfLock(t, m) \/ UnlockRecursive(t, m) \/ Unlock(t, m)
  BY <1>2, MutexSteps, Zenon DEF Mon!Next
<1>3. CASE WaitAwake(t) \/ WaitCvOwn(t)
  BY <1>3, AwakeStep, ResumeStep, Zenon DEF Mon!Next
<1>4. CASE WaitEnqueue(t) \/ Drop(t) \/ DropDone(t)
  BY <1>4, EnqueueStep, DropSteps, Zenon
<1>5. CASE \E c \in Conds, m \in Mutexes, b \in BOOLEAN : Wait(t, c, m, b)
  BY <1>5, WaitStep, Zenon DEF Mon!Next
<1>6. CASE \E c \in Conds : SignalNobody(t, c) \/ Signal(t, c) \/ Broadcast(t, c)
  BY <1>6, NobodyStep, SignalStep, BroadcastStep, Zenon DEF Mon!Next
<1> QED BY <1>1, <1>2, <1>3, <1>4, <1>5, <1>6, SilentSteps, Zenon

\* Nobody waits at first.
LEMMA MonitorInit == Init => Mon!Init
<1> SUFFICES ASSUME Init PROVE Mon!Init
  OBVIOUS
<1>1. resume = [t \in Threads |-> <<>>]
  BY ZenonT(30) DEF Init, resume, Waiting
<1>2. \A c \in Conds : Waiters(c) = {}
  BY SMTT(30) DEF Init, Waiters, In
<1>3. waiters = [c \in Conds |-> {}]
  BY <1>2, ZenonT(30) DEF waiters
<1> QED BY <1>1, <1>3, Zenon DEF Init, Mon!Init

\* Only SelfLock of a recursive mutex counts up, and Wait and CvLock carry the
\* count over the wait.
LEMMA DepthStep ==
    ASSUME IInv, DepthOK, NEW t \in Threads, Step(t) \/ Call(t)
    PROVE  DepthOK'
<1>0. /\ pc \in [Threads -> Labels] /\ m_count \in [Mutexes -> Nat] /\ recurse \in [Threads -> Nat]
      /\ mp \in [Threads -> Mutexes \cup {None}]
  BY Zenon DEF IInv, TypeOK
<1>1. ASSUME UNCHANGED m_count, SameWaits PROVE DepthOK'
  BY <1>1, Zenon DEF DepthOK, SameWaits, SameWait
<1>2. CASE Silent
  BY <1>1, <1>2, Zenon DEF Silent
<1>3. CASE WaitEnqueue(t) \/ WaitAwake(t) \/ Drop(t) \/ DropDone(t) \/ LockOwn(t)
  <2>1. UNCHANGED <<m_count, mp, recurse>>
    BY <1>3, Zenon DEF WaitEnqueue, WaitAwake, Drop, DropDone, LockOwn, mutexVars, localVars
  <2>2. ASSUME NEW u \in Threads PROVE pc'[u] \in Waiting => pc[u] \in Waiting
    <3>1. CASE WaitEnqueue(t)
      BY <1>0, <3>1, ZenonT(30) DEF WaitEnqueue, Goto, Waiting
    <3>2. CASE WaitAwake(t)
      BY <1>0, <3>2, ZenonT(30) DEF WaitAwake, Goto, Waiting
    <3>3. CASE Drop(t)
      BY <3>3, DropEffect, Zenon DEF Waiting, Dropping
    <3>4. CASE DropDone(t)
      BY <1>0, <3>4, ZenonT(30) DEF DropDone, Goto, Waiting
    <3>5. CASE LockOwn(t)
      BY <1>0, <3>5, ZenonT(30) DEF LockOwn, Goto, Waiting
    <3> QED BY <1>3, <3>1, <3>2, <3>3, <3>4, <3>5
  <2> QED BY <2>1, <2>2, Zenon DEF DepthOK
<1>4. CASE \E m \in Mutexes : SelfLock(t, m) \/ UnlockRecursive(t, m)
  BY <1>0, <1>4, ZenonT(30) DEF SelfLock, UnlockRecursive, DepthOK, localVars
<1>5. CASE \E m \in Mutexes : Unlock(t, m)
  BY <1>0, <1>5, SMTT(30) DEF Unlock, Goto, DepthOK, Waiting
<1>6. CASE \E c \in Conds, m \in Mutexes, b \in BOOLEAN : Wait(t, c, m, b)
  BY <1>0, <1>6, SMTT(30) DEF Wait, Goto, DepthOK
<1>7. CASE WaitCvOwn(t)
  BY <1>0, <1>7, ZenonT(30) DEF WaitCvOwn, Goto, DepthOK, Waiting, localVars
<1>8. CASE \E c \in Conds : SignalNobody(t, c) \/ Signal(t, c) \/ Broadcast(t, c)
  <2>1. UNCHANGED <<m_count, recurse>>
    BY <1>8, Zenon DEF SignalNobody, Signal, Broadcast, mutexVars, localVars
  <2>2. ASSUME NEW u \in Threads PROVE pc'[u] \in Waiting => pc[u] \in Waiting /\ mp'[u] = mp[u]
    <3>1. PICK c \in Conds : SignalNobody(t, c) \/ Signal(t, c) \/ Broadcast(t, c)
      BY <1>8
    <3>2. CASE SignalNobody(t, c)
      BY <3>2, Zenon DEF SignalNobody, localVars
    <3>3. CASE Signal(t, c)
      <4>1. PICK x \in SignalTargets(c) : SignalFate(t, c, x) /\ pc[t] = "idle"
        BY <3>3, Zenon DEF Signal
      <4> QED BY <1>0, <4>1, ZenonT(30) DEF SignalFate, Goto, Waiting
    <3>4. CASE Broadcast(t, c)
      BY <1>0, <3>4, ZenonT(30) DEF Broadcast, Goto, Waiting
    <3> QED BY <3>1, <3>2, <3>3, <3>4
  <2> QED BY <2>1, <2>2, Zenon DEF DepthOK
<1> QED BY <1>2, <1>3, <1>4, <1>5, <1>6, <1>7, <1>8, SilentSteps, Zenon
=============================================================================
