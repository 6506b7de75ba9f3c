--------------------------- MODULE OrbisSemProofs ---------------------------
(***************************************************************************)
(* The kernel semaphore's bookkeeping, for any threads, priorities and     *)
(* max_count: wait_list, the tokens, what a wait is charged, and the order *)
(* in which Signal serves.                                                 *)
(***************************************************************************)
EXTENDS OrbisSem, TLAPS

\* r is s without the element at position p, and s with x put at position p.
Erased(r, s, p) ==
    /\ r \in Seq(Threads) /\ Len(r) = Len(s) - 1
    /\ \A k \in 1..Len(r) : r[k] = IF k < p THEN s[k] ELSE s[k + 1]

Inserted(r, s, p, x) ==
    /\ r \in Seq(Threads) /\ Len(r) = Len(s) + 1
    /\ \A k \in 1..Len(r) : r[k] = IF k < p THEN s[k] ELSE IF k = p THEN x ELSE s[k - 1]

Distinct(s) == \A i, j \in 1..Len(s) : s[i] = s[j] => i = j

\* What the provers know about sequences, stated for lists of threads.
LEMMA SeqFacts ==
    \A s \in Seq(Threads) : Len(s) \in Nat /\ \A i \in 1..Len(s) : s[i] \in Threads
BY SMTT(30)

\* Two lists one after the other.
LEMMA ConcatFacts ==
    ASSUME NEW a \in Seq(Threads), NEW b \in Seq(Threads)
    PROVE  /\ a \o b \in Seq(Threads) /\ Len(a \o b) = Len(a) + Len(b)
           /\ \A i \in 1..(Len(a) + Len(b)) : (a \o b)[i] = IF i <= Len(a) THEN a[i] ELSE b[i - Len(a)]
BY SMTT(30)

\* EraseAt closes the gap it makes.
LEMMA EraseAtEffect ==
    ASSUME NEW s \in Seq(Threads), NEW p \in 1..Len(s)
    PROVE  Erased(EraseAt(s, p), s, p)
<1> DEFINE a == SubSeq(s, 1, p - 1)
           b == SubSeq(s, p + 1, Len(s))
<1>0. Len(s) \in Nat /\ p \in Nat /\ 1 <= p /\ p <= Len(s) /\ \A k \in 1..Len(s) : s[k] \in Threads
  BY SeqFacts, SMTT(30)
<1>1. /\ a \in Seq(Threads) /\ Len(a) = p - 1
      /\ \A k \in 1..(p - 1) : a[k] = s[k]
  BY <1>0, SMTT(30)
<1>2. /\ b \in Seq(Threads) /\ Len(b) = Len(s) - p
      /\ \A k \in 1..(Len(s) - p) : b[k] = s[p + k]
  BY <1>0, SMTT(30)
<1> HIDE DEF a, b
<1>3. /\ a \o b \in Seq(Threads) /\ Len(a \o b) = Len(a) + Len(b)
      /\ \A i \in 1..(Len(a) + Len(b)) : (a \o b)[i] = IF i <= Len(a) THEN a[i] ELSE b[i - Len(a)]
  BY <1>1, <1>2, ConcatFacts, Zenon
<1>4. EraseAt(s, p) = a \o b
  BY Zenon DEF EraseAt, a, b
<1>5. \A k \in 1..Len(a \o b) : (a \o b)[k] = IF k < p THEN s[k] ELSE s[k + 1]
  BY <1>0, <1>1, <1>2, <1>3, SMTT(30)
<1>6. Len(a \o b) = Len(s) - 1
  BY <1>0, <1>1, <1>2, <1>3, SMTT(30)
<1> QED BY <1>3, <1>4, <1>5, <1>6, Zenon DEF Erased

\* Taking an element off a list.
LEMMA ErasedMembers ==
    ASSUME NEW s \in Seq(Threads), NEW r, NEW p \in 1..Len(s), Erased(r, s, p), Distinct(s)
    PROVE  Distinct(r) /\ \A y : In(y, r) <=> In(y, s) /\ y # s[p]
<1>0. /\ Len(s) \in Nat /\ r \in Seq(Threads) /\ Len(r) = Len(s) - 1 /\ p \in Int
      /\ \A k \in 1..Len(r) : r[k] = IF k < p THEN s[k] ELSE s[k + 1]
  BY SeqFacts, SMTT(30) DEF Erased
<1>1. Distinct(r)
  BY <1>0, SMTT(30) DEF Distinct
<1>2. ASSUME NEW y, In(y, r) PROVE In(y, s) /\ y # s[p]
  BY <1>0, <1>2, SMTT(30) DEF In, Distinct
<1>3. ASSUME NEW y, y # s[p], NEW i \in 1..Len(s), s[i] = y PROVE In(y, r)
  <2>1. CASE i < p
    <3>1. i \in 1..Len(r) /\ r[i] = y
      BY <1>0, <1>3, <2>1, SMTT(30)
    <3> QED BY <3>1 DEF In
  <2>2. CASE ~(i < p)
    <3>1. i - 1 \in 1..Len(r) /\ ~(i - 1 < p) /\ (i - 1) + 1 = i
      BY <1>0, <1>3, <2>2, SMTT(30)
    <3>2. r[i - 1] = y
      BY <1>0, <1>3, <3>1, Zenon
    <3> QED BY <3>1, <3>2, Zenon DEF In
  <2> QED BY <2>1, <2>2
<1> QED BY <1>1, <1>2, <1>3, Zenon DEF In

\* Erase takes off the place of x, if it has one.
LEMMA EraseEffect ==
    ASSUME NEW s \in Seq(Threads), NEW x
    PROVE  /\ ~In(x, s) => Erase(s, x) = s
           /\ In(x, s) => \E p \in 1..Len(s) : s[p] = x /\ Erased(Erase(s, x), s, p)
<1>1. ASSUME In(x, s) PROVE \E p \in 1..Len(s) : s[p] = x /\ Erased(Erase(s, x), s, p)
  <2> DEFINE p == CHOOSE i \in 1..Len(s) : s[i] = x
  <2>1. p \in 1..Len(s) /\ s[p] = x
    BY <1>1, Zenon DEF In
  <2>2. Erase(s, x) = EraseAt(s, p)
    BY <1>1, Zenon DEF Erase
  <2> HIDE DEF p
  <2> QED BY <2>1, <2>2, EraseAtEffect, Zenon
<1> QED BY <1>1, Zenon DEF Erase

-----------------------------------------------------------------------------
(* The inductive invariant.                                                *)

\* The thread inside Signal's loop is the one that has the mutex.
LockOK == \A t \in Threads : pc[t] = "signaling" <=> lock = t

\* Nobody waits before the semaphore is created.
NobodyYet == allocated = "never" => wait_list = <<>>

\* What a thread's flags say, and what it has been charged, at each place of a
\* call: at most one of the flags is set, and only while the call is blocked or
\* returns; was_signaled goes with the tokens.
CallsOK == \A t \in Threads :
    /\ was[t] \in {{}, {"signaled"}, {"deleted"}, {"canceled"}}
    /\ Blocked(t) => charged[t] = IF was[t] = {"signaled"} THEN need_count[t] ELSE 0
    /\ pc[t] = "returned" => charged[t] = IF result[t] = "OK" THEN need_count[t] ELSE 0
    /\ ~Blocked(t) /\ pc[t] # "returned" => was[t] = {} /\ charged[t] = 0

\* The waiters Signal's iterator has passed, and all of them when the loop is not
\* running, need more tokens than there are.
PassedOver ==
    \A i \in 1..Len(wait_list) :
        lock = None \/ i < it => need_count[wait_list[i]] > token_count

\* arrival lists the same waiters, each once.
SameWaiters ==
    /\ Distinct(arrival)
    /\ \A t \in Threads : In(t, arrival) <=> In(t, wait_list)

\* x, which arrived as number a, goes before y, number b.
Precedes(x, y, a, b) ==
    IF is_fifo \/ Prio[x] = Prio[y] THEN a < b ELSE Prio[x] < Prio[y]

\* wait_list is in the order of service.
ServiceOrder ==
    \A i, j \in 1..Len(wait_list) : \A a, b \in 1..Len(arrival) :
        i < j /\ arrival[a] = wait_list[i] /\ arrival[b] = wait_list[j]
           => Precedes(wait_list[i], wait_list[j], a, b)

IInv ==
    /\ TypeOK /\ ListedAreUndecided /\ LockOK /\ NobodyYet /\ CallsOK /\ PassedOver
    /\ SameWaiters /\ ServiceOrder
-----------------------------------------------------------------------------
\* A waiter is taken off wait_list, and off arrival.
LEMMA WaiterGoes ==
    ASSUME TypeOK, ListedAreUndecided, SameWaiters, ServiceOrder, is_fifo' = is_fifo,
           NEW p \in 1..Len(wait_list), Erased(wait_list', wait_list, p),
           arrival' = Erase(arrival, wait_list[p])
    PROVE  /\ wait_list' \in Seq(Threads) /\ arrival' \in Seq(Threads)
           /\ Distinct(wait_list') /\ SameWaiters' /\ ServiceOrder'
           /\ \A x : In(x, wait_list') <=> In(x, wait_list) /\ x # wait_list[p]
<1>0. /\ wait_list \in Seq(Threads) /\ arrival \in Seq(Threads)
      /\ Len(wait_list) \in Nat /\ Len(arrival) \in Nat
      /\ Distinct(wait_list) /\ Distinct(arrival)
      /\ \A x \in Threads : In(x, arrival) <=> In(x, wait_list)
  BY SeqFacts, Zenon DEF TypeOK, ListedAreUndecided, SameWaiters, Distinct
<1>1. wait_list[p] \in Threads /\ In(wait_list[p], wait_list)
  BY <1>0, SeqFacts, Zenon DEF In
<1>2. PICK q \in 1..Len(arrival) : arrival[q] = wait_list[p] /\ Erased(arrival', arrival, q)
  BY <1>0, <1>1, EraseEffect, Zenon
<1>3. /\ wait_list' \in Seq(Threads) /\ Distinct(wait_list')
      /\ \A x : In(x, wait_list') <=> In(x, wait_list) /\ x # wait_list[p]
  <2>1. wait_list' \in Seq(Threads)
    BY Zenon DEF Erased
  <2> QED BY <1>0, <2>1, ErasedMembers, Zenon
<1>4. /\ arrival' \in Seq(Threads) /\ Distinct(arrival')
      /\ \A x : In(x, arrival') <=> In(x, arrival) /\ x # wait_list[p]
  <2>1. arrival' \in Seq(Threads)
    BY <1>2, Zenon DEF Erased
  <2>2. \A x : In(x, arrival') <=> In(x, arrival) /\ x # arrival[q]
    BY <1>0, <1>2, ErasedMembers, Zenon
  <2>3. Distinct(arrival')
    BY <1>0, <1>2, ErasedMembers, Zenon
  <2> QED BY <1>2, <2>1, <2>2, <2>3, Zenon
<1>5. SameWaiters'
  BY <1>0, <1>3, <1>4, Zenon DEF SameWaiters
<1>6. ServiceOrder'
  <2> SUFFICES ASSUME NEW i \in 1..Len(wait_list'), NEW j \in 1..Len(wait_list'),
                      NEW a \in 1..Len(arrival'), NEW b \in 1..Len(arrival'), i < j,
                      arrival'[a] = wait_list'[i], arrival'[b] = wait_list'[j]
               PROVE  Precedes(wait_list[i], wait_list[j], a, b)'
    BY Zenon DEF ServiceOrder
  <2>1. PICK u, v \in 1..Len(wait_list) : u < v /\ wait_list'[i] = wait_list[u] /\ wait_list'[j] = wait_list[v]
    <3>0. /\ wait_list'[i] = IF i < p THEN wait_list[i] ELSE wait_list[i + 1]
          /\ wait_list'[j] = IF j < p THEN wait_list[j] ELSE wait_list[j + 1]
          /\ i \in 1..Len(wait_list) /\ i + 1 \in 1..Len(wait_list)
          /\ j \in 1..Len(wait_list) /\ j + 1 \in 1..Len(wait_list)
          /\ i < j + 1 /\ i + 1 < j + 1 /\ (j < p => i < p)
      <4>1. /\ Len(wait_list') = Len(wait_list) - 1
            /\ wait_list'[i] = IF i < p THEN wait_list[i] ELSE wait_list[i + 1]
            /\ wait_list'[j] = IF j < p THEN wait_list[j] ELSE wait_list[j + 1]
        BY Zenon DEF Erased
      <4>2. /\ i \in 1..Len(wait_list) /\ i + 1 \in 1..Len(wait_list)
            /\ j \in 1..Len(wait_list) /\ j + 1 \in 1..Len(wait_list)
            /\ i < j + 1 /\ i + 1 < j + 1 /\ (j < p => i < p)
        BY <1>0, <4>1, SMTT(30)
      <4> QED BY <4>1, <4>2, Zenon
    <3> QED BY <3>0, Zenon
  <2> DEFINE m(k) == IF k < q THEN k ELSE k + 1
  <2>2. /\ m(a) \in 1..Len(arrival) /\ m(b) \in 1..Len(arrival) /\ (m(a) < m(b) => a < b)
        /\ arrival[m(a)] = wait_list[u] /\ arrival[m(b)] = wait_list[v]
    <3>1. /\ arrival'[a] = IF a < q THEN arrival[a] ELSE arrival[a + 1]
          /\ arrival'[b] = IF b < q THEN arrival[b] ELSE arrival[b + 1]
          /\ a \in 1..Len(arrival) /\ a + 1 \in 1..Len(arrival)
          /\ b \in 1..Len(arrival) /\ b + 1 \in 1..Len(arrival)
      <4>1. ASSUME NEW k \in 1..Len(arrival')
            PROVE  /\ arrival'[k] = IF k < q THEN arrival[k] ELSE arrival[k + 1]
                   /\ k \in 1..Len(arrival) /\ k + 1 \in 1..Len(arrival)
        <5>1. /\ arrival' \in Seq(Threads) /\ Len(arrival') = Len(arrival) - 1
              /\ \A n \in 1..Len(arrival') : arrival'[n] = IF n < q THEN arrival[n] ELSE arrival[n + 1]
          BY <1>2, Zenon DEF Erased
        <5>2. arrival'[k] = IF k < q THEN arrival[k] ELSE arrival[k + 1]
          BY <5>1, Zenon
        <5>3. k \in 1..Len(arrival) /\ k + 1 \in 1..Len(arrival)
          BY <1>0, <5>1, SMTT(30)
        <5> QED BY <5>2, <5>3, Zenon
      <4> QED BY <4>1, Zenon
    <3>2. arrival[m(a)] = wait_list[u] /\ arrival[m(b)] = wait_list[v]
      BY <3>1, <2>1, Zenon
    <3>3. m(a) < m(b) => a < b
      BY <1>0, <3>1, SMTT(30)
    <3> QED BY <3>1, <3>2, <3>3, Zenon
  <2> HIDE DEF m
  <2>3. Precedes(wait_list[u], wait_list[v], m(a), m(b))
    BY <2>1, <2>2, Zenon DEF ServiceOrder
  <2> QED BY <2>1, <2>2, <2>3, Zenon DEF Precedes
<1> QED BY <1>3, <1>4, <1>5, <1>6
-----------------------------------------------------------------------------
(* The steps that leave the lists alone.                                   *)

\* The order of service is about the lists alone.
LEMMA ListsSame ==
    ASSUME SameWaiters, ServiceOrder, UNCHANGED <<wait_list, arrival, is_fifo>>
    PROVE  SameWaiters' /\ ServiceOrder'
<1>1. SameWaiters'
  BY SMTT(30) DEF SameWaiters, Distinct, In
<1>2. ServiceOrder'
  BY SMTT(30) DEF ServiceOrder, Precedes
<1> QED BY <1>1, <1>2, Zenon

\* A step that moves threads between places where the invariant asks the same.
LEMMA QuietStep ==
    ASSUME IInv, UNCHANGED <<wait_list, arrival, is_fifo, was, charged, need_count, result>>,
           \A x \in Threads : /\ Blocked(x)' <=> Blocked(x)
                              /\ pc'[x] = "returned" <=> pc[x] = "returned"
    PROVE  ListedAreUndecided' /\ CallsOK' /\ SameWaiters' /\ ServiceOrder'
<1>1. ListedAreUndecided'
  BY Zenon DEF IInv, ListedAreUndecided, In
<1>2. CallsOK'
  BY Zenon DEF IInv, CallsOK
<1> QED BY <1>1, <1>2, ListsSame, Zenon DEF IInv

\* Taking tokens away serves nobody who was passed over.
LEMMA PassedSame ==
    ASSUME IInv, UNCHANGED <<wait_list, need_count, lock, it>>,
           token_count' \in Nat, token_count' <= token_count
    PROVE  PassedOver'
<1>1. \A i \in 1..Len(wait_list) : need_count[wait_list[i]] \in Nat
  BY SMTT(30) DEF IInv, TypeOK
<1>2. token_count \in Nat
  BY SMTT(30) DEF IInv, TypeOK
<1> QED BY <1>1, <1>2, SMTT(30) DEF IInv, PassedOver

\* A call finds the slot in use.
LEMMA LookupStep ==
    ASSUME IInv, NEW t \in Threads, Lookup(t)
    PROVE  IInv'
<1> USE DEF IInv
<1>1. TypeOK'
  BY SMTT(30) DEF TypeOK, Labels, Lookup, Goto, objVars, waitVars, ghosts
<1>2. ListedAreUndecided' /\ CallsOK' /\ SameWaiters' /\ ServiceOrder'
  <2>1. \A x \in Threads : /\ Blocked(x)' <=> Blocked(x)
                           /\ pc'[x] = "returned" <=> pc[x] = "returned"
    BY SMTT(30) DEF TypeOK, Blocked, Lookup, Goto
  <2> QED BY <2>1, QuietStep, Zenon DEF Lookup, objVars, waitVars, ghosts
<1>3. LockOK'
  BY OrbisSemAssumption, SMTT(30) DEF TypeOK, LockOK, Lookup, Goto, objVars, waitVars, ghosts
<1>4. NobodyYet'
  BY Zenon DEF NobodyYet, Lookup, Goto, objVars, waitVars, ghosts
<1>5. PassedOver'
  <2>1. token_count' \in Nat /\ token_count' <= token_count
    BY <1>1, SMTT(30) DEF TypeOK, Lookup
  <2> QED BY <2>1, PassedSame, Zenon DEF Lookup, Goto, objVars, waitVars, ghosts
<1> QED BY <1>1, <1>2, <1>3, <1>4, <1>5, Zenon

\* A call finds the slot empty.
LEMMA InvalidIndexStep ==
    ASSUME IInv, NEW t \in Threads, InvalidIndex(t)
    PROVE  IInv'
<1> USE DEF IInv
<1>1. TypeOK'
  <2>1. crashed' \in BOOLEAN
    BY Zenon DEF InvalidIndex, Goto, objVars, waitVars, ghosts
  <2> QED BY <2>1, Zenon DEF TypeOK, InvalidIndex, Goto, objVars, waitVars, ghosts
<1>2. ListedAreUndecided' /\ CallsOK' /\ SameWaiters' /\ ServiceOrder'
  <2>1. \A x \in Threads : /\ Blocked(x)' <=> Blocked(x)
                           /\ pc'[x] = "returned" <=> pc[x] = "returned"
    BY SMTT(30) DEF TypeOK, Blocked, InvalidIndex, Goto
  <2> QED BY <2>1, QuietStep, Zenon DEF InvalidIndex, objVars, waitVars, ghosts
<1>3. LockOK'
  BY Zenon DEF LockOK, InvalidIndex, Goto, objVars, waitVars, ghosts
<1>4. NobodyYet'
  BY Zenon DEF NobodyYet, InvalidIndex, Goto, objVars, waitVars, ghosts
<1>5. PassedOver'
  <2>1. token_count' \in Nat /\ token_count' <= token_count
    BY <1>1, SMTT(30) DEF TypeOK, InvalidIndex
  <2> QED BY <2>1, PassedSame, Zenon DEF InvalidIndex, Goto, objVars, waitVars, ghosts
<1> QED BY <1>1, <1>2, <1>3, <1>4, <1>5, Zenon

\* A released waiter finds the semaphore gone.
LEMMA UseAfterEraseStep ==
    ASSUME IInv, NEW t \in Threads, UseAfterErase(t)
    PROVE  IInv'
<1> USE DEF IInv
<1>1. TypeOK'
  <2>1. crashed' \in BOOLEAN
    BY Zenon DEF UseAfterErase, Goto, objVars, waitVars, ghosts
  <2> QED BY <2>1, Zenon DEF TypeOK, UseAfterErase, Goto, objVars, waitVars, ghosts
<1>2. ListedAreUndecided' /\ CallsOK' /\ SameWaiters' /\ ServiceOrder'
  <2>1. \A x \in Threads : /\ Blocked(x)' <=> Blocked(x)
                           /\ pc'[x] = "returned" <=> pc[x] = "returned"
    BY SMTT(30) DEF TypeOK, Blocked, UseAfterErase, Goto
  <2> QED BY <2>1, QuietStep, Zenon DEF UseAfterErase, objVars, waitVars, ghosts
<1>3. LockOK'
  BY Zenon DEF LockOK, UseAfterErase, Goto, objVars, waitVars, ghosts
<1>4. NobodyYet'
  BY Zenon DEF NobodyYet, UseAfterErase, Goto, objVars, waitVars, ghosts
<1>5. PassedOver'
  <2>1. token_count' \in Nat /\ token_count' <= token_count
    BY <1>1, SMTT(30) DEF TypeOK, UseAfterErase
  <2> QED BY <2>1, PassedSame, Zenon DEF UseAfterErase, Goto, objVars, waitVars, ghosts
<1> QED BY <1>1, <1>2, <1>3, <1>4, <1>5, Zenon

\* Wait takes tokens at once.
LEMMA WaitTakeStep ==
    ASSUME IInv, NEW t \in Threads, NEW n \in 1..max_count, WaitTake(t, n)
    PROVE  IInv'
<1> USE DEF IInv
<1>1. TypeOK'
  BY SMTT(30) DEF TypeOK, Labels, WaitTake, Enter, Goto, objVars, waitVars, ghosts
<1>2. ListedAreUndecided' /\ CallsOK' /\ SameWaiters' /\ ServiceOrder'
  <2>1. \A x \in Threads : /\ Blocked(x)' <=> Blocked(x)
                           /\ pc'[x] = "returned" <=> pc[x] = "returned"
    BY SMTT(30) DEF TypeOK, Blocked, WaitTake, Enter, Goto
  <2> QED BY <2>1, QuietStep, Zenon DEF WaitTake, objVars, waitVars, ghosts
<1>3. LockOK'
  BY OrbisSemAssumption, SMTT(30) DEF TypeOK, LockOK, WaitTake, Enter, Goto, objVars, waitVars, ghosts
<1>4. NobodyYet'
  BY Zenon DEF NobodyYet, WaitTake, Enter, Goto, objVars, waitVars, ghosts
<1>5. PassedOver'
  <2>1. token_count' \in Nat /\ token_count' <= token_count
    BY <1>1, SMTT(30) DEF TypeOK, WaitTake
  <2> QED BY <2>1, PassedSame, Zenon DEF WaitTake, Enter, Goto, objVars, waitVars, ghosts
<1> QED BY <1>1, <1>2, <1>3, <1>4, <1>5, Zenon

\* Wait may not block.
LEMMA WaitRefuseStep ==
    ASSUME IInv, NEW t \in Threads, NEW n \in 1..max_count, WaitRefuse(t, n)
    PROVE  IInv'
<1> USE DEF IInv
<1>1. TypeOK'
  BY SMTT(30) DEF TypeOK, Labels, WaitRefuse, Enter, Goto, objVars, waitVars, ghosts
<1>2. ListedAreUndecided' /\ CallsOK' /\ SameWaiters' /\ ServiceOrder'
  <2>1. \A x \in Threads : /\ Blocked(x)' <=> Blocked(x)
                           /\ pc'[x] = "returned" <=> pc[x] = "returned"
    BY SMTT(30) DEF TypeOK, Blocked, WaitRefuse, Enter, Goto
  <2> QED BY <2>1, QuietStep, Zenon DEF WaitRefuse, objVars, waitVars, ghosts
<1>3. LockOK'
  BY OrbisSemAssumption, SMTT(30) DEF TypeOK, LockOK, WaitRefuse, Enter, Goto, objVars, waitVars, ghosts
<1>4. NobodyYet'
  BY Zenon DEF NobodyYet, WaitRefuse, Enter, Goto, objVars, waitVars, ghosts
<1>5. PassedOver'
  <2>1. token_count' \in Nat /\ token_count' <= token_count
    BY <1>1, SMTT(30) DEF TypeOK, WaitRefuse
  <2> QED BY <2>1, PassedSame, Zenon DEF WaitRefuse, Enter, Goto, objVars, waitVars, ghosts
<1> QED BY <1>1, <1>2, <1>3, <1>4, <1>5, Zenon

\* Signal would pass max_count.
LEMMA SignalRefuseStep ==
    ASSUME IInv, NEW t \in Threads, NEW n \in 1..max_count, SignalRefuse(t, n)
    PROVE  IInv'
<1> USE DEF IInv
<1>1. TypeOK'
  BY SMTT(30) DEF TypeOK, Labels, SignalRefuse, Enter, Goto, objVars, waitVars, ghosts
<1>2. ListedAreUndecided' /\ CallsOK' /\ SameWaiters' /\ ServiceOrder'
  <2>1. \A x \in Threads : /\ Blocked(x)' <=> Blocked(x)
                           /\ pc'[x] = "returned" <=> pc[x] = "returned"
    BY SMTT(30) DEF TypeOK, Blocked, SignalRefuse, Enter, Goto
  <2> QED BY <2>1, QuietStep, Zenon DEF SignalRefuse, objVars, waitVars, ghosts
<1>3. LockOK'
  BY OrbisSemAssumption, SMTT(30) DEF TypeOK, LockOK, SignalRefuse, Enter, Goto, objVars, waitVars, ghosts
<1>4. NobodyYet'
  BY Zenon DEF NobodyYet, SignalRefuse, Enter, Goto, objVars, waitVars, ghosts
<1>5. PassedOver'
  <2>1. token_count' \in Nat /\ token_count' <= token_count
    BY <1>1, SMTT(30) DEF TypeOK, SignalRefuse
  <2> QED BY <2>1, PassedSame, Zenon DEF SignalRefuse, Enter, Goto, objVars, waitVars, ghosts
<1> QED BY <1>1, <1>2, <1>3, <1>4, <1>5, Zenon

\* Signal adds its tokens and enters the loop: nobody is passed over yet.
LEMMA SignalAddStep ==
    ASSUME IInv, NEW t \in Threads, NEW n \in 1..max_count, SignalAdd(t, n)
    PROVE  IInv'
<1> USE DEF IInv
<1>1. TypeOK'
  BY SMTT(30) DEF TypeOK, Labels, SignalAdd, Enter, Goto, objVars, waitVars, ghosts
<1>2. ListedAreUndecided' /\ CallsOK' /\ SameWaiters' /\ ServiceOrder'
  <2>1. \A x \in Threads : /\ Blocked(x)' <=> Blocked(x)
                           /\ pc'[x] = "returned" <=> pc[x] = "returned"
    BY SMTT(30) DEF TypeOK, Blocked, SignalAdd, Enter, Goto
  <2> QED BY <2>1, QuietStep, Zenon DEF SignalAdd, objVars, waitVars, ghosts
<1>3. LockOK'
  BY OrbisSemAssumption, SMTT(30) DEF TypeOK, LockOK, SignalAdd, Enter, Goto, objVars, waitVars, ghosts
<1>4. NobodyYet'
  BY Zenon DEF NobodyYet, SignalAdd, Enter, Goto, objVars, waitVars, ghosts
<1>5. PassedOver'
  BY OrbisSemAssumption, SMTT(30) DEF TypeOK, PassedOver, SignalAdd, Enter, Goto, objVars, waitVars, ghosts
<1> QED BY <1>1, <1>2, <1>3, <1>4, <1>5, Zenon

\* The iterator passes a waiter that needs too much.
LEMMA SignalSkipStep ==
    ASSUME IInv, NEW t \in Threads, SignalSkip(t)
    PROVE  IInv'
<1> USE DEF IInv
<1>1. TypeOK'
  BY SMTT(30) DEF TypeOK, Labels, SignalSkip, Goto, objVars, waitVars, ghosts
<1>2. ListedAreUndecided' /\ CallsOK' /\ SameWaiters' /\ ServiceOrder'
  <2>1. \A x \in Threads : /\ Blocked(x)' <=> Blocked(x)
                           /\ pc'[x] = "returned" <=> pc[x] = "returned"
    BY SMTT(30) DEF TypeOK, Blocked, SignalSkip, Goto
  <2> QED BY <2>1, QuietStep, Zenon DEF SignalSkip, objVars, waitVars, ghosts
<1>3. LockOK'
  BY Zenon DEF LockOK, SignalSkip, Goto, objVars, waitVars, ghosts
<1>4. NobodyYet'
  BY Zenon DEF NobodyYet, SignalSkip, Goto, objVars, waitVars, ghosts
<1>5. PassedOver'
  <2>1. \A i \in 1..Len(wait_list) : i < it + 1 => i < it \/ i = it
    BY SMTT(30) DEF TypeOK
  <2>2. lock = t /\ lock # None
    BY OrbisSemAssumption, Zenon DEF LockOK, SignalSkip
  <2>3. \A i \in 1..Len(wait_list) : i < it + 1 => need_count[wait_list[i]] > token_count
    BY <2>1, Zenon DEF PassedOver, SignalSkip
  <2> QED BY <2>2, <2>3, Zenon DEF PassedOver, SignalSkip, waitVars
<1> QED BY <1>1, <1>2, <1>3, <1>4, <1>5, Zenon

\* The loop has passed every waiter.
LEMMA SignalDoneStep ==
    ASSUME IInv, NEW t \in Threads, SignalDone(t)
    PROVE  IInv'
<1> USE DEF IInv
<1>1. TypeOK'
  BY SMTT(30) DEF TypeOK, Labels, SignalDone, Goto, objVars, waitVars, ghosts
<1>2. ListedAreUndecided' /\ CallsOK' /\ SameWaiters' /\ ServiceOrder'
  <2>1. \A x \in Threads : /\ Blocked(x)' <=> Blocked(x)
                           /\ pc'[x] = "returned" <=> pc[x] = "returned"
    BY SMTT(30) DEF TypeOK, Blocked, SignalDone, Goto
  <2> QED BY <2>1, QuietStep, Zenon DEF SignalDone, objVars, waitVars, ghosts
<1>3. LockOK'
  BY OrbisSemAssumption, SMTT(30) DEF TypeOK, LockOK, SignalDone, Goto, objVars, waitVars, ghosts
<1>4. NobodyYet'
  BY Zenon DEF NobodyYet, SignalDone, Goto, objVars, waitVars, ghosts
<1>5. PassedOver'
  BY SMTT(30) DEF TypeOK, PassedOver, SignalDone, Goto, objVars, waitVars, ghosts
<1> QED BY <1>1, <1>2, <1>3, <1>4, <1>5, Zenon

\* The waiter is released.
LEMMA AcquireStep ==
    ASSUME IInv, NEW t \in Threads, Acquire(t)
    PROVE  IInv'
<1> USE DEF IInv
<1>1. TypeOK'
  BY SMTT(30) DEF TypeOK, Labels, Acquire, Goto, objVars, waitVars, ghosts
<1>2. ListedAreUndecided' /\ CallsOK' /\ SameWaiters' /\ ServiceOrder'
  <2>1. \A x \in Threads : /\ Blocked(x)' <=> Blocked(x)
                           /\ pc'[x] = "returned" <=> pc[x] = "returned"
    BY SMTT(30) DEF TypeOK, Blocked, Acquire, Goto
  <2> QED BY <2>1, QuietStep, Zenon DEF Acquire, objVars, waitVars, ghosts
<1>3. LockOK'
  BY OrbisSemAssumption, SMTT(30) DEF TypeOK, LockOK, Acquire, Goto, objVars, waitVars, ghosts
<1>4. NobodyYet'
  BY Zenon DEF NobodyYet, Acquire, Goto, objVars, waitVars, ghosts
<1>5. PassedOver'
  <2>1. token_count' \in Nat /\ token_count' <= token_count
    BY <1>1, SMTT(30) DEF TypeOK, Acquire
  <2> QED BY <2>1, PassedSame, Zenon DEF Acquire, Goto, objVars, waitVars, ghosts
<1> QED BY <1>1, <1>2, <1>3, <1>4, <1>5, Zenon

\* The waiter's time is over.
LEMMA ExpireStep ==
    ASSUME IInv, NEW t \in Threads, Expire(t)
    PROVE  IInv'
<1> USE DEF IInv
<1>1. TypeOK'
  BY SMTT(30) DEF TypeOK, Labels, Expire, Goto, objVars, waitVars, ghosts
<1>2. ListedAreUndecided' /\ CallsOK' /\ SameWaiters' /\ ServiceOrder'
  <2>1. \A x \in Threads : /\ Blocked(x)' <=> Blocked(x)
                           /\ pc'[x] = "returned" <=> pc[x] = "returned"
    BY SMTT(30) DEF TypeOK, Blocked, Expire, Goto
  <2> QED BY <2>1, QuietStep, Zenon DEF Expire, objVars, waitVars, ghosts
<1>3. LockOK'
  BY OrbisSemAssumption, SMTT(30) DEF TypeOK, LockOK, Expire, Goto, objVars, waitVars, ghosts
<1>4. NobodyYet'
  BY Zenon DEF NobodyYet, Expire, Goto, objVars, waitVars, ghosts
<1>5. PassedOver'
  <2>1. token_count' \in Nat /\ token_count' <= token_count
    BY <1>1, SMTT(30) DEF TypeOK, Expire
  <2> QED BY <2>1, PassedSame, Zenon DEF Expire, Goto, objVars, waitVars, ghosts
<1> QED BY <1>1, <1>2, <1>3, <1>4, <1>5, Zenon

\* The slot is given back.
LEMMA EraseSlotStep ==
    ASSUME IInv, NEW t \in Threads, EraseSlot(t)
    PROVE  IInv'
<1> USE DEF IInv
<1>1. TypeOK'
  BY SMTT(30) DEF TypeOK, Labels, EraseSlot, Goto, objVars, waitVars, ghosts
<1>2. ListedAreUndecided' /\ CallsOK' /\ SameWaiters' /\ ServiceOrder'
  <2>1. \A x \in Threads : /\ Blocked(x)' <=> Blocked(x)
                           /\ pc'[x] = "returned" <=> pc[x] = "returned"
    BY SMTT(30) DEF TypeOK, Blocked, EraseSlot, Goto
  <2> QED BY <2>1, QuietStep, Zenon DEF EraseSlot, objVars, waitVars, ghosts
<1>3. LockOK'
  BY OrbisSemAssumption, SMTT(30) DEF TypeOK, LockOK, EraseSlot, Goto, objVars, waitVars, ghosts
<1>4. NobodyYet'
  BY SMTT(30) DEF NobodyYet, EraseSlot, Goto, objVars, waitVars, ghosts
<1>5. PassedOver'
  <2>1. token_count' \in Nat /\ token_count' <= token_count
    BY <1>1, SMTT(30) DEF TypeOK, EraseSlot
  <2> QED BY <2>1, PassedSame, Zenon DEF EraseSlot, Goto, objVars, waitVars, ghosts
<1> QED BY <1>1, <1>2, <1>3, <1>4, <1>5, Zenon

\* sceKernelCreateSema; is_fifo is set while nobody waits.
LEMMA CreateStep ==
    ASSUME IInv, NEW t \in Threads, Create(t)
    PROVE  IInv'
<1> USE DEF IInv
<1>0. wait_list = <<>> /\ UNCHANGED <<lock, wait_list, it, waitVars, pc, result, crashed, ghosts>>
  BY Zenon DEF Create, NobodyYet
<1>1. TypeOK'
  BY SMTT(30) DEF TypeOK, Create, waitVars, ghosts
<1>2. ListedAreUndecided' /\ CallsOK' /\ LockOK'
  <2>1. \A x \in Threads : Blocked(x)' <=> Blocked(x)
    BY <1>0, Zenon DEF Blocked
  <2>2. ListedAreUndecided'
    <3>1. UNCHANGED <<wait_list, was>>
      BY <1>0, Zenon DEF waitVars
    <3> QED BY <2>1, <3>1, Zenon DEF ListedAreUndecided, In
  <2>3. CallsOK'
    BY <1>0, <2>1, Zenon DEF CallsOK, waitVars, ghosts
  <2>4. LockOK'
    BY <1>0, Zenon DEF LockOK
  <2> QED BY <2>2, <2>3, <2>4, Zenon
<1>3. SameWaiters'
  BY <1>0, Zenon DEF SameWaiters, Distinct, In, ghosts
<1>4. ServiceOrder' /\ PassedOver'
  BY <1>0, SMTT(30) DEF ServiceOrder, PassedOver
<1>5. NobodyYet'
  BY <1>0, Zenon DEF NobodyYet
<1> QED BY <1>1, <1>2, <1>3, <1>4, <1>5, Zenon

\* The WaitingThread goes out of scope.
LEMMA LeaveStep ==
    ASSUME IInv, NEW t \in Threads, Leave(t)
    PROVE  IInv'
<1> USE DEF IInv
<1>1. TypeOK'
  BY SMTT(30) DEF TypeOK, Labels, Results, Leave, Goto, objVars, waitVars, ghosts
<1>2. ListedAreUndecided'
  <2>1. \A x \in Threads : /\ Blocked(x)' <=> Blocked(x)
                           /\ x # t => was'[x] = was[x]
    BY SMTT(30) DEF TypeOK, Blocked, Leave, Goto
  <2>2. ~Blocked(t)
    BY Zenon DEF Blocked, Leave
  <2>3. wait_list' = wait_list /\ \A x : In(x, wait_list') <=> In(x, wait_list)
    BY Zenon DEF Leave
  <2>4. \A x \in Threads : In(x, wait_list') <=> Blocked(x)' /\ was'[x] = {}
    BY <2>1, <2>2, <2>3, Zenon DEF ListedAreUndecided
  <2> QED BY <2>3, <2>4, Zenon DEF ListedAreUndecided
<1>3. LockOK'
  BY SMTT(30) DEF TypeOK, LockOK, Leave, Goto, objVars, waitVars, ghosts
<1>4. NobodyYet'
  BY Zenon DEF NobodyYet, Leave, Goto, objVars, waitVars, ghosts
<1>5. CallsOK'
  <2>1. ASSUME NEW x \in Threads, x # t
        PROVE  /\ pc'[x] = pc[x] /\ was'[x] = was[x] /\ charged'[x] = charged[x]
               /\ need_count'[x] = need_count[x] /\ result'[x] = result[x]
    BY <2>1, SMTT(30) DEF TypeOK, Leave, Goto
  <2>2. pc'[t] = "idle" /\ was'[t] = {} /\ charged'[t] = 0
    BY SMTT(30) DEF TypeOK, Leave, Goto
  <2>3. ASSUME NEW x \in Threads, x # t PROVE Blocked(x)' <=> Blocked(x)
    BY <2>1, <2>3, Zenon DEF Blocked
  <2>4. ~Blocked(t)' /\ pc'[t] # "returned"
    BY <2>2, SMTT(30) DEF Blocked
  <2> QED BY <2>1, <2>2, <2>3, <2>4, SMTT(30) DEF CallsOK
<1>6. PassedOver'
  <2>1. ~In(t, wait_list)
    BY Zenon DEF ListedAreUndecided, Leave, Blocked
  <2>2. \A i \in 1..Len(wait_list) : need_count'[wait_list[i]] = need_count[wait_list[i]]
    BY <2>1, SMTT(30) DEF TypeOK, In, Leave
  <2> QED BY <2>2, Zenon DEF PassedOver, Leave, objVars
<1>7. SameWaiters' /\ ServiceOrder'
  BY ListsSame, Zenon DEF Leave, Goto, objVars, waitVars, ghosts
<1> QED BY <1>1, <1>2, <1>3, <1>4, <1>5, <1>6, <1>7, Zenon

-----------------------------------------------------------------------------
(* The steps that change the lists.                                        *)

\* The list invariant after a step, from what the step did.
LEMMA ListedNow ==
    ASSUME Distinct(wait_list'), \A x \in Threads : In(x, wait_list') <=> Blocked(x)' /\ was'[x] = {}
    PROVE  ListedAreUndecided'
BY Zenon DEF ListedAreUndecided, Distinct

\* Blocked, flags and charges of the threads a step does not touch.
LEMMA CallsOthers ==
    ASSUME CallsOK, NEW T,
           \A x \in Threads \ T : /\ pc'[x] = pc[x] /\ was'[x] = was[x] /\ charged'[x] = charged[x]
                                 /\ need_count'[x] = need_count[x] /\ result'[x] = result[x],
           \A x \in Threads \cap T :
               /\ was'[x] \in {{}, {"signaled"}, {"deleted"}, {"canceled"}}
               /\ Blocked(x)' => charged'[x] = IF was'[x] = {"signaled"} THEN need_count'[x] ELSE 0
               /\ pc'[x] = "returned" => charged'[x] = IF result'[x] = "OK" THEN need_count'[x] ELSE 0
               /\ ~Blocked(x)' /\ pc'[x] # "returned" => was'[x] = {} /\ charged'[x] = 0
    PROVE  CallsOK'
<1>1. \A x \in Threads \ T : Blocked(x)' <=> Blocked(x)
  BY Zenon DEF Blocked
<1>2. ASSUME NEW x \in Threads, x \notin T
      PROVE /\ was'[x] \in {{}, {"signaled"}, {"deleted"}, {"canceled"}}
            /\ Blocked(x)' => charged'[x] = IF was'[x] = {"signaled"} THEN need_count'[x] ELSE 0
            /\ pc'[x] = "returned" => charged'[x] = IF result'[x] = "OK" THEN need_count'[x] ELSE 0
            /\ ~Blocked(x)' /\ pc'[x] # "returned" => was'[x] = {} /\ charged'[x] = 0
  <2>1. x \in Threads \ T
    BY <1>2, Zenon
  <2> QED BY <1>1, <2>1, Zenon DEF CallsOK
<1> QED BY <1>2, Zenon DEF CallsOK

\* sceKernelCancelSema decides about every waiter and clears the list.
LEMMA CancelStep ==
    ASSUME IInv, NEW t \in Threads, NEW n \in -1..max_count, Cancel(t, n)
    PROVE  IInv'
<1> USE DEF IInv
<1>0. /\ wait_list' = <<>> /\ arrival' = <<>>
      /\ \A x \in Threads : was'[x] = IF In(x, wait_list) THEN was[x] \cup {"canceled"} ELSE was[x]
  BY SMTT(30) DEF Cancel, ReleaseAll
<1>1. TypeOK'
  <2>1. was' \in [Threads -> SUBSET Flags]
    BY SMTT(30) DEF TypeOK, Flags, Cancel, ReleaseAll
  <2>2. sem' \in [Threads -> Nat]
    BY SMTT(30) DEF TypeOK, Cancel, ReleaseAll
  <2>3. token_count' \in 0..max_count
    BY SMTT(30) DEF TypeOK, Cancel
  <2>4. wait_list' \in Seq(Threads) /\ arrival' \in Seq(Threads)
    BY <1>0, SMTT(30)
  <2>5. pc' \in [Threads -> Labels]
    BY SMTT(30) DEF TypeOK, Labels, Cancel, Goto
  <2> QED BY <2>1, <2>2, <2>3, <2>4, <2>5, Zenon DEF TypeOK, Cancel, objVars
<1>2. ListedAreUndecided'
  <2>1. Distinct(wait_list') /\ \A x : ~In(x, wait_list')
    BY <1>0, SMTT(30) DEF Distinct, In
  <2>2. ASSUME NEW x \in Threads, Blocked(x)' PROVE was'[x] # {}
    <3>1. Blocked(x)
      BY <2>2, SMTT(30) DEF TypeOK, Cancel, Goto, Blocked
    <3>2. CASE In(x, wait_list)
      <4>1. "canceled" \in was'[x]
        BY <3>2, <1>0, Zenon
      <4> QED BY <4>1, Zenon
    <3>3. CASE ~In(x, wait_list)
      BY <3>1, <3>3, <1>0, Zenon DEF ListedAreUndecided
    <3> QED BY <3>2, <3>3, Zenon
  <2> QED BY <2>1, <2>2, ListedNow, Zenon
<1>3. LockOK'
  BY SMTT(30) DEF TypeOK, LockOK, Cancel, Enter, Goto, objVars
<1>4. NobodyYet'
  BY <1>0, Zenon DEF NobodyYet
<1>5. CallsOK'
  <2> DEFINE T == {x \in Threads : In(x, wait_list)} \cup {t}
  <2>0. ~In(t, wait_list) /\ ~Blocked(t) /\ pc[t] # "returned"
    BY SMTT(30) DEF ListedAreUndecided, Blocked, Cancel, Enter
  <2>1. \A x \in Threads : pc'[x] = IF x = t THEN "idle" ELSE pc[x]
    BY SMTT(30) DEF TypeOK, Cancel, Goto
  <2>2. UNCHANGED <<charged, need_count, result>>
    BY Zenon DEF Cancel
  <2>3. ASSUME NEW x \in Threads \ T
        PROVE  /\ pc'[x] = pc[x] /\ was'[x] = was[x] /\ charged'[x] = charged[x]
               /\ need_count'[x] = need_count[x] /\ result'[x] = result[x]
    BY <1>0, <2>1, <2>2, Zenon
  <2>4. ASSUME NEW x \in Threads, In(x, wait_list)
        PROVE  /\ was'[x] = {"canceled"} /\ Blocked(x)' /\ pc'[x] # "returned" /\ charged'[x] = 0
    <3>1. Blocked(x) /\ was[x] = {} /\ x # t
      BY <2>0, <2>4, Zenon DEF ListedAreUndecided
    <3>2. pc'[x] = pc[x] /\ Blocked(x)' /\ pc'[x] # "returned"
      BY <2>1, <3>1, SMTT(30) DEF Blocked
    <3>3. charged[x] = 0
      <4>1. {} # {"signaled"}
        BY SMTT(30)
      <4> QED BY <3>1, <4>1, Zenon DEF CallsOK
    <3>4. was'[x] = {"canceled"}
      BY <1>0, <2>4, <3>1, Zenon
    <3> QED BY <2>2, <3>2, <3>3, <3>4, Zenon
  <2>5. was'[t] = {} /\ charged'[t] = 0 /\ ~Blocked(t)' /\ pc'[t] # "returned"
    <3>1. was[t] = {} /\ charged[t] = 0
      BY <2>0, Zenon DEF CallsOK
    <3>2. was'[t] = {} /\ charged'[t] = 0
      BY <1>0, <2>0, <2>2, <3>1, Zenon
    <3> QED BY <2>1, <3>2, SMTT(30) DEF Blocked
  <2>6. {"canceled"} # {"signaled"} /\ {} # {"signaled"}
    BY SMTT(30)
  <2>7. ASSUME NEW x \in Threads \cap T
        PROVE  /\ was'[x] \in {{}, {"signaled"}, {"deleted"}, {"canceled"}}
               /\ Blocked(x)' => charged'[x] = IF was'[x] = {"signaled"} THEN need_count'[x] ELSE 0
               /\ pc'[x] = "returned" => charged'[x] = IF result'[x] = "OK" THEN need_count'[x] ELSE 0
               /\ ~Blocked(x)' /\ pc'[x] # "returned" => was'[x] = {} /\ charged'[x] = 0
    <3>1. CASE x = t
      BY <3>1, <2>5, Zenon
    <3>2. CASE In(x, wait_list)
      BY <3>2, <2>4, <2>6, Zenon
    <3> QED BY <3>1, <3>2, Zenon
  <2> HIDE DEF T
  <2> QED BY <2>3, <2>7, CallsOthers, Zenon
<1>6. PassedOver'
  BY <1>0, SMTT(30) DEF PassedOver
<1>7. SameWaiters' /\ ServiceOrder'
  BY <1>0, SMTT(30) DEF SameWaiters, ServiceOrder, Distinct, In
<1> QED BY <1>1, <1>2, <1>3, <1>4, <1>5, <1>6, <1>7, Zenon

\* sceKernelDeleteSema, up to the erase of the slot.
LEMMA DeleteStep ==
    ASSUME IInv, NEW t \in Threads, Delete(t)
    PROVE  IInv'
<1> USE DEF IInv
<1>0. /\ wait_list' = <<>> /\ arrival' = <<>>
      /\ \A x \in Threads : was'[x] = IF In(x, wait_list) THEN was[x] \cup {"deleted"} ELSE was[x]
  BY SMTT(30) DEF Delete, ReleaseAll
<1>1. TypeOK'
  <2>1. was' \in [Threads -> SUBSET Flags]
    BY SMTT(30) DEF TypeOK, Flags, Delete, ReleaseAll
  <2>2. sem' \in [Threads -> Nat]
    BY SMTT(30) DEF TypeOK, Delete, ReleaseAll
  <2>3. token_count' \in 0..max_count
    BY SMTT(30) DEF TypeOK, Delete
  <2>4. wait_list' \in Seq(Threads) /\ arrival' \in Seq(Threads)
    BY <1>0, SMTT(30)
  <2>5. pc' \in [Threads -> Labels]
    BY SMTT(30) DEF TypeOK, Labels, Delete, Goto
  <2> QED BY <2>1, <2>2, <2>3, <2>4, <2>5, Zenon DEF TypeOK, Delete, objVars
<1>2. ListedAreUndecided'
  <2>1. Distinct(wait_list') /\ \A x : ~In(x, wait_list')
    BY <1>0, SMTT(30) DEF Distinct, In
  <2>2. ASSUME NEW x \in Threads, Blocked(x)' PROVE was'[x] # {}
    <3>1. Blocked(x)
      BY <2>2, SMTT(30) DEF TypeOK, Delete, Goto, Blocked
    <3>2. CASE In(x, wait_list)
      <4>1. "deleted" \in was'[x]
        BY <3>2, <1>0, Zenon
      <4> QED BY <4>1, Zenon
    <3>3. CASE ~In(x, wait_list)
      BY <3>1, <3>3, <1>0, Zenon DEF ListedAreUndecided
    <3> QED BY <3>2, <3>3, Zenon
  <2> QED BY <2>1, <2>2, ListedNow, Zenon
<1>3. LockOK'
  BY SMTT(30) DEF TypeOK, LockOK, Delete, Enter, Goto, objVars
<1>4. NobodyYet'
  BY <1>0, Zenon DEF NobodyYet
<1>5. CallsOK'
  <2> DEFINE T == {x \in Threads : In(x, wait_list)} \cup {t}
  <2>0. ~In(t, wait_list) /\ ~Blocked(t) /\ pc[t] # "returned"
    BY SMTT(30) DEF ListedAreUndecided, Blocked, Delete, Enter
  <2>1. \A x \in Threads : pc'[x] = IF x = t THEN "erase" ELSE pc[x]
    BY SMTT(30) DEF TypeOK, Delete, Goto
  <2>2. UNCHANGED <<charged, need_count, result>>
    BY Zenon DEF Delete
  <2>3. ASSUME NEW x \in Threads \ T
        PROVE  /\ pc'[x] = pc[x] /\ was'[x] = was[x] /\ charged'[x] = charged[x]
               /\ need_count'[x] = need_count[x] /\ result'[x] = result[x]
    BY <1>0, <2>1, <2>2, Zenon
  <2>4. ASSUME NEW x \in Threads, In(x, wait_list)
        PROVE  /\ was'[x] = {"deleted"} /\ Blocked(x)' /\ pc'[x] # "returned" /\ charged'[x] = 0
    <3>1. Blocked(x) /\ was[x] = {} /\ x # t
      BY <2>0, <2>4, Zenon DEF ListedAreUndecided
    <3>2. pc'[x] = pc[x] /\ Blocked(x)' /\ pc'[x] # "returned"
      BY <2>1, <3>1, SMTT(30) DEF Blocked
    <3>3. charged[x] = 0
      <4>1. {} # {"signaled"}
        BY SMTT(30)
      <4> QED BY <3>1, <4>1, Zenon DEF CallsOK
    <3>4. was'[x] = {"deleted"}
      BY <1>0, <2>4, <3>1, Zenon
    <3> QED BY <2>2, <3>2, <3>3, <3>4, Zenon
  <2>5. was'[t] = {} /\ charged'[t] = 0 /\ ~Blocked(t)' /\ pc'[t] # "returned"
    <3>1. was[t] = {} /\ charged[t] = 0
      BY <2>0, Zenon DEF CallsOK
    <3>2. was'[t] = {} /\ charged'[t] = 0
      BY <1>0, <2>0, <2>2, <3>1, Zenon
    <3> QED BY <2>1, <3>2, SMTT(30) DEF Blocked
  <2>6. {"deleted"} # {"signaled"} /\ {} # {"signaled"}
    BY SMTT(30)
  <2>7. ASSUME NEW x \in Threads \cap T
        PROVE  /\ was'[x] \in {{}, {"signaled"}, {"deleted"}, {"canceled"}}
               /\ Blocked(x)' => charged'[x] = IF was'[x] = {"signaled"} THEN need_count'[x] ELSE 0
               /\ pc'[x] = "returned" => charged'[x] = IF result'[x] = "OK" THEN need_count'[x] ELSE 0
               /\ ~Blocked(x)' /\ pc'[x] # "returned" => was'[x] = {} /\ charged'[x] = 0
    <3>1. CASE x = t
      BY <3>1, <2>5, Zenon
    <3>2. CASE In(x, wait_list)
      BY <3>2, <2>4, <2>6, Zenon
    <3> QED BY <3>1, <3>2, Zenon
  <2> HIDE DEF T
  <2> QED BY <2>3, <2>7, CallsOthers, Zenon
<1>6. PassedOver'
  BY <1>0, SMTT(30) DEF PassedOver
<1>7. SameWaiters' /\ ServiceOrder'
  BY <1>0, SMTT(30) DEF SameWaiters, ServiceOrder, Distinct, In
<1> QED BY <1>1, <1>2, <1>3, <1>4, <1>5, <1>6, <1>7, Zenon

\* A waiter takes its result: a timeout is the answer exactly if nobody has decided about
\* the waiter, and then it is still listed.
LEMMA RelockStep ==
    ASSUME IInv, NEW t \in Threads, Relock(t)
    PROVE  IInv'
<1> USE DEF IInv
<1>0. /\ Blocked(t) /\ lock = None /\ pc' = [pc EXCEPT ![t] = "returned"]
      /\ result' = [result EXCEPT ![t] = GetResult(was[t])]
      /\ wait_list' = IF GetResult(was[t]) = "ETIMEDOUT" THEN Erase(wait_list, t) ELSE wait_list
      /\ arrival' = IF GetResult(was[t]) = "ETIMEDOUT" THEN Erase(arrival, t) ELSE arrival
      /\ UNCHANGED <<objVars, lock, token_count, it, waitVars, crashed, charged>>
  BY SMTT(30) DEF Relock, Return, Goto, Blocked
<1>8. /\ GetResult(was[t]) \in Results
      /\ GetResult(was[t]) = "OK" <=> was[t] = {"signaled"}
      /\ GetResult(was[t]) = "ETIMEDOUT" <=> was[t] = {}
  <2>1. was[t] \in {{}, {"signaled"}, {"deleted"}, {"canceled"}}
    BY Zenon DEF CallsOK
  <2>2. GetResult({}) = "ETIMEDOUT" /\ GetResult({"signaled"}) = "OK"
    BY SMTT(30) DEF GetResult
  <2>3. GetResult({"deleted"}) = "EACCES" /\ GetResult({"canceled"}) = "ECANCELED"
    BY SMTT(30) DEF GetResult
  <2> QED BY <2>1, <2>2, <2>3, SMTT(30) DEF Results
<1>9. /\ wait_list' \in Seq(Threads) /\ arrival' \in Seq(Threads)
      /\ Distinct(wait_list') /\ SameWaiters' /\ ServiceOrder'
      /\ \A x : In(x, wait_list') <=> In(x, wait_list) /\ x # t
  <2>1. CASE was[t] = {}
    <3>1. In(t, wait_list)
      BY <1>0, <2>1, Zenon DEF ListedAreUndecided
    <3>2. wait_list \in Seq(Threads)
      BY Zenon DEF TypeOK
    <3>3. wait_list' = Erase(wait_list, t) /\ arrival' = Erase(arrival, t)
      BY <1>0, <1>8, <2>1, Zenon
    <3>4. PICK p \in 1..Len(wait_list) : wait_list[p] = t /\ Erased(wait_list', wait_list, p)
      BY <3>1, <3>2, <3>3, EraseEffect, Zenon
    <3>5. is_fifo' = is_fifo
      BY <1>0, Zenon DEF objVars
    <3>6. arrival' = Erase(arrival, wait_list[p])
      BY <3>3, <3>4, Zenon
    <3>7. /\ wait_list' \in Seq(Threads) /\ arrival' \in Seq(Threads)
          /\ Distinct(wait_list') /\ SameWaiters' /\ ServiceOrder'
          /\ \A x : In(x, wait_list') <=> In(x, wait_list) /\ x # wait_list[p]
      BY <3>4, <3>5, <3>6, WaiterGoes, Zenon
    <3> QED BY <3>4, <3>7, Zenon
  <2>2. CASE was[t] # {}
    <3>1. wait_list' = wait_list /\ arrival' = arrival /\ ~In(t, wait_list)
      BY <1>0, <1>8, <2>2, Zenon DEF ListedAreUndecided
    <3>2. SameWaiters' /\ ServiceOrder'
      BY <1>0, <3>1, ListsSame, Zenon DEF objVars
    <3> QED BY <3>1, <3>2, Zenon DEF TypeOK, ListedAreUndecided, Distinct
  <2> QED BY <2>1, <2>2
<1>1. TypeOK'
  <2>1. result' \in [Threads -> Results]
    BY <1>0, <1>8, SMTT(30) DEF TypeOK, Results
  <2>2. pc' \in [Threads -> Labels]
    BY <1>0, SMTT(30) DEF TypeOK, Labels
  <2> QED BY <1>0, <1>9, <2>1, <2>2, Zenon DEF TypeOK, objVars, waitVars
<1>2. ListedAreUndecided'
  <2>1. ASSUME NEW x \in Threads, x # t PROVE (Blocked(x)' <=> Blocked(x)) /\ was'[x] = was[x]
    BY <1>0, <2>1, SMTT(30) DEF TypeOK, Blocked, waitVars
  <2>2. ~Blocked(t)'
    BY <1>0, SMTT(30) DEF TypeOK, Blocked
  <2>3. \A x \in Threads : In(x, wait_list') <=> Blocked(x)' /\ was'[x] = {}
    BY <1>9, <2>1, <2>2, Zenon DEF ListedAreUndecided
  <2> QED BY <1>9, <2>3, ListedNow, Zenon
<1>3. LockOK'
  BY <1>0, SMTT(30) DEF TypeOK, LockOK, Blocked
<1>4. NobodyYet'
  <2>1. ASSUME wait_list = <<>> PROVE wait_list' = <<>>
    <3>1. ~In(t, wait_list)
      BY <2>1, SMTT(30) DEF In
    <3>2. was[t] # {}
      BY <1>0, <3>1, Zenon DEF ListedAreUndecided
    <3> QED BY <1>0, <1>8, <2>1, <3>2, Zenon
  <2> QED BY <1>0, <2>1, Zenon DEF NobodyYet, objVars
<1>5. CallsOK'
  <2>1. ASSUME NEW x \in Threads \ {t}
        PROVE  /\ pc'[x] = pc[x] /\ was'[x] = was[x] /\ charged'[x] = charged[x]
               /\ need_count'[x] = need_count[x] /\ result'[x] = result[x]
    BY <1>0, SMTT(30) DEF TypeOK, waitVars
  <2>2. /\ ~Blocked(t)' /\ pc'[t] = "returned" /\ was'[t] = was[t] /\ charged'[t] = charged[t]
        /\ need_count'[t] = need_count[t] /\ result'[t] = GetResult(was[t])
    BY <1>0, SMTT(30) DEF TypeOK, Blocked, waitVars
  <2>3. /\ was[t] \in {{}, {"signaled"}, {"deleted"}, {"canceled"}}
        /\ charged[t] = IF was[t] = {"signaled"} THEN need_count[t] ELSE 0
    BY <1>0, Zenon DEF CallsOK
  <2>4. ASSUME NEW x \in Threads \cap {t}
        PROVE  /\ was'[x] \in {{}, {"signaled"}, {"deleted"}, {"canceled"}}
               /\ Blocked(x)' => charged'[x] = IF was'[x] = {"signaled"} THEN need_count'[x] ELSE 0
               /\ pc'[x] = "returned" => charged'[x] = IF result'[x] = "OK" THEN need_count'[x] ELSE 0
               /\ ~Blocked(x)' /\ pc'[x] # "returned" => was'[x] = {} /\ charged'[x] = 0
    BY <1>8, <2>2, <2>3, Zenon
  <2> QED BY <2>1, <2>4, CallsOthers, Zenon
<1>6. PassedOver'
  <2>1. ASSUME NEW i \in 1..Len(wait_list') PROVE need_count'[wait_list'[i]] > token_count'
    <3>1. wait_list'[i] \in Threads /\ In(wait_list'[i], wait_list')
      BY <1>9, SeqFacts, Zenon DEF In
    <3>2. PICK k \in 1..Len(wait_list) : wait_list[k] = wait_list'[i]
      BY <1>9, <3>1, Zenon DEF In
    <3> QED BY <1>0, <3>2, Zenon DEF PassedOver, waitVars
  <2> QED BY <2>1, Zenon DEF PassedOver
<1>7. SameWaiters' /\ ServiceOrder'
  BY <1>9, Zenon
<1> QED BY <1>1, <1>2, <1>3, <1>4, <1>5, <1>6, <1>7, Zenon

\* Signal serves a waiter: it is taken off the lists, flagged and charged, and the tokens
\* that are left are no more than before.
LEMMA SignalGrantStep ==
    ASSUME IInv, NEW t \in Threads, SignalGrant(t)
    PROVE  IInv'
<1> USE DEF IInv
<1>13. PICK w : w = wait_list[it]
  OBVIOUS
<1>0. /\ it \in 1..Len(wait_list) /\ w \in Threads /\ pc[t] = "signaling"
      /\ need_count[w] \in Nat \ {0} /\ need_count[w] <= token_count
      /\ wait_list' = EraseAt(wait_list, it) /\ arrival' = Erase(arrival, w)
      /\ token_count' = token_count - need_count[w]
      /\ charged' = [charged EXCEPT ![w] = @ + need_count[w]]
      /\ was' = [was EXCEPT ![w] = @ \cup {"signaled"}]
      /\ sem' = [sem EXCEPT ![w] = @ + 1]
      /\ UNCHANGED <<objVars, lock, it, need_count, pc, result, crashed>>
  <2>1. it \in 1..Len(wait_list) /\ w \in Threads /\ need_count[w] \in Nat \ {0}
    <3>1. it \in Nat \ {0} /\ it <= Len(wait_list) /\ wait_list \in Seq(Threads)
      BY Zenon DEF TypeOK, SignalGrant
    <3>2. it \in 1..Len(wait_list)
      BY <3>1, SeqFacts, SMTT(30)
    <3>3. w \in Threads
      BY <1>13, <3>1, <3>2, SeqFacts, Zenon
    <3> QED BY <3>2, <3>3, Zenon DEF TypeOK
  <2> QED BY <1>13, <2>1, Zenon DEF SignalGrant
<1>12. /\ need_count[w] \in Nat \ {0} /\ need_count[w] <= token_count /\ w \in Threads
       /\ token_count' = token_count - need_count[w] /\ token_count \in 0..max_count /\ max_count \in Nat
  <2>1. max_count \in Nat
    BY SMTT(30) DEF TypeOK, OrbisSemAssumption
  <2> QED BY <1>0, <2>1, Zenon DEF TypeOK
<1>10. Erased(wait_list', wait_list, it)
  BY <1>0, EraseAtEffect, Zenon DEF TypeOK
<1>9. /\ wait_list' \in Seq(Threads) /\ arrival' \in Seq(Threads)
      /\ Distinct(wait_list') /\ SameWaiters' /\ ServiceOrder'
      /\ \A x : In(x, wait_list') <=> In(x, wait_list) /\ x # w
  BY <1>0, <1>13, <1>10, WaiterGoes, Zenon DEF objVars
<1>11. /\ was'[w] = {"signaled"} /\ Blocked(w)' /\ pc'[w] # "returned"
      /\ charged'[w] = need_count'[w]
  <2>1. In(w, wait_list)
    BY <1>0, <1>13, Zenon DEF In
  <2>2. Blocked(w) /\ was[w] = {}
    BY <1>0, <2>1, Zenon DEF ListedAreUndecided
  <2>3. charged[w] = 0
    <3>1. {} # {"signaled"}
      BY SMTT(30)
    <3> QED BY <1>0, <2>2, <3>1, Zenon DEF CallsOK
  <2>4. was'[w] = {"signaled"}
    <3>1. was'[w] = was[w] \cup {"signaled"}
      BY <1>0, Zenon DEF TypeOK
    <3> QED BY <2>2, <3>1, Zenon
  <2>5. charged'[w] = charged[w] + need_count[w] /\ need_count'[w] = need_count[w]
    BY <1>0, Zenon DEF TypeOK
  <2>6. charged'[w] = need_count'[w]
    BY <1>0, <2>3, <2>5, SMTT(30)
  <2>7. pc' = pc
    BY <1>0, Zenon
  <2>8. Blocked(w)' /\ pc'[w] # "returned"
    BY <2>2, <2>7, SMTT(30) DEF Blocked
  <2> QED BY <2>4, <2>6, <2>8, Zenon
<1>1. TypeOK'
  <2>1. token_count' \in 0..max_count
    BY <1>12, SMTT(30)
  <2>2. charged' \in [Threads -> Nat] /\ sem' \in [Threads -> Nat]
    <3>1. charged \in [Threads -> Nat] /\ sem \in [Threads -> Nat]
      BY Zenon DEF TypeOK
    <3>2. /\ charged' = [charged EXCEPT ![w] = charged[w] + need_count[w]]
          /\ sem' = [sem EXCEPT ![w] = sem[w] + 1]
      BY <1>0, Zenon
    <3> QED BY <1>12, <3>1, <3>2, SMTT(30)
  <2>3. was' \in [Threads -> SUBSET Flags]
    <3>1. was \in [Threads -> SUBSET Flags] /\ was' = [was EXCEPT ![w] = was[w] \cup {"signaled"}]
      BY <1>0, Zenon DEF TypeOK
    <3> QED BY <1>12, <3>1, SMTT(30) DEF Flags
  <2> QED BY <1>0, <1>9, <2>1, <2>2, <2>3, Zenon DEF TypeOK, objVars
<1>2. ListedAreUndecided'
  <2>1. \A x \in Threads : Blocked(x)' <=> Blocked(x)
    BY <1>0, Zenon DEF Blocked
  <2>2. \A x \in Threads : x # w => was'[x] = was[x]
    BY <1>0, SMTT(30) DEF TypeOK
  <2>3. was'[w] # {}
    BY <1>11, Zenon
  <2>4. \A x \in Threads : In(x, wait_list') <=> Blocked(x)' /\ was'[x] = {}
    BY <1>9, <2>1, <2>2, <2>3, Zenon DEF ListedAreUndecided
  <2> QED BY <1>9, <2>4, ListedNow, Zenon
<1>3. LockOK'
  BY <1>0, Zenon DEF LockOK
<1>4. NobodyYet'
  <2>1. wait_list # <<>>
    BY <1>0, SMTT(30)
  <2> QED BY <1>0, <2>1, Zenon DEF NobodyYet, objVars
<1>5. CallsOK'
  <2>1. ASSUME NEW x \in Threads \ {w}
        PROVE  /\ pc'[x] = pc[x] /\ was'[x] = was[x] /\ charged'[x] = charged[x]
               /\ need_count'[x] = need_count[x] /\ result'[x] = result[x]
    BY <1>0, SMTT(30) DEF TypeOK
  <2>2. ASSUME NEW x \in Threads \cap {w}
        PROVE  /\ was'[x] \in {{}, {"signaled"}, {"deleted"}, {"canceled"}}
               /\ Blocked(x)' => charged'[x] = IF was'[x] = {"signaled"} THEN need_count'[x] ELSE 0
               /\ pc'[x] = "returned" => charged'[x] = IF result'[x] = "OK" THEN need_count'[x] ELSE 0
               /\ ~Blocked(x)' /\ pc'[x] # "returned" => was'[x] = {} /\ charged'[x] = 0
    <3>1. /\ was'[w] \in {{}, {"signaled"}, {"deleted"}, {"canceled"}}
          /\ Blocked(w)' => charged'[w] = IF was'[w] = {"signaled"} THEN need_count'[w] ELSE 0
          /\ pc'[w] = "returned" => charged'[w] = IF result'[w] = "OK" THEN need_count'[w] ELSE 0
          /\ ~Blocked(w)' /\ pc'[w] # "returned" => was'[w] = {} /\ charged'[w] = 0
      BY <1>11, Zenon
    <3>2. x = w
      BY Zenon
    <3> QED BY <3>1, <3>2, Zenon
  <2> QED BY <2>1, <2>2, CallsOthers, Zenon
<1>6. PassedOver'
  <2>1. lock # None /\ lock' = lock /\ it' = it /\ need_count' = need_count
    BY <1>0, OrbisSemAssumption, Zenon DEF LockOK
  <2>2. ASSUME NEW i \in 1..Len(wait_list'), i < it PROVE need_count[wait_list'[i]] > token_count'
    <3>1. i \in 1..Len(wait_list) /\ wait_list'[i] = wait_list[i]
      <4>1. it \in Int /\ Len(wait_list) \in Nat /\ Len(wait_list') = Len(wait_list) - 1
        BY <1>0, <1>10, SeqFacts, SMTT(30) DEF TypeOK, Erased
      <4>2. wait_list'[i] = IF i < it THEN wait_list[i] ELSE wait_list[i + 1]
        BY <1>10, Zenon DEF Erased
      <4>3. i \in 1..Len(wait_list)
        BY <4>1, SMTT(30)
      <4> QED BY <2>2, <4>2, <4>3, Zenon
    <3>2. need_count[wait_list[i]] > token_count
      BY <3>1, <2>2, Zenon DEF PassedOver
    <3>3. need_count[wait_list[i]] \in Nat
      <4>1. wait_list[i] \in Threads
        BY <3>1, SeqFacts, Zenon DEF TypeOK
      <4> QED BY <4>1, SMTT(30) DEF TypeOK
    <3>4. need_count[wait_list[i]] > token_count'
      BY <1>12, <3>2, <3>3, SMTT(30)
    <3> QED BY <3>1, <3>4, Zenon
  <2> QED BY <2>1, <2>2, Zenon DEF PassedOver
<1>7. SameWaiters' /\ ServiceOrder'
  BY <1>9, Zenon
<1> QED BY <1>1, <1>2, <1>3, <1>4, <1>5, <1>6, <1>7, Zenon

-----------------------------------------------------------------------------
(* AddWaiter.  That its longest prefix exists is a fact about well-founded *)
(* orders, which no other part of the proof needs.                         *)
INSTANCE WellFoundedInduction

\* Comparing priorities.
LEMMA NatOrder ==
    \A a, b, c \in Nat : (a = b \/ a < b => a <= b) /\ (~(a <= b) /\ a <= c => b < c)
BY SMTT(30)

\* A nonempty set of numbers up to n has a largest one.
LEMMA HasMaximum ==
    ASSUME NEW n \in Nat, NEW S, S \subseteq 0..n, S # {}
    PROVE  \E m \in S : \A j \in S : j <= m
<1> DEFINE T == {n - i : i \in S}
<1>0. \A i \in S : n - i \in Nat /\ i \in Int
  OBVIOUS
<1>1. T \subseteq Nat /\ T # {}
  BY <1>0, Zenon
<1>2. PICK x \in T : \A y \in T : ~ (<<y, x>> \in OpToRel(<, Nat))
  BY <1>1, WFMin, NatLessThanWellFounded, Zenon
<1>3. \A y \in T : ~ (y < x)
  <2>1. \A y \in T : y < x => <<y, x>> \in OpToRel(<, Nat)
    BY <1>1, Zenon DEF OpToRel
  <2> QED BY <1>2, <2>1, Zenon
<1>4. PICK m \in S : x = n - m
  BY Zenon
<1>5. ASSUME NEW j \in S PROVE j <= m
  <2>1. n - j \in T
    BY Zenon
  <2>2. ~ (n - j < n - m)
    BY <2>1, <1>3, <1>4, Zenon
  <2>3. n \in Nat /\ j \in Int /\ m \in Int
    BY <1>0, Zenon
  <2> QED BY <2>2, <2>3, SMTT(30)
<1> QED BY <1>5, Zenon

\* AddWaiter puts a waiter between two others.
LEMMA InsertEffect ==
    ASSUME NEW s \in Seq(Threads), NEW n \in 0..Len(s), NEW x \in Threads
    PROVE  Inserted(SubSeq(s, 1, n) \o <<x>> \o SubSeq(s, n + 1, Len(s)), s, n + 1, x)
<1> DEFINE a == SubSeq(s, 1, n)
           b == SubSeq(s, n + 1, Len(s))
           c == a \o <<x>>
<1>0. Len(s) \in Nat /\ n \in Nat /\ n <= Len(s) /\ \A k \in 1..Len(s) : s[k] \in Threads
  BY SeqFacts, SMTT(30)
<1>1. /\ a \in Seq(Threads) /\ Len(a) = n
      /\ \A k \in 1..n : a[k] = s[k]
  BY <1>0, SMTT(30)
<1>2. /\ b \in Seq(Threads) /\ Len(b) = Len(s) - n
      /\ \A k \in 1..(Len(s) - n) : b[k] = s[n + k]
  BY <1>0, SMTT(30)
<1> HIDE DEF a, b
<1>3. /\ c \in Seq(Threads) /\ Len(c) = n + 1
      /\ \A k \in 1..(n + 1) : c[k] = IF k <= n THEN a[k] ELSE x
  <2>1. <<x>> \in Seq(Threads) /\ Len(<<x>>) = 1 /\ <<x>>[1] = x
    OBVIOUS
  <2>2. /\ c \in Seq(Threads) /\ Len(c) = Len(a) + Len(<<x>>)
        /\ \A i \in 1..(Len(a) + Len(<<x>>)) : c[i] = IF i <= Len(a) THEN a[i] ELSE <<x>>[i - Len(a)]
    BY <1>1, <2>1, ConcatFacts, Zenon
  <2> HIDE DEF c
  <2>3. Len(c) = n + 1 /\ \A k \in 1..(n + 1) : c[k] = IF k <= n THEN a[k] ELSE <<x>>[k - n]
    BY <1>0, <1>1, <2>1, <2>2, SMTT(30)
  <2>4. \A k \in 1..(n + 1) : k <= n \/ k - n = 1
    BY <1>0, SMTT(30)
  <2> QED BY <2>1, <2>2, <2>3, <2>4, Zenon
<1> HIDE DEF c
<1>4. /\ c \o b \in Seq(Threads) /\ Len(c \o b) = Len(c) + Len(b)
      /\ \A i \in 1..(Len(c) + Len(b)) : (c \o b)[i] = IF i <= Len(c) THEN c[i] ELSE b[i - Len(c)]
  BY <1>2, <1>3, ConcatFacts, Zenon
<1>5. Len(c \o b) = Len(s) + 1
  BY <1>0, <1>1, <1>2, <1>3, <1>4, SMTT(30)
<1>6. ASSUME NEW k \in 1..Len(c \o b)
      PROVE  (c \o b)[k] = IF k < n + 1 THEN s[k] ELSE IF k = n + 1 THEN x ELSE s[k - 1]
  <2>0. k \in Int /\ 1 <= k /\ k <= Len(s) + 1
    BY <1>0, <1>5, SMTT(30)
  <2>1. CASE k <= n + 1
    <3>1. (c \o b)[k] = c[k]
      BY <2>0, <2>1, <1>0, <1>2, <1>3, <1>4, SMTT(30)
    <3> QED BY <3>1, <2>0, <2>1, <1>0, <1>1, <1>3, SMTT(30)
  <2>2. CASE k > n + 1
    <3>1. (c \o b)[k] = b[k - (n + 1)]
      BY <2>0, <2>2, <1>0, <1>2, <1>3, <1>4, SMTT(30)
    <3>2. b[k - (n + 1)] = s[n + (k - (n + 1))]
      BY <2>0, <2>2, <1>0, <1>2, SMTT(30)
    <3>3. n + (k - (n + 1)) = k - 1
      BY <2>0, <1>0, SMTT(30)
    <3> QED BY <3>1, <3>2, <3>3, <2>0, <2>2, <1>0, SMTT(30)
  <2> QED BY <2>0, <2>1, <2>2, <1>0, SMTT(30)
<1> QED BY <1>4, <1>5, <1>6, Zenon DEF Inserted, a, b, c

\* A fifo semaphore, and arrival, grow at the end.
LEMMA AppendEffect ==
    ASSUME NEW s \in Seq(Threads), NEW x \in Threads
    PROVE  Len(s) + 1 \in 1..(Len(s) + 1) /\ Inserted(Append(s, x), s, Len(s) + 1, x)
<1>1. Len(s) \in Nat /\ Append(s, x) \in Seq(Threads) /\ Len(Append(s, x)) = Len(s) + 1
  BY SMTT(30)
<1>2. \A k \in 1..(Len(s) + 1) : Append(s, x)[k] = IF k <= Len(s) THEN s[k] ELSE x
  BY SMTT(30)
<1>3. \A k \in 1..Len(Append(s, x)) :
         Append(s, x)[k] = IF k < Len(s) + 1 THEN s[k] ELSE IF k = Len(s) + 1 THEN x ELSE s[k - 1]
  BY <1>1, <1>2, SMTT(30)
<1> QED BY <1>1, <1>3, SMTT(30) DEF Inserted

\* Where AddWaiter puts a waiter: after those that are at least as urgent, or at
\* the end.
LEMMA AddWaiterEffect ==
    ASSUME NEW s \in Seq(Threads), NEW x \in Threads
    PROVE  \E p \in 1..(Len(s) + 1) :
              /\ Inserted(AddWaiter(s, x), s, p, x)
              /\ is_fifo => p = Len(s) + 1
              /\ ~is_fifo => /\ \A j \in 1..(p - 1) : Prio[s[j]] <= Prio[x]
                             /\ p <= Len(s) => ~(Prio[s[p]] <= Prio[x])
<1>0. Len(s) \in Nat
  BY SeqFacts
<1>1. CASE is_fifo
  <2>1. AddWaiter(s, x) = Append(s, x)
    BY <1>1, Zenon DEF AddWaiter
  <2> QED BY <1>1, <2>1, AppendEffect, Zenon
<1>2. CASE ~is_fifo
  <2> DEFINE before == {i \in 0..Len(s) : \A j \in 1..i : Prio[s[j]] <= Prio[x]}
             n == CHOOSE i \in before : \A j \in before : j <= i
  <2>1. before \subseteq 0..Len(s) /\ before # {}
    <3>1. 0 \in before
      BY <1>0, SMTT(30)
    <3> QED BY <3>1, Zenon
  <2>2. n \in before /\ \A j \in before : j <= n
    <3>1. \E m \in before : \A j \in before : j <= m
      BY <1>0, <2>1, HasMaximum, Zenon
    <3> QED BY <3>1, Zenon
  <2>3. n \in 0..Len(s) /\ n + 1 \in 1..(Len(s) + 1) /\ (n + 1) - 1 = n
    <3>1. n \in 0..Len(s)
      BY <2>2, Zenon
    <3> HIDE DEF n
    <3> QED BY <1>0, <3>1, SMTT(30)
  <2>4. AddWaiter(s, x) = SubSeq(s, 1, n) \o <<x>> \o SubSeq(s, n + 1, Len(s))
    BY <1>2, Zenon DEF AddWaiter
  <2>5. Inserted(AddWaiter(s, x), s, n + 1, x)
    BY <2>3, <2>4, InsertEffect, Zenon
  <2>6. \A j \in 1..n : Prio[s[j]] <= Prio[x]
    BY <2>2, Zenon
  <2>7. ASSUME n + 1 <= Len(s), Prio[s[n + 1]] <= Prio[x] PROVE FALSE
    <3> HIDE DEF n
    <3>1. \A j \in 1..(n + 1) : j \in 1..n \/ j = n + 1
      BY <2>3, SMTT(30)
    <3>2. n + 1 \in before
      BY <1>0, <2>3, <2>6, <2>7, <3>1, SMTT(30)
    <3>3. n + 1 <= n
      BY <2>2, <3>2, Zenon
    <3> QED BY <3>3, <2>3, SMTT(30)
  <2> HIDE DEF n
  <2> QED BY <1>2, <2>3, <2>5, <2>6, <2>7, Zenon
<1> QED BY <1>1, <1>2

\* Putting a new element into a list.
LEMMA InsertedMembers ==
    ASSUME NEW s \in Seq(Threads), NEW r, NEW p \in 1..(Len(s) + 1), NEW x \in Threads,
           Inserted(r, s, p, x), ~In(x, s), Distinct(s)
    PROVE  Distinct(r) /\ \A y : In(y, r) <=> In(y, s) \/ y = x
<1>0. /\ Len(s) \in Nat /\ r \in Seq(Threads) /\ Len(r) = Len(s) + 1 /\ p \in Int
      /\ \A k \in 1..Len(r) : r[k] = IF k < p THEN s[k] ELSE IF k = p THEN x ELSE s[k - 1]
  BY SeqFacts, SMTT(30) DEF Inserted
<1>1. Distinct(r)
  <2>1. /\ \A m \in 1..Len(s) : s[m] # x
        /\ \A m, n \in 1..Len(s) : s[m] = s[n] => m = n
    BY Zenon DEF In, Distinct
  <2>2. ASSUME NEW k \in 1..Len(r)
        PROVE  /\ k < p => k \in 1..Len(s) /\ r[k] = s[k]
               /\ k = p => r[k] = x
               /\ k > p => k - 1 \in 1..Len(s) /\ r[k] = s[k - 1]
    BY <1>0, SMTT(30)
  <2>3. ASSUME NEW i \in 1..Len(r), NEW j \in 1..Len(r), r[i] = r[j], i < j PROVE FALSE
    <3>1. CASE j < p
      BY <1>0, <2>1, <2>2, <2>3, <3>1, SMTT(30)
    <3>2. CASE j = p
      BY <1>0, <2>1, <2>2, <2>3, <3>2, SMTT(30)
    <3>3. CASE j > p /\ i < p
      BY <1>0, <2>1, <2>2, <2>3, <3>3, SMTT(30)
    <3>4. CASE j > p /\ ~(i < p)
      BY <1>0, <2>1, <2>2, <2>3, <3>4, SMTT(30)
    <3> QED BY <1>0, <3>1, <3>2, <3>3, <3>4, SMTT(30)
  <2> QED BY <1>0, <2>3, SMTT(30) DEF Distinct
<1>2. ASSUME NEW y, In(y, r) PROVE In(y, s) \/ y = x
  <2>1. PICK k \in 1..Len(r) : r[k] = y
    BY <1>2, Zenon DEF In
  <2>2. CASE k < p
    <3>1. k \in 1..Len(s) /\ s[k] = y
      BY <1>0, <2>1, <2>2, SMTT(30)
    <3> QED BY <3>1, Zenon DEF In
  <2>3. CASE k > p
    <3>1. k - 1 \in 1..Len(s) /\ s[k - 1] = y
      BY <1>0, <2>1, <2>3, SMTT(30)
    <3> QED BY <3>1, Zenon DEF In
  <2>4. CASE k = p
    BY <1>0, <2>1, <2>4, SMTT(30)
  <2> QED BY <1>0, <2>2, <2>3, <2>4, SMTT(30)
<1>3. In(x, r)
  <2>1. p \in 1..Len(r) /\ r[p] = x
    BY <1>0, SMTT(30)
  <2> QED BY <2>1, Zenon DEF In
<1>4. ASSUME NEW y, NEW i \in 1..Len(s), s[i] = y PROVE In(y, r)
  <2>1. CASE i < p
    <3>1. i \in 1..Len(r) /\ r[i] = y
      BY <1>0, <1>4, <2>1, SMTT(30)
    <3> QED BY <3>1, Zenon DEF In
  <2>2. CASE ~(i < p)
    <3>1. i + 1 \in 1..Len(r) /\ ~(i + 1 < p) /\ i + 1 # p /\ (i + 1) - 1 = i
      BY <1>0, <2>2, SMTT(30)
    <3>2. r[i + 1] = y
      BY <1>0, <1>4, <3>1, SMTT(30)
    <3> QED BY <3>1, <3>2, Zenon DEF In
  <2> QED BY <2>1, <2>2
<1> QED BY <1>1, <1>2, <1>3, <1>4, Zenon DEF In

\* A waiter is added.
LEMMA WaiterComes ==
    ASSUME TypeOK, ListedAreUndecided, SameWaiters, ServiceOrder, NEW t \in Threads, ~In(t, wait_list),
           wait_list' = AddWaiter(wait_list, t), arrival' = Append(arrival, t), is_fifo' = is_fifo
    PROVE  /\ wait_list' \in Seq(Threads) /\ arrival' \in Seq(Threads)
           /\ Distinct(wait_list') /\ SameWaiters' /\ ServiceOrder'
           /\ \A x : In(x, wait_list') <=> In(x, wait_list) \/ x = t
<1>0. /\ wait_list \in Seq(Threads) /\ arrival \in Seq(Threads)
      /\ Len(wait_list) \in Nat /\ Len(arrival) \in Nat
      /\ Distinct(wait_list) /\ Distinct(arrival)
      /\ \A x \in Threads : In(x, arrival) <=> In(x, wait_list)
  BY SeqFacts DEF TypeOK, ListedAreUndecided, SameWaiters, Distinct
<1>1. PICK p \in 1..(Len(wait_list) + 1) :
              /\ Inserted(wait_list', wait_list, p, t)
              /\ is_fifo => p = Len(wait_list) + 1
              /\ ~is_fifo => /\ \A j \in 1..(p - 1) : Prio[wait_list[j]] <= Prio[t]
                             /\ p <= Len(wait_list) => ~(Prio[wait_list[p]] <= Prio[t])
  BY <1>0, AddWaiterEffect, Zenon
<1>2. /\ wait_list' \in Seq(Threads) /\ Distinct(wait_list')
      /\ \A x : In(x, wait_list') <=> In(x, wait_list) \/ x = t
  <2>1. wait_list' \in Seq(Threads)
    BY <1>1, Zenon DEF Inserted
  <2> QED BY <1>0, <1>1, <2>1, InsertedMembers, Zenon
<1>3. /\ Len(arrival) + 1 \in 1..(Len(arrival) + 1)
      /\ Inserted(arrival', arrival, Len(arrival) + 1, t)
  BY <1>0, AppendEffect, Zenon
<1>4. ~In(t, arrival)
  BY <1>0, Zenon
<1>5. /\ arrival' \in Seq(Threads) /\ Distinct(arrival')
      /\ \A x : In(x, arrival') <=> In(x, arrival) \/ x = t
  <2>1. arrival' \in Seq(Threads)
    BY <1>3, Zenon DEF Inserted
  <2> DEFINE q == Len(arrival) + 1
  <2>2. q \in 1..(Len(arrival) + 1) /\ Inserted(arrival', arrival, q, t)
    BY <1>3, Zenon
  <2> HIDE DEF q
  <2> QED BY <1>0, <1>4, <2>1, <2>2, InsertedMembers, Zenon
<1>6. SameWaiters'
  BY <1>0, <1>2, <1>5, Zenon DEF SameWaiters
<1>7. ServiceOrder'
  <2> SUFFICES ASSUME NEW i \in 1..Len(wait_list'), NEW j \in 1..Len(wait_list'),
                      NEW a \in 1..Len(arrival'), NEW b \in 1..Len(arrival'), i < j,
                      arrival'[a] = wait_list'[i], arrival'[b] = wait_list'[j]
               PROVE  Precedes(wait_list[i], wait_list[j], a, b)'
    BY Zenon DEF ServiceOrder
  <2>0. /\ Len(wait_list') = Len(wait_list) + 1 /\ Len(arrival') = Len(arrival) + 1
        /\ \A k \in 1..Len(wait_list') :
              /\ k < p => k \in 1..Len(wait_list) /\ wait_list'[k] = wait_list[k]
              /\ k = p => wait_list'[k] = t
              /\ k > p => k - 1 \in 1..Len(wait_list) /\ wait_list'[k] = wait_list[k - 1]
        /\ \A k \in 1..Len(arrival) : arrival'[k] = arrival[k] /\ arrival[k] # t
        /\ arrival'[Len(arrival) + 1] = t
        /\ \A k \in 1..Len(wait_list) : wait_list[k] # t
        /\ p \in Int /\ p >= 1
    <3>1. /\ \A k \in 1..Len(arrival) : arrival[k] # t
          /\ \A k \in 1..Len(wait_list) : wait_list[k] # t
      BY <1>4, Zenon DEF In
    <3> QED BY <3>1, <1>0, <1>1, <1>3, SMTT(30) DEF Inserted
  <2>1. Prio[t] \in Nat /\ \A k \in 1..Len(wait_list) : Prio[wait_list[k]] \in Nat
    <3>1. \A k \in 1..Len(wait_list) : wait_list[k] \in Threads
      BY <1>0, SeqFacts, Zenon
    <3> QED BY <3>1, OrbisSemAssumption, SMTT(30)
  <2>2. CASE j = p
    <3>1. b = Len(arrival) + 1 /\ i \in 1..(p - 1) /\ i \in 1..Len(wait_list) /\ wait_list'[i] = wait_list[i]
          /\ wait_list'[j] = t
      BY <2>0, <2>2, <1>0, SMTT(30)
    <3>2. a < b
      BY <2>0, <3>1, <1>0, SMTT(30)
    <3>3. is_fifo \/ Prio[wait_list[i]] <= Prio[t]
      BY <1>1, <3>1, Zenon
    <3>4. Prio[wait_list[i]] \in Nat /\ Prio[t] \in Nat
      BY <2>1, <3>1, Zenon
    <3> QED BY <3>1, <3>2, <3>3, <3>4, SMTT(30) DEF Precedes
  <2>3. CASE i = p
    <3>1. p <= Len(wait_list) /\ j - 1 \in 1..Len(wait_list) /\ wait_list'[j] = wait_list[j - 1] /\ p <= j - 1
          /\ wait_list'[i] = t /\ p \in 1..Len(wait_list)
      BY <2>0, <2>3, <1>0, SMTT(30)
    <3>2. ~is_fifo /\ ~(Prio[wait_list[p]] <= Prio[t])
      BY <3>1, <1>1, <1>0, SMTT(30)
    <3>9. Prio[wait_list[p]] \in Nat /\ Prio[wait_list[j - 1]] \in Nat /\ Prio[t] \in Nat
      BY <2>1, <3>1, Zenon
    <3>3. Prio[wait_list[p]] <= Prio[wait_list[j - 1]]
      <4>1. CASE p = j - 1
        BY <4>1, <3>9, SMTT(30)
      <4>2. CASE p < j - 1
        <5>1. In(wait_list[p], arrival) /\ In(wait_list[j - 1], arrival)
          BY <1>0, <3>1, SeqFacts, Zenon DEF In
        <5>2. PICK c, d \in 1..Len(arrival) : arrival[c] = wait_list[p] /\ arrival[d] = wait_list[j - 1]
          BY <5>1, Zenon DEF In
        <5>3. Precedes(wait_list[p], wait_list[j - 1], c, d)
          BY <4>2, <5>2, <3>1, Zenon DEF ServiceOrder
        <5>4. Prio[wait_list[p]] = Prio[wait_list[j - 1]] \/ Prio[wait_list[p]] < Prio[wait_list[j - 1]]
          BY <5>3, <3>2, Zenon DEF Precedes
        <5> QED BY <5>4, <3>9, NatOrder, Zenon
      <4> QED BY <3>1, <4>1, <4>2, SMTT(30)
    <3>4. Prio[t] < Prio[wait_list[j - 1]]
      BY <3>2, <3>3, <3>9, NatOrder, Zenon
    <3>5. Prio[t] # Prio[wait_list[j - 1]]
      BY <3>4, <3>9, SMTT(30)
    <3> QED BY <3>1, <3>2, <3>4, <3>5, Zenon DEF Precedes
  <2>4. CASE i # p /\ j # p
    <3>1. PICK u, v \in 1..Len(wait_list) : u < v /\ wait_list'[i] = wait_list[u] /\ wait_list'[j] = wait_list[v]
      <4>1. CASE j < p
        BY <4>1, <2>0, <2>4, SMTT(30)
      <4>2. CASE j > p /\ i < p
        BY <4>2, <2>0, <2>4, SMTT(30)
      <4>3. CASE j > p /\ i > p
        <5>1. /\ i - 1 \in 1..Len(wait_list) /\ wait_list'[i] = wait_list[i - 1]
              /\ j - 1 \in 1..Len(wait_list) /\ wait_list'[j] = wait_list[j - 1]
          BY <4>3, <2>0, Zenon
        <5>2. i - 1 < j - 1
          BY SMTT(30)
        <5> QED BY <5>1, <5>2, Zenon
      <4> QED BY <4>1, <4>2, <4>3, <2>0, <2>4, SMTT(30)
    <3>2. /\ a \in 1..Len(arrival) /\ b \in 1..Len(arrival)
          /\ arrival[a] = wait_list[u] /\ arrival[b] = wait_list[v]
      BY <3>1, <2>0, <1>0, SMTT(30)
    <3>3. Precedes(wait_list[u], wait_list[v], a, b)
      BY <3>1, <3>2, Zenon DEF ServiceOrder
    <3> QED BY <3>1, <3>3, Zenon DEF Precedes
  <2> QED BY <2>2, <2>3, <2>4, Zenon
<1> QED BY <1>2, <1>5, <1>6, <1>7, Zenon

\* Wait goes to sleep: its waiter is added, undecided and charged nothing; it needs more
\* than there is.
LEMMA WaitBlockStep ==
    ASSUME IInv, NEW t \in Threads, NEW n \in 1..max_count, WaitBlock(t, n)
    PROVE  IInv'
<1> USE DEF IInv
<1>0. /\ wait_list' \in Seq(Threads) /\ arrival' \in Seq(Threads)
      /\ Distinct(wait_list') /\ SameWaiters' /\ ServiceOrder'
      /\ \A x : In(x, wait_list') <=> In(x, wait_list) \/ x = t
  <2>1. ~In(t, wait_list)
    BY Zenon DEF ListedAreUndecided, Blocked, WaitBlock, Enter
  <2>2. wait_list' = AddWaiter(wait_list, t) /\ arrival' = Append(arrival, t) /\ is_fifo' = is_fifo
    BY Zenon DEF WaitBlock, objVars
  <2> QED BY <2>1, <2>2, WaiterComes, Zenon
<1>1. TypeOK'
  <2>1. n \in Nat \ {0}
    BY SMTT(30) DEF TypeOK
  <2> QED BY <1>0, <2>1, SMTT(30) DEF TypeOK, Labels, Flags, WaitBlock, Enter, Goto, objVars
<1>2. ListedAreUndecided'
  <2>1. \A x \in Threads : In(x, wait_list') <=> Blocked(x)' /\ was'[x] = {}
    <3>1. Blocked(t)' /\ was'[t] = {}
      BY SMTT(30) DEF TypeOK, WaitBlock, Goto, Blocked
    <3>2. ASSUME NEW x \in Threads, x # t PROVE (Blocked(x)' <=> Blocked(x)) /\ was'[x] = was[x]
      BY <3>2, SMTT(30) DEF TypeOK, WaitBlock, Goto, Blocked
    <3> QED BY <1>0, <3>1, <3>2, Zenon DEF ListedAreUndecided
  <2> QED BY <1>0, <2>1, ListedNow, Zenon
<1>3. LockOK'
  BY SMTT(30) DEF TypeOK, LockOK, WaitBlock, Enter, Goto, objVars
<1>4. NobodyYet'
  BY SMTT(30) DEF NobodyYet, WaitBlock, Enter, objVars
<1>5. CallsOK'
  <2>1. ASSUME NEW x \in Threads \ {t}
        PROVE  /\ pc'[x] = pc[x] /\ was'[x] = was[x] /\ charged'[x] = charged[x]
               /\ need_count'[x] = need_count[x] /\ result'[x] = result[x]
    BY SMTT(30) DEF TypeOK, WaitBlock, Goto
  <2>2. Blocked(t)' /\ pc'[t] # "returned" /\ was'[t] = {} /\ charged'[t] = 0
    <3>1. charged[t] = 0
      BY Zenon DEF CallsOK, Blocked, WaitBlock, Enter
    <3> QED BY <3>1, SMTT(30) DEF TypeOK, WaitBlock, Goto, Blocked
  <2>3. {} # {"signaled"}
    BY SMTT(30)
  <2>4. ASSUME NEW x \in Threads \cap {t}
        PROVE  /\ was'[x] \in {{}, {"signaled"}, {"deleted"}, {"canceled"}}
               /\ Blocked(x)' => charged'[x] = IF was'[x] = {"signaled"} THEN need_count'[x] ELSE 0
               /\ pc'[x] = "returned" => charged'[x] = IF result'[x] = "OK" THEN need_count'[x] ELSE 0
               /\ ~Blocked(x)' /\ pc'[x] # "returned" => was'[x] = {} /\ charged'[x] = 0
    BY <2>2, <2>3, Zenon
  <2> QED BY <2>1, <2>4, CallsOthers, Zenon
<1>6. PassedOver'
  <2>1. lock = None /\ need_count' = [need_count EXCEPT ![t] = n] /\ token_count < n /\ token_count' = token_count
    BY Zenon DEF WaitBlock, Enter
  <2>2. ASSUME NEW i \in 1..Len(wait_list') PROVE need_count'[wait_list'[i]] > token_count'
    <3>1. wait_list'[i] \in Threads /\ In(wait_list'[i], wait_list')
      BY <1>0, SeqFacts, Zenon DEF In
    <3>2. CASE wait_list'[i] = t
      BY <2>1, <3>2, SMTT(30) DEF TypeOK
    <3>3. CASE wait_list'[i] # t
      <4>1. PICK k \in 1..Len(wait_list) : wait_list[k] = wait_list'[i]
        BY <1>0, <3>1, <3>3, Zenon DEF In
      <4>2. need_count[wait_list[k]] > token_count
        BY <2>1, <4>1, Zenon DEF PassedOver
      <4>3. need_count'[wait_list'[i]] = need_count[wait_list'[i]]
        BY <2>1, <3>1, <3>3, SMTT(30) DEF TypeOK
      <4> QED BY <2>1, <4>1, <4>2, <4>3, Zenon
    <3> QED BY <3>2, <3>3, Zenon
  <2> QED BY <2>2, Zenon DEF PassedOver
<1>7. SameWaiters' /\ ServiceOrder'
  BY <1>0, Zenon
<1> QED BY <1>1, <1>2, <1>3, <1>4, <1>5, <1>6, <1>7, Zenon
-----------------------------------------------------------------------------
\* The invariant holds before the semaphore exists.
LEMMA InitIInv == Init => IInv
<1> SUFFICES ASSUME Init PROVE IInv
  OBVIOUS
<1>1. TypeOK
  <2>1. /\ allocated \in {"never", "yes", "erased"} /\ is_fifo \in BOOLEAN /\ crashed \in BOOLEAN
        /\ lock \in Threads \cup {None}
    BY Zenon DEF Init
  <2>2. /\ max_count \in 1..MaxCount /\ init_count \in 0..max_count /\ token_count \in 0..max_count
        /\ wait_list \in Seq(Threads) /\ arrival \in Seq(Threads) /\ it \in Nat \ {0}
    BY OrbisSemAssumption, SMTT(30) DEF Init
  <2>3. /\ need_count \in [Threads -> Nat \ {0}] /\ sem \in [Threads -> Nat] /\ charged \in [Threads -> Nat]
        /\ was \in [Threads -> SUBSET Flags] /\ pc \in [Threads -> Labels] /\ result \in [Threads -> Results]
    BY SMTT(30) DEF Init, Labels, Results, Flags
  <2> QED BY <2>1, <2>2, <2>3, Zenon DEF TypeOK
<1>0. \A t \in Threads : pc[t] = "idle" /\ was[t] = {} /\ charged[t] = 0 /\ t # lock
  BY OrbisSemAssumption, Zenon DEF Init
<1>2. LockOK
  <2>1. "idle" # "signaling"
    BY SMTT(30)
  <2> QED BY <1>0, <2>1, Zenon DEF LockOK
<1>3. ListedAreUndecided /\ SameWaiters /\ ServiceOrder /\ PassedOver /\ NobodyYet
  BY SMTT(30) DEF Init, ListedAreUndecided, Blocked, In, SameWaiters, Distinct, ServiceOrder, PassedOver, NobodyYet
<1>4. CallsOK
  <2>1. \A t \in Threads : ~Blocked(t) /\ pc[t] # "returned"
    <3>1. \A t \in Threads : pc[t] = "idle"
      BY <1>0, Zenon
    <3> QED BY <3>1, Zenon DEF Blocked
  <2> QED BY <1>0, <2>1, Zenon DEF CallsOK
<1> QED BY <1>1, <1>2, <1>3, <1>4, Zenon DEF IInv

\* Every step preserves it, and so does stuttering.
LEMMA NextIInv == IInv /\ [Next]_vars => IInv'
<1> SUFFICES ASSUME IInv, [Next]_vars PROVE IInv'
  OBVIOUS
<1>1. CASE UNCHANGED vars
  <2>1. \A x \in Threads : /\ Blocked(x)' <=> Blocked(x)
                           /\ pc'[x] = "returned" <=> pc[x] = "returned"
    BY <1>1, Zenon DEF vars, Blocked
  <2>2. ListedAreUndecided' /\ CallsOK' /\ SameWaiters' /\ ServiceOrder'
    BY <1>1, <2>1, QuietStep, Zenon DEF vars, objVars, waitVars, ghosts
  <2> QED BY <1>1, <2>2, Zenon DEF IInv, vars, objVars, waitVars, ghosts, TypeOK, LockOK, NobodyYet, PassedOver
<1>2. CASE Next
  <2>1. PICK t \in Threads : Create(t) \/ Lookup(t) \/ Step(t) \/ Fault(t)
    BY <1>2, Zenon DEF Next
  <2>2. ASSUME Step(t) PROVE IInv'
    <3>1. ASSUME NEW n \in 1..max_count,
                 WaitTake(t, n) \/ WaitRefuse(t, n) \/ WaitBlock(t, n) \/ SignalRefuse(t, n) \/ SignalAdd(t, n)
          PROVE  IInv'
      BY <3>1, WaitTakeStep, WaitRefuseStep, WaitBlockStep, SignalRefuseStep, SignalAddStep, Zenon
    <3>2. ASSUME Acquire(t) \/ Expire(t) \/ Relock(t) \/ Leave(t) PROVE IInv'
      BY <3>2, AcquireStep, ExpireStep, RelockStep, LeaveStep, Zenon
    <3>3. ASSUME SignalSkip(t) \/ SignalGrant(t) \/ SignalDone(t) PROVE IInv'
      BY <3>3, SignalSkipStep, SignalGrantStep, SignalDoneStep, Zenon
    <3>4. ASSUME NEW n \in -1..max_count, Cancel(t, n) PROVE IInv'
      BY <3>4, CancelStep, Zenon
    <3> QED BY <2>2, <3>1, <3>2, <3>3, <3>4, DeleteStep, EraseSlotStep, Zenon DEF Step
  <2>3. ASSUME Fault(t) PROVE IInv'
    BY <2>3, InvalidIndexStep, UseAfterEraseStep, Zenon DEF Fault
  <2> QED BY <2>1, <2>2, <2>3, CreateStep, LookupStep, Zenon
<1> QED BY <1>1, <1>2, Zenon

\* The strengthened invariant holds in every reachable state.
THEOREM InductiveInvariant == Spec => []IInv
BY InitIInv, NextIInv, PTL DEF Spec

\* wait_list holds exactly the undecided waiters, each once, and token_count stays
\* between zero and max_count, whatever the calls of Wait, Signal, Cancel and Delete
\* and the timeouts that race them.
THEOREM BookkeepingCorrect == Spec => []BookkeepingOK
<1>1. IInv => BookkeepingOK
  BY Zenon DEF IInv, BookkeepingOK
<1> QED BY <1>1, InductiveInvariant, PTL

\* Signal's single pass leaves no waiter behind that the tokens would have served.
THEOREM NobodyLeftBehind == Spec => []NoServableWaiter
<1>1. IInv => NoServableWaiter
  BY Zenon DEF IInv, PassedOver, NoServableWaiter
<1> QED BY <1>1, InductiveInvariant, PTL

\* A wait that blocked pays need_count tokens exactly if it returns ORBIS_OK.
THEOREM PaysIffServed == Spec => []ChargedIffOK
<1>1. IInv => ChargedIffOK
  BY Zenon DEF IInv, CallsOK, ChargedIffOK
<1> QED BY <1>1, InductiveInvariant, PTL

\* Signal serves nobody while a more urgent waiter, or an equal one that came first,
\* could be served with as many tokens: from the order of wait_list and PassedOver.
THEOREM ServesInOrder == Spec => ServedInOrder
<1> DEFINE Fair == \A t, u \in Threads :
              Before(t, u) /\ was[u] = {} /\ was'[u] = {"signaled"} => need_count[t] > need_count[u]
<1>1. ASSUME IInv, [Next]_vars PROVE [Fair]_vars
  <2> SUFFICES ASSUME NEW t \in Threads, NEW u \in Threads,
                      Before(t, u), was[u] = {}, was'[u] = {"signaled"}
               PROVE  need_count[t] > need_count[u]
    BY Zenon
  <2>0. was' # was /\ ~crashed /\ Next
    <3>1. {} # {"signaled"}
      BY SMTT(30)
    <3>2. was' # was
      BY <3>1, Zenon
    <3>3. Next
      BY <1>1, <3>2, Zenon DEF vars, waitVars
    <3> QED BY <3>2, <3>3, Zenon DEF Next
  <2>1. PICK s \in Threads : SignalGrant(s)
    <3>1. PICK s \in Threads : Create(s) \/ Lookup(s) \/ Step(s) \/ Fault(s)
      BY <2>0, Zenon DEF Next
    <3>2. Step(s)
      BY <2>0, <3>1, Zenon DEF Create, Lookup, Fault, InvalidIndex, UseAfterErase, waitVars
    <3>3. was \in [Threads -> SUBSET Flags]
      BY <1>1, Zenon DEF IInv, TypeOK
    <3>4. ASSUME NEW n, WaitBlock(s, n) PROVE FALSE
      <4>1. was'[u] = {}
        BY <3>4, <3>3, SMTT(30) DEF WaitBlock
      <4> QED BY <4>1, SMTT(30)
    <3>5. ~Leave(s)
      <4>1. ASSUME Leave(s) PROVE was'[u] = {}
        BY <4>1, <3>3, SMTT(30) DEF Leave
      <4> QED BY <4>1, SMTT(30)
    <3>6. ASSUME NEW flag \in {"canceled", "deleted"}, ReleaseAll(flag) PROVE FALSE
      <4>1. was'[u] = IF In(u, wait_list) THEN was[u] \cup {flag} ELSE was[u]
        BY <3>6, Zenon DEF ReleaseAll
      <4>2. was'[u] = {} \/ was'[u] = {flag}
        BY <4>1, Zenon
      <4> QED BY <4>2, SMTT(30)
    <3>7. ~(\E n \in -1..max_count : Cancel(s, n)) /\ ~Delete(s)
      BY <3>6, Zenon DEF Cancel, Delete
    <3> QED
      BY <2>0, <3>2, <3>4, <3>5, <3>7, Zenon DEF Step, WaitTake, WaitRefuse, SignalRefuse, SignalAdd, Acquire, Expire,
         Relock, SignalSkip, SignalDone, EraseSlot, waitVars
  <2>2. /\ it \in 1..Len(wait_list) /\ u = wait_list[it] /\ need_count[u] <= token_count
    <3>1. it \in Nat \ {0} /\ it <= Len(wait_list) /\ wait_list \in Seq(Threads)
      BY <1>1, <2>1, Zenon DEF IInv, TypeOK, SignalGrant
    <3>2. it \in 1..Len(wait_list)
      BY <3>1, SeqFacts, SMTT(30)
    <3>3. was' = [was EXCEPT ![wait_list[it]] = @ \cup {"signaled"}] /\ need_count[wait_list[it]] <= token_count
      BY <2>1, Zenon DEF SignalGrant
    <3>4. was \in [Threads -> SUBSET Flags]
      BY <1>1, Zenon DEF IInv, TypeOK
    <3>5. u # wait_list[it] => was'[u] = was[u]
      BY <3>3, <3>4, SMTT(30)
    <3>6. u = wait_list[it]
      <4>1. {} # {"signaled"}
        BY SMTT(30)
      <4> QED BY <3>5, <4>1, Zenon
    <3> QED BY <3>2, <3>3, <3>6, Zenon
  <2>3. /\ In(t, arrival) /\ In(u, arrival)
        /\ IF is_fifo \/ Prio[t] = Prio[u] THEN Pos(arrival, t) < Pos(arrival, u) ELSE Prio[t] < Prio[u]
    BY Zenon DEF Before
  <2>4. PICK k \in 1..Len(wait_list) : wait_list[k] = t
    BY <1>1, <2>3, Zenon DEF IInv, SameWaiters, In
  <2> DEFINE a == Pos(arrival, t)
             b == Pos(arrival, u)
  <2>5. a \in 1..Len(arrival) /\ b \in 1..Len(arrival) /\ arrival[a] = t /\ arrival[b] = u
    BY <2>3, Zenon DEF In, Pos
  <2>6. (is_fifo \/ Prio[t] = Prio[u] => a < b) /\ (~is_fifo /\ Prio[t] # Prio[u] => Prio[t] < Prio[u])
    BY <2>3, Zenon
  <2> HIDE DEF a, b
  <2>7. Prio[t] \in Nat /\ Prio[u] \in Nat /\ a \in Int /\ b \in Int /\ k \in Int /\ it \in Int
    BY <2>2, <2>4, <2>5, OrbisSemAssumption, SMTT(30)
  <2>8. ASSUME it < k PROVE FALSE
    <3>1. Precedes(u, t, b, a)
      BY <1>1, <2>2, <2>4, <2>5, <2>8, Zenon DEF IInv, ServiceOrder
    <3>2. (is_fifo \/ Prio[t] = Prio[u] => b < a) /\ (~is_fifo /\ Prio[t] # Prio[u] => Prio[u] < Prio[t])
      BY <3>1, Zenon DEF Precedes
    <3> QED BY <2>6, <2>7, <3>2, SMTT(30)
  <2>9. ASSUME it = k PROVE FALSE
    <3>1. t = u
      BY <2>2, <2>4, <2>9, Zenon
    <3>2. a = b
      BY <3>1, Zenon DEF a, b
    <3> QED BY <2>6, <2>7, <3>1, <3>2, SMTT(30)
  <2>10. k < it
    BY <2>7, <2>8, <2>9, SMTT(30)
  <2>11. need_count[t] > token_count
    BY <1>1, <2>4, <2>10, Zenon DEF IInv, PassedOver
  <2>12. need_count[t] \in Nat /\ need_count[u] \in Nat /\ token_count \in Nat
    <3>1. need_count \in [Threads -> Nat \ {0}] /\ token_count \in 0..max_count /\ max_count \in 1..MaxCount
      BY <1>1, Zenon DEF IInv, TypeOK
    <3> QED BY <3>1, OrbisSemAssumption, SMTT(30)
  <2> QED BY <2>2, <2>11, <2>12, SMTT(30)
<1> QED BY <1>1, InductiveInvariant, PTL DEF Spec, ServedInOrder
=============================================================================
