---------------------------- MODULE RwlockProofs ----------------------------
(***************************************************************************)
(* Mutual exclusion, the owner and the read counts, and no sleeper that    *)
(* could have the lock, for any number of threads.                         *)
(*                                                                         *)
(* `readers' is one counter for all the threads: the argument needs that   *)
(* it is the number of the read locks that are out, which is stated with   *)
(* the set Held of those locks, so that a step adds or takes off one       *)
(* element.                                                                *)
(***************************************************************************)
EXTENDS Rwlock, FiniteSetTheorems, TLAPS

\* The read locks that are out: the i-th lock of thread t.
Held == {h \in Threads \X (Nat \ {0}) : h[2] <= reads[h[1]]}

\* SharedFirstMutex::readers counts them.
ReadersExact == IsFiniteSet(Held) /\ readers = Cardinality(Held)

\* Before the object exists, and after it is gone, nobody is past the
\* initialiser and nobody has a lock.
NobodyWithoutObject ==
    /\ rwlock # "object" => \A t \in Threads : pc[t] \in {"idle", "init"} /\ reads[t] = 0
    /\ rwlock = "destroyed" => \A t \in Threads : pc[t] = "idle"

\* writer_active tells whether some thread is inside as a writer.
WriterFlag == writer_active <=> \E t \in Threads : Inside(t)

IInv ==
    /\ TypeOK /\ ReadersExact /\ NobodyWithoutObject /\ WriterFlag
    /\ Exclusion /\ UnlockTakesRightPath /\ ReadCountsExact /\ SleepersLockedOut
-----------------------------------------------------------------------------
\* What `readers' says of the threads: it is zero if and only if nobody reads.
LEMMA ReadersZero ==
    ASSUME TypeOK, ReadersExact
    PROVE  readers = 0 <=> \A t \in Threads : reads[t] = 0
<1>1. readers = 0 <=> Held = {}
  BY FS_EmptySet DEF ReadersExact
<1>2. ASSUME Held = {}, NEW t \in Threads PROVE reads[t] = 0
  <2>1. <<t, 1>> \notin Held
    BY <1>2
  <2>2. ~(1 <= reads[t])
    BY <2>1, SMTT(30) DEF Held
  <2> QED BY <2>2, SMTT(30) DEF TypeOK
<1>3. ASSUME \A t \in Threads : reads[t] = 0 PROVE Held = {}
  BY <1>3, SMTT(30) DEF Held
<1> QED BY <1>1, <1>2, <1>3

\* A read lock given to t is one more lock out.
LEMMA HeldAdd ==
    ASSUME TypeOK, ReadersExact, NEW t \in Threads,
           readers' = readers + 1, reads' = [reads EXCEPT ![t] = @ + 1]
    PROVE  ReadersExact'
<1> DEFINE h == <<t, reads[t] + 1>>
<1>1. reads[t] \in Nat /\ reads \in [Threads -> Nat]
  BY DEF TypeOK
<1>2. Held' = Held \cup {h} /\ h \notin Held
  BY <1>1, SMTT(30) DEF Held
<1> HIDE DEF h
<1>3. IsFiniteSet(Held') /\ Cardinality(Held') = Cardinality(Held) + 1
  BY <1>2, FS_AddElement DEF ReadersExact
<1> QED BY <1>3 DEF ReadersExact

\* A read lock returned by t is one less.
LEMMA HeldRemove ==
    ASSUME TypeOK, ReadersExact, NEW t \in Threads, reads[t] > 0,
           readers' = readers - 1, reads' = [reads EXCEPT ![t] = @ - 1]
    PROVE  ReadersExact' /\ readers' \in Nat
<1> DEFINE h == <<t, reads[t]>>
<1>1. reads[t] \in Nat /\ reads \in [Threads -> Nat]
  BY DEF TypeOK
<1>2. Held' = Held \ {h} /\ h \in Held
  BY <1>1, SMTT(30) DEF Held
<1> HIDE DEF h
<1>3. IsFiniteSet(Held') /\ Cardinality(Held') = Cardinality(Held) - 1
  BY <1>2, FS_RemoveElement DEF ReadersExact
<1>4. Cardinality(Held') \in Nat
  BY <1>3, FS_CardinalityType
<1> QED BY <1>3, <1>4 DEF ReadersExact

\* Held changes with reads only.
LEMMA HeldSame ==
    ASSUME ReadersExact, UNCHANGED <<readers, reads>>
    PROVE  ReadersExact'
BY DEF ReadersExact, Held
-----------------------------------------------------------------------------
\* The first user, or pthread_rwlock_init, makes the lock while nobody has it.
LEMMA FreshLock ==
    ASSUME IInv, rwlock # "object", UNCHANGED reads, readers' = 0
    PROVE  ReadersExact'
<1>1. \A t \in Threads : reads[t] = 0
  BY DEF IInv, NobodyWithoutObject
<1>2. readers = 0
  BY <1>1, ReadersZero DEF IInv
<1> QED BY <1>2, HeldSame DEF IInv

\* The invariant holds before the first call.
LEMMA InitIInv == Init => IInv
<1> SUFFICES ASSUME Init PROVE IInv
  OBVIOUS
<1>1. Held = {}
  BY SMTT(30) DEF Init, Held
<1>2. ReadersExact
  BY <1>1, FS_EmptySet DEF ReadersExact, Init
<1>3. TypeOK
  BY DEF Init, TypeOK
<1> QED
  BY <1>2, <1>3, RwlockAssumption DEF Init, IInv, NobodyWithoutObject, WriterFlag, Exclusion, Inside,
     UnlockTakesRightPath, ReadCountsExact, SleepersLockedOut

\* A call looks whether the object is there.
LEMMA CallStep ==
    ASSUME IInv, NEW t \in Threads, NEW kind \in {"rd", "wr"}, Call(t, kind)
    PROVE  IInv'
<1> USE DEF IInv
<1>1. ReadersExact'
  BY HeldSame DEF Call, lockVars
<1>2. TypeOK'
  BY SMTT(30) DEF TypeOK, Call, Goto, lockVars, WriteFree, ReadFree
<1>3. NobodyWithoutObject' /\ WriterFlag'
  BY SMTT(30) DEF TypeOK, Call, Goto, lockVars, NobodyWithoutObject, WriterFlag, Inside
<1>4. Exclusion'
  BY SMTT(30) DEF TypeOK, Call, Goto, lockVars, WriteFree, ReadFree, NobodyWithoutObject, WriterFlag, Exclusion, Inside
<1>5. UnlockTakesRightPath' /\ ReadCountsExact'
  BY <1>4, RwlockAssumption, SMTT(30) DEF TypeOK, Call, Goto, lockVars, WriteFree, ReadFree, NobodyWithoutObject, WriterFlag,
     Exclusion, Inside, UnlockTakesRightPath, ReadCountsExact
<1>6. SleepersLockedOut'
  BY SMTT(30) DEF TypeOK, Call, Goto, lockVars, NobodyWithoutObject, SleepersLockedOut, Free, WriteFree, ReadFree
<1> QED BY <1>1, <1>2, <1>3, <1>4, <1>5, <1>6

\* The static initialiser: the second look under RwlockStaticLock finds the object
\* of a racing thread and leaves it alone.
LEMMA InitStaticStep ==
    ASSUME IInv, NEW t \in Threads, InitStatic(t)
    PROVE  IInv'
<1> USE DEF IInv
<1>1. ReadersExact'
  BY HeldSame, FreshLock DEF InitStatic, lockVars
<1>2. TypeOK'
  <2>1. writer_active' \in BOOLEAN
    BY Zenon DEF TypeOK, InitStatic, lockVars
  <2> QED BY <2>1, SMTT(30) DEF TypeOK, InitStatic, Goto, lockVars
<1>3. NobodyWithoutObject' /\ WriterFlag'
  BY SMTT(30) DEF TypeOK, InitStatic, Goto, lockVars, NobodyWithoutObject, WriterFlag, Inside
<1>4. Exclusion'
  BY SMTT(30) DEF TypeOK, InitStatic, Goto, lockVars, WriteFree, ReadFree, NobodyWithoutObject, WriterFlag, Exclusion, Inside
<1>5. UnlockTakesRightPath' /\ ReadCountsExact'
  BY <1>4, RwlockAssumption, SMTT(30) DEF TypeOK, InitStatic, Goto, lockVars, WriteFree, ReadFree, NobodyWithoutObject, WriterFlag,
     Exclusion, Inside, UnlockTakesRightPath, ReadCountsExact
<1>6. SleepersLockedOut'
  BY SMTT(30) DEF TypeOK, InitStatic, Goto, lockVars, NobodyWithoutObject, SleepersLockedOut, Free, WriteFree, ReadFree
<1> QED BY <1>1, <1>2, <1>3, <1>4, <1>5, <1>6

\* pthread_rwlock_init.
LEMMA RwlockInitStep ==
    ASSUME IInv, NEW t \in Threads, RwlockInit(t)
    PROVE  IInv'
<1> USE DEF IInv
<1>1. ReadersExact'
  BY FreshLock DEF RwlockInit, lockVars
<1>2. TypeOK'
  <2>1. writer_active' \in BOOLEAN
    BY Zenon DEF TypeOK, RwlockInit, lockVars
  <2> QED BY <2>1, SMTT(30) DEF TypeOK, RwlockInit, Goto, lockVars
<1>3. NobodyWithoutObject' /\ WriterFlag'
  BY SMTT(30) DEF TypeOK, RwlockInit, Goto, lockVars, NobodyWithoutObject, WriterFlag, Inside
<1>4. Exclusion'
  BY SMTT(30) DEF TypeOK, RwlockInit, Goto, lockVars, WriteFree, ReadFree, NobodyWithoutObject, WriterFlag, Exclusion, Inside
<1>5. UnlockTakesRightPath' /\ ReadCountsExact'
  BY <1>4, RwlockAssumption, SMTT(30) DEF TypeOK, RwlockInit, Goto, lockVars, WriteFree, ReadFree, NobodyWithoutObject, WriterFlag,
     Exclusion, Inside, UnlockTakesRightPath, ReadCountsExact
<1>6. SleepersLockedOut'
  BY SMTT(30) DEF TypeOK, RwlockInit, Goto, lockVars, NobodyWithoutObject, SleepersLockedOut, Free, WriteFree, ReadFree
<1> QED BY <1>1, <1>2, <1>3, <1>4, <1>5, <1>6

\* pthread_rwlock_destroy.
LEMMA DestroyStep ==
    ASSUME IInv, NEW t \in Threads, Destroy(t)
    PROVE  IInv'
<1> USE DEF IInv
<1>1. ReadersExact'
  BY HeldSame DEF Destroy, lockVars
<1>2. TypeOK'
  BY SMTT(30) DEF TypeOK, Destroy, Goto, lockVars, WriteFree, ReadFree
<1>3. NobodyWithoutObject' /\ WriterFlag'
  BY SMTT(30) DEF TypeOK, Destroy, Goto, lockVars, NobodyWithoutObject, WriterFlag, Inside
<1>4. Exclusion'
  BY SMTT(30) DEF TypeOK, Destroy, Goto, lockVars, WriteFree, ReadFree, NobodyWithoutObject, WriterFlag, Exclusion, Inside
<1>5. UnlockTakesRightPath' /\ ReadCountsExact'
  BY <1>4, RwlockAssumption, SMTT(30) DEF TypeOK, Destroy, Goto, lockVars, WriteFree, ReadFree, NobodyWithoutObject, WriterFlag,
     Exclusion, Inside, UnlockTakesRightPath, ReadCountsExact
<1>6. SleepersLockedOut'
  BY SMTT(30) DEF TypeOK, Destroy, Goto, lockVars, NobodyWithoutObject, SleepersLockedOut, Free, WriteFree, ReadFree
<1> QED BY <1>1, <1>2, <1>3, <1>4, <1>5, <1>6

\* A reader gets in: no writer is inside, and no writer that sleeps could have had
\* the lock.
LEMMA LockSharedStep ==
    ASSUME IInv, NEW t \in Threads, LockShared(t)
    PROVE  IInv'
<1> USE DEF IInv
<1>1. ReadersExact'
  BY HeldAdd DEF LockShared, lockVars
<1>2. TypeOK'
  BY SMTT(30) DEF TypeOK, LockShared, Goto, lockVars, WriteFree, ReadFree
<1>3. NobodyWithoutObject' /\ WriterFlag'
  BY SMTT(30) DEF TypeOK, LockShared, Goto, lockVars, NobodyWithoutObject, WriterFlag, Inside
<1>4. Exclusion'
  BY SMTT(30) DEF TypeOK, LockShared, Goto, lockVars, WriteFree, ReadFree, NobodyWithoutObject, WriterFlag, Exclusion, Inside
<1>5. UnlockTakesRightPath' /\ ReadCountsExact'
  BY <1>4, RwlockAssumption, SMTT(30) DEF TypeOK, LockShared, Goto, lockVars, WriteFree, ReadFree, NobodyWithoutObject, WriterFlag,
     Exclusion, Inside, UnlockTakesRightPath, ReadCountsExact
<1>6. SleepersLockedOut'
  BY SMTT(30) DEF TypeOK, LockShared, Goto, lockVars, NobodyWithoutObject, SleepersLockedOut, Free, WriteFree, ReadFree
<1> QED BY <1>1, <1>2, <1>3, <1>4, <1>5, <1>6

\* A writer gets in: nobody is inside and no read lock is out.
LEMMA LockStep ==
    ASSUME IInv, NEW t \in Threads, Lock(t)
    PROVE  IInv'
<1> USE DEF IInv
<1>1. ReadersExact'
  BY HeldSame DEF Lock, lockVars
<1>2. TypeOK'
  BY SMTT(30) DEF TypeOK, Lock, Goto, lockVars, WriteFree, ReadFree
<1>3. NobodyWithoutObject' /\ WriterFlag'
  BY SMTT(30) DEF TypeOK, Lock, Goto, lockVars, NobodyWithoutObject, WriterFlag, Inside
<1>4. Exclusion'
  BY ReadersZero, SMTT(30) DEF TypeOK, Lock, Goto, lockVars, WriteFree, ReadFree, NobodyWithoutObject, WriterFlag, Exclusion, Inside
<1>5. UnlockTakesRightPath' /\ ReadCountsExact'
  BY <1>4, RwlockAssumption, ReadersZero, SMTT(30) DEF TypeOK, Lock, Goto, lockVars, WriteFree, ReadFree, NobodyWithoutObject, WriterFlag,
     Exclusion, Inside, UnlockTakesRightPath, ReadCountsExact
<1>6. SleepersLockedOut'
  BY SMTT(30) DEF TypeOK, Lock, Goto, lockVars, NobodyWithoutObject, SleepersLockedOut, Free, WriteFree, ReadFree
<1> QED BY <1>1, <1>2, <1>3, <1>4, <1>5, <1>6

\* The writer becomes the owner one step after it got in.
LEMMA SetOwnerStep ==
    ASSUME IInv, NEW t \in Threads, SetOwner(t)
    PROVE  IInv'
<1> USE DEF IInv
<1>1. ReadersExact'
  BY HeldSame DEF SetOwner, lockVars
<1>2. TypeOK'
  BY SMTT(30) DEF TypeOK, SetOwner, Goto, lockVars, WriteFree, ReadFree
<1>3. NobodyWithoutObject' /\ WriterFlag'
  BY SMTT(30) DEF TypeOK, SetOwner, Goto, lockVars, NobodyWithoutObject, WriterFlag, Inside
<1>4. Exclusion'
  BY SMTT(30) DEF TypeOK, SetOwner, Goto, lockVars, WriteFree, ReadFree, NobodyWithoutObject, WriterFlag, Exclusion, Inside
<1>5. UnlockTakesRightPath' /\ ReadCountsExact'
  BY <1>4, RwlockAssumption, SMTT(30) DEF TypeOK, SetOwner, Goto, lockVars, WriteFree, ReadFree, NobodyWithoutObject, WriterFlag,
     Exclusion, Inside, UnlockTakesRightPath, ReadCountsExact
<1>6. SleepersLockedOut'
  BY SMTT(30) DEF TypeOK, SetOwner, Goto, lockVars, NobodyWithoutObject, SleepersLockedOut, Free, WriteFree, ReadFree
<1> QED BY <1>1, <1>2, <1>3, <1>4, <1>5, <1>6

\* A thread goes to sleep because it may not have the lock.
LEMMA BlockStep ==
    ASSUME IInv, NEW t \in Threads, Block(t)
    PROVE  IInv'
<1> USE DEF IInv
<1>1. ReadersExact'
  BY HeldSame DEF Block, lockVars
<1>2. TypeOK'
  BY SMTT(30) DEF TypeOK, Block, Goto, lockVars, WriteFree, ReadFree
<1>3. NobodyWithoutObject' /\ WriterFlag'
  BY SMTT(30) DEF TypeOK, Block, Goto, lockVars, NobodyWithoutObject, WriterFlag, Inside
<1>4. Exclusion'
  BY SMTT(30) DEF TypeOK, Block, Goto, lockVars, WriteFree, ReadFree, NobodyWithoutObject, WriterFlag, Exclusion, Inside
<1>5. UnlockTakesRightPath' /\ ReadCountsExact'
  BY <1>4, RwlockAssumption, SMTT(30) DEF TypeOK, Block, Goto, lockVars, WriteFree, ReadFree, NobodyWithoutObject, WriterFlag,
     Exclusion, Inside, UnlockTakesRightPath, ReadCountsExact
<1>6. SleepersLockedOut'
  BY SMTT(30) DEF TypeOK, Block, Goto, lockVars, NobodyWithoutObject, SleepersLockedOut, Free, WriteFree, ReadFree
<1> QED BY <1>1, <1>2, <1>3, <1>4, <1>5, <1>6

\* A thread gives up.
LEMMA GiveUpStep ==
    ASSUME IInv, NEW t \in Threads, GiveUp(t)
    PROVE  IInv'
<1> USE DEF IInv
<1>1. ReadersExact'
  BY HeldSame DEF GiveUp, lockVars
<1>2. TypeOK'
  BY SMTT(30) DEF TypeOK, GiveUp, Goto, lockVars, WriteFree, ReadFree
<1>3. NobodyWithoutObject' /\ WriterFlag'
  BY SMTT(30) DEF TypeOK, GiveUp, Goto, lockVars, NobodyWithoutObject, WriterFlag, Inside
<1>4. Exclusion'
  BY SMTT(30) DEF TypeOK, GiveUp, Goto, lockVars, WriteFree, ReadFree, NobodyWithoutObject, WriterFlag, Exclusion, Inside
<1>5. UnlockTakesRightPath' /\ ReadCountsExact'
  BY <1>4, RwlockAssumption, SMTT(30) DEF TypeOK, GiveUp, Goto, lockVars, WriteFree, ReadFree, NobodyWithoutObject, WriterFlag,
     Exclusion, Inside, UnlockTakesRightPath, ReadCountsExact
<1>6. SleepersLockedOut'
  BY SMTT(30) DEF TypeOK, GiveUp, Goto, lockVars, NobodyWithoutObject, SleepersLockedOut, Free, WriteFree, ReadFree
<1> QED BY <1>1, <1>2, <1>3, <1>4, <1>5, <1>6

\* The owner gives up its ownership.
LEMMA UnlockWriteStep ==
    ASSUME IInv, NEW t \in Threads, UnlockWrite(t)
    PROVE  IInv'
<1> USE DEF IInv
<1>1. ReadersExact'
  BY HeldSame DEF UnlockWrite, lockVars
<1>2. TypeOK'
  BY SMTT(30) DEF TypeOK, UnlockWrite, Goto, lockVars, WriteFree, ReadFree
<1>3. NobodyWithoutObject' /\ WriterFlag'
  BY SMTT(30) DEF TypeOK, UnlockWrite, Goto, lockVars, NobodyWithoutObject, WriterFlag, Inside
<1>4. Exclusion'
  BY SMTT(30) DEF TypeOK, UnlockWrite, Goto, lockVars, WriteFree, ReadFree, NobodyWithoutObject, WriterFlag, Exclusion, Inside
<1>5. UnlockTakesRightPath' /\ ReadCountsExact'
  BY <1>4, RwlockAssumption, SMTT(30) DEF TypeOK, UnlockWrite, Goto, lockVars, WriteFree, ReadFree, NobodyWithoutObject, WriterFlag,
     Exclusion, Inside, UnlockTakesRightPath, ReadCountsExact
<1>6. SleepersLockedOut'
  BY SMTT(30) DEF TypeOK, UnlockWrite, Goto, lockVars, NobodyWithoutObject, SleepersLockedOut, Free, WriteFree, ReadFree
<1> QED BY <1>1, <1>2, <1>3, <1>4, <1>5, <1>6

\* The writer leaves and wakes every sleeper.
LEMMA UnlockStep ==
    ASSUME IInv, NEW t \in Threads, Unlock(t)
    PROVE  IInv'
<1> USE DEF IInv
<1>1. ReadersExact'
  BY HeldSame DEF Unlock, lockVars
<1>2. TypeOK'
  <2>1. writer_active' \in BOOLEAN
    BY Zenon DEF Unlock
  <2> QED BY <2>1, SMTT(30) DEF TypeOK, Unlock, NotifyAll
<1>3. NobodyWithoutObject' /\ WriterFlag'
  BY SMTT(30) DEF TypeOK, Unlock, Goto, NotifyAll, lockVars, NobodyWithoutObject, WriterFlag, Exclusion, Inside
<1>4. Exclusion'
  BY SMTT(30) DEF TypeOK, Unlock, Goto, NotifyAll, lockVars, WriteFree, ReadFree, NobodyWithoutObject, WriterFlag, Exclusion, Inside
<1>5. UnlockTakesRightPath' /\ ReadCountsExact'
  BY <1>4, RwlockAssumption, SMTT(30) DEF TypeOK, Unlock, Goto, NotifyAll, lockVars, WriteFree, ReadFree, NobodyWithoutObject, WriterFlag,
     Exclusion, Inside, UnlockTakesRightPath, ReadCountsExact
<1>6. SleepersLockedOut'
  BY SMTT(30) DEF TypeOK, Unlock, Goto, NotifyAll, lockVars, NobodyWithoutObject, SleepersLockedOut, Free, WriteFree, ReadFree
<1> QED BY <1>1, <1>2, <1>3, <1>4, <1>5, <1>6

\* A reader leaves; the last one wakes every sleeper.
LEMMA UnlockReadStep ==
    ASSUME IInv, NEW t \in Threads, UnlockRead(t)
    PROVE  IInv'
<1> USE DEF IInv
<1>1. ReadersExact' /\ readers' \in Nat
  BY HeldRemove DEF UnlockRead
<1>2. /\ reads' = [reads EXCEPT ![t] = @ - 1] /\ reads[t] > 0 /\ reads' \in [Threads -> Nat]
      /\ owner = None /\ ~writer_active /\ rdlock_count' = reads'
  <2>1. /\ reads' = [reads EXCEPT ![t] = @ - 1] /\ reads[t] > 0
        /\ rdlock_count' = [rdlock_count EXCEPT ![t] = IF owner = None THEN @ - 1 ELSE @]
    BY Zenon DEF UnlockRead
  <2>2. owner = None /\ ~writer_active
    BY <2>1, Zenon DEF UnlockTakesRightPath
  <2>3. reads' \in [Threads -> Nat]
    BY <2>1, SMTT(30) DEF TypeOK
  <2> QED BY <2>1, <2>2, <2>3, Zenon DEF ReadCountsExact
<1>3. /\ pc' \in [Threads -> {"idle", "init", "lock", "waiting", "notified", "own", "writing", "unlock"}]
      /\ \A x \in Threads : pc'[x] = IF readers' = 0 /\ pc[x] = "waiting" THEN "notified" ELSE pc[x]
  BY SMTT(30) DEF TypeOK, UnlockRead, NotifyAll
<1>4. UNCHANGED <<rwlock, writer_active, owner, op>> /\ rwlock = "object"
  BY Zenon DEF UnlockRead
<1>5. TypeOK'
  BY <1>1, <1>2, <1>3, <1>4, Zenon DEF TypeOK
<1>6. NobodyWithoutObject' /\ WriterFlag'
  BY <1>3, <1>4, SMTT(30) DEF TypeOK, NobodyWithoutObject, WriterFlag, Inside
<1>7. Exclusion'
  BY <1>2, <1>3, <1>4, SMTT(30) DEF TypeOK, WriterFlag, Exclusion, Inside
<1>8. UnlockTakesRightPath' /\ ReadCountsExact'
  BY <1>2, <1>3, <1>4, RwlockAssumption, SMTT(30) DEF TypeOK, WriterFlag, Inside, UnlockTakesRightPath, ReadCountsExact
<1>9. SleepersLockedOut'
  BY <1>1, <1>2, <1>3, <1>4, SMTT(30) DEF TypeOK, SleepersLockedOut, Free, WriteFree, ReadFree
<1> QED BY <1>1, <1>5, <1>6, <1>7, <1>8, <1>9

\* Every step preserves it, and so does stuttering.
LEMMA NextIInv == IInv /\ [Next]_vars => IInv'
<1> SUFFICES ASSUME IInv, [Next]_vars PROVE IInv'
  OBVIOUS
<1>1. CASE UNCHANGED vars
  <2>1. ReadersExact'
    BY <1>1, HeldSame DEF IInv, vars, lockVars
  <2> QED
    BY <1>1, <2>1, Zenon DEF IInv, vars, lockVars, TypeOK, NobodyWithoutObject, WriterFlag, Exclusion, Inside,
       UnlockTakesRightPath, ReadCountsExact, SleepersLockedOut, Free, WriteFree, ReadFree
<1>2. CASE Next
  <2>1. PICK t \in Threads :
           \/ Step(t) \/ (\E kind \in {"rd", "wr"} : Call(t, kind)) \/ RwlockInit(t) \/ Destroy(t)
           \/ UnlockWrite(t) \/ UnlockRead(t)
    BY <1>2, Zenon DEF Next
  <2>2. ASSUME Step(t) PROVE IInv'
    BY <2>2, InitStaticStep, LockSharedStep, LockStep, SetOwnerStep, BlockStep, GiveUpStep, UnlockStep, Zenon DEF Step
  <2> QED
    BY <2>1, <2>2, CallStep, RwlockInitStep, DestroyStep, UnlockWriteStep, UnlockReadStep, Zenon
<1> QED BY <1>1, <1>2

\* The strengthened invariant holds in every reachable state.
THEOREM InductiveInvariant == Spec => []IInv
BY InitIInv, NextIInv, PTL DEF Spec

\* At most one writer is inside, and none together with a reader, for any number of
\* threads racing through the static initialiser, the lock calls and the unlocks.
THEOREM WritersExclude == Spec => []Exclusion
<1>1. IInv => Exclusion
  BY DEF IInv
<1> QED BY <1>1, InductiveInvariant, PTL

\* pthread_rwlock_unlock always takes the path of the lock its caller holds, and the
\* counts of read locks are exact, although owner and rdlock_count are written
\* outside of the lock's mutex.
THEOREM OwnershipCorrect == Spec => []OwnershipOK
<1>1. IInv => OwnershipOK
  BY DEF IInv, OwnershipOK
<1> QED BY <1>1, InductiveInvariant, PTL

\* No thread sleeps on the condition variable, with no notification on its way, while
\* it could have the lock: the two notify_all() are enough.
THEOREM NoLostNotification == Spec => []SleepersLockedOut
<1>1. IInv => SleepersLockedOut
  BY DEF IInv
<1> QED BY <1>1, InductiveInvariant, PTL
=============================================================================
