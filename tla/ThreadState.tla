----------------------------- MODULE ThreadState -----------------------------
(***************************************************************************)
(* The life of a Pthread object: creation, exit, join, detach, references  *)
(* and the garbage list of                                                 *)
(* src/src/core/libraries/kernel/threads/{pthread,thread_state}.cpp.       *)
(* A host thread n works on the object cur[n].  A step runs up to the next *)
(* mutex, atomic wait or store that another thread can tell apart; what is *)
(* done under a Pthread's lock without blocking is one step.  The lists    *)
(* are sets: nothing reads their order.                                    *)
(***************************************************************************)
EXTENDS Integers, FiniteSets

CONSTANTS
    Natives, Main,     \* host threads, and the one of the guest's main
    Objs, MainObj,     \* the slots of thread_heap (MaxThreads of them)
    GcThreshold, MaxCachedThreads,
    MaxCalls,          \* bound: calls the guest makes altogether
    None

ASSUME ThreadStateAssumption ==
    /\ IsFiniteSet(Natives) /\ Main \in Natives /\ MainObj \in Objs
    /\ None \notin Natives \cup Objs \cup {"exit"}
    /\ GcThreshold \in Nat /\ MaxCachedThreads \in Nat /\ MaxCalls \in Nat

VARIABLES
    threads, gc_list, free_threads, heap,      \* where the objects are
    thread_list_lock, lock,                    \* holders
    refcount, dead, detached, joiner, terminated,  \* fields of each Pthread
    pc, cur, target, op, work,                 \* of each host thread
    stale,       \* ghost: host threads in a call whose object was destroyed
    orphan,      \* ghost: host threads whose own object was destroyed
    calls

lists   == <<threads, gc_list, free_threads, heap>>
fields  == <<refcount, dead, detached, joiner, terminated>>
natives == <<cur, target, op, work>>
ghosts  == <<stale, orphan>>
vars == <<lists, thread_list_lock, lock, fields, pc, natives, ghosts, calls>>

(* A call returns; its locals are gone. *)
Return(n) ==
    /\ pc' = [pc EXCEPT ![n] = "idle"]
    /\ target' = [target EXCEPT ![n] = None]
    /\ op' = [op EXCEPT ![n] = None]
    /\ stale' = stale \ {n}
Goto(n, label) == pc' = [pc EXCEPT ![n] = label]
ShouldCollect(o, refs, isDetached) == refs = 0 /\ dead[o] /\ isDetached

(* Where a call goes when its TryCollect is over: on with the exit, or     *)
(* back to the guest.                                                      *)
EndCollect(n) ==
    IF op[n] = "exit" THEN Goto(n, "terminate") /\ UNCHANGED <<target, op, stale>>
    ELSE Return(n)
-----------------------------------------------------------------------------
(* TryCollect, its first half: entered with the lock of o held and o       *)
(* having refs references.                                                 *)
TryCollect(n, o, refs, isDetached) ==
    IF ShouldCollect(o, refs, isDetached)
    THEN /\ refcount' = [refcount EXCEPT ![o] = refs + 1]
         /\ Goto(n, "collectlist")
         /\ UNCHANGED <<target, op, stale>>
    ELSE refcount' = [refcount EXCEPT ![o] = refs] /\ EndCollect(n)

CollectList(n) ==
    /\ pc[n] = "collectlist" /\ thread_list_lock = None
    /\ thread_list_lock' = n
    /\ Goto(n, "collectlock")
    /\ UNCHANGED <<lists, lock, fields, natives, ghosts, calls>>

\* As CollectLock, but the object stays in the thread list.
CollectLock_KeepListed(n) ==
    LET o == target[n] IN
    /\ pc[n] = "collectlock" /\ lock[o] = None
    /\ lock' = [lock EXCEPT ![o] = n]
    /\ refcount' = [refcount EXCEPT ![o] = @ - 1]
    /\ gc_list' = IF refcount[o] = 1 /\ dead[o] /\ detached[o] THEN gc_list \cup {o} ELSE gc_list
    /\ thread_list_lock' = None
    /\ Goto(n, "collectunlock")
    /\ UNCHANGED <<threads, free_threads, heap, dead, detached, joiner, terminated, natives, ghosts, calls>>

(* Its second half; the list lock goes before the lock of the object.      *)
CollectLock(n) ==
    LET o == target[n] IN
    /\ pc[n] = "collectlock" /\ lock[o] = None
    /\ lock' = [lock EXCEPT ![o] = n]
    /\ refcount' = [refcount EXCEPT ![o] = @ - 1]
    /\ IF refcount[o] = 1 /\ dead[o] /\ detached[o]
       THEN threads' = threads \ {o} /\ gc_list' = gc_list \cup {o}
       ELSE UNCHANGED <<threads, gc_list>>
    /\ thread_list_lock' = None
    /\ Goto(n, "collectunlock")
    /\ UNCHANGED <<free_threads, heap, dead, detached, joiner, terminated, natives, ghosts, calls>>

(* The unlock that ends TryCollect; it clears the mutex whoever holds it.  *)
CollectUnlock(n) ==
    /\ pc[n] = "collectunlock"
    /\ lock' = [lock EXCEPT ![target[n]] = None]
    /\ EndCollect(n)
    /\ UNCHANGED <<lists, thread_list_lock, fields, cur, work, orphan, calls>>
-----------------------------------------------------------------------------
Unborn   == {x \in Natives : pc[x] = "unborn"}
Creating == {"collect", "free", "alloc", "link", "start"}

(* posix_pthread_create_name_np and ThreadState::Alloc *)
Create(n) ==
    /\ pc[n] = "idle" /\ calls > 0
    /\ Cardinality(Unborn) > Cardinality({x \in Natives : pc[x] \in Creating})  \* a bound
    /\ calls' = calls - 1
    /\ Goto(n, IF Cardinality(gc_list) >= GcThreshold THEN "collect" ELSE "alloc")
    /\ UNCHANGED <<lists, thread_list_lock, lock, fields, natives, ghosts>>

\* As Collect, but it does not ask whether the thread is through with its exit.
Collect_AnyTid(n) ==
    /\ pc[n] = "collect" /\ thread_list_lock = None
    /\ work' = [work EXCEPT ![n] = gc_list]
    /\ gc_list' = {}
    /\ Goto(n, "free")
    /\ UNCHANGED <<threads, free_threads, heap, thread_list_lock, lock, fields, cur, target, op, ghosts, calls>>

Collect(n) ==
    /\ pc[n] = "collect" /\ thread_list_lock = None
    /\ work' = [work EXCEPT ![n] = {o \in gc_list : terminated[o]}]
    /\ gc_list' = {o \in gc_list : ~terminated[o]}
    /\ Goto(n, "free")
    /\ UNCHANGED <<threads, free_threads, heap, thread_list_lock, lock, fields, cur, target, op, ghosts, calls>>

(* ThreadState::Free *)
Free(n) ==
    /\ pc[n] = "free"
    /\ \E o \in work[n] :
         /\ work' = [work EXCEPT ![n] = @ \ {o}]
         /\ IF Cardinality(free_threads) >= MaxCachedThreads
            THEN heap' = heap \cup {o} /\ UNCHANGED free_threads
            ELSE free_threads' = free_threads \cup {o} /\ UNCHANGED heap
         /\ stale' = stale \cup {x \in Natives : target[x] = o}
         /\ orphan' = orphan \cup {x \in Natives : cur[x] = o}
    /\ UNCHANGED <<threads, gc_list, thread_list_lock, lock, fields, pc, cur, target, op, calls>>

FreeDone(n) ==
    /\ pc[n] = "free" /\ work[n] = {}
    /\ Goto(n, "alloc")
    /\ UNCHANGED <<lists, thread_list_lock, lock, fields, natives, ghosts, calls>>

(* A cached object or one of the heap (the look at free_threads outside of *)
(* its lock may miss an entry), constructed and filled in.                 *)
Alloc(n) ==
    /\ pc[n] = "alloc"
    /\ \E o \in free_threads \cup heap, d \in BOOLEAN :
         /\ free_threads' = free_threads \ {o} /\ heap' = heap \ {o}
         /\ lock' = [lock EXCEPT ![o] = None]
         /\ refcount' = [refcount EXCEPT ![o] = 1]
         /\ dead' = [dead EXCEPT ![o] = FALSE]
         /\ detached' = [detached EXCEPT ![o] = d]
         /\ joiner' = [joiner EXCEPT ![o] = None]
         /\ terminated' = [terminated EXCEPT ![o] = FALSE]
         /\ target' = [target EXCEPT ![n] = o]
    /\ Goto(n, "link")
    /\ UNCHANGED <<threads, gc_list, thread_list_lock, cur, op, work, ghosts, calls>>

AllocFails(n) ==
    /\ pc[n] = "alloc" /\ free_threads \cup heap = {}
    /\ Return(n)
    /\ UNCHANGED <<lists, thread_list_lock, lock, fields, cur, work, orphan, calls>>

(* CreateStack's use of the list lock, and Link *)
Link(n) ==
    /\ pc[n] = "link" /\ thread_list_lock = None
    /\ threads' = threads \cup {target[n]}
    /\ Goto(n, "start")
    /\ UNCHANGED <<gc_list, free_threads, heap, thread_list_lock, lock, fields, natives, ghosts, calls>>

(* NativeThread::Create *)
Start(n) ==
    /\ pc[n] = "start"
    /\ \E x \in Natives :
         /\ pc[x] = "unborn"
         /\ cur' = [cur EXCEPT ![x] = target[n]]
         /\ pc' = [pc EXCEPT ![x] = "idle", ![n] = "affinity"]
    /\ UNCHANGED <<lists, thread_list_lock, lock, fields, target, op, work, ghosts, calls>>

(* The creator touches the new object once more if a cpuset was given.     *)
SetAffinity(n) ==
    /\ pc[n] = "affinity"
    /\ Return(n)
    /\ UNCHANGED <<lists, thread_list_lock, lock, fields, cur, work, orphan, calls>>
-----------------------------------------------------------------------------
(* ExitThread *)
Exit(n) ==
    LET o == cur[n] IN
    /\ pc[n] = "idle" /\ n # Main
    /\ lock[o] = None
    /\ dead' = [dead EXCEPT ![o] = TRUE]
    /\ target' = [target EXCEPT ![n] = o]
    /\ op' = [op EXCEPT ![n] = "exit"]
    /\ IF refcount[o] = 1 /\ detached[o]
       THEN UNCHANGED refcount /\ Goto(n, "collectlist")
       ELSE refcount' = [refcount EXCEPT ![o] = @ - 1] /\ Goto(n, "terminate")
    /\ UNCHANGED <<lists, thread_list_lock, lock, detached, joiner, terminated, cur, work, ghosts, calls>>

Terminate(n) ==
    /\ pc[n] = "terminate"
    /\ terminated' = [terminated EXCEPT ![cur[n]] = TRUE]
    /\ Goto(n, "notify")
    /\ UNCHANGED <<lists, thread_list_lock, lock, refcount, dead, detached, joiner, natives, ghosts, calls>>

\* As Notify, but nobody is woken.
Notify_Nobody(n) ==
    /\ pc[n] = "notify"
    /\ Goto(n, "nativeexit")
    /\ UNCHANGED <<lists, thread_list_lock, lock, fields, natives, ghosts, calls>>

Notify(n) ==
    /\ pc[n] = "notify"
    /\ pc' = [x \in Natives |->
                 IF x = n THEN "nativeexit"
                 ELSE IF pc[x] = "joinsleep" /\ target[x] = cur[n] THEN "joinwait"
                 ELSE pc[x]]
    /\ UNCHANGED <<lists, thread_list_lock, lock, fields, natives, ghosts, calls>>

(* native_thr.Exit() reads and writes the object a last time; the host     *)
(* thread's name is then free for another.                                 *)
NativeExit(n) ==
    /\ pc[n] = "nativeexit"
    /\ Goto(n, "unborn")
    /\ target' = [target EXCEPT ![n] = None]
    /\ op' = [op EXCEPT ![n] = None]
    /\ cur' = [cur EXCEPT ![n] = None]
    /\ stale' = stale \ {n} /\ orphan' = orphan \ {n}
    /\ UNCHANGED <<lists, thread_list_lock, lock, fields, work, calls>>
-----------------------------------------------------------------------------
(* FindThread, for a call f on o.  A thread that is not in the list, and   *)
(* one that has died where only the living count, is an error return.      *)
Find(n, o, f) ==
    /\ pc[n] = "idle" /\ calls > 0
    /\ thread_list_lock = None
    /\ o \in threads
    /\ f \in {"join", "ref"} => o # cur[n]
    /\ calls' = calls - 1
    /\ thread_list_lock' = n
    /\ target' = [target EXCEPT ![n] = o]
    /\ op' = [op EXCEPT ![n] = f]
    /\ Goto(n, "found")
    /\ UNCHANGED <<lists, lock, fields, cur, work, ghosts>>

(* The thread's lock is had and the list lock released: the call goes on.  *)
FoundFrame(n, f) ==
    /\ pc[n] = "found" /\ op[n] \in f
    /\ lock[target[n]] = None
    /\ thread_list_lock' = None
    /\ UNCHANGED <<lists, lock, dead, terminated, cur, work, orphan, calls>>

Join(n) ==
    LET o == target[n] IN
    /\ FoundFrame(n, {"join"})
    /\ IF detached[o] \/ joiner[o] # None
       THEN UNCHANGED joiner /\ Return(n)
       ELSE /\ joiner' = [joiner EXCEPT ![o] = n]
            /\ Goto(n, "joinwait")
            /\ UNCHANGED <<target, op, stale>>
    /\ UNCHANGED <<refcount, detached>>

\* As Detach, but a thread with a joiner may be detached.
Detach_Joined(n) ==
    LET o == target[n] IN
    /\ FoundFrame(n, {"detach"})
    /\ IF detached[o]
       THEN UNCHANGED <<detached, refcount>> /\ Return(n)
       ELSE /\ detached' = [detached EXCEPT ![o] = TRUE]
            /\ TryCollect(n, o, refcount[o], TRUE)
    /\ UNCHANGED joiner

Detach(n) ==
    LET o == target[n] IN
    /\ FoundFrame(n, {"detach"})
    /\ IF detached[o] \/ joiner[o] # None
       THEN UNCHANGED <<detached, refcount>> /\ Return(n)
       ELSE /\ detached' = [detached EXCEPT ![o] = TRUE]
            /\ TryCollect(n, o, refcount[o], TRUE)
    /\ UNCHANGED joiner

(* posix_pthread_cancel; will_sleep may be either. *)
Cancel(n) ==
    /\ FoundFrame(n, {"cancel"})
    /\ \/ Return(n)
       \/ ~dead[target[n]] /\ Goto(n, "kick") /\ UNCHANGED <<target, op, stale>>
    /\ UNCHANGED <<refcount, detached, joiner>>

(* wake_sema.release() after the lock is gone *)
Kick(n) ==
    /\ pc[n] = "kick"
    /\ Return(n)
    /\ UNCHANGED <<lists, thread_list_lock, lock, fields, cur, work, orphan, calls>>

(* RefAdd, as the calls that read or set the name and the priority use it  *)
RefAdd(n) ==
    LET o == target[n] IN
    /\ FoundFrame(n, {"ref"})
    /\ IF dead[o]
       THEN UNCHANGED refcount /\ Return(n)
       ELSE /\ refcount' = [refcount EXCEPT ![o] = @ + 1]
            /\ Goto(n, "ref")
            /\ UNCHANGED <<target, op, stale>>
    /\ UNCHANGED <<detached, joiner>>

\* As RefDelete, but the last reference does not collect the object.
RefDelete_NoCollect(n) ==
    /\ pc[n] = "ref" /\ lock[target[n]] = None
    /\ refcount' = [refcount EXCEPT ![target[n]] = @ - 1]
    /\ Return(n)
    /\ UNCHANGED <<lists, thread_list_lock, lock, dead, detached, joiner, terminated, cur, work,
                   orphan, calls>>

(* The call's work on the object and RefDelete *)
RefDelete(n) ==
    LET o == target[n] IN
    /\ pc[n] = "ref" /\ lock[o] = None
    /\ UNCHANGED <<lists, thread_list_lock, lock, dead, detached, joiner, terminated, cur, work,
                   orphan, calls>>
    /\ TryCollect(n, o, refcount[o] - 1, detached[o])
-----------------------------------------------------------------------------
(* The loop of JoinThread, of a join without a deadline.                   *)
JoinWait(n) ==
    LET o == target[n] IN
    /\ pc[n] = "joinwait"
    /\ Goto(n, IF terminated[o] THEN "joined" ELSE "joinsleep")
    /\ UNCHANGED <<lists, thread_list_lock, lock, fields, natives, stale, orphan, calls>>

JoinDone(n) ==
    LET o == target[n] IN
    /\ pc[n] = "joined" /\ lock[o] = None
    /\ detached' = [detached EXCEPT ![o] = TRUE]
    /\ joiner' = [joiner EXCEPT ![o] = None]
    /\ UNCHANGED <<lists, thread_list_lock, lock, dead, terminated, cur, work, orphan, calls>>
    /\ TryCollect(n, o, refcount[o], TRUE)
-----------------------------------------------------------------------------
Init ==
    /\ threads = {MainObj} /\ gc_list = {} /\ free_threads = {} /\ heap = Objs \ {MainObj}
    /\ thread_list_lock = None /\ lock = [o \in Objs |-> None]
    /\ refcount = [o \in Objs |-> IF o = MainObj THEN 1 ELSE 0]
    /\ dead = [o \in Objs |-> FALSE]
    /\ detached = [o \in Objs |-> FALSE]
    /\ joiner = [o \in Objs |-> None]
    /\ terminated = [o \in Objs |-> FALSE]
    /\ pc = [n \in Natives |-> IF n = Main THEN "idle" ELSE "unborn"]
    /\ cur = [n \in Natives |-> IF n = Main THEN MainObj ELSE None]
    /\ target = [n \in Natives |-> None]
    /\ op = [n \in Natives |-> None]
    /\ work = [n \in Natives |-> {}]
    /\ stale = {} /\ orphan = {}
    /\ calls = MaxCalls

Calls == {"join", "detach", "cancel", "ref"}
Step(n) ==
    \/ CollectList(n) \/ CollectLock(n) \/ CollectUnlock(n)
    \/ Collect(n) \/ Free(n) \/ FreeDone(n) \/ Alloc(n) \/ AllocFails(n)
    \/ Link(n) \/ Start(n) \/ SetAffinity(n)
    \/ Terminate(n) \/ Notify(n) \/ NativeExit(n)
    \/ Join(n) \/ Detach(n) \/ Cancel(n) \/ Kick(n) \/ RefAdd(n) \/ RefDelete(n)
    \/ JoinWait(n) \/ JoinDone(n)

Next == \E n \in Natives :
    \/ Create(n) \/ Exit(n) \/ \E o \in Objs, f \in Calls : Find(n, o, f)
    \/ Step(n)

Spec == Init /\ [][Next]_vars

\* The host runs every thread, and the bound on the calls keeps any thread from
\* taking a mutex for ever.
LiveSpec == Spec /\ \A n \in Natives : WF_vars(Step(n))
-----------------------------------------------------------------------------
(* Properties                                                              *)

Labels == {"idle", "unborn", "collect", "free", "alloc", "link", "start", "affinity",
           "collectlist", "collectlock", "collectunlock", "terminate", "notify", "nativeexit",
           "found", "joinwait", "joinsleep", "joined", "kick", "ref"}

\* Types; a reference count never goes below zero.
TypeOK ==
    /\ threads \subseteq Objs /\ gc_list \subseteq Objs
    /\ free_threads \subseteq Objs /\ heap \subseteq Objs
    /\ thread_list_lock \in Natives \cup {None}
    /\ lock \in [Objs -> Natives \cup {None}]
    /\ refcount \in [Objs -> Nat]
    /\ dead \in [Objs -> BOOLEAN] /\ detached \in [Objs -> BOOLEAN]
    /\ terminated \in [Objs -> BOOLEAN]
    /\ joiner \in [Objs -> Natives \cup {None}]
    /\ pc \in [Natives -> Labels]
    /\ cur \in [Natives -> Objs \cup {None}] /\ target \in [Natives -> Objs \cup {None}]
    /\ op \in [Natives -> Calls \cup {"exit", None}]
    /\ work \in [Natives -> SUBSET Objs]
    /\ stale \subseteq Natives /\ orphan \subseteq Natives
    /\ calls \in Nat

\* Where an object can be: one of the lists, the local list of a collector, or in the
\* hands of the creator that will link it.
Places == ({"threads", "gc_list", "free_threads", "heap"} \X {None}) \cup ({"work", "new"} \X Natives)
At(o, p) ==
    CASE p[1] = "threads"      -> o \in threads
      [] p[1] = "gc_list"      -> o \in gc_list
      [] p[1] = "free_threads" -> o \in free_threads
      [] p[1] = "heap"         -> o \in heap
      [] p[1] = "work"         -> o \in work[p[2]]
      [] p[1] = "new"          -> pc[p[2]] = "link" /\ target[p[2]] = o

\* Every object is in exactly one place.  So TryCollect never puts an object on the
\* garbage list twice, and Free never destroys one twice.
OnePlace == \A o \in Objs : \E p \in Places : \A q \in Places : At(o, q) <=> q = p

\* The calls that hold a reference to o.
Refs(o) == {n \in Natives : pc[n] \in {"ref", "collectlist", "collectlock"} /\ target[n] = o}

\* The reference count of a listed thread is the number of calls that hold a
\* reference, plus one until it dies.
RefcountExact ==
    \A o \in threads :
        refcount[o] = (IF dead[o] THEN 0 ELSE 1)
                      + Cardinality(Refs(o))

\* Every Pthread object is accounted for: it is in one place, and the references that
\* keep TryCollect from moving it are counted exactly.
ObjectsAccounted == TypeOK /\ OnePlace /\ RefcountExact

\* An object is destroyed under a thread only in the tails of the code that use it
\* without a reference: the unlock that ends TryCollect, the wakeup of cancel, the
\* affinity of a new thread, and the notification and native exit after tid is
\* TidTerminated.
StaleOnlyInTails ==
    /\ \A n \in stale : pc[n] \in {"collectunlock", "kick", "affinity", "notify", "nativeexit"}
    /\ \A n \in orphan : pc[n] \in {"notify", "nativeexit"}

\* A thread somebody waits for in pthread_join stays listed until the joiner itself
\* gives it up: neither detach, nor exit, nor another join collects it.
JoinedStays ==
    \A n \in Natives : pc[n] \in {"joinwait", "joinsleep", "joined"} =>
        target[n] \in threads /\ joiner[target[n]] = n

\* A detached thread that has died leaves the thread list: one of exit, detach,
\* join and the last reference collects it.
DeadIsCollected ==
    \A o \in Objs : (o \in threads /\ dead[o] /\ detached[o]) ~> o \notin threads

\* A joiner whose thread has terminated returns.
JoinReturns ==
    \A n \in Natives :
        (pc[n] = "joinsleep" /\ terminated[target[n]]) ~> pc[n] = "idle"
=============================================================================
