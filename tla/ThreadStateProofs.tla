-------------------------- MODULE ThreadStateProofs --------------------------
(***************************************************************************)
(* Proofs about ThreadState: what happens to a Pthread object and to the   *)
(* calls that hold it, for any number of host threads and objects and any  *)
(* thresholds of the garbage list.                                         *)
(*                                                                         *)
(* The inductive invariant has two halves.  Shape says where every object  *)
(* is and what each label of a host thread promises about its object; it   *)
(* is kept by each step given Counted, the little it needs to know about   *)
(* the reference counts.  RefcountExact, which gives Counted, is kept      *)
(* given Shape.                                                            *)
(***************************************************************************)
EXTENDS ThreadState, TLAPS

\* The labels of a host thread, by what they promise about its object:
\* holding a reference to it, joining it, finding it in the thread list, making it,
\* working on none, past the store to tid, in pthread_exit, not looking at it again.
Holding == {"ref", "collectlist", "collectlock"}
Joining == {"joinwait", "joinsleep", "joined"}
Listed  == Holding \cup Joining \cup {"found", "start"}
Fresh   == {"link", "start"}
Bare    == {"idle", "unborn", "collect", "free", "alloc"}
Last    == {"notify", "nativeexit"}
Exiting == Last \cup {"collectlist", "collectlock", "collectunlock", "terminate"}
Tails   == Last \cup {"collectunlock", "kick", "affinity"}

\* The lists an object can be in.
Shelves == threads \cup gc_list \cup free_threads \cup heap

\* No object is in two places.
Apart ==
    /\ threads \cap gc_list = {} /\ threads \cap free_threads = {} /\ threads \cap heap = {}
    /\ gc_list \cap free_threads = {} /\ gc_list \cap heap = {} /\ free_threads \cap heap = {}
    /\ \A n \in Natives : work[n] \cap Shelves = {}
    /\ \A n, m \in Natives : n # m => work[n] \cap work[m] = {}
    /\ \A n \in Natives : pc[n] = "link" => target[n] \notin Shelves
    /\ \A n, m \in Natives : pc[n] = "link" => target[n] \notin work[m]
    /\ \A n, m \in Natives : pc[n] = "link" /\ pc[m] = "link" /\ target[m] = target[n] => m = n

\* Every object is in one.
Somewhere ==
    \A o \in Objs : \/ o \in Shelves
                    \/ \E n \in Natives : o \in work[n] \/ (pc[n] = "link" /\ target[n] = o)

\* The locals of a call, and who holds thread_list_lock.
LocalOK(n) ==
      /\ pc[n] \in Bare => target[n] = None /\ op[n] = None
      /\ pc[n] \notin Bare => target[n] \in Objs
      /\ pc[n] \in {"link", "start", "affinity"} => op[n] = None
      /\ pc[n] = "found" => op[n] \in Calls
      /\ pc[n] \in Joining => op[n] = "join"
      /\ pc[n] = "ref" => op[n] = "ref"
      /\ pc[n] = "kick" => op[n] = "cancel"
      /\ pc[n] \in {"terminate"} \cup Last => op[n] = "exit"
      /\ op[n] = "exit" => target[n] = cur[n] /\ pc[n] \in Exiting
      /\ pc[n] # "free" => work[n] = {}
      /\ (pc[n] = "unborn") <=> (cur[n] = None)
      /\ pc[n] \in {"found", "collectlock"} <=> thread_list_lock = n

\* An object in use by a call that found, references or joins it is listed.
TargetOK(n) ==
      /\ pc[n] \in Listed => target[n] \in threads
      /\ pc[n] \in Joining => joiner[target[n]] = n

\* An object posix_pthread_create_name_np makes belongs to its creator alone.
FreshOK(n) ==
   pc[n] \in Fresh =>
      /\ ~dead[target[n]] /\ ~terminated[target[n]]
      /\ pc[n] = "link" => refcount[target[n]] = 1
      /\ \A m \in Natives : m # n /\ pc[m] \in Fresh => target[m] # target[n]
      /\ \A m \in Natives : cur[m] = target[n] => m \in orphan

\* The object of a host thread that has not been destroyed: dead from the
\* exit on, terminated from the store to tid on, listed as long as it lives.
OwnerOK(n) ==
   cur[n] # None /\ n \notin orphan =>
      /\ dead[cur[n]] <=> op[n] = "exit"
      /\ terminated[cur[n]] <=> pc[n] \in Last
      /\ ~dead[cur[n]] => cur[n] \in threads
      /\ cur[n] \notin free_threads \cup heap
      /\ \A m \in Natives : m # n /\ cur[m] = cur[n] => m \in orphan

\* A thread with a joiner is not detached, so that ShouldCollect spares it.
JoinerOK == \A o \in Objs : joiner[o] # None => ~detached[o]

\* Collect takes only terminated threads off the garbage list.
WorkOK == \A n \in Natives : \A o \in work[n] : terminated[o]

\* Who may outlive its object, and where.
GhostOK ==
     /\ \A n \in stale : pc[n] \in Tails /\ (op[n] = "exit" => n \in orphan)
     /\ \A n \in orphan : pc[n] \in Last

\* The parts above, for every host thread.
Locals == \A n \in Natives : LocalOK(n)
Targets == \A n \in Natives : TargetOK(n)
Freshs == \A n \in Natives : FreshOK(n)
Owners == \A n \in Natives : OwnerOK(n)

\* What the exact counts say to the other parts: a call that holds a reference is
\* counted, and nobody else is when it is the last; a thread that runs is counted.
Holds(m, o) == pc[m] \in Holding /\ target[m] = o
Counted ==
    \A n \in Natives :
      /\ pc[n] \in Holding =>
            /\ refcount[target[n]] \in Nat \ {0}
            /\ refcount[target[n]] = 1 => \A m \in Natives : Holds(m, target[n]) => m = n
      /\ pc[n] = "idle" => refcount[cur[n]] \in Nat \ {0}

\* The first half of the invariant, and the whole of it.
Shape == TypeOK /\ Apart /\ Somewhere /\ Locals /\ Targets /\ Freshs /\ Owners /\ JoinerOK /\ WorkOK /\ GhostOK
IInv == Shape /\ RefcountExact
-----------------------------------------------------------------------------
(* Frames: what a step must leave alone to keep a part of the invariant.   *)

\* The locals of m are about its own variables and thread_list_lock.
LEMMA LocalFrame ==
    ASSUME NEW m \in Natives, LocalOK(m),
           pc'[m] = pc[m], target'[m] = target[m], op'[m] = op[m], cur'[m] = cur[m], work'[m] = work[m],
           (thread_list_lock' = m) <=> (thread_list_lock = m)
    PROVE  LocalOK(m)'
BY Zenon DEF LocalOK

\* Owners is about the fields dead and terminated, and the lists.
LEMMA OwnersFrame ==
    ASSUME TypeOK, Owners, cur' = cur, orphan' = orphan,
           \A o \in Objs : dead'[o] = dead[o] /\ terminated'[o] = terminated[o],
           free_threads' = free_threads, heap' = heap,
           \A o \in threads : dead[o] \/ o \in threads',
           \A m \in Natives : /\ (op'[m] = "exit") <=> (op[m] = "exit")
                              /\ (pc'[m] \in Last) <=> (pc[m] \in Last)
    PROVE  Owners'
<1> SUFFICES ASSUME NEW m \in Natives, cur[m] # None, m \notin orphan
             PROVE  OwnerOK(m)'
  BY Zenon DEF Owners, OwnerOK
<1>1. OwnerOK(m) /\ cur[m] \in Objs
  BY Zenon DEF Owners, TypeOK
<1> QED BY <1>1, Zenon DEF OwnerOK

\* The places are the lists, the work lists and the objects being made.
LEMMA PlacesFrame ==
    ASSUME Apart, Somewhere, UNCHANGED <<threads, gc_list, free_threads, heap, work>>,
           \A m \in Natives : (pc'[m] = "link") <=> (pc[m] = "link"),
           \A m \in Natives : pc[m] = "link" => target'[m] = target[m]
    PROVE  Apart' /\ Somewhere'
<1>1. Apart'
  BY Zenon DEF Apart, Shelves
<1>2. Somewhere'
  BY Zenon DEF Somewhere, Shelves
<1> QED BY <1>1, <1>2, Zenon

\* An object being made stays as it is as long as nobody touches it.
LEMMA FreshFrame ==
    ASSUME TypeOK, Locals, Freshs, Targets, Apart,
           \A m \in Natives : pc'[m] \in Fresh => pc'[m] = pc[m] /\ target'[m] = target[m],
           \A m \in Natives : cur'[m] # None => cur'[m] = cur[m],
           \A m \in Natives : cur'[m] # None /\ m \in orphan => m \in orphan',
           \A m \in Natives : pc'[m] \in Fresh =>
               /\ dead'[target[m]] = dead[target[m]] /\ terminated'[target[m]] = terminated[target[m]]
               /\ pc[m] = "link" => refcount'[target[m]] = refcount[target[m]]
    PROVE  Freshs'
<1> SUFFICES ASSUME NEW m \in Natives, pc'[m] \in Fresh PROVE FreshOK(m)'
  BY Zenon DEF Freshs, FreshOK
<1>1. FreshOK(m) /\ target[m] \in Objs /\ pc[m] \in Fresh
  BY Zenon DEF Freshs, Locals, LocalOK, Fresh, Bare
<1> QED BY <1>1, ThreadStateAssumption, ZenonT(30) DEF FreshOK, ThreadStateAssumption

(* A step of n within a call: nothing but n's place in the call, the locks *)
(* and the fields that references protect change.                          *)
Quiet(n) ==
    /\ UNCHANGED <<threads, gc_list, free_threads, heap, cur, work, orphan, dead, terminated>>
    /\ stale' \subseteq stale /\ n \notin stale'
    /\ \A o \in Objs \ threads : refcount'[o] = refcount[o]
    /\ \A m \in Natives \ {n} : pc'[m] = pc[m] /\ target'[m] = target[m] /\ op'[m] = op[m]
    /\ pc[n] \notin Fresh \cup Last /\ pc'[n] \notin Fresh \cup Last
    /\ (op'[n] = "exit") <=> (op[n] = "exit")
    /\ thread_list_lock' = thread_list_lock \/ {thread_list_lock, thread_list_lock'} \subseteq {n, None}
    /\ \A o \in Objs : joiner'[o] = joiner[o] \/ joiner[o] \in {n, None}

\* A quiet step keeps the shape if n itself, and the joiners, are fine after it.
LEMMA QuietStep ==
    ASSUME Shape, NEW n \in Natives, Quiet(n), TypeOK', LocalOK(n)', TargetOK(n)', JoinerOK'
    PROVE  Shape'
<1>1. Apart' /\ Somewhere'
  <2>1. \A m \in Natives : (pc'[m] = "link" <=> pc[m] = "link") /\ (pc[m] = "link" => target'[m] = target[m])
    BY Zenon DEF Quiet, Fresh
  <2> QED BY <2>1, PlacesFrame, Zenon DEF Shape, Quiet
<1>2. Locals'
  <2> SUFFICES ASSUME NEW m \in Natives, m # n PROVE LocalOK(m)'
    BY Zenon DEF Locals
  <2>1. LocalOK(m) /\ ((thread_list_lock' = m) <=> (thread_list_lock = m))
    BY ThreadStateAssumption, Zenon DEF Shape, Locals, Quiet, ThreadStateAssumption
  <2>2. pc'[m] = pc[m] /\ target'[m] = target[m] /\ op'[m] = op[m] /\ cur'[m] = cur[m] /\ work'[m] = work[m]
    BY Zenon DEF Quiet
  <2> QED BY <2>1, <2>2, LocalFrame, Zenon
<1>3. Targets'
  <2> SUFFICES ASSUME NEW m \in Natives, m # n PROVE TargetOK(m)'
    BY Zenon DEF Targets
  <2>1. TargetOK(m) /\ LocalOK(m) /\ m # None
    BY ThreadStateAssumption, Zenon DEF Shape, Targets, Locals, ThreadStateAssumption
  <2>2. pc'[m] = pc[m] /\ target'[m] = target[m] /\ threads' = threads
    BY Zenon DEF Quiet
  <2>3. ASSUME pc[m] \in Joining PROVE joiner'[target[m]] = m
    <3>1. joiner[target[m]] = m /\ target[m] \in Objs
      BY <2>1, <2>3, Zenon DEF TargetOK, LocalOK, Joining, Bare
    <3> QED BY <2>1, <3>1, Zenon DEF Quiet
  <2> QED BY <2>1, <2>2, <2>3, Zenon DEF TargetOK
<1>4. Freshs'
  <2>1. \A m \in Natives : pc'[m] \in Fresh => m # n /\ pc'[m] = pc[m] /\ target'[m] = target[m]
    BY Zenon DEF Quiet
  <2>2. \A m \in Natives : pc[m] = "link" => target[m] \in Objs \ threads
    BY Zenon DEF Shape, Locals, LocalOK, Bare, Apart, Shelves
  <2> QED BY <2>1, <2>2, FreshFrame, Zenon DEF Shape, Quiet
<1>5. Owners'
  <2>1. \A m \in Natives : ((op'[m] = "exit") <=> (op[m] = "exit")) /\ ((pc'[m] \in Last) <=> (pc[m] \in Last))
    BY Zenon DEF Quiet
  <2> QED BY <2>1, OwnersFrame, Zenon DEF Shape, Quiet
<1>6. WorkOK' /\ GhostOK'
  <2>1. \A m \in stale' : m \in stale /\ m # n /\ m \in Natives
    BY Zenon DEF Quiet, Shape, TypeOK
  <2>2. \A m \in orphan : m # n /\ m \in Natives
    BY Zenon DEF Quiet, Shape, GhostOK, TypeOK
  <2> QED BY <2>1, <2>2, Zenon DEF Shape, Quiet, WorkOK, GhostOK
<1> QED BY <1>1, <1>2, <1>3, <1>4, <1>5, <1>6, Zenon DEF Shape
-----------------------------------------------------------------------------
(* The steps of a call.                                                    *)

\* TryCollect takes the list lock: n references its object and goes on doing so.
LEMMA CollectListStep ==
    ASSUME Shape, Counted, NEW n \in Natives, CollectList(n)
    PROVE  Shape'
<1> USE ThreadStateAssumption DEF ThreadStateAssumption
<1>1. LocalOK(n) /\ TargetOK(n) /\ TypeOK /\ JoinerOK /\ (n \in stale => pc[n] \in Tails)
  BY Zenon DEF Shape, Locals, Targets, GhostOK
<1>2. TypeOK'
  BY <1>1, Zenon DEF TypeOK, Labels, LocalOK, Bare, Calls, CollectList, Goto, lists, fields,
     natives, ghosts
<1>3. LocalOK(n)'
  BY <1>1, Zenon DEF LocalOK, TypeOK, Calls, CollectList, Goto, lists, fields, natives, ghosts,
     Holding, Joining, Listed, Fresh, Bare, Last, Exiting, Tails
<1>4. TargetOK(n)'
  BY <1>1, Zenon DEF TargetOK, LocalOK, TypeOK, CollectList, Goto, lists, fields, natives, ghosts,
     Holding, Joining, Listed, Fresh, Bare, Last, Exiting, Tails
<1>5. JoinerOK'
  BY <1>1, Zenon DEF JoinerOK, TypeOK, CollectList, Goto, lists, fields, natives, ghosts
<1>6. Quiet(n)
  BY <1>1, Zenon DEF Quiet, LocalOK, TargetOK, TypeOK, Calls, CollectList, Goto, lists, fields,
     natives, ghosts, Holding, Joining, Listed, Fresh, Bare, Last, Exiting, Tails
<1> QED BY <1>2, <1>3, <1>4, <1>5, <1>6, QuietStep, Zenon

\* The end of TryCollect: n gives up the object, or goes on with its exit.
LEMMA CollectUnlockStep ==
    ASSUME Shape, Counted, NEW n \in Natives, CollectUnlock(n)
    PROVE  Shape'
<1> USE ThreadStateAssumption DEF ThreadStateAssumption
<1>1. LocalOK(n) /\ TargetOK(n) /\ TypeOK /\ JoinerOK /\ (n \in stale => pc[n] \in Tails) /\ (n \in stale => op[n] # "exit" \/ pc[n] \in Last)
  BY Zenon DEF Shape, Locals, Targets, GhostOK
<1>2. TypeOK'
  BY <1>1, SMTT(30) DEF TypeOK, Labels, LocalOK, Bare, Calls, CollectUnlock, EndCollect, Return, Goto,
     lists, fields, natives, ghosts
<1>3. LocalOK(n)'
  BY <1>1, SMTT(30) DEF LocalOK, TypeOK, Calls, CollectUnlock, EndCollect, Return, Goto, lists, fields,
     natives, ghosts, Holding, Joining, Listed, Fresh, Bare, Last, Exiting, Tails
<1>4. TargetOK(n)'
  BY <1>1, SMTT(30) DEF TargetOK, LocalOK, TypeOK, CollectUnlock, EndCollect, Return, Goto, lists,
     fields, natives, ghosts, Holding, Joining, Listed, Fresh, Bare, Last, Exiting, Tails
<1>5. JoinerOK'
  BY <1>1, Zenon DEF JoinerOK, TypeOK, CollectUnlock, EndCollect, Return, Goto, lists, fields,
     natives, ghosts
<1>6. Quiet(n)
  BY <1>1, SMTT(30) DEF Quiet, LocalOK, TargetOK, TypeOK, Calls, CollectUnlock, EndCollect, Return,
     Goto, lists, fields, natives, ghosts, Holding, Joining, Listed, Fresh, Bare, Last, Exiting, Tails
<1> QED BY <1>2, <1>3, <1>4, <1>5, <1>6, QuietStep, Zenon

\* posix_pthread_create_name_np starts, with no object yet.
LEMMA CreateStep ==
    ASSUME Shape, Counted, NEW n \in Natives, Create(n)
    PROVE  Shape'
<1> USE ThreadStateAssumption DEF ThreadStateAssumption
<1>1. LocalOK(n) /\ TargetOK(n) /\ TypeOK /\ JoinerOK /\ (n \in stale => pc[n] \in Tails)
  BY Zenon DEF Shape, Locals, Targets, GhostOK
<1>2. TypeOK'
  BY <1>1, SMTT(30) DEF TypeOK, Labels, LocalOK, Bare, Calls, Create, Goto, lists, fields, natives,
     ghosts
<1>3. LocalOK(n)'
  BY <1>1, Zenon DEF LocalOK, TypeOK, Calls, Create, Goto, lists, fields, natives, ghosts, Holding,
     Joining, Listed, Fresh, Bare, Last, Exiting, Tails
<1>4. TargetOK(n)'
  BY <1>1, Zenon DEF TargetOK, LocalOK, TypeOK, Create, Goto, lists, fields, natives, ghosts,
     Holding, Joining, Listed, Fresh, Bare, Last, Exiting, Tails
<1>5. JoinerOK'
  BY <1>1, Zenon DEF JoinerOK, TypeOK, Create, Goto, lists, fields, natives, ghosts
<1>6. Quiet(n)
  BY <1>1, Zenon DEF Quiet, LocalOK, TargetOK, TypeOK, Calls, Create, Goto, lists, fields, natives,
     ghosts, Holding, Joining, Listed, Fresh, Bare, Last, Exiting, Tails
<1> QED BY <1>2, <1>3, <1>4, <1>5, <1>6, QuietStep, Zenon

\* The work list is empty: Alloc follows.
LEMMA FreeDoneStep ==
    ASSUME Shape, Counted, NEW n \in Natives, FreeDone(n)
    PROVE  Shape'
<1> USE ThreadStateAssumption DEF ThreadStateAssumption
<1>1. LocalOK(n) /\ TargetOK(n) /\ TypeOK /\ JoinerOK /\ (n \in stale => pc[n] \in Tails)
  BY Zenon DEF Shape, Locals, Targets, GhostOK
<1>2. TypeOK'
  BY <1>1, Zenon DEF TypeOK, Labels, LocalOK, Bare, Calls, FreeDone, Goto, lists, fields, natives,
     ghosts
<1>3. LocalOK(n)'
  BY <1>1, Zenon DEF LocalOK, TypeOK, Calls, FreeDone, Goto, lists, fields, natives, ghosts,
     Holding, Joining, Listed, Fresh, Bare, Last, Exiting, Tails
<1>4. TargetOK(n)'
  BY <1>1, Zenon DEF TargetOK, LocalOK, TypeOK, FreeDone, Goto, lists, fields, natives, ghosts,
     Holding, Joining, Listed, Fresh, Bare, Last, Exiting, Tails
<1>5. JoinerOK'
  BY <1>1, Zenon DEF JoinerOK, TypeOK, FreeDone, Goto, lists, fields, natives, ghosts
<1>6. Quiet(n)
  BY <1>1, Zenon DEF Quiet, LocalOK, TargetOK, TypeOK, Calls, FreeDone, Goto, lists, fields,
     natives, ghosts, Holding, Joining, Listed, Fresh, Bare, Last, Exiting, Tails
<1> QED BY <1>2, <1>3, <1>4, <1>5, <1>6, QuietStep, Zenon

\* No object left: the call returns.
LEMMA AllocFailsStep ==
    ASSUME Shape, Counted, NEW n \in Natives, AllocFails(n)
    PROVE  Shape'
<1> USE ThreadStateAssumption DEF ThreadStateAssumption
<1>1. LocalOK(n) /\ TargetOK(n) /\ TypeOK /\ JoinerOK /\ (n \in stale => pc[n] \in Tails)
  BY Zenon DEF Shape, Locals, Targets, GhostOK
<1>2. TypeOK'
  BY <1>1, Zenon DEF TypeOK, Labels, LocalOK, Bare, Calls, AllocFails, Return, Goto, lists, fields,
     natives, ghosts
<1>3. LocalOK(n)'
  BY <1>1, Zenon DEF LocalOK, TypeOK, Calls, AllocFails, Return, Goto, lists, fields, natives,
     ghosts, Holding, Joining, Listed, Fresh, Bare, Last, Exiting, Tails
<1>4. TargetOK(n)'
  BY <1>1, Zenon DEF TargetOK, LocalOK, TypeOK, AllocFails, Return, Goto, lists, fields, natives,
     ghosts, Holding, Joining, Listed, Fresh, Bare, Last, Exiting, Tails
<1>5. JoinerOK'
  BY <1>1, Zenon DEF JoinerOK, TypeOK, AllocFails, Return, Goto, lists, fields, natives, ghosts
<1>6. Quiet(n)
  BY <1>1, Zenon DEF Quiet, LocalOK, TargetOK, TypeOK, Calls, AllocFails, Return, Goto, lists,
     fields, natives, ghosts, Holding, Joining, Listed, Fresh, Bare, Last, Exiting, Tails
<1> QED BY <1>2, <1>3, <1>4, <1>5, <1>6, QuietStep, Zenon

\* The creator is done with its object.
LEMMA SetAffinityStep ==
    ASSUME Shape, Counted, NEW n \in Natives, SetAffinity(n)
    PROVE  Shape'
<1> USE ThreadStateAssumption DEF ThreadStateAssumption
<1>1. LocalOK(n) /\ TargetOK(n) /\ TypeOK /\ JoinerOK /\ (n \in stale => pc[n] \in Tails)
  BY Zenon DEF Shape, Locals, Targets, GhostOK
<1>2. TypeOK'
  BY <1>1, Zenon DEF TypeOK, Labels, LocalOK, Bare, Calls, SetAffinity, Return, Goto, lists, fields,
     natives, ghosts
<1>3. LocalOK(n)'
  BY <1>1, Zenon DEF LocalOK, TypeOK, Calls, SetAffinity, Return, Goto, lists, fields, natives,
     ghosts, Holding, Joining, Listed, Fresh, Bare, Last, Exiting, Tails
<1>4. TargetOK(n)'
  BY <1>1, Zenon DEF TargetOK, LocalOK, TypeOK, SetAffinity, Return, Goto, lists, fields, natives,
     ghosts, Holding, Joining, Listed, Fresh, Bare, Last, Exiting, Tails
<1>5. JoinerOK'
  BY <1>1, Zenon DEF JoinerOK, TypeOK, SetAffinity, Return, Goto, lists, fields, natives, ghosts
<1>6. Quiet(n)
  BY <1>1, Zenon DEF Quiet, LocalOK, TargetOK, TypeOK, Calls, SetAffinity, Return, Goto, lists,
     fields, natives, ghosts, Holding, Joining, Listed, Fresh, Bare, Last, Exiting, Tails
<1> QED BY <1>2, <1>3, <1>4, <1>5, <1>6, QuietStep, Zenon

\* FindThread: the object found is listed, and the list lock keeps it so.
LEMMA FindStep ==
    ASSUME Shape, Counted, NEW n \in Natives, NEW o \in Objs, NEW f \in Calls, Find(n, o, f)
    PROVE  Shape'
<1> USE ThreadStateAssumption DEF ThreadStateAssumption
<1>1. LocalOK(n) /\ TargetOK(n) /\ TypeOK /\ JoinerOK /\ (n \in stale => pc[n] \in Tails)
  BY Zenon DEF Shape, Locals, Targets, GhostOK
<1>2. TypeOK'
  BY <1>1, SMTT(30) DEF TypeOK, Labels, LocalOK, Bare, Calls, Find, Goto, lists, fields, natives, ghosts
<1>3. LocalOK(n)'
  BY <1>1, Zenon DEF LocalOK, TypeOK, Calls, Find, Goto, lists, fields, natives, ghosts, Holding,
     Joining, Listed, Fresh, Bare, Last, Exiting, Tails
<1>4. TargetOK(n)'
  BY <1>1, Zenon DEF TargetOK, LocalOK, TypeOK, Find, Goto, lists, fields, natives, ghosts, Holding,
     Joining, Listed, Fresh, Bare, Last, Exiting, Tails
<1>5. JoinerOK'
  BY <1>1, Zenon DEF JoinerOK, TypeOK, Find, Goto, lists, fields, natives, ghosts
<1>6. Quiet(n)
  BY <1>1, Zenon DEF Quiet, LocalOK, TargetOK, TypeOK, Calls, Find, Goto, lists, fields, natives,
     ghosts, Holding, Joining, Listed, Fresh, Bare, Last, Exiting, Tails
<1> QED BY <1>2, <1>3, <1>4, <1>5, <1>6, QuietStep, Zenon

\* posix_pthread_join: the caller becomes the joiner, or the call fails.
LEMMA JoinStep ==
    ASSUME Shape, Counted, NEW n \in Natives, Join(n)
    PROVE  Shape'
<1> USE ThreadStateAssumption DEF ThreadStateAssumption
<1>1. LocalOK(n) /\ TargetOK(n) /\ TypeOK /\ JoinerOK /\ (n \in stale => pc[n] \in Tails)
  BY Zenon DEF Shape, Locals, Targets, GhostOK
<1>2. TypeOK'
  BY <1>1, SMTT(30) DEF TypeOK, Labels, LocalOK, Bare, Calls, Join, FoundFrame, Return, Goto, lists,
     fields, natives, ghosts
<1>3. LocalOK(n)'
  BY <1>1, SMTT(30) DEF LocalOK, TypeOK, Calls, Join, FoundFrame, Return, Goto, lists, fields, natives,
     ghosts, Holding, Joining, Listed, Fresh, Bare, Last, Exiting, Tails
<1>4. TargetOK(n)'
  BY <1>1, SMTT(30) DEF TargetOK, LocalOK, TypeOK, Join, FoundFrame, Return, Goto, lists, fields,
     natives, ghosts, Holding, Joining, Listed, Fresh, Bare, Last, Exiting, Tails
<1>5. JoinerOK'
  BY <1>1, Zenon DEF JoinerOK, TypeOK, Join, FoundFrame, Return, Goto, lists, fields, natives, ghosts
<1>6. Quiet(n)
  BY <1>1, SMTT(30) DEF Quiet, LocalOK, TargetOK, TypeOK, Calls, Join, FoundFrame, Return, Goto, lists,
     fields, natives, ghosts, Holding, Joining, Listed, Fresh, Bare, Last, Exiting, Tails
<1> QED BY <1>2, <1>3, <1>4, <1>5, <1>6, QuietStep, Zenon

\* posix_pthread_detach: only a thread without a joiner becomes detached.
LEMMA DetachStep ==
    ASSUME Shape, Counted, NEW n \in Natives, Detach(n)
    PROVE  Shape'
<1> USE ThreadStateAssumption DEF ThreadStateAssumption
<1>1. LocalOK(n) /\ TargetOK(n) /\ TypeOK /\ JoinerOK /\ (n \in stale => pc[n] \in Tails)
  BY Zenon DEF Shape, Locals, Targets, GhostOK
<1>2. TypeOK'
  <2>1. refcount[target[n]] \in Nat /\ refcount[target[n]] + 1 \in Nat /\ target[n] \in Objs
    BY <1>1, SMTT(30) DEF TypeOK, LocalOK, Bare, Detach, FoundFrame
  <2>2. /\ refcount \in [Objs -> Nat] /\ detached \in [Objs -> BOOLEAN] /\ pc \in [Natives -> Labels]
        /\ target \in [Natives -> Objs \cup {None}] /\ op \in [Natives -> Calls \cup {"exit", None}]
        /\ stale \subseteq Natives
    BY <1>1, Zenon DEF TypeOK
  <2>3. refcount' \in [Objs -> Nat]
    BY <2>1, <2>2, Zenon DEF Detach, FoundFrame, TryCollect
  <2>4. detached' \in [Objs -> BOOLEAN]
    BY <2>2, Zenon DEF Detach
  <2>5. pc' \in [Natives -> Labels]
    BY <2>2, Zenon DEF Labels, Detach, TryCollect, EndCollect, Return, Goto
  <2>6. /\ target' \in [Natives -> Objs \cup {None}]
        /\ op' \in [Natives -> Calls \cup {"exit", None}] /\ stale' \subseteq Natives
    BY <2>2, Zenon DEF Detach, TryCollect, EndCollect, Return
  <2> QED BY <2>3, <2>4, <2>5, <2>6, <1>1, Zenon DEF TypeOK, Detach, FoundFrame, lists
<1>3. LocalOK(n)'
  BY <1>1, SMTT(30) DEF LocalOK, TypeOK, Calls, Detach, FoundFrame, TryCollect, ShouldCollect,
     EndCollect, Return, Goto, lists, fields, natives, ghosts, Holding, Joining, Listed, Fresh, Bare,
     Last, Exiting, Tails
<1>4. TargetOK(n)'
  BY <1>1, SMTT(30) DEF TargetOK, LocalOK, TypeOK, Detach, FoundFrame, TryCollect, ShouldCollect,
     EndCollect, Return, Goto, lists, fields, natives, ghosts, Holding, Joining, Listed, Fresh, Bare,
     Last, Exiting, Tails
<1>5. JoinerOK'
  BY <1>1, SMTT(30) DEF JoinerOK, TypeOK, Detach, FoundFrame, TryCollect, ShouldCollect, EndCollect,
     Return, Goto, lists, fields, natives, ghosts
<1>6. Quiet(n)
  BY <1>1, SMTT(30) DEF Quiet, LocalOK, TargetOK, TypeOK, Calls, Detach, FoundFrame, TryCollect,
     ShouldCollect, EndCollect, Return, Goto, lists, fields, natives, ghosts, Holding, Joining, Listed,
     Fresh, Bare, Last, Exiting, Tails
<1> QED BY <1>2, <1>3, <1>4, <1>5, <1>6, QuietStep, Zenon

\* posix_pthread_cancel, up to the unlock.
LEMMA CancelStep ==
    ASSUME Shape, Counted, NEW n \in Natives, Cancel(n)
    PROVE  Shape'
<1> USE ThreadStateAssumption DEF ThreadStateAssumption
<1>1. LocalOK(n) /\ TargetOK(n) /\ TypeOK /\ JoinerOK /\ (n \in stale => pc[n] \in Tails)
  BY Zenon DEF Shape, Locals, Targets, GhostOK
<1>2. TypeOK'
  BY <1>1, Zenon DEF TypeOK, Labels, LocalOK, Bare, Calls, Cancel, FoundFrame, Return, Goto, lists,
     fields, natives, ghosts
<1>3. LocalOK(n)'
  BY <1>1, SMTT(30) DEF LocalOK, TypeOK, Calls, Cancel, FoundFrame, Return, Goto, lists, fields,
     natives, ghosts, Holding, Joining, Listed, Fresh, Bare, Last, Exiting, Tails
<1>4. TargetOK(n)'
  BY <1>1, SMTT(30) DEF TargetOK, LocalOK, TypeOK, Cancel, FoundFrame, Return, Goto, lists, fields,
     natives, ghosts, Holding, Joining, Listed, Fresh, Bare, Last, Exiting, Tails
<1>5. JoinerOK'
  BY <1>1, Zenon DEF JoinerOK, TypeOK, Cancel, FoundFrame, Return, Goto, lists, fields, natives,
     ghosts
<1>6. Quiet(n)
  BY <1>1, SMTT(30) DEF Quiet, LocalOK, TargetOK, TypeOK, Calls, Cancel, FoundFrame, Return, Goto,
     lists, fields, natives, ghosts, Holding, Joining, Listed, Fresh, Bare, Last, Exiting, Tails
<1> QED BY <1>2, <1>3, <1>4, <1>5, <1>6, QuietStep, Zenon

\* The end of posix_pthread_cancel.
LEMMA KickStep ==
    ASSUME Shape, Counted, NEW n \in Natives, Kick(n)
    PROVE  Shape'
<1> USE ThreadStateAssumption DEF ThreadStateAssumption
<1>1. LocalOK(n) /\ TargetOK(n) /\ TypeOK /\ JoinerOK /\ (n \in stale => pc[n] \in Tails)
  BY Zenon DEF Shape, Locals, Targets, GhostOK
<1>2. TypeOK'
  BY <1>1, Zenon DEF TypeOK, Labels, LocalOK, Bare, Calls, Kick, Return, Goto, lists, fields,
     natives, ghosts
<1>3. LocalOK(n)'
  BY <1>1, Zenon DEF LocalOK, TypeOK, Calls, Kick, Return, Goto, lists, fields, natives, ghosts,
     Holding, Joining, Listed, Fresh, Bare, Last, Exiting, Tails
<1>4. TargetOK(n)'
  BY <1>1, Zenon DEF TargetOK, LocalOK, TypeOK, Kick, Return, Goto, lists, fields, natives, ghosts,
     Holding, Joining, Listed, Fresh, Bare, Last, Exiting, Tails
<1>5. JoinerOK'
  BY <1>1, Zenon DEF JoinerOK, TypeOK, Kick, Return, Goto, lists, fields, natives, ghosts
<1>6. Quiet(n)
  BY <1>1, Zenon DEF Quiet, LocalOK, TargetOK, TypeOK, Calls, Kick, Return, Goto, lists, fields,
     natives, ghosts, Holding, Joining, Listed, Fresh, Bare, Last, Exiting, Tails
<1> QED BY <1>2, <1>3, <1>4, <1>5, <1>6, QuietStep, Zenon

\* RefAdd: the caller references a listed object.
LEMMA RefAddStep ==
    ASSUME Shape, Counted, NEW n \in Natives, RefAdd(n)
    PROVE  Shape'
<1> USE ThreadStateAssumption DEF ThreadStateAssumption
<1>1. LocalOK(n) /\ TargetOK(n) /\ TypeOK /\ JoinerOK /\ (n \in stale => pc[n] \in Tails)
  BY Zenon DEF Shape, Locals, Targets, GhostOK
<1>2. TypeOK'
  BY <1>1, SMTT(30) DEF TypeOK, Labels, LocalOK, Bare, Calls, RefAdd, FoundFrame, Return, Goto, lists,
     fields, natives, ghosts
<1>3. LocalOK(n)'
  BY <1>1, SMTT(30) DEF LocalOK, TypeOK, Calls, RefAdd, FoundFrame, Return, Goto, lists, fields,
     natives, ghosts, Holding, Joining, Listed, Fresh, Bare, Last, Exiting, Tails
<1>4. TargetOK(n)'
  BY <1>1, SMTT(30) DEF TargetOK, LocalOK, TypeOK, RefAdd, FoundFrame, Return, Goto, lists, fields,
     natives, ghosts, Holding, Joining, Listed, Fresh, Bare, Last, Exiting, Tails
<1>5. JoinerOK'
  BY <1>1, Zenon DEF JoinerOK, TypeOK, RefAdd, FoundFrame, Return, Goto, lists, fields, natives,
     ghosts
<1>6. Quiet(n)
  BY <1>1, SMTT(30) DEF Quiet, LocalOK, TargetOK, TypeOK, Calls, RefAdd, FoundFrame, Return, Goto,
     lists, fields, natives, ghosts, Holding, Joining, Listed, Fresh, Bare, Last, Exiting, Tails
<1> QED BY <1>2, <1>3, <1>4, <1>5, <1>6, QuietStep, Zenon

\* RefDelete: the reference is given back, or TryCollect takes it over.
LEMMA RefDeleteStep ==
    ASSUME Shape, Counted, NEW n \in Natives, RefDelete(n)
    PROVE  Shape'
<1> USE ThreadStateAssumption DEF ThreadStateAssumption
<1>1. LocalOK(n) /\ TargetOK(n) /\ TypeOK /\ JoinerOK /\ (n \in stale => pc[n] \in Tails)
  BY Zenon DEF Shape, Locals, Targets, GhostOK
<1>2. TypeOK'
  <2>1. refcount[target[n]] - 1 \in Nat /\ refcount[target[n]] - 1 + 1 \in Nat /\ target[n] \in Objs
    BY <1>1, SMTT(30) DEF Counted, Holding, RefDelete, LocalOK, Bare
  <2>2. refcount' \in [Objs -> Nat]
    <3>1. \/ refcount' = [refcount EXCEPT ![target[n]] = refcount[target[n]] - 1]
          \/ refcount' = [refcount EXCEPT ![target[n]] = refcount[target[n]] - 1 + 1]
      BY Zenon DEF RefDelete, TryCollect, EndCollect
    <3> QED BY <1>1, <2>1, <3>1, SMTT(30) DEF TypeOK
  <2>3. /\ UNCHANGED <<lists, dead, detached, joiner, terminated, cur, work, orphan, calls>>
        /\ stale' \subseteq stale
    BY Zenon DEF RefDelete, TryCollect, EndCollect, Return, natives, ghosts
  <2>4. /\ pc' \in [Natives -> Labels] /\ target' \in [Natives -> Objs \cup {None}]
        /\ op' \in [Natives -> Calls \cup {"exit", None}]
    BY <1>1, SMTT(30) DEF TypeOK, Labels, RefDelete, TryCollect, EndCollect, Return, Goto, natives
  <2>5. thread_list_lock' = thread_list_lock /\ lock' \in [Objs -> Natives \cup {None}]
    BY <1>1, <2>1, Zenon DEF TypeOK, RefDelete, TryCollect, EndCollect
  <2> QED BY <1>1, <2>2, <2>3, <2>4, <2>5, Zenon DEF TypeOK, lists
<1>3. LocalOK(n)'
  BY <1>1, SMTT(30) DEF LocalOK, TypeOK, Calls, RefDelete, TryCollect, ShouldCollect, EndCollect,
     Return, Goto, lists, fields, natives, ghosts, Holding, Joining, Listed, Fresh, Bare, Last,
     Exiting, Tails
<1>4. TargetOK(n)'
  BY <1>1, SMTT(30) DEF TargetOK, LocalOK, TypeOK, RefDelete, TryCollect, ShouldCollect, EndCollect,
     Return, Goto, lists, fields, natives, ghosts, Holding, Joining, Listed, Fresh, Bare, Last,
     Exiting, Tails
<1>5. JoinerOK'
  BY <1>1, Zenon DEF JoinerOK, TypeOK, RefDelete, TryCollect, ShouldCollect, EndCollect, Return,
     Goto, lists, fields, natives, ghosts
<1>6. Quiet(n)
  BY <1>1, SMTT(30) DEF Quiet, LocalOK, TargetOK, TypeOK, Calls, RefDelete, TryCollect, ShouldCollect,
     EndCollect, Return, Goto, lists, fields, natives, ghosts, Holding, Joining, Listed, Fresh, Bare,
     Last, Exiting, Tails
<1> QED BY <1>2, <1>3, <1>4, <1>5, <1>6, QuietStep, Zenon

\* The joiner waits for tid; its object stays listed.
LEMMA JoinWaitStep ==
    ASSUME Shape, Counted, NEW n \in Natives, JoinWait(n)
    PROVE  Shape'
<1> USE ThreadStateAssumption DEF ThreadStateAssumption
<1>1. LocalOK(n) /\ TargetOK(n) /\ TypeOK /\ JoinerOK /\ (n \in stale => pc[n] \in Tails)
  BY Zenon DEF Shape, Locals, Targets, GhostOK
<1>2. TypeOK'
  BY <1>1, Zenon DEF TypeOK, Labels, LocalOK, Bare, Calls, JoinWait, Goto, lists, fields, natives,
     ghosts
<1>3. LocalOK(n)'
  BY <1>1, Zenon DEF LocalOK, TypeOK, Calls, JoinWait, Goto, lists, fields, natives, ghosts,
     Holding, Joining, Listed, Fresh, Bare, Last, Exiting, Tails
<1>4. TargetOK(n)'
  BY <1>1, Zenon DEF TargetOK, LocalOK, TypeOK, JoinWait, Goto, lists, fields, natives, ghosts,
     Holding, Joining, Listed, Fresh, Bare, Last, Exiting, Tails
<1>5. JoinerOK'
  BY <1>1, Zenon DEF JoinerOK, TypeOK, JoinWait, Goto, lists, fields, natives, ghosts
<1>6. Quiet(n)
  BY <1>1, Zenon DEF Quiet, LocalOK, TargetOK, TypeOK, Calls, JoinWait, Goto, lists, fields,
     natives, ghosts, Holding, Joining, Listed, Fresh, Bare, Last, Exiting, Tails
<1> QED BY <1>2, <1>3, <1>4, <1>5, <1>6, QuietStep, Zenon

\* The joiner detaches the thread and tries to collect it.
LEMMA JoinDoneStep ==
    ASSUME Shape, Counted, NEW n \in Natives, JoinDone(n)
    PROVE  Shape'
<1> USE ThreadStateAssumption DEF ThreadStateAssumption
<1>1. LocalOK(n) /\ TargetOK(n) /\ TypeOK /\ JoinerOK /\ (n \in stale => pc[n] \in Tails)
  BY Zenon DEF Shape, Locals, Targets, GhostOK
<1>2. TypeOK'
  BY <1>1, SMTT(30) DEF TypeOK, Labels, LocalOK, Bare, Calls, JoinDone, TryCollect, ShouldCollect,
     EndCollect, Return, Goto, lists, fields, natives, ghosts
<1>3. LocalOK(n)'
  BY <1>1, SMTT(30) DEF LocalOK, TypeOK, Calls, JoinDone, TryCollect, ShouldCollect, EndCollect,
     Return, Goto, lists, fields, natives, ghosts, Holding, Joining, Listed, Fresh, Bare, Last,
     Exiting, Tails
<1>4. TargetOK(n)'
  BY <1>1, SMTT(30) DEF TargetOK, LocalOK, TypeOK, JoinDone, TryCollect, ShouldCollect, EndCollect,
     Return, Goto, lists, fields, natives, ghosts, Holding, Joining, Listed, Fresh, Bare, Last,
     Exiting, Tails
<1>5. JoinerOK'
  BY <1>1, Zenon DEF JoinerOK, TypeOK, JoinDone, TryCollect, ShouldCollect, EndCollect, Return,
     Goto, lists, fields, natives, ghosts
<1>6. Quiet(n)
  BY <1>1, SMTT(30) DEF Quiet, LocalOK, TargetOK, TypeOK, Calls, JoinDone, TryCollect, ShouldCollect,
     EndCollect, Return, Goto, lists, fields, natives, ghosts, Holding, Joining, Listed, Fresh, Bare,
     Last, Exiting, Tails
<1> QED BY <1>2, <1>3, <1>4, <1>5, <1>6, QuietStep, Zenon
-----------------------------------------------------------------------------
\* A thread that runs owns its object, listed and alive.
LEMMA Running ==
    ASSUME Shape, NEW n \in Natives, pc[n] \notin Last \cup {"unborn"}
    PROVE  n \notin orphan /\ cur[n] \in Objs /\ cur[n] # None /\ OwnerOK(n)
BY SMTT(30) DEF Shape, GhostOK, Locals, LocalOK, Owners, TypeOK
-----------------------------------------------------------------------------
(* The counts.  The facts about cardinalities that they need are assumed   *)
(* by name, CardRules, which the end of the module proves.                 *)
CardRules ==
    /\ Cardinality({}) = 0
    /\ \A S \in SUBSET Natives : Cardinality(S) \in Nat
    /\ \A S \in SUBSET Natives : \A n \in Natives \ S : Cardinality(S \cup {n}) = Cardinality(S) + 1

\* The count of o is exact: one for the thread itself until it exits, and its references.
Exact(o) == refcount[o] = (IF dead[o] THEN 0 ELSE 1) + Cardinality(Refs(o))

\* The references to an object are counted by a natural number.
LEMMA RefsFinite ==
    ASSUME CardRules, NEW o
    PROVE  Cardinality(Refs(o)) \in Nat
<1>1. Refs(o) \in SUBSET Natives
  BY Zenon DEF Refs
<1> QED BY <1>1, Zenon DEF CardRules

\* The references are the same when every call holds what it held.
LEMMA RefsFrame ==
    ASSUME NEW o, \A m \in Natives : Holds(m, o)' <=> Holds(m, o)
    PROVE  Refs(o)' = Refs(o)
BY Zenon DEF Refs, Holds, Holding

\* A call that takes a reference is one more.
LEMMA RefsEnter ==
    ASSUME CardRules, NEW o, NEW n \in Natives, ~Holds(n, o), Holds(n, o)',
           \A m \in Natives : m # n => (Holds(m, o)' <=> Holds(m, o))
    PROVE  Cardinality(Refs(o)') = Cardinality(Refs(o)) + 1
<1>1. Refs(o)' = Refs(o) \cup {n} /\ n \in Natives \ Refs(o) /\ Refs(o) \in SUBSET Natives
  BY Zenon DEF Refs, Holds, Holding
<1> QED BY <1>1, Zenon DEF CardRules

\* A call that gives it back is one less.
LEMMA RefsLeave ==
    ASSUME CardRules, NEW o, NEW n \in Natives, Holds(n, o), ~Holds(n, o)',
           \A m \in Natives : m # n => (Holds(m, o)' <=> Holds(m, o))
    PROVE  Cardinality(Refs(o)') = Cardinality(Refs(o)) - 1
<1>1. Refs(o) = Refs(o)' \cup {n} /\ n \in Natives \ Refs(o)' /\ Refs(o)' \in SUBSET Natives
  BY Zenon DEF Refs, Holds, Holding
<1> QED BY <1>1, SMTT(30) DEF CardRules

\* What the exact counts say to the other half of the invariant.
LEMMA CountsGive ==
    ASSUME CardRules, IInv
    PROVE  Counted
<1> SUFFICES ASSUME NEW n \in Natives
             PROVE  /\ pc[n] \in Holding =>
                         /\ refcount[target[n]] \in Nat \ {0}
                         /\ refcount[target[n]] = 1 => \A m \in Natives : Holds(m, target[n]) => m = n
                    /\ pc[n] = "idle" => refcount[cur[n]] \in Nat \ {0}
  BY Zenon DEF Counted
<1>1. TypeOK /\ TargetOK(n) /\ \A o \in threads : Exact(o)
  BY Zenon DEF IInv, Shape, Targets, RefcountExact, Exact
<1>2. ASSUME pc[n] \in Holding
      PROVE  /\ refcount[target[n]] \in Nat \ {0}
             /\ refcount[target[n]] = 1 => \A m \in Natives : Holds(m, target[n]) => m = n
  <2> DEFINE o == target[n]
  <2>1. o \in threads /\ refcount[o] \in Nat /\ Exact(o) /\ n \in Refs(o)
    BY <1>1, <1>2, Zenon DEF TargetOK, Listed, TypeOK, Refs, Holding
  <2>2. /\ \A S \in SUBSET Natives : Cardinality(S) \in Nat
        /\ \A x \in Refs(o) : Cardinality(Refs(o)) = Cardinality(Refs(o) \ {x}) + 1
        /\ \A x \in Refs(o) \ {n} : Cardinality(Refs(o) \ {n}) = Cardinality((Refs(o) \ {n}) \ {x}) + 1
    <3>1. Refs(o) \in SUBSET Natives
      BY Zenon DEF Refs
    <3>2. ASSUME NEW S \in SUBSET Natives, NEW x \in S
          PROVE  Cardinality(S) = Cardinality(S \ {x}) + 1
      <4>1. S = (S \ {x}) \cup {x} /\ x \in Natives \ (S \ {x}) /\ S \ {x} \in SUBSET Natives
        OBVIOUS
      <4> QED BY <4>1, Zenon DEF CardRules
    <3> QED BY <3>1, <3>2, Zenon DEF CardRules
  <2>3. Refs(o) \in SUBSET Natives
    BY Zenon DEF Refs
  <2>4. refcount[o] \in Nat \ {0} /\ (refcount[o] = 1 => Cardinality(Refs(o) \ {n}) = 0)
    BY <2>1, <2>2, <2>3, SMTT(30) DEF Exact
  <2>5. refcount[o] = 1 => Refs(o) \ {n} = {}
    <3>1. ASSUME NEW x \in Refs(o) \ {n} PROVE Cardinality(Refs(o) \ {n}) \in Nat \ {0}
      <4>1. (Refs(o) \ {n}) \ {x} \in SUBSET Natives
        BY <2>3, Zenon
      <4>2. Cardinality((Refs(o) \ {n}) \ {x}) \in Nat
        BY <2>2, <4>1, Zenon
      <4> QED BY <2>2, <3>1, <4>2, SMTT(30)
    <3> QED BY <2>4, <3>1, Zenon
  <2> QED BY <2>4, <2>5, Zenon DEF Refs, Holds, Holding
<1>3. ASSUME pc[n] = "idle" PROVE refcount[cur[n]] \in Nat \ {0}
  <2>1. cur[n] \in threads /\ ~dead[cur[n]] /\ refcount[cur[n]] \in Nat /\ Exact(cur[n])
    <3>1. OwnerOK(n) /\ n \notin orphan /\ cur[n] # None /\ LocalOK(n) /\ cur[n] \in Objs
      BY <1>3, Running, Zenon DEF Last, IInv, Shape, Locals
    <3>2. op[n] # "exit"
      BY <1>3, <3>1, Zenon DEF LocalOK, Exiting, Last
    <3> QED BY <1>1, <3>1, <3>2, Zenon DEF OwnerOK, TypeOK
  <2> QED BY <2>1, RefsFinite, SMTT(30) DEF Exact
<1> QED BY <1>2, <1>3, Zenon

\* The count of an object nobody touches stays exact.
LEMMA ExactFrame ==
    ASSUME NEW o, Exact(o), refcount'[o] = refcount[o], dead'[o] = dead[o],
           \A m \in Natives : Holds(m, o)' <=> Holds(m, o)
    PROVE  Exact(o)'
BY RefsFrame, Zenon DEF Exact

\* It stays exact when the count goes up with the references.
LEMMA ExactUp ==
    ASSUME CardRules, NEW o, Exact(o), refcount[o] \in Nat, dead'[o] = dead[o], refcount'[o] = refcount[o] + 1,
           Cardinality(Refs(o)') = Cardinality(Refs(o)) + 1
    PROVE  Exact(o)'
<1>1. Cardinality(Refs(o)) \in Nat
  BY RefsFinite, Zenon
<1> QED BY <1>1, SMTT(30) DEF Exact

\* The same for a reference that goes.
LEMMA ExactDown ==
    ASSUME CardRules, NEW o, Exact(o), refcount[o] \in Nat, dead'[o] = dead[o], refcount'[o] = refcount[o] - 1,
           Cardinality(Refs(o)') = Cardinality(Refs(o)) - 1
    PROVE  Exact(o)'
<1>1. Cardinality(Refs(o)) \in Nat
  BY RefsFinite, Zenon
<1> QED BY <1>1, SMTT(30) DEF Exact

\* A step that keeps the listed threads, their counts and the references keeps them exact.
LEMMA CountsFrame ==
    ASSUME RefcountExact, threads' \subseteq threads,
           \A o \in threads : refcount'[o] = refcount[o] /\ dead'[o] = dead[o],
           \A m \in Natives : /\ (pc'[m] \in Holding) <=> (pc[m] \in Holding)
                              /\ pc[m] \in Holding => target'[m] = target[m]
    PROVE  RefcountExact'
<1> SUFFICES ASSUME NEW o \in threads, o \in threads' PROVE Exact(o)'
  BY Zenon DEF RefcountExact, Exact
<1>1. Exact(o)
  BY Zenon DEF RefcountExact, Exact
<1>2. \A m \in Natives : Holds(m, o)' <=> Holds(m, o)
  BY Zenon DEF Holds
<1> QED BY <1>1, <1>2, ExactFrame, Zenon

\* A step of n on the count of one object.
LEMMA CountsOne ==
    ASSUME RefcountExact, NEW n \in Natives, NEW o \in threads, threads' \subseteq threads,
           o \in threads' => Exact(o)',
           \A p \in threads : p # o => refcount'[p] = refcount[p] /\ dead'[p] = dead[p],
           \A m \in Natives : m # n => pc'[m] = pc[m] /\ target'[m] = target[m],
           pc[n] \in Holding => target[n] = o,
           pc'[n] \in Holding => target'[n] = o
    PROVE  RefcountExact'
<1> SUFFICES ASSUME NEW p \in threads, p \in threads', p # o PROVE Exact(p)'
  BY Zenon DEF RefcountExact, Exact
<1>1. Exact(p)
  BY Zenon DEF RefcountExact, Exact
<1>2. \A m \in Natives : Holds(m, p)' <=> Holds(m, p)
  BY SMTT(30) DEF Holds
<1> QED BY <1>1, <1>2, ExactFrame, Zenon

\* TryCollect entered by n without a reference to o: it takes one or leaves the count.
LEMMA TakesOne ==
    ASSUME CardRules, IInv, NEW n \in Natives, NEW o \in threads, target[n] = o, pc[n] \notin Holding, op[n] # "exit",
           TryCollect(n, o, refcount[o], TRUE), dead' = dead, threads' = threads
    PROVE  RefcountExact'
<1>1. TypeOK /\ RefcountExact /\ o \in Objs /\ Exact(o) /\ refcount[o] \in Nat
  BY Zenon DEF IInv, Shape, TypeOK, RefcountExact, Exact
<1>2. CASE ShouldCollect(o, refcount[o], TRUE)
  <2>1. /\ refcount' = [refcount EXCEPT ![o] = refcount[o] + 1] /\ pc' = [pc EXCEPT ![n] = "collectlist"]
        /\ target' = target
    BY <1>2, Zenon DEF TryCollect, Goto
  <2>2. /\ \A m \in Natives : m # n => pc'[m] = pc[m] /\ target'[m] = target[m]
        /\ pc'[n] = "collectlist" /\ target'[n] = o
        /\ refcount'[o] = refcount[o] + 1 /\ \A p \in threads : p # o => refcount'[p] = refcount[p]
    BY <1>1, <2>1, Zenon DEF TypeOK
  <2>3. Cardinality(Refs(o)') = Cardinality(Refs(o)) + 1
    BY <2>2, RefsEnter, ZenonT(30) DEF Holds, Holding
  <2>4. Exact(o)'
    BY <1>1, <2>2, <2>3, ExactUp, Zenon
  <2> QED BY <1>1, <2>2, <2>4, CountsOne, Zenon
<1>3. CASE ~ShouldCollect(o, refcount[o], TRUE)
  <2>1. refcount' = [refcount EXCEPT ![o] = refcount[o]] /\ Return(n)
    BY <1>3, Zenon DEF TryCollect, EndCollect
  <2>2. /\ \A m \in Natives : m # n => pc'[m] = pc[m] /\ target'[m] = target[m]
        /\ pc'[n] = "idle" /\ \A p \in threads : refcount'[p] = refcount[p]
    BY <1>1, <2>1, Zenon DEF TypeOK, Return
  <2> QED BY <1>1, <2>2, CountsFrame, Zenon DEF Holding
<1> QED BY <1>2, <1>3, Zenon

\* The steps that neither take nor give back a reference.
LEMMA QuietCounts ==
    ASSUME IInv, NEW n \in Natives,
           \/ CollectList(n) \/ CollectUnlock(n) \/ Create(n) \/ Collect(n) \/ Free(n) \/ FreeDone(n) \/ Alloc(n)
           \/ AllocFails(n) \/ Start(n) \/ SetAffinity(n) \/ Terminate(n) \/ Notify(n) \/ NativeExit(n) \/ Join(n)
           \/ Cancel(n) \/ Kick(n) \/ JoinWait(n) \/ \E o \in Objs, f \in Calls : Find(n, o, f)
    PROVE  RefcountExact'
<1>1. pc \in [Natives -> Labels] /\ target \in [Natives -> Objs \cup {None}] /\ RefcountExact
  BY Zenon DEF IInv, Shape, TypeOK
<1> SUFFICES /\ threads' \subseteq threads
             /\ \A o \in threads : refcount'[o] = refcount[o] /\ dead'[o] = dead[o]
             /\ \A m \in Natives : /\ (pc'[m] \in Holding) <=> (pc[m] \in Holding)
                                   /\ pc[m] \in Holding => target'[m] = target[m]
  BY <1>1, CountsFrame, Zenon
<1>2. CASE CollectList(n)
  BY <1>1, <1>2, Zenon DEF CollectList, Goto, lists, fields, natives, Holding
<1>3. CASE CollectUnlock(n)
  BY <1>1, <1>3, Zenon DEF CollectUnlock, EndCollect, Return, Goto, lists, fields, natives, Holding
<1>4. CASE Create(n)
  BY <1>1, <1>4, Zenon DEF Create, Goto, lists, fields, natives, Holding
<1>5. CASE Collect(n)
  BY <1>1, <1>5, Zenon DEF Collect, Goto, lists, fields, natives, Holding
<1>6. CASE Free(n)
  BY <1>1, <1>6, Zenon DEF Free, Goto, lists, fields, natives, Holding
<1>7. CASE FreeDone(n)
  BY <1>1, <1>7, Zenon DEF FreeDone, Goto, lists, fields, natives, Holding
<1>8. CASE AllocFails(n)
  BY <1>1, <1>8, Zenon DEF AllocFails, Return, Goto, lists, fields, natives, Holding
<1>9. CASE SetAffinity(n)
  BY <1>1, <1>9, Zenon DEF SetAffinity, Return, Goto, lists, fields, natives, Holding
<1>10. CASE Terminate(n)
  BY <1>1, <1>10, Zenon DEF Terminate, Goto, lists, fields, natives, Holding
<1>11. CASE Notify(n)
  BY <1>1, <1>11, Zenon DEF Notify, Goto, lists, fields, natives, Holding
<1>12. CASE NativeExit(n)
  BY <1>1, <1>12, Zenon DEF NativeExit, Goto, lists, fields, natives, Holding
<1>13. CASE Join(n)
  BY <1>1, <1>13, Zenon DEF Join, FoundFrame, Return, Goto, lists, fields, natives, Holding
<1>14. CASE Cancel(n)
  BY <1>1, <1>14, Zenon DEF Cancel, FoundFrame, Return, Goto, lists, fields, natives, Holding
<1>15. CASE Kick(n)
  BY <1>1, <1>15, Zenon DEF Kick, Return, Goto, lists, fields, natives, Holding
<1>16. CASE JoinWait(n)
  BY <1>1, <1>16, Zenon DEF JoinWait, Goto, lists, fields, natives, Holding
<1>17. CASE Alloc(n)
  <2>1. PICK o \in free_threads \cup heap : /\ refcount' = [refcount EXCEPT ![o] = 1]
                                             /\ dead' = [dead EXCEPT ![o] = FALSE]
                                             /\ target' = [target EXCEPT ![n] = o]
    BY <1>17, Zenon DEF Alloc
  <2>2. o \notin threads /\ threads \subseteq Objs /\ refcount \in [Objs -> Nat] /\ dead \in [Objs -> BOOLEAN]
    BY Zenon DEF IInv, Shape, Apart, TypeOK
  <2> QED BY <1>1, <1>17, <2>1, <2>2, Zenon DEF Alloc, Goto, Holding
<1>18. CASE Start(n)
  <2>1. PICK x \in Natives : pc[x] = "unborn" /\ pc' = [pc EXCEPT ![x] = "idle", ![n] = "affinity"]
    BY <1>18, Zenon DEF Start
  <2> QED BY <1>1, <1>18, <2>1, Zenon DEF Start, lists, fields, Holding
<1>19. CASE \E o \in Objs, f \in Calls : Find(n, o, f)
  BY <1>1, <1>19, Zenon DEF Find, Goto, lists, fields, Holding
<1> QED BY <1>2, <1>3, <1>4, <1>5, <1>6, <1>7, <1>8, <1>9, <1>10, <1>11, <1>12, <1>13, <1>14, <1>15,
           <1>16, <1>17, <1>18, <1>19, Zenon

\* The second half of TryCollect gives its reference back.
LEMMA CollectLockCounts ==
    ASSUME CardRules, IInv, NEW n \in Natives, CollectLock(n)
    PROVE  RefcountExact'
<1>0. PICK o : o = target[n]
  OBVIOUS
<1>1. TypeOK /\ RefcountExact /\ pc[n] = "collectlock" /\ o \in threads /\ o \in Objs /\ Exact(o) /\ refcount[o] \in Nat
  BY <1>0, Zenon DEF IInv, Shape, Targets, TargetOK, Listed, Holding, CollectLock, TypeOK,
     RefcountExact, Exact
<1>2. /\ threads' \subseteq threads /\ dead' = dead /\ target' = target
      /\ refcount' = [refcount EXCEPT ![o] = @ - 1] /\ pc' = [pc EXCEPT ![n] = "collectunlock"]
  BY <1>0, Zenon DEF CollectLock, Goto, natives
<1>3. /\ refcount'[o] = refcount[o] - 1 /\ \A p \in threads : p # o => refcount'[p] = refcount[p]
      /\ pc'[n] = "collectunlock" /\ \A m \in Natives : m # n => pc'[m] = pc[m]
  BY <1>0, <1>1, <1>2, Zenon DEF TypeOK
<1>4. Cardinality(Refs(o)') = Cardinality(Refs(o)) - 1
  BY <1>0, <1>1, <1>2, <1>3, RefsLeave, Zenon DEF Holds, Holding
<1>5. Exact(o)'
  BY <1>1, <1>2, <1>3, <1>4, ExactDown, Zenon
<1> QED BY <1>0, <1>1, <1>2, <1>3, <1>5, CountsOne, Zenon DEF Holding

\* A new object is linked with the one reference of its own thread.
LEMMA LinkCounts ==
    ASSUME CardRules, IInv, NEW n \in Natives, Link(n)
    PROVE  RefcountExact'
<1>0. PICK o : o = target[n]
  OBVIOUS
<1>1. /\ TypeOK /\ RefcountExact /\ pc[n] = "link" /\ o \notin threads /\ refcount[o] = 1 /\ ~dead[o]
      /\ \A m \in Natives : pc[m] \in Holding => target[m] \in threads
  BY <1>0, Zenon DEF IInv, Shape, Apart, Shelves, Freshs, FreshOK, Fresh, Link, Targets, TargetOK,
     Listed
<1>2. threads' = threads \cup {o} /\ refcount' = refcount /\ dead' = dead /\ target' = target
  BY <1>0, Zenon DEF Link, fields, natives
<1>3. \A m \in Natives : (pc'[m] \in Holding) <=> (pc[m] \in Holding)
  BY <1>0, <1>1, Zenon DEF Link, Goto, Holding, TypeOK
<1> SUFFICES ASSUME NEW p \in threads' PROVE Exact(p)'
  BY <1>0, Zenon DEF RefcountExact, Exact
<1>4. CASE p = o
  <2>1. Refs(o)' = {}
    BY <1>0, <1>1, <1>2, <1>3, Zenon DEF Refs, Holding
  <2> QED BY <1>0, <1>1, <1>2, <1>4, <2>1, SMTT(30) DEF Exact, CardRules
<1>5. CASE p # o
  <2>1. Exact(p) /\ p \in threads
    BY <1>0, <1>1, <1>2, <1>5, Zenon DEF RefcountExact, Exact
  <2>2. \A m \in Natives : Holds(m, p)' <=> Holds(m, p)
    BY <1>0, <1>2, <1>3, Zenon DEF Holds
  <2> QED BY <1>0, <1>2, <2>1, <2>2, ExactFrame, Zenon
<1> QED BY <1>0, <1>4, <1>5, Zenon

\* pthread_exit gives the reference of the thread itself back.
LEMMA ExitCounts ==
    ASSUME CardRules, IInv, NEW n \in Natives, Exit(n)
    PROVE  RefcountExact'
<1>0. PICK o : o = cur[n]
  OBVIOUS
<1>1. /\ TypeOK /\ RefcountExact /\ pc[n] = "idle" /\ n \notin orphan /\ o # None /\ OwnerOK(n) /\ LocalOK(n)
      /\ o \in Objs
  BY <1>0, Running, Zenon DEF IInv, Shape, Exit, Last, Locals
<1>2. o \in threads /\ ~dead[o] /\ Exact(o) /\ refcount[o] \in Nat
  BY <1>0, <1>1, Zenon DEF OwnerOK, LocalOK, Exiting, Last, TypeOK, RefcountExact, Exact
<1>3. /\ threads' = threads /\ dead' = [dead EXCEPT ![o] = TRUE] /\ target' = [target EXCEPT ![n] = o]
      /\ \/ refcount[o] = 1 /\ refcount' = refcount /\ pc' = [pc EXCEPT ![n] = "collectlist"]
         \/ refcount' = [refcount EXCEPT ![o] = @ - 1] /\ pc' = [pc EXCEPT ![n] = "terminate"]
  BY <1>0, Zenon DEF Exit, Goto, lists
<1>4. /\ dead'[o] /\ target'[n] = o /\ \A m \in Natives : m # n => pc'[m] = pc[m] /\ target'[m] = target[m]
      /\ \A p \in threads : p # o => refcount'[p] = refcount[p] /\ dead'[p] = dead[p]
      /\ \/ refcount'[o] = refcount[o] /\ pc'[n] = "collectlist"
         \/ refcount'[o] = refcount[o] - 1 /\ pc'[n] = "terminate"
  BY <1>0, <1>1, <1>2, <1>3, Zenon DEF TypeOK
<1>5. CASE pc'[n] = "collectlist"
  <2>1. Cardinality(Refs(o)') = Cardinality(Refs(o)) + 1
    BY <1>0, <1>1, <1>4, <1>5, RefsEnter, SMTT(30) DEF Holds, Holding
  <2>2. Exact(o)'
    <3>1. ~dead[o] /\ dead'[o] /\ Exact(o) /\ refcount'[o] = refcount[o] /\ Cardinality(Refs(o)) \in Nat
      BY <1>2, <1>4, <1>5, RefsFinite, Zenon
    <3> QED BY <2>1, <3>1, SMTT(30) DEF Exact
  <2> QED BY <1>0, <1>1, <1>2, <1>3, <1>4, <2>2, CountsOne, Zenon DEF Holding
<1>6. CASE pc'[n] = "terminate"
  <2>1. Refs(o)' = Refs(o)
    BY <1>0, <1>1, <1>4, <1>6, RefsFrame, Zenon DEF Holds, Holding
  <2>2. Exact(o)'
    <3>1. ~dead[o] /\ dead'[o] /\ Exact(o) /\ refcount'[o] = refcount[o] - 1 /\ Cardinality(Refs(o)) \in Nat
      BY <1>2, <1>4, <1>6, RefsFinite, Zenon
    <3> QED BY <2>1, <3>1, SMTT(30) DEF Exact
  <2> QED BY <1>0, <1>1, <1>2, <1>3, <1>4, <1>6, <2>2, CountsOne, Zenon DEF Holding
<1> QED BY <1>0, <1>4, <1>5, <1>6, Zenon

\* The calls that look at the object without holding a reference to it.
LEMMA VisitCounts ==
    ASSUME CardRules, IInv, NEW n \in Natives, Detach(n) \/ JoinDone(n)
    PROVE  RefcountExact'
<1>0. PICK o : o = target[n]
  OBVIOUS
<1>1. /\ TypeOK /\ RefcountExact /\ LocalOK(n) /\ o \in threads /\ pc[n] \in {"found", "joined"} /\ dead' = dead
      /\ threads' = threads
  BY <1>0, Zenon DEF IInv, Shape, Locals, Targets, TargetOK, Listed, Joining, Detach, FoundFrame,
     JoinDone, lists
<1>2. pc[n] \notin Holding /\ op[n] # "exit"
  BY <1>0, <1>1, Zenon DEF LocalOK, Holding, Exiting, Last
<1>3. CASE TryCollect(n, o, refcount[o], TRUE)
  BY <1>0, <1>1, <1>2, <1>3, TakesOne, Zenon
<1>4. CASE refcount' = refcount /\ Return(n)
  <2>1. \A m \in Natives : m # n => pc'[m] = pc[m] /\ target'[m] = target[m]
    BY <1>0, <1>1, <1>4, Zenon DEF Return, TypeOK
  <2>2. pc'[n] = "idle"
    BY <1>0, <1>1, <1>4, Zenon DEF Return, TypeOK
  <2> QED BY <1>0, <1>1, <1>2, <1>4, <2>1, <2>2, CountsFrame, Zenon DEF Holding
<1> QED BY <1>0, <1>3, <1>4, Zenon DEF Detach, JoinDone

\* RefAdd counts the reference it takes.
LEMMA RefAddCounts ==
    ASSUME CardRules, IInv, NEW n \in Natives, RefAdd(n)
    PROVE  RefcountExact'
<1>0. PICK o : o = target[n]
  OBVIOUS
<1>1. /\ TypeOK /\ RefcountExact /\ o \in threads /\ o \in Objs /\ Exact(o) /\ refcount[o] \in Nat /\ pc[n] = "found"
      /\ dead' = dead /\ threads' = threads
  BY <1>0, Zenon DEF IInv, Shape, Targets, TargetOK, Listed, RefAdd, FoundFrame, TypeOK,
     RefcountExact, Exact, lists
<1>2. CASE dead[o]
  <2>1. refcount' = refcount /\ Return(n)
    BY <1>0, <1>2, Zenon DEF RefAdd
  <2>2. pc'[n] = "idle" /\ \A m \in Natives : m # n => pc'[m] = pc[m] /\ target'[m] = target[m]
    BY <1>0, <1>1, <2>1, Zenon DEF Return, TypeOK
  <2> QED BY <1>0, <1>1, <2>1, <2>2, CountsFrame, Zenon DEF Holding
<1>3. CASE ~dead[o]
  <2>1. refcount' = [refcount EXCEPT ![o] = @ + 1] /\ pc' = [pc EXCEPT ![n] = "ref"] /\ target' = target
    BY <1>0, <1>3, Zenon DEF RefAdd, Goto
  <2>2. /\ pc'[n] = "ref" /\ target'[n] = o /\ \A m \in Natives : m # n => pc'[m] = pc[m] /\ target'[m] = target[m]
        /\ refcount'[o] = refcount[o] + 1 /\ \A p \in threads : p # o => refcount'[p] = refcount[p]
    BY <1>0, <1>1, <2>1, Zenon DEF TypeOK
  <2>3. Cardinality(Refs(o)') = Cardinality(Refs(o)) + 1
    BY <1>0, <1>1, <2>2, RefsEnter, ZenonT(30) DEF Holds, Holding
  <2>4. Exact(o)'
    BY <1>1, <2>2, <2>3, ExactUp, Zenon
  <2> QED BY <1>0, <1>1, <2>2, <2>4, CountsOne, Zenon DEF Holding
<1> QED BY <1>0, <1>2, <1>3, Zenon

\* RefDelete gives it back once, or hands it to TryCollect.
LEMMA RefDeleteCounts ==
    ASSUME CardRules, IInv, NEW n \in Natives, RefDelete(n)
    PROVE  RefcountExact'
<1>0. PICK o : o = target[n]
  OBVIOUS
<1>1. /\ TypeOK /\ RefcountExact /\ o \in threads /\ o \in Objs /\ Exact(o) /\ refcount[o] \in Nat /\ pc[n] = "ref"
      /\ dead' = dead /\ threads' = threads /\ op[n] # "exit"
  BY <1>0, Zenon DEF IInv, Shape, Locals, LocalOK, Targets, TargetOK, Listed, Holding, RefDelete,
     TypeOK, RefcountExact, Exact, lists
<1>2. CASE ShouldCollect(o, refcount[o] - 1, detached[o])
  <2>1. refcount' = [refcount EXCEPT ![o] = refcount[o] - 1 + 1] /\ pc' = [pc EXCEPT ![n] = "collectlist"] /\ target' = target
    BY <1>0, <1>2, Zenon DEF RefDelete, TryCollect, Goto
  <2>2. /\ pc'[n] = "collectlist" /\ \A m \in Natives : m # n => pc'[m] = pc[m]
        /\ \A p \in threads : refcount'[p] = refcount[p]
    BY <1>0, <1>1, <2>1, SMTT(30) DEF TypeOK
  <2> QED BY <1>0, <1>1, <2>1, <2>2, CountsFrame, Zenon DEF Holding
<1>3. CASE ~ShouldCollect(o, refcount[o] - 1, detached[o])
  <2>1. refcount' = [refcount EXCEPT ![o] = refcount[o] - 1] /\ Return(n)
    BY <1>0, <1>1, <1>3, Zenon DEF RefDelete, TryCollect, EndCollect
  <2>2. /\ pc'[n] = "idle" /\ \A m \in Natives : m # n => pc'[m] = pc[m] /\ target'[m] = target[m]
        /\ refcount'[o] = refcount[o] - 1 /\ \A p \in threads : p # o => refcount'[p] = refcount[p]
    BY <1>0, <1>1, <2>1, Zenon DEF TypeOK, Return
  <2>3. Cardinality(Refs(o)') = Cardinality(Refs(o)) - 1
    BY <1>0, <1>1, <2>2, RefsLeave, ZenonT(30) DEF Holds, Holding
  <2>4. Exact(o)'
    BY <1>1, <2>2, <2>3, ExactDown, Zenon
  <2> QED BY <1>0, <1>1, <2>2, <2>4, CountsOne, Zenon DEF Holding
<1> QED BY <1>0, <1>2, <1>3, Zenon

\* Every step keeps the counts exact.
LEMMA CountStep ==
    ASSUME CardRules, IInv, NEW n \in Natives,
           Step(n) \/ Create(n) \/ Exit(n) \/ \E o \in Objs, f \in Calls : Find(n, o, f)
    PROVE  RefcountExact'
BY QuietCounts, CollectLockCounts, LinkCounts, ExitCounts, VisitCounts, RefAddCounts, RefDeleteCounts,
   Zenon DEF Step

\* The process starts with the main thread alone, listed and counted.
LEMMA InitInv ==
    ASSUME CardRules, Init
    PROVE  IInv
<1> USE ThreadStateAssumption DEF ThreadStateAssumption
<1>1. TypeOK
  BY Zenon DEF Init, TypeOK, Labels
<1>2. Apart /\ Somewhere
  BY Zenon DEF Init, Apart, Somewhere, Shelves
<1>3. Locals
  BY Zenon DEF Init, Locals, LocalOK, Bare, Joining, Last, Exiting
<1>4. Targets /\ Freshs
  BY Zenon DEF Init, Targets, TargetOK, Listed, Holding, Joining, Freshs, FreshOK, Fresh
<1>5. Owners
  BY Zenon DEF Init, Owners, OwnerOK, Last
<1>6. JoinerOK /\ WorkOK /\ GhostOK
  BY Zenon DEF Init, JoinerOK, WorkOK, GhostOK
<1>7. RefcountExact
  <2>1. Refs(MainObj) = {}
    BY Zenon DEF Init, Refs
  <2>2. Cardinality(Refs(MainObj)) = 0
    BY <2>1, Zenon DEF CardRules
  <2>3. threads = {MainObj} /\ refcount[MainObj] = 1 /\ ~dead[MainObj]
    BY Zenon DEF Init
  <2> QED BY <2>2, <2>3, SMTT(30) DEF RefcountExact
<1> QED BY <1>1, <1>2, <1>3, <1>4, <1>5, <1>6, <1>7, Zenon DEF IInv, Shape
-----------------------------------------------------------------------------
(* The steps that move an object or end a thread.                          *)

\* The second half of TryCollect moves a collectable object to the garbage list.
\* Nobody else can be using it: Counted says no other call references it, it is
\* detached and so has no joiner, and n has the list lock, so that nobody has found it.
LEMMA CollectLockStep ==
    ASSUME Shape, Counted, NEW n \in Natives, CollectLock(n)
    PROVE  Shape'
<1> DEFINE o == target[n]
<1>1. /\ TypeOK /\ LocalOK(n) /\ pc[n] = "collectlock" /\ n # None /\ thread_list_lock = n
      /\ o \in Objs /\ o \in threads /\ refcount[o] \in Nat \ {0}
      /\ refcount[o] = 1 => \A m \in Natives : Holds(m, o) => m = n
  BY ThreadStateAssumption, Zenon DEF Shape, Locals, LocalOK, Targets, TargetOK, Counted,
     CollectLock, Listed, Holding, Bare, ThreadStateAssumption
<1>2. /\ threads' \subseteq threads /\ (threads' = threads => gc_list' = gc_list)
      /\ threads' # threads => /\ dead[o] /\ detached[o] /\ refcount[o] = 1
                               /\ threads' = threads \ {o} /\ gc_list' = gc_list \cup {o}
  BY <1>1, Zenon DEF CollectLock
<1>3. \A m \in Natives : m # n => pc'[m] = pc[m]
  BY <1>1, Zenon DEF CollectLock, Goto, TypeOK
<1>4. pc'[n] = "collectunlock" /\ thread_list_lock' = None
  BY <1>1, Zenon DEF CollectLock, Goto, TypeOK
<1>5. /\ UNCHANGED <<free_threads, heap, cur, work, orphan, stale, dead, terminated, detached, joiner, target, op>>
      /\ refcount' = [refcount EXCEPT ![o] = @ - 1]
  BY Zenon DEF CollectLock, natives, ghosts
<1>6. TypeOK'
  <2>1. refcount' \in [Objs -> Nat]
    <3>1. refcount \in [Objs -> Nat] /\ refcount[o] - 1 \in Nat
      BY <1>1, SMTT(30) DEF TypeOK
    <3> QED BY <1>5, <3>1, Zenon
  <2>2. pc' \in [Natives -> Labels]
    BY <1>1, Zenon DEF TypeOK, Labels, CollectLock, Goto
  <2>3. lock' \in [Objs -> Natives \cup {None}] /\ thread_list_lock' \in Natives \cup {None}
    BY <1>1, Zenon DEF TypeOK, CollectLock
  <2>4. threads' \subseteq Objs /\ gc_list' \subseteq Objs
    BY <1>1, <1>2, Zenon DEF TypeOK
  <2> QED BY <1>1, <1>5, <2>1, <2>2, <2>3, <2>4, ZenonT(30) DEF TypeOK, CollectLock, natives
<1>7. Apart'
  BY <1>1, <1>2, <1>3, <1>4, <1>5, SMTT(30) DEF Shape, Apart, Shelves
<1>8. Somewhere'
  BY <1>1, <1>2, <1>3, <1>4, <1>5, SMTT(30) DEF Shape, Somewhere, Shelves
<1>9. Locals'
  <2> SUFFICES ASSUME NEW m \in Natives PROVE LocalOK(m)'
    BY Zenon DEF Locals
  <2>1. CASE m # n
    <3>1. LocalOK(m) /\ thread_list_lock' # m /\ thread_list_lock # m
      BY <1>1, <1>4, <2>1, ThreadStateAssumption, Zenon DEF Shape, Locals, ThreadStateAssumption
    <3> QED BY <3>1, <1>3, <1>5, <2>1, LocalFrame, Zenon
  <2>2. CASE m = n
    BY <1>1, <1>4, <1>5, <2>2, Zenon DEF LocalOK, Bare, Joining, Last, Exiting
  <2> QED BY <2>1, <2>2, Zenon
<1>10. Targets'
  <2> SUFFICES ASSUME NEW m \in Natives, m # n, pc[m] \in Listed PROVE TargetOK(m)'
    BY <1>3, <1>4, Zenon DEF Targets, TargetOK, Listed, Holding, Joining
  <2>1. TargetOK(m) /\ LocalOK(m) /\ FreshOK(m)
    BY Zenon DEF Shape, Targets, Locals, Freshs
  <2>2. ASSUME refcount[o] = 1, dead[o], detached[o], target[m] = o
        PROVE  FALSE
    <3>1. pc[m] \notin Holding
      BY <1>1, <2>2, Zenon DEF Holds
    <3>2. pc[m] # "found"
      BY <1>1, <2>1, Zenon DEF LocalOK
    <3>3. pc[m] # "start"
      BY <2>1, <2>2, Zenon DEF FreshOK, Fresh
    <3>4. pc[m] \notin Joining
      BY <1>1, <2>1, <2>2, ThreadStateAssumption, Zenon DEF TargetOK, Shape, JoinerOK,
         ThreadStateAssumption
    <3> QED BY <3>1, <3>2, <3>3, <3>4, Zenon DEF Listed
  <2>3. target[m] \in threads'
    BY <1>2, <2>1, <2>2, Zenon DEF TargetOK
  <2> QED BY <1>3, <1>5, <2>1, <2>3, Zenon DEF TargetOK
<1>11. Freshs'
  <2>1. \A m \in Natives : pc'[m] \in Fresh => pc'[m] = pc[m] /\ target'[m] = target[m]
    BY <1>3, <1>4, <1>5, Zenon DEF Fresh
  <2>2. \A m \in Natives : pc[m] = "link" => target[m] \in Objs /\ target[m] # o
    BY <1>1, Zenon DEF Shape, Locals, LocalOK, Bare, Apart, Shelves
  <2> QED BY <1>1, <1>5, <2>1, <2>2, FreshFrame, Zenon DEF Shape, TypeOK
<1>12. Owners'
  BY <1>1, <1>2, <1>3, <1>4, <1>5, OwnersFrame, Zenon DEF Shape, Last
<1>13. JoinerOK' /\ WorkOK'
  BY <1>5, Zenon DEF Shape, JoinerOK, WorkOK
<1>14. GhostOK'
  BY <1>1, <1>3, <1>4, <1>5, Zenon DEF Shape, GhostOK, TypeOK, Tails, Last
<1> QED BY <1>6, <1>7, <1>8, <1>9, <1>10, <1>11, <1>12, <1>13, <1>14, Zenon DEF Shape

\* Collect moves the terminated objects of the garbage list to its work list.
LEMMA CollectStep ==
    ASSUME Shape, NEW n \in Natives, Collect(n)
    PROVE  Shape'
<1>1. TypeOK /\ LocalOK(n) /\ pc[n] = "collect" /\ work[n] = {}
  BY Zenon DEF Shape, Locals, LocalOK, Collect
<1>2. /\ work'[n] = {o \in gc_list : terminated[o]}
      /\ \A m \in Natives : m # n => work'[m] = work[m] /\ pc'[m] = pc[m]
      /\ gc_list' = {o \in gc_list : ~terminated[o]} /\ pc'[n] = "free"
  BY <1>1, Zenon DEF Collect, Goto, TypeOK
<1>3. UNCHANGED <<threads, free_threads, heap, thread_list_lock, refcount, dead, detached, joiner, terminated,
                  cur, target, op, stale, orphan>>
  BY Zenon DEF Collect, fields, ghosts
<1>4. TypeOK'
  <2>1. pc' \in [Natives -> Labels] /\ work' \in [Natives -> SUBSET Objs]
    BY <1>1, Zenon DEF TypeOK, Labels, Collect, Goto
  <2> QED BY <1>1, <1>2, <1>3, <2>1, Zenon DEF TypeOK, Collect
<1>5. Apart'
  BY <1>1, <1>2, <1>3, SMTT(30) DEF Shape, Apart, Shelves
<1>6. Somewhere'
  BY <1>1, <1>2, <1>3, SMTT(30) DEF Shape, Somewhere, Shelves, TypeOK
<1>7. Locals'
  <2> SUFFICES ASSUME NEW m \in Natives PROVE LocalOK(m)'
    BY Zenon DEF Locals
  <2>1. CASE m # n
    <3>1. LocalOK(m)
      BY Zenon DEF Shape, Locals
    <3> QED BY <3>1, <1>2, <1>3, <2>1, LocalFrame, Zenon
  <2>2. CASE m = n
    BY <1>1, <1>2, <1>3, <2>2, Zenon DEF LocalOK, Bare, Joining, Last, Exiting
  <2> QED BY <2>1, <2>2, Zenon
<1>8. Targets'
  BY <1>2, <1>3, Zenon DEF Shape, Targets, TargetOK, Listed, Holding, Joining
<1>9. Freshs'
  <2>1. \A m \in Natives : pc'[m] \in Fresh => pc'[m] = pc[m] /\ target'[m] = target[m]
    BY <1>2, <1>3, Zenon DEF Fresh
  <2> QED BY <1>1, <1>3, <2>1, FreshFrame, Zenon DEF Shape
<1>10. Owners'
  BY <1>1, <1>2, <1>3, OwnersFrame, Zenon DEF Shape, Last
<1>11. JoinerOK' /\ WorkOK'
  BY <1>1, <1>2, <1>3, Zenon DEF Shape, JoinerOK, WorkOK, TypeOK
<1>12. GhostOK'
  BY <1>1, <1>2, <1>3, Zenon DEF Shape, GhostOK, TypeOK, Tails, Last
<1> QED BY <1>4, <1>5, <1>6, <1>7, <1>8, <1>9, <1>10, <1>11, <1>12, Zenon DEF Shape

\* Free destroys an object: whoever still runs on it is in a tail.
LEMMA FreeStep ==
    ASSUME Shape, NEW n \in Natives, Free(n)
    PROVE  Shape'
<1>1. PICK o \in work[n] :
        /\ work' = [work EXCEPT ![n] = @ \ {o}]
        /\ \/ heap' = heap \cup {o} /\ free_threads' = free_threads
           \/ free_threads' = free_threads \cup {o} /\ heap' = heap
        /\ stale' = stale \cup {x \in Natives : target[x] = o}
        /\ orphan' = orphan \cup {x \in Natives : cur[x] = o}
  BY Zenon DEF Free
<1>2. /\ TypeOK /\ LocalOK(n) /\ pc[n] = "free"
      /\ o \in Objs /\ o # None /\ terminated[o] /\ o \notin Shelves
      /\ \A m \in Natives : m # n => o \notin work[m]
  BY <1>1, ThreadStateAssumption, SMTT(30) DEF Shape, Locals, Free, TypeOK, WorkOK, Apart,
     ThreadStateAssumption
<1>3. /\ UNCHANGED <<threads, gc_list, thread_list_lock, lock, refcount, dead, detached, joiner, terminated,
                     pc, cur, target, op, calls>>
      /\ work'[n] = work[n] \ {o} /\ \A m \in Natives : m # n => work'[m] = work[m]
  BY <1>1, <1>2, Zenon DEF Free, fields, TypeOK
<1>4. TypeOK'
  BY <1>1, <1>2, <1>3, Zenon DEF TypeOK
<1>5. Apart'
  <2>1. Apart /\ Shelves' = Shelves \cup {o}
    BY <1>1, <1>3, Zenon DEF Shape, Shelves
  <2>2. /\ (threads \cap gc_list = {} /\ threads \cap free_threads = {} /\ threads \cap heap = {})'
        /\ (gc_list \cap free_threads = {} /\ gc_list \cap heap = {} /\ free_threads \cap heap = {})'
    BY <1>1, <1>2, <1>3, <2>1, SMTT(30) DEF Apart, Shelves
  <2>3. \A m \in Natives : work'[m] \subseteq work[m] /\ o \notin work'[m]
    BY <1>2, <1>3, Zenon
  <2>4. \A m \in Natives : work'[m] \cap Shelves' = {}
    BY <2>1, <2>3, SMTT(30) DEF Apart
  <2>5. \A m, x \in Natives : m # x => work'[m] \cap work'[x] = {}
    BY <2>1, <2>3, Zenon DEF Apart
  <2>6. \A m \in Natives : pc[m] = "link" => target[m] # o
    BY <1>1, <2>1, Zenon DEF Apart
  <2> QED BY <1>3, <2>1, <2>2, <2>3, <2>4, <2>5, <2>6, Zenon DEF Apart
<1>6. Somewhere'
  BY <1>1, <1>2, <1>3, Zenon DEF Shape, Somewhere, Shelves
<1>7. Locals'
  <2> SUFFICES ASSUME NEW m \in Natives PROVE LocalOK(m)'
    BY Zenon DEF Locals
  <2>1. LocalOK(m)
    BY Zenon DEF Shape, Locals
  <2> QED BY <1>2, <1>3, <2>1, Zenon DEF LocalOK
<1>8. Targets'
  BY <1>3, Zenon DEF Shape, Targets, TargetOK
<1>9. Freshs'
  BY <1>1, <1>2, <1>3, FreshFrame, Zenon DEF Shape
<1>10. Owners'
  <2> SUFFICES ASSUME NEW m \in Natives, cur[m] # None, m \notin orphan' PROVE OwnerOK(m)'
    BY <1>3, Zenon DEF Owners, OwnerOK
  <2>1. OwnerOK(m) /\ m \notin orphan /\ cur[m] # o
    BY <1>1, Zenon DEF Shape, Owners
  <2> QED BY <1>1, <1>3, <2>1, Zenon DEF OwnerOK
<1>11. JoinerOK' /\ WorkOK'
  BY <1>1, <1>2, <1>3, Zenon DEF Shape, JoinerOK, WorkOK
<1>12. GhostOK'
  <2>1. ASSUME NEW x \in Natives, cur[x] = o PROVE pc[x] \in Last
    BY <1>2, <2>1, Zenon DEF Shape, GhostOK, Owners, OwnerOK
  <2>2. ASSUME NEW x \in Natives, target[x] = o
        PROVE  pc[x] \in Tails /\ (op[x] = "exit" => cur[x] = o)
    <3>1. LocalOK(x) /\ TargetOK(x) /\ pc[x] \in Labels
      BY <1>2, Zenon DEF Shape, Locals, Targets, TypeOK
    <3>2. pc[x] \notin Listed \cup Bare
      BY <3>1, <1>2, <2>2, Zenon DEF LocalOK, TargetOK, Shelves
    <3>3. pc[x] # "link"
      BY <1>1, <2>2, Zenon DEF Shape, Apart
    <3>4. pc[x] # "terminate"
      BY <3>1, <2>1, <2>2, Zenon DEF LocalOK, Last
    <3> QED BY <3>1, <3>2, <3>3, <3>4, <2>2, Zenon DEF LocalOK, Labels, Listed, Bare, Tails, Last,
               Holding, Joining
  <2> QED BY <1>1, <1>3, <2>1, <2>2, Zenon DEF Shape, GhostOK
<1> QED BY <1>4, <1>5, <1>6, <1>7, <1>8, <1>9, <1>10, <1>11, <1>12, Zenon DEF Shape

\* Alloc takes an object nobody else has.
LEMMA AllocStep ==
    ASSUME Shape, NEW n \in Natives, Alloc(n)
    PROVE  Shape'
<1>1. PICK o \in free_threads \cup heap, d \in BOOLEAN :
        /\ free_threads' = free_threads \ {o} /\ heap' = heap \ {o}
        /\ lock' = [lock EXCEPT ![o] = None]
        /\ refcount' = [refcount EXCEPT ![o] = 1]
        /\ dead' = [dead EXCEPT ![o] = FALSE]
        /\ detached' = [detached EXCEPT ![o] = d]
        /\ joiner' = [joiner EXCEPT ![o] = None]
        /\ terminated' = [terminated EXCEPT ![o] = FALSE]
        /\ target' = [target EXCEPT ![n] = o]
  BY Zenon DEF Alloc
<1>2. /\ TypeOK /\ LocalOK(n) /\ pc[n] = "alloc" /\ o \in Objs /\ o # None
      /\ o \notin threads \cup gc_list
      /\ \A m \in Natives : o \notin work[m] /\ (pc[m] \in Fresh => target[m] # o) /\ (cur[m] = o => m \in orphan)
  <2>1. TypeOK /\ LocalOK(n) /\ pc[n] = "alloc" /\ o \in Objs /\ o # None
    BY <1>1, ThreadStateAssumption, SMTT(30) DEF Shape, Locals, Alloc, TypeOK, ThreadStateAssumption
  <2>2. o \notin threads \cup gc_list /\ \A m \in Natives : o \notin work[m]
    BY <1>1, Zenon DEF Shape, Apart, Shelves
  <2>3. ASSUME NEW m \in Natives, pc[m] \in Fresh PROVE target[m] # o
    BY <1>1, <2>2, <2>3, Zenon DEF Shape, Apart, Shelves, Targets, TargetOK, Fresh, Listed
  <2>4. ASSUME NEW m \in Natives, cur[m] = o PROVE m \in orphan
    BY <1>1, <2>1, <2>4, Zenon DEF Shape, Owners, OwnerOK
  <2> QED BY <2>1, <2>2, <2>3, <2>4, Zenon
<1>3. /\ UNCHANGED <<threads, gc_list, thread_list_lock, cur, op, work, stale, orphan, calls>>
      /\ pc'[n] = "link" /\ target'[n] = o
      /\ \A m \in Natives : m # n => pc'[m] = pc[m] /\ target'[m] = target[m]
  BY <1>1, <1>2, SMTT(30) DEF Alloc, Goto, ghosts, TypeOK
<1>4. /\ refcount'[o] = 1 /\ ~dead'[o] /\ ~terminated'[o] /\ joiner'[o] = None
      /\ \A p \in Objs : p # o => /\ refcount'[p] = refcount[p] /\ dead'[p] = dead[p]
                                  /\ terminated'[p] = terminated[p] /\ joiner'[p] = joiner[p]
                                  /\ detached'[p] = detached[p]
  BY <1>1, <1>2, Zenon DEF TypeOK
<1>5. TypeOK'
  <2>1. pc' \in [Natives -> Labels] /\ target' \in [Natives -> Objs \cup {None}]
    BY <1>1, <1>2, Zenon DEF TypeOK, Labels, Alloc, Goto
  <2>2. /\ refcount' \in [Objs -> Nat] /\ dead' \in [Objs -> BOOLEAN] /\ terminated' \in [Objs -> BOOLEAN]
        /\ detached' \in [Objs -> BOOLEAN] /\ joiner' \in [Objs -> Natives \cup {None}]
        /\ lock' \in [Objs -> Natives \cup {None}]
    BY <1>1, <1>2, Zenon DEF TypeOK
  <2> QED BY <1>1, <1>2, <1>3, <2>1, <2>2, Zenon DEF TypeOK
<1>6. Apart'
  <2>1. Apart /\ Shelves' = Shelves \ {o} /\ \A m \in Natives : work'[m] = work[m] /\ o \notin work[m]
    BY <1>1, <1>2, <1>3, Zenon DEF Shape, Shelves
  <2>2. /\ (threads \cap gc_list = {} /\ threads \cap free_threads = {} /\ threads \cap heap = {})'
        /\ (gc_list \cap free_threads = {} /\ gc_list \cap heap = {} /\ free_threads \cap heap = {})'
    BY <1>1, <1>3, <2>1, Zenon DEF Apart
  <2>3. \A m \in Natives : work'[m] \cap Shelves' = {}
    BY <2>1, Zenon DEF Apart
  <2>4. \A m, x \in Natives : m # x => work'[m] \cap work'[x] = {}
    BY <2>1, Zenon DEF Apart
  <2>5. \A m \in Natives : pc'[m] = "link" => \/ m = n /\ target'[m] = o
                                              \/ pc[m] = "link" /\ target'[m] = target[m] /\ target[m] # o
    BY <1>2, <1>3, Zenon DEF Fresh
  <2>6. \A m \in Natives : pc'[m] = "link" => target'[m] \notin Shelves'
    BY <2>1, <2>5, Zenon DEF Apart
  <2>7. \A m, x \in Natives : pc'[m] = "link" => target'[m] \notin work'[x]
    BY <2>1, <2>5, Zenon DEF Apart
  <2>8. \A m, x \in Natives : pc'[m] = "link" /\ pc'[x] = "link" /\ target'[x] = target'[m] => x = m
    BY <2>1, <2>5, ZenonT(30) DEF Apart
  <2> QED BY <2>2, <2>3, <2>4, <2>6, <2>7, <2>8, Zenon DEF Apart
<1>7. Somewhere'
  BY <1>1, <1>2, <1>3, SMTT(30) DEF Shape, Somewhere, Shelves
<1>8. Locals'
  <2> SUFFICES ASSUME NEW m \in Natives PROVE LocalOK(m)'
    BY Zenon DEF Locals
  <2>1. CASE m # n
    <3>1. LocalOK(m)
      BY Zenon DEF Shape, Locals
    <3> QED BY <3>1, <1>3, <2>1, LocalFrame, Zenon
  <2>2. CASE m = n
    BY <1>2, <1>3, <2>2, ThreadStateAssumption, Zenon DEF LocalOK, Bare, Joining, Last, Exiting,
       ThreadStateAssumption
  <2> QED BY <2>1, <2>2, Zenon
<1>9. Targets'
  <2> SUFFICES ASSUME NEW m \in Natives, m # n, pc[m] \in Listed PROVE TargetOK(m)'
    BY <1>3, Zenon DEF Targets, TargetOK, Listed, Holding, Joining
  <2>1. TargetOK(m) /\ target[m] \in threads /\ target[m] \in Objs /\ target[m] # o
    BY <1>2, Zenon DEF Shape, Targets, TargetOK, TypeOK
  <2> QED BY <1>3, <1>4, <2>1, Zenon DEF TargetOK
<1>10. Freshs'
  <2> SUFFICES ASSUME NEW m \in Natives, pc'[m] \in Fresh PROVE FreshOK(m)'
    BY Zenon DEF Freshs, FreshOK
  <2>1. CASE m = n
    <3>1. \A x \in Natives : x # n /\ pc'[x] \in Fresh => target'[x] # o
      BY <1>2, <1>3, Zenon
    <3>2. \A x \in Natives : cur'[x] = o => x \in orphan'
      BY <1>2, <1>3, Zenon
    <3> QED BY <1>3, <1>4, <2>1, <3>1, <3>2, Zenon DEF FreshOK
  <2>2. CASE m # n
    <3>1. FreshOK(m) /\ target[m] \in Objs /\ target[m] # o /\ pc[m] \in Fresh
      BY <1>2, <1>3, <2>2, Zenon DEF Shape, Freshs, Locals, LocalOK, Fresh, Bare
    <3>2. pc'[m] = pc[m] /\ target'[m] = target[m]
      BY <1>3, <2>2, Zenon
    <3>3. ~dead'[target[m]] /\ ~terminated'[target[m]] /\ (pc[m] = "link" => refcount'[target[m]] = 1)
      BY <1>4, <3>1, Zenon DEF FreshOK
    <3>4. \A x \in Natives : x # m /\ pc'[x] \in Fresh => target'[x] # target[m]
      BY <1>3, <3>1, Zenon DEF FreshOK
    <3>5. \A x \in Natives : cur'[x] = target[m] => x \in orphan'
      BY <1>3, <3>1, Zenon DEF FreshOK
    <3> QED BY <3>2, <3>3, <3>4, <3>5, Zenon DEF FreshOK
  <2> QED BY <2>1, <2>2, Zenon
<1>11. Owners'
  <2> SUFFICES ASSUME NEW m \in Natives, cur[m] # None, m \notin orphan PROVE OwnerOK(m)'
    BY <1>3, Zenon DEF Owners, OwnerOK
  <2>1. OwnerOK(m) /\ cur[m] # o /\ cur[m] \in Objs
    BY <1>2, Zenon DEF Shape, Owners, TypeOK
  <2>2. pc'[m] \in Last <=> pc[m] \in Last
    BY <1>2, <1>3, Zenon DEF Last
  <2> QED BY <1>1, <1>3, <1>4, <2>1, <2>2, SMTT(30) DEF OwnerOK
<1>12. JoinerOK' /\ WorkOK'
  <2>1. JoinerOK'
    BY <1>4, Zenon DEF Shape, JoinerOK
  <2>2. \A m \in Natives : \A p \in work[m] : p \in Objs /\ p # o /\ terminated[p]
    BY <1>2, Zenon DEF Shape, WorkOK, TypeOK
  <2>3. WorkOK'
    BY <1>3, <1>4, <2>2, Zenon DEF WorkOK
  <2> QED BY <2>1, <2>3, Zenon
<1>13. GhostOK'
  BY <1>2, <1>3, Zenon DEF Shape, GhostOK, TypeOK, Tails, Last
<1> QED BY <1>5, <1>6, <1>7, <1>8, <1>9, <1>10, <1>11, <1>12, <1>13, Zenon DEF Shape

\* Link puts the new object in the thread list.
LEMMA LinkStep ==
    ASSUME Shape, NEW n \in Natives, Link(n)
    PROVE  Shape'
<1> DEFINE o == target[n]
<1>1. TypeOK /\ LocalOK(n) /\ pc[n] = "link" /\ o \in Objs
  BY Zenon DEF Shape, Locals, LocalOK, Link, Bare
<1>2. /\ threads' = threads \cup {o} /\ pc'[n] = "start"
      /\ \A m \in Natives : m # n => pc'[m] = pc[m]
  BY <1>1, Zenon DEF Link, Goto, TypeOK
<1>3. UNCHANGED <<gc_list, free_threads, heap, thread_list_lock, refcount, dead, detached, joiner, terminated,
                  cur, target, op, work, stale, orphan>>
  BY Zenon DEF Link, fields, natives, ghosts
<1>4. TypeOK'
  BY <1>1, Zenon DEF TypeOK, Labels, Link, Goto, fields, natives, ghosts
<1>5. Apart'
  BY <1>1, <1>2, <1>3, SMTT(30) DEF Shape, Apart, Shelves
<1>6. Somewhere'
  BY <1>1, <1>2, <1>3, SMTT(30) DEF Shape, Somewhere, Shelves
<1>7. Locals'
  <2> SUFFICES ASSUME NEW m \in Natives PROVE LocalOK(m)'
    BY Zenon DEF Locals
  <2>1. CASE m # n
    <3>1. LocalOK(m)
      BY Zenon DEF Shape, Locals
    <3> QED BY <3>1, <1>2, <1>3, <2>1, LocalFrame, Zenon
  <2>2. CASE m = n
    BY <1>1, <1>2, <1>3, <2>2, Zenon DEF LocalOK, Bare, Joining, Last, Exiting
  <2> QED BY <2>1, <2>2, Zenon
<1>8. Targets'
  BY <1>2, <1>3, Zenon DEF Shape, Targets, TargetOK, Listed, Holding, Joining
<1>9. Freshs'
  <2> SUFFICES ASSUME NEW m \in Natives, pc'[m] \in Fresh PROVE FreshOK(m)'
    BY Zenon DEF Freshs, FreshOK
  <2>1. FreshOK(m) /\ pc[m] \in Fresh
    BY <1>1, <1>2, Zenon DEF Shape, Freshs, Fresh
  <2>2. \A x \in Natives : pc'[x] \in Fresh => pc[x] \in Fresh
    BY <1>1, <1>2, Zenon DEF Fresh
  <2>3. pc'[m] = "link" => pc[m] = "link"
    BY <1>2, Zenon
  <2> QED BY <1>3, <2>1, <2>2, <2>3, Zenon DEF FreshOK
<1>10. Owners'
  BY <1>1, <1>2, <1>3, OwnersFrame, Zenon DEF Shape, Last
<1>11. JoinerOK' /\ WorkOK'
  BY <1>3, Zenon DEF Shape, JoinerOK, WorkOK
<1>12. GhostOK'
  BY <1>1, <1>2, <1>3, Zenon DEF Shape, GhostOK, TypeOK, Tails, Last
<1> QED BY <1>4, <1>5, <1>6, <1>7, <1>8, <1>9, <1>10, <1>11, <1>12, Zenon DEF Shape

\* The new host thread runs on the object.
LEMMA StartStep ==
    ASSUME Shape, NEW n \in Natives, Start(n)
    PROVE  Shape'
<1> DEFINE o == target[n]
<1>1. PICK x \in Natives : /\ pc[x] = "unborn" /\ cur' = [cur EXCEPT ![x] = o]
                           /\ pc' = [pc EXCEPT ![x] = "idle", ![n] = "affinity"]
  BY Zenon DEF Start
<1>2. /\ TypeOK /\ LocalOK(n) /\ LocalOK(x) /\ TargetOK(n) /\ FreshOK(n) /\ pc[n] = "start"
      /\ x \notin orphan
  BY <1>1, Zenon DEF Shape, Locals, Targets, Freshs, Start, GhostOK, Last
<1>3. /\ x # n /\ cur[x] = None /\ op[x] = None /\ o \in Objs /\ o # None /\ o \in threads
      /\ o \notin free_threads \cup heap
  BY <1>1, <1>2, ThreadStateAssumption, Zenon DEF LocalOK, TargetOK, Bare, Listed, Shape, Apart,
     ThreadStateAssumption
<1>4. /\ pc'[x] = "idle" /\ pc'[n] = "affinity" /\ cur'[x] = o
      /\ \A m \in Natives : m # x => cur'[m] = cur[m]
      /\ \A m \in Natives : m # x /\ m # n => pc'[m] = pc[m]
  BY <1>1, <1>2, <1>3, Zenon DEF TypeOK
<1>5. UNCHANGED <<threads, gc_list, free_threads, heap, thread_list_lock, refcount, dead, detached, joiner,
                  terminated, target, op, work, stale, orphan>>
  BY Zenon DEF Start, lists, fields, ghosts
<1>6. TypeOK'
  <2>1. pc' \in [Natives -> Labels] /\ cur' \in [Natives -> Objs \cup {None}]
    BY <1>1, <1>2, <1>3, Zenon DEF TypeOK, Labels
  <2> QED BY <1>2, <1>5, <2>1, Zenon DEF TypeOK, Start
<1>7. Apart' /\ Somewhere'
  BY <1>1, <1>2, <1>4, <1>5, PlacesFrame, Zenon DEF Shape
<1>8. Locals'
  <2> SUFFICES ASSUME NEW m \in Natives PROVE LocalOK(m)'
    BY Zenon DEF Locals
  <2>1. CASE m # n /\ m # x
    <3>1. LocalOK(m)
      BY Zenon DEF Shape, Locals
    <3> QED BY <3>1, <1>4, <1>5, <2>1, LocalFrame, Zenon
  <2>2. CASE m = n
    BY <1>2, <1>3, <1>4, <1>5, <2>2, Zenon DEF LocalOK, Bare, Joining, Last, Exiting
  <2>3. CASE m = x
    BY <1>1, <1>2, <1>3, <1>4, <1>5, <2>3, Zenon DEF LocalOK, Bare, Joining, Last, Exiting
  <2> QED BY <2>1, <2>2, <2>3, Zenon
<1>9. Targets'
  BY <1>4, <1>5, Zenon DEF Shape, Targets, TargetOK, Listed, Holding, Joining
<1>10. Freshs'
  <2> SUFFICES ASSUME NEW m \in Natives, pc'[m] \in Fresh PROVE FreshOK(m)'
    BY Zenon DEF Freshs, FreshOK
  <2>1. m # n /\ m # x /\ pc[m] = pc'[m]
    BY <1>4, Zenon DEF Fresh
  <2>2. FreshOK(m) /\ target[m] # o
    BY <1>2, <2>1, Zenon DEF Shape, Freshs, FreshOK, Fresh
  <2>3. \A z \in Natives : pc'[z] \in Fresh => pc[z] \in Fresh
    BY <1>4, Zenon DEF Fresh
  <2>4. \A z \in Natives : cur'[z] = target[m] => cur[z] = target[m]
    BY <1>4, <2>2, Zenon
  <2> QED BY <1>5, <2>1, <2>2, <2>3, <2>4, Zenon DEF FreshOK
<1>11. Owners'
  <2> SUFFICES ASSUME NEW m \in Natives, cur'[m] # None, m \notin orphan PROVE OwnerOK(m)'
    BY <1>5, Zenon DEF Owners, OwnerOK
  <2>1. CASE m = x
    <3>1. ~dead[o] /\ ~terminated[o] /\ \A z \in Natives : cur[z] = o => z \in orphan
      BY <1>2, Zenon DEF FreshOK, Fresh
    <3>2. op'[x] # "exit" /\ pc'[x] \notin Last
      BY <1>3, <1>4, <1>5, ThreadStateAssumption, Zenon DEF Last, ThreadStateAssumption
    <3> QED BY <1>3, <1>4, <1>5, <2>1, <3>1, <3>2, Zenon DEF OwnerOK
  <2>2. CASE m # x
    <3>1. OwnerOK(m) /\ cur[m] # o /\ cur[m] # None
      BY <1>2, <1>4, <2>2, Zenon DEF Shape, Owners, FreshOK, Fresh
    <3>2. pc'[m] \in Last <=> pc[m] \in Last
      BY <1>2, <1>4, <2>2, Zenon DEF Last
    <3> QED BY <1>3, <1>4, <1>5, <2>2, <3>1, <3>2, Zenon DEF OwnerOK
  <2> QED BY <2>1, <2>2, Zenon
<1>12. JoinerOK' /\ WorkOK'
  BY <1>5, Zenon DEF Shape, JoinerOK, WorkOK
<1>13. GhostOK'
  BY <1>1, <1>2, <1>4, <1>5, Zenon DEF Shape, GhostOK, TypeOK, Tails, Last
<1> QED BY <1>6, <1>7, <1>8, <1>9, <1>10, <1>11, <1>12, <1>13, Zenon DEF Shape

\* pthread_exit: the thread is dead from here on.
LEMMA ExitStep ==
    ASSUME Shape, Counted, NEW n \in Natives, Exit(n)
    PROVE  Shape'
<1> DEFINE o == cur[n]
<1>1. /\ TypeOK /\ LocalOK(n) /\ pc[n] = "idle" /\ n \notin orphan /\ n \notin stale
      /\ o \in Objs /\ o # None /\ OwnerOK(n) /\ refcount[o] \in Nat \ {0} /\ op[n] # "exit"
  BY Running, Zenon DEF Shape, Locals, LocalOK, Exit, Last, Counted, GhostOK, Tails, Exiting
<1>2. o \in threads /\ ~dead[o] /\ ~terminated[o] /\ \A m \in Natives : m # n /\ cur[m] = o => m \in orphan
  BY <1>1, Zenon DEF OwnerOK, Last
<1>3. /\ dead' = [dead EXCEPT ![o] = TRUE] /\ target' = [target EXCEPT ![n] = o]
      /\ op' = [op EXCEPT ![n] = "exit"]
      /\ UNCHANGED <<threads, gc_list, free_threads, heap, thread_list_lock, lock, detached, joiner, terminated,
                     cur, work, stale, orphan, calls>>
  BY Zenon DEF Exit, lists, ghosts
<1>4. /\ \/ refcount' = refcount /\ pc' = [pc EXCEPT ![n] = "collectlist"]
         \/ refcount' = [refcount EXCEPT ![o] = @ - 1] /\ pc' = [pc EXCEPT ![n] = "terminate"]
  BY Zenon DEF Exit, Goto
<1>5. /\ pc'[n] \in {"collectlist", "terminate"} /\ target'[n] = o /\ op'[n] = "exit" /\ dead'[o]
      /\ \A m \in Natives : m # n => pc'[m] = pc[m] /\ target'[m] = target[m] /\ op'[m] = op[m]
      /\ \A p \in Objs : p # o => dead'[p] = dead[p] /\ refcount'[p] = refcount[p]
  BY <1>1, <1>3, <1>4, Zenon DEF TypeOK
<1>6. TypeOK'
  <2>1. refcount' \in [Objs -> Nat]
    <3>1. refcount \in [Objs -> Nat] /\ refcount[o] - 1 \in Nat
      BY <1>1, SMTT(30) DEF TypeOK
    <3> QED BY <1>4, <3>1, Zenon
  <2>2. pc' \in [Natives -> Labels]
    BY <1>1, <1>4, ZenonT(30) DEF TypeOK, Labels
  <2>3. /\ dead' \in [Objs -> BOOLEAN] /\ target' \in [Natives -> Objs \cup {None}]
        /\ op' \in [Natives -> Calls \cup {"exit", None}]
    BY <1>1, <1>3, Zenon DEF TypeOK
  <2> QED BY <1>1, <1>3, <2>1, <2>2, <2>3, Zenon DEF TypeOK
<1>7. Apart' /\ Somewhere'
  BY <1>1, <1>3, <1>5, PlacesFrame, Zenon DEF Shape
<1>8. Locals'
  <2> SUFFICES ASSUME NEW m \in Natives PROVE LocalOK(m)'
    BY Zenon DEF Locals
  <2>1. CASE m # n
    <3>1. LocalOK(m)
      BY Zenon DEF Shape, Locals
    <3> QED BY <3>1, <1>3, <1>5, <2>1, LocalFrame, Zenon
  <2>2. CASE m = n
    BY <1>1, <1>3, <1>5, <2>2, Zenon DEF LocalOK, Bare, Joining, Last, Exiting
  <2> QED BY <2>1, <2>2, Zenon
<1>9. Targets'
  <2> SUFFICES ASSUME NEW m \in Natives PROVE TargetOK(m)'
    BY Zenon DEF Targets
  <2>1. CASE m # n
    <3>1. TargetOK(m)
      BY Zenon DEF Shape, Targets
    <3> QED BY <1>3, <1>5, <2>1, <3>1, SMTT(30) DEF TargetOK
  <2>2. CASE m = n
    BY <1>2, <1>3, <1>5, <2>2, SMTT(30) DEF TargetOK, Joining
  <2> QED BY <2>1, <2>2, Zenon
<1>10. Freshs'
  <2>1. \A m \in Natives : pc'[m] \in Fresh => /\ pc'[m] = pc[m] /\ target'[m] = target[m]
                                               /\ target[m] \in Objs /\ target[m] # o
    <3> SUFFICES ASSUME NEW m \in Natives, pc'[m] \in Fresh PROVE /\ pc'[m] = pc[m] /\ target'[m] = target[m]
                                                                  /\ target[m] \in Objs /\ target[m] # o
      OBVIOUS
    <3>1. m # n
      BY <1>5, Zenon DEF Fresh
    <3>2. pc[m] \in Fresh /\ FreshOK(m) /\ LocalOK(m)
      BY <1>5, <3>1, Zenon DEF Shape, Freshs, Locals
    <3> QED BY <1>1, <1>5, <3>1, <3>2, Zenon DEF FreshOK, LocalOK, Fresh, Bare
  <2> QED BY <1>3, <1>5, <2>1, FreshFrame, Zenon DEF Shape
<1>11. Owners'
  <2> SUFFICES ASSUME NEW m \in Natives, cur[m] # None, m \notin orphan PROVE OwnerOK(m)'
    BY <1>3, Zenon DEF Owners, OwnerOK
  <2>1. CASE m = n
    BY <1>1, <1>2, <1>3, <1>5, <2>1, Zenon DEF OwnerOK, Last
  <2>2. CASE m # n
    <3>1. OwnerOK(m) /\ cur[m] # o /\ cur[m] \in Objs
      BY <1>1, <1>2, <2>2, Zenon DEF Shape, Owners, TypeOK
    <3> QED BY <1>3, <1>5, <2>2, <3>1, Zenon DEF OwnerOK
  <2> QED BY <2>1, <2>2, Zenon
<1>12. JoinerOK' /\ WorkOK'
  BY <1>3, Zenon DEF Shape, JoinerOK, WorkOK
<1>13. GhostOK'
  BY <1>1, <1>3, <1>5, Zenon DEF Shape, GhostOK, TypeOK
<1> QED BY <1>6, <1>7, <1>8, <1>9, <1>10, <1>11, <1>12, <1>13, Zenon DEF Shape

\* The store to tid: from here on the object may be destroyed.
LEMMA TerminateStep ==
    ASSUME Shape, NEW n \in Natives, Terminate(n)
    PROVE  Shape'
<1> DEFINE o == cur[n]
<1>1. /\ TypeOK /\ LocalOK(n) /\ pc[n] = "terminate" /\ n \notin orphan /\ n \notin stale
      /\ o \in Objs /\ o # None /\ OwnerOK(n) /\ op[n] = "exit" /\ target[n] = o
  BY Running, Zenon DEF Shape, Locals, LocalOK, Terminate, Last, GhostOK, Tails
<1>2. dead[o] /\ \A m \in Natives : m # n /\ cur[m] = o => m \in orphan
  BY <1>1, Zenon DEF OwnerOK
<1>3. /\ UNCHANGED <<threads, gc_list, free_threads, heap, thread_list_lock, refcount, dead, detached, joiner,
                     cur, target, op, work, stale, orphan>>
      /\ terminated' = [terminated EXCEPT ![o] = TRUE]
  BY Zenon DEF Terminate, lists, natives, ghosts
<1>4. /\ pc'[n] = "notify" /\ terminated'[o] /\ \A p \in Objs : p # o => terminated'[p] = terminated[p]
      /\ \A m \in Natives : m # n => pc'[m] = pc[m]
  BY <1>1, <1>3, Zenon DEF Terminate, Goto, TypeOK
<1>5. TypeOK'
  <2>1. pc' \in [Natives -> Labels] /\ terminated' \in [Objs -> BOOLEAN]
    BY <1>1, Zenon DEF TypeOK, Labels, Terminate, Goto
  <2> QED BY <1>1, <1>3, <2>1, Zenon DEF TypeOK, Terminate
<1>6. Apart' /\ Somewhere'
  BY <1>1, <1>3, <1>4, PlacesFrame, Zenon DEF Shape
<1>7. Locals'
  <2> SUFFICES ASSUME NEW m \in Natives PROVE LocalOK(m)'
    BY Zenon DEF Locals
  <2>1. CASE m # n
    <3>1. LocalOK(m)
      BY Zenon DEF Shape, Locals
    <3> QED BY <3>1, <1>3, <1>4, <2>1, LocalFrame, Zenon
  <2>2. CASE m = n
    BY <1>1, <1>3, <1>4, <2>2, Zenon DEF LocalOK, Bare, Joining, Last, Exiting
  <2> QED BY <2>1, <2>2, Zenon
<1>8. Targets'
  BY <1>3, <1>4, Zenon DEF Shape, Targets, TargetOK, Listed, Holding, Joining
<1>9. Freshs'
  <2>1. \A m \in Natives : pc'[m] \in Fresh => /\ pc'[m] = pc[m] /\ target'[m] = target[m]
                                               /\ target[m] \in Objs /\ target[m] # o
    <3> SUFFICES ASSUME NEW m \in Natives, pc'[m] \in Fresh PROVE /\ pc'[m] = pc[m] /\ target'[m] = target[m]
                                                                  /\ target[m] \in Objs /\ target[m] # o
      OBVIOUS
    <3>1. m # n
      BY <1>4, Zenon DEF Fresh
    <3>2. pc[m] \in Fresh /\ FreshOK(m) /\ LocalOK(m)
      BY <1>4, <3>1, Zenon DEF Shape, Freshs, Locals
    <3> QED BY <1>1, <1>3, <1>4, <3>1, <3>2, Zenon DEF FreshOK, LocalOK, Fresh, Bare
  <2> QED BY <1>3, <1>4, <2>1, FreshFrame, Zenon DEF Shape
<1>10. Owners'
  <2> SUFFICES ASSUME NEW m \in Natives, cur[m] # None, m \notin orphan PROVE OwnerOK(m)'
    BY <1>3, Zenon DEF Owners, OwnerOK
  <2>1. CASE m = n
    BY <1>1, <1>2, <1>3, <1>4, <2>1, Zenon DEF OwnerOK, Last
  <2>2. CASE m # n
    <3>1. OwnerOK(m) /\ cur[m] # o /\ cur[m] \in Objs
      BY <1>1, <1>2, <2>2, Zenon DEF Shape, Owners, TypeOK
    <3> QED BY <1>3, <1>4, <2>2, <3>1, Zenon DEF OwnerOK
  <2> QED BY <2>1, <2>2, Zenon
<1>11. JoinerOK' /\ WorkOK'
  BY <1>1, <1>3, <1>4, Zenon DEF Shape, JoinerOK, WorkOK, TypeOK
<1>12. GhostOK'
  BY <1>1, <1>3, <1>4, Zenon DEF Shape, GhostOK, TypeOK
<1> QED BY <1>5, <1>6, <1>7, <1>8, <1>9, <1>10, <1>11, <1>12, Zenon DEF Shape

\* The wake-up after the store to tid.
LEMMA NotifyStep ==
    ASSUME Shape, NEW n \in Natives, Notify(n)
    PROVE  Shape'
<1>1. TypeOK /\ LocalOK(n) /\ pc[n] = "notify"
  BY Zenon DEF Shape, Locals, Notify
<1>2. /\ pc'[n] = "nativeexit"
      /\ \A m \in Natives : m # n => pc'[m] = pc[m] \/ (pc[m] = "joinsleep" /\ pc'[m] = "joinwait")
  BY <1>1, Zenon DEF Notify
<1>3. UNCHANGED <<threads, gc_list, free_threads, heap, thread_list_lock, refcount, dead, detached, joiner,
                  terminated, cur, target, op, work, stale, orphan>>
  BY Zenon DEF Notify, lists, fields, natives, ghosts
<1>4. TypeOK'
  <2>1. pc' \in [Natives -> Labels]
    BY <1>1, Zenon DEF TypeOK, Labels, Notify
  <2> QED BY <1>1, <1>3, <2>1, Zenon DEF TypeOK, Notify
<1>5. Apart' /\ Somewhere'
  BY <1>1, <1>2, <1>3, PlacesFrame, Zenon DEF Shape
<1>6. Locals'
  <2> SUFFICES ASSUME NEW m \in Natives PROVE LocalOK(m)'
    BY Zenon DEF Locals
  <2>1. LocalOK(m)
    BY Zenon DEF Shape, Locals
  <2>2. CASE pc'[m] = pc[m]
    BY <1>3, <2>1, <2>2, LocalFrame, Zenon
  <2>3. CASE pc'[m] # pc[m]
    BY <1>1, <1>2, <1>3, <2>1, <2>3, Zenon DEF LocalOK, Bare, Joining, Last, Exiting
  <2> QED BY <2>2, <2>3, Zenon
<1>7. Targets'
  BY <1>2, <1>3, Zenon DEF Shape, Targets, TargetOK, Listed, Holding, Joining
<1>8. Freshs'
  <2>1. \A m \in Natives : pc'[m] \in Fresh => pc'[m] = pc[m] /\ target'[m] = target[m]
    BY <1>2, <1>3, Zenon DEF Fresh
  <2> QED BY <1>3, <2>1, FreshFrame, Zenon DEF Shape
<1>9. Owners'
  <2>1. \A m \in Natives : pc'[m] \in Last <=> pc[m] \in Last
    BY <1>1, <1>2, Zenon DEF Last
  <2> QED BY <1>3, <2>1, OwnersFrame, Zenon DEF Shape
<1>10. JoinerOK' /\ WorkOK'
  BY <1>3, Zenon DEF Shape, JoinerOK, WorkOK
<1>11. GhostOK'
  BY <1>1, <1>2, <1>3, Zenon DEF Shape, GhostOK, TypeOK, Tails, Last
<1> QED BY <1>4, <1>5, <1>6, <1>7, <1>8, <1>9, <1>10, <1>11, Zenon DEF Shape

\* The host thread ends, and may be used again.
LEMMA NativeExitStep ==
    ASSUME Shape, NEW n \in Natives, NativeExit(n)
    PROVE  Shape'
<1>1. TypeOK /\ LocalOK(n) /\ pc[n] = "nativeexit"
  BY Zenon DEF Shape, Locals, NativeExit
<1>2. /\ pc'[n] = "unborn" /\ target'[n] = None /\ op'[n] = None /\ cur'[n] = None
      /\ \A m \in Natives : m # n => pc'[m] = pc[m] /\ target'[m] = target[m] /\ op'[m] = op[m] /\ cur'[m] = cur[m]
  BY <1>1, Zenon DEF NativeExit, Goto, TypeOK
<1>3. /\ UNCHANGED <<threads, gc_list, free_threads, heap, thread_list_lock, refcount, dead, detached, joiner,
                     terminated, work>>
      /\ stale' = stale \ {n} /\ orphan' = orphan \ {n}
  BY Zenon DEF NativeExit, lists, fields
<1>4. TypeOK'
  <2>1. /\ pc' \in [Natives -> Labels] /\ target' \in [Natives -> Objs \cup {None}]
        /\ op' \in [Natives -> Calls \cup {"exit", None}] /\ cur' \in [Natives -> Objs \cup {None}]
    BY <1>1, Zenon DEF TypeOK, Labels, NativeExit, Goto
  <2> QED BY <1>1, <1>3, <2>1, Zenon DEF TypeOK, NativeExit
<1>5. Apart' /\ Somewhere'
  BY <1>1, <1>2, <1>3, PlacesFrame, Zenon DEF Shape
<1>6. Locals'
  <2> SUFFICES ASSUME NEW m \in Natives PROVE LocalOK(m)'
    BY Zenon DEF Locals
  <2>1. CASE m # n
    <3>1. LocalOK(m)
      BY Zenon DEF Shape, Locals
    <3> QED BY <3>1, <1>2, <1>3, <2>1, LocalFrame, Zenon
  <2>2. CASE m = n
    BY <1>1, <1>2, <1>3, <2>2, ThreadStateAssumption, Zenon DEF LocalOK, Bare, Joining, Last,
       Exiting, ThreadStateAssumption
  <2> QED BY <2>1, <2>2, Zenon
<1>7. Targets'
  BY <1>2, <1>3, Zenon DEF Shape, Targets, TargetOK, Listed, Holding, Joining
<1>8. Freshs'
  <2>1. \A m \in Natives : pc'[m] \in Fresh => pc'[m] = pc[m] /\ target'[m] = target[m]
    BY <1>2, Zenon DEF Fresh
  <2>2. \A m \in Natives : cur'[m] # None => m # n
    BY <1>2, Zenon
  <2> QED BY <1>2, <1>3, <2>1, <2>2, FreshFrame, Zenon DEF Shape
<1>9. Owners'
  <2> SUFFICES ASSUME NEW m \in Natives, cur'[m] # None, m \notin orphan' PROVE OwnerOK(m)'
    BY Zenon DEF Owners, OwnerOK
  <2>1. m # n /\ m \notin orphan /\ cur[m] # None
    BY <1>2, <1>3, Zenon
  <2>2. OwnerOK(m) /\ cur[m] = cur'[m] /\ pc'[m] = pc[m] /\ op'[m] = op[m]
    BY <1>2, <2>1, Zenon DEF Shape, Owners
  <2>3. \A z \in Natives : z # m /\ cur'[z] = cur[m] => z \in orphan'
    BY <1>2, <1>3, <2>1, <2>2, Zenon DEF OwnerOK
  <2> QED BY <1>3, <2>1, <2>2, <2>3, Zenon DEF OwnerOK
<1>10. JoinerOK' /\ WorkOK'
  BY <1>3, Zenon DEF Shape, JoinerOK, WorkOK
<1>11. GhostOK'
  BY <1>1, <1>2, <1>3, Zenon DEF Shape, GhostOK, TypeOK
<1> QED BY <1>4, <1>5, <1>6, <1>7, <1>8, <1>9, <1>10, <1>11, Zenon DEF Shape

\* Every step keeps the shape.
LEMMA ShapeStep ==
    ASSUME CardRules, IInv, NEW n \in Natives,
           Step(n) \/ Create(n) \/ Exit(n) \/ \E o \in Objs, f \in Calls : Find(n, o, f)
    PROVE  Shape'
<1>1. Shape /\ Counted
  BY CountsGive, Zenon DEF IInv
<1> QED BY <1>1, CollectListStep, CollectLockStep, CollectUnlockStep, CreateStep, CollectStep, FreeStep,
           FreeDoneStep, AllocStep, AllocFailsStep, LinkStep, StartStep, SetAffinityStep, ExitStep,
           TerminateStep,
           NotifyStep, NativeExitStep, FindStep, JoinStep, DetachStep, CancelStep, KickStep, RefAddStep,
           RefDeleteStep, JoinWaitStep, JoinDoneStep, Zenon DEF Step
-----------------------------------------------------------------------------
(* The rules of the counts, and what follows from the invariant.           *)

INSTANCE FiniteSetTheorems

\* The cardinalities of the sets of host threads are as the counts need them.
LEMMA Cards == CardRules
<1>1. IsFiniteSet(Natives)
  BY ThreadStateAssumption, Zenon DEF ThreadStateAssumption
<1>2. \A S \in SUBSET Natives : IsFiniteSet(S) /\ Cardinality(S) \in Nat
  BY <1>1, FS_Subset, FS_CardinalityType, Zenon
<1>3. \A S \in SUBSET Natives : \A n \in Natives \ S : Cardinality(S \cup {n}) = Cardinality(S) + 1
  BY <1>2, FS_AddElement, Zenon
<1>4. Cardinality({}) = 0
  BY FS_EmptySet, Zenon
<1> QED BY <1>2, <1>3, <1>4, Zenon DEF CardRules

\* The inductive invariant holds in every reachable state, for every set of host
\* threads, every set of objects and every setting of the thresholds.
THEOREM InductiveInvariant == Spec => []IInv
<1>1. IInv /\ [Next]_vars => IInv'
  <2> SUFFICES ASSUME IInv, [Next]_vars PROVE IInv'
    OBVIOUS
  <2>1. CASE Next
    BY <2>1, Cards, ShapeStep, CountStep, Zenon DEF Next, IInv
  <2>2. CASE UNCHANGED vars
    <3> USE <2>2 DEF vars, lists, fields, natives, ghosts, IInv, Shape
    <3>1. TypeOK' /\ Apart' /\ Somewhere'
      BY Zenon DEF TypeOK, Apart, Somewhere, Shelves
    <3>2. Locals' /\ Targets'
      BY Zenon DEF Locals, LocalOK, Targets, TargetOK
    <3>3. Freshs' /\ Owners'
      BY Zenon DEF Freshs, FreshOK, Owners, OwnerOK
    <3>4. JoinerOK' /\ WorkOK' /\ GhostOK'
      BY Zenon DEF JoinerOK, WorkOK, GhostOK
    <3>5. RefcountExact'
      BY Zenon DEF RefcountExact, Refs
    <3> QED BY <3>1, <3>2, <3>3, <3>4, <3>5, Zenon
  <2> QED BY <2>1, <2>2, Zenon
<1>2. Init => IInv
  BY Cards, InitInv, Zenon
<1> QED BY <1>1, <1>2, PTL DEF Spec

\* Every Pthread object is in exactly one of thread_list, gc_list, free_threads, the
\* heap, a work list or the hands of its creator, and the count of a listed thread is
\* the number of its holders: TryCollect never collects an object twice or too early.
THEOREM Accounted == Spec => []ObjectsAccounted
<1>1. IInv => OnePlace
  <2> SUFFICES ASSUME IInv, NEW o \in Objs
               PROVE  \E p \in Places : \A q \in Places : At(o, q) <=> q = p
    BY Zenon DEF OnePlace
  <2>1. Apart /\ Somewhere
    BY Zenon DEF IInv, Shape
  <2>2. /\ At(o, <<"threads", None>>) <=> o \in threads
        /\ At(o, <<"gc_list", None>>) <=> o \in gc_list
        /\ At(o, <<"free_threads", None>>) <=> o \in free_threads
        /\ At(o, <<"heap", None>>) <=> o \in heap
        /\ \A n \in Natives : /\ At(o, <<"work", n>>) <=> o \in work[n]
                              /\ At(o, <<"new", n>>) <=> pc[n] = "link" /\ target[n] = o
    BY Zenon DEF At
  <2>3. \A q \in Places : \/ \E list \in {"threads", "gc_list", "free_threads", "heap"} : q = <<list, None>>
                          \/ \E n \in Natives : q = <<"work", n>> \/ q = <<"new", n>>
    BY SMTT(30) DEF Places
  <2>4. CASE o \in threads
    <3>1. <<"threads", None>> \in Places /\ At(o, <<"threads", None>>)
      BY <2>2, <2>4, Zenon DEF Places
    <3>2. /\ o \notin gc_list /\ o \notin free_threads /\ o \notin heap
          /\ \A n \in Natives : /\ o \notin work[n]
                                /\ ~(pc[n] = "link" /\ target[n] = o)
      BY <2>1, <2>4, Zenon DEF Apart, Shelves
    <3>3. \A q \in Places : At(o, q) => q = <<"threads", None>>
      BY <2>2, <2>3, <3>2, Zenon
    <3> QED BY <3>1, <3>3, Zenon
  <2>5. CASE o \in gc_list
    <3>1. <<"gc_list", None>> \in Places /\ At(o, <<"gc_list", None>>)
      BY <2>2, <2>5, Zenon DEF Places
    <3>2. /\ o \notin threads /\ o \notin free_threads /\ o \notin heap
          /\ \A n \in Natives : /\ o \notin work[n]
                                /\ ~(pc[n] = "link" /\ target[n] = o)
      BY <2>1, <2>5, Zenon DEF Apart, Shelves
    <3>3. \A q \in Places : At(o, q) => q = <<"gc_list", None>>
      BY <2>2, <2>3, <3>2, Zenon
    <3> QED BY <3>1, <3>3, Zenon
  <2>6. CASE o \in free_threads
    <3>1. <<"free_threads", None>> \in Places /\ At(o, <<"free_threads", None>>)
      BY <2>2, <2>6, Zenon DEF Places
    <3>2. /\ o \notin threads /\ o \notin gc_list /\ o \notin heap
          /\ \A n \in Natives : /\ o \notin work[n]
                                /\ ~(pc[n] = "link" /\ target[n] = o)
      BY <2>1, <2>6, Zenon DEF Apart, Shelves
    <3>3. \A q \in Places : At(o, q) => q = <<"free_threads", None>>
      BY <2>2, <2>3, <3>2, Zenon
    <3> QED BY <3>1, <3>3, Zenon
  <2>7. CASE o \in heap
    <3>1. <<"heap", None>> \in Places /\ At(o, <<"heap", None>>)
      BY <2>2, <2>7, Zenon DEF Places
    <3>2. /\ o \notin threads /\ o \notin gc_list /\ o \notin free_threads
          /\ \A n \in Natives : /\ o \notin work[n]
                                /\ ~(pc[n] = "link" /\ target[n] = o)
      BY <2>1, <2>7, Zenon DEF Apart, Shelves
    <3>3. \A q \in Places : At(o, q) => q = <<"heap", None>>
      BY <2>2, <2>3, <3>2, Zenon
    <3> QED BY <3>1, <3>3, Zenon
  <2>8. ASSUME NEW n \in Natives, o \in work[n]
        PROVE  \E p \in Places : \A q \in Places : At(o, q) <=> q = p
    <3>1. <<"work", n>> \in Places /\ At(o, <<"work", n>>)
      BY <2>2, <2>8, Zenon DEF Places
    <3>2. /\ o \notin threads /\ o \notin gc_list /\ o \notin free_threads /\ o \notin heap
          /\ \A m \in Natives : /\ o \in work[m] => m = n
                                /\ ~(pc[m] = "link" /\ target[m] = o)
      BY <2>1, <2>8, Zenon DEF Apart, Shelves
    <3>3. \A q \in Places : At(o, q) => q = <<"work", n>>
      BY <2>2, <2>3, <3>2, Zenon
    <3> QED BY <3>1, <3>3, Zenon
  <2>9. ASSUME NEW n \in Natives, pc[n] = "link" /\ target[n] = o
        PROVE  \E p \in Places : \A q \in Places : At(o, q) <=> q = p
    <3>1. <<"new", n>> \in Places /\ At(o, <<"new", n>>)
      BY <2>2, <2>9, Zenon DEF Places
    <3>2. /\ o \notin threads /\ o \notin gc_list /\ o \notin free_threads /\ o \notin heap
          /\ \A m \in Natives : /\ o \notin work[m]
                                /\ pc[m] = "link" /\ target[m] = o => m = n
      BY <2>1, <2>9, Zenon DEF Apart, Shelves
    <3>3. \A q \in Places : At(o, q) => q = <<"new", n>>
      BY <2>2, <2>3, <3>2, ZenonT(30)
    <3> QED BY <3>1, <3>3, Zenon
  <2> QED BY <2>1, <2>4, <2>5, <2>6, <2>7, <2>8, <2>9, Zenon DEF Somewhere, Shelves
<1>2. IInv => ObjectsAccounted
  BY <1>1, Zenon DEF IInv, Shape, ObjectsAccounted
<1> QED BY <1>2, InductiveInvariant, PTL

\* posix_pthread_join never works on a collected thread: from the moment the joiner is
\* set until the join returns, the object is in the thread list and the joiner is its own.
THEOREM Joined == Spec => []JoinedStays
<1>1. IInv => JoinedStays
  BY Zenon DEF IInv, Shape, Targets, TargetOK, Listed, Joining, JoinedStays
<1> QED BY <1>1, InductiveInvariant, PTL

\* A host thread whose object ThreadState::Free has destroyed under it is at one of the
\* few places after the last access that anything protects: the wake-up of tid and the
\* end of the host thread, the unlock of TryCollect, the tail of cancel, SetAffinity.
THEOREM StaleTails == Spec => []StaleOnlyInTails
<1>1. IInv => StaleOnlyInTails
  BY Zenon DEF IInv, Shape, GhostOK, Tails, Last, StaleOnlyInTails
<1> QED BY <1>1, InductiveInvariant, PTL
=============================================================================
