--------------------------- MODULE VideoOutProofs ---------------------------
(***************************************************************************)
(* Theorems about VideoOut: the GPU thread is always heard when the label  *)
(* it sleeps for is reset, no frame draws into a buffer that is shown or   *)
(* queued, no flip interrupt is out of order, and the counters of pending  *)
(* flips are exact, for any number of guests, buffers, groups and pending  *)
(* flips.                                                                  *)
(***************************************************************************)
EXTENDS VideoOut, TLAPS

Gpus == {"wait", "yield", "asleep", "woken", "lock", "flip", "push"}
Ppcs == {"receive", "status", "vblank", "test", "reset", "signal", "save"}

Types ==
    /\ group_index \in [Buffers -> Groups \cup {None}]
    /\ buffer_labels \in [Buffers -> {0, 1}]
    /\ flip_pending_num \in Int /\ num_submits \in Int
    /\ prev_index \in Buffers \cup {Blank} /\ shown \in Buffers \cup {Blank}
    /\ requests \in Seq(Request) /\ req \in Request
    /\ commands \in Seq(CpuBuffers \cup {Blank}) /\ submits \in Seq(EopBuffers)
    /\ gpu \in Gpus /\ ppc \in Ppcs
    /\ gpc \in [Guests -> {"idle", "send", "count"}]
    /\ arg \in [Guests -> CpuBuffers \cup {Blank}]
    /\ relabelled \subseteq Buffers
    /\ gpu # "wait" => submits # <<>>

\* The buffer's flip is on its way through the driver.
Queued(b) == \/ \E i \in 1..Len(requests) : requests[i].index = b
             \/ ppc = "status" /\ req.index = b
\* The buffer belongs to the frame that is being processed.
Drawing(b) == gpu \in {"lock", "flip", "push"} /\ Frame = b
Locked(b) == gpu \in {"flip", "push"} /\ Frame = b
\* The buffer's label is about to be reset.
Old(b) == ppc \in {"test", "reset"} /\ prev_index = b

\* Whatever is on its way to the screen is registered.
RegQueued == \A b \in EopBuffers : Queued(b) => group_index[b] # None
RegSubmits == \A i \in 1..Len(submits) : group_index[submits[i]] # None
RegCommands == \A i \in 1..Len(commands) : commands[i] # Blank => group_index[commands[i]] # None
RegArgs == \A g \in Guests : gpc[g] = "send" /\ arg[g] # Blank => group_index[arg[g]] # None
Registered == RegQueued /\ RegSubmits /\ RegCommands /\ RegArgs

Counting == {g \in Guests : gpc[g] = "count"}

InHand == IF ppc = "status" THEN 1 ELSE 0
PendingCount == flip_pending_num = Cardinality(Sending) + Len(commands) + AtGpu + Len(requests) + InHand
SubmitCount == num_submits + Cardinality(Counting) = Len(submits) + (IF compute THEN 1 ELSE 0)
Counts == PendingCount /\ SubmitCount

Sleep ==
    /\ gpu \in {"asleep", "woken"} => num_submits > 0
    /\ LabelSleeperHeard

\* A label is one from the frame's WriteData until the present thread has shown
\* the flip after the frame's, and meanwhile the buffer is in one place only.
Once(b) ==
    /\ \A i, j \in 1..Len(requests) : requests[i].index = b /\ requests[j].index = b => i = j
    /\ ppc = "status" /\ req.index = b => \A i \in 1..Len(requests) : requests[i].index # b
LabelOK(b) ==
    /\ shown = b \/ Queued(b) \/ Locked(b) \/ Old(b) => buffer_labels[b] = 1
    /\ Drawing(b) => shown # b /\ ~Queued(b) /\ ~Old(b)
    /\ Old(b) => shown # b /\ ~Queued(b)
    /\ shown = b => ~Queued(b)
    /\ Once(b)
Labels == \A b \in EopBuffers \ relabelled : LabelOK(b)

\* prev_index is the buffer shown, except for a buffer that was relabelled.
Prev ==
    /\ ppc \in Tail4 => /\ shown \in {req.index, Blank}
                        /\ req.index \notin relabelled => shown = req.index
    /\ ppc \notin Tail4 => /\ shown \in {prev_index, Blank}
                           /\ prev_index \notin relabelled => shown = prev_index

\* Quiet means that nothing is left in the queues: the GPU thread is between two
\* frames and the present thread has no flip in hand that it has not counted.
NothingLeft ==
    Quiet => /\ submits = <<>> /\ commands = <<>> /\ requests = <<>> /\ ~compute
             /\ gpu = "wait" /\ ppc # "status"
             /\ Sending = {} /\ Counting = {}

IInv == Types /\ Registered /\ Counts /\ Sleep /\ Labels /\ Prev

\* The counters: how many of the flips on their way are the frames', and how many are
\* not blanks.
Eops == {r \in Request : r.eop}
Reals == {r \in Request : r.index # Blank}
\* 1 if x is in S.
One(x, S) == IF x \in S THEN 1 ELSE 0
\* 1 if the flip the present thread has in hand is in S.
Hand(S) == IF ppc = "status" THEN One(req, S) ELSE 0

SendingReal == {g \in Sending : arg[g] # Blank}
RealCount == Cardinality(SendingReal) + Count(commands, CpuBuffers) + AtGpu + Count(requests, Reals) + Hand(Reals)

Kinds ==
    /\ is_open \in BOOLEAN /\ compute \in BOOLEAN /\ polled \in BOOLEAN /\ aborted \in BOOLEAN
    /\ vblank \in 0..(VblankMod - 1) /\ flip_rate \in Rates /\ calls \in Nat
    /\ gc_queue_num \in Int
\* A submit is counted before the GPU thread takes it off the count.
Running ==
    /\ num_submits \in Nat
    /\ polled \/ gpu = "push" => num_submits > 0
    /\ gpu = "push" => ~polled
GcCount == gc_queue_num = AtGpu + Count(requests, Eops) + Hand(Eops)
Bounded == RealCount <= MaxPending + 1

Tally == GcCount /\ Bounded

CInv == Kinds /\ Running /\ Tally

\* What is used of counting: the threads of a set are counted one by one, and an entry
\* of a queue counts as long as it is in it.
GuestRules ==
    \A S \in SUBSET Guests :
        /\ Cardinality(S) \in Nat
        /\ S = {} => Cardinality(S) = 0
        /\ \A g \in Guests \ S : Cardinality(S \cup {g}) = Cardinality(S) + 1
        /\ \A g \in S : Cardinality(S \ {g}) = Cardinality(S) - 1
        /\ \A T \in SUBSET S : Cardinality(T) <= Cardinality(S)
QueueRules(T) ==
    \A S :
        /\ Count(<<>>, S) = 0
        /\ \A s \in Seq(T) :
              /\ Count(s, S) \in Nat /\ Count(s, S) <= Len(s)
              /\ \A x \in T : Count(Append(s, x), S) = Count(s, S) + One(x, S)
              /\ s # <<>> => Count(s, S) = Count(Tail(s), S) + One(Head(s), S)
CountRules == GuestRules /\ QueueRules(Request) /\ QueueRules(CpuBuffers \cup {Blank})
-----------------------------------------------------------------------------
\* Facts about the constants and the sets used throughout.
LEMMA Constants ==
    /\ Blank \notin Buffers /\ EopBuffers \cap CpuBuffers = {}
    /\ EopBuffers \subseteq Buffers /\ CpuBuffers \subseteq Buffers
    /\ None \notin Groups /\ IsFiniteSet(Guests)
BY VideoOutAssumption, SMTT(30) DEF Buffers, Blank

\* Pushing to a queue.
LEMMA Push ==
    ASSUME NEW S, NEW s \in Seq(S), NEW x \in S
    PROVE  /\ Append(s, x) \in Seq(S) /\ Append(s, x) # <<>>
           /\ Len(s) \in Nat /\ Len(Append(s, x)) = Len(s) + 1
           /\ \A i \in 1..Len(s) : Append(s, x)[i] = s[i]
           /\ Append(s, x)[Len(s) + 1] = x
OBVIOUS

\* Popping from a queue.
LEMMA Pop ==
    ASSUME NEW S, NEW s \in Seq(S), s # <<>>
    PROVE  /\ Head(s) \in S /\ Head(s) = s[1] /\ Tail(s) \in Seq(S)
           /\ Len(s) \in Nat /\ Len(s) >= 1 /\ Len(Tail(s)) = Len(s) - 1
           /\ \A i \in 1..Len(Tail(s)) : Tail(s)[i] = s[i + 1]
OBVIOUS

\* A call or an interrupt puts a request of a buffer or a blank on the queue.
LEMMA IsRequest ==
    ASSUME NEW i \in Buffers \cup {Blank}, NEW e \in BOOLEAN
    PROVE  [index |-> i, eop |-> e] \in Request /\ [index |-> i, eop |-> e].index = i
BY SMTT(30) DEF Request

\* A request is for a buffer or a blank.
LEMMA RequestIndex ==
    ASSUME NEW r \in Request
    PROVE  r.index \in Buffers \cup {Blank}
BY SMTT(30) DEF Request

\* SubmitFlipInternal queues a request unless the buffer is not registered.
LEMMA Internal ==
    ASSUME NEW k \in Buffers \cup {Blank}, NEW e \in BOOLEAN,
           requests \in Seq(Request), SubmitFlipInternal(k, e)
    PROVE  /\ requests' \in Seq(Request)
           /\ \/ k # Blank /\ group_index[k] = None /\ requests' = requests
              \/ /\ Len(requests) \in Nat /\ Len(requests') = Len(requests) + 1
                 /\ \A i \in 1..Len(requests) : requests'[i] = requests[i]
                 /\ requests'[Len(requests) + 1].index = k
<1> DEFINE r == [index |-> k, eop |-> e]
<1>1. r \in Request /\ r.index = k
  BY IsRequest, SMTT(30)
<1>2. CASE k # Blank /\ group_index[k] = None
  BY <1>2, SMTT(30) DEF SubmitFlipInternal
<1>3. CASE ~(k # Blank /\ group_index[k] = None)
  <2>1. requests' = Append(requests, r)
    BY <1>3, Zenon DEF SubmitFlipInternal
  <2> HIDE DEF r
  <2> QED BY <2>1, <1>1, Push, SMTT(30)
<1> QED BY <1>2, <1>3, SMTT(30)

\* Every step keeps the types.
LEMMA TypesStep ==
    ASSUME Types, Next
    PROVE  Types'
<1> USE DEF portVars, numVars, gpuVars, preVars, gstVars, ghosts, Types, Gpus, Ppcs
<1> USE Constants
<1>1. ASSUME NEW g \in Guests, Open(g) PROVE Types'
  BY <1>1, SMTT(30) DEF Open
<1>2. ASSUME NEW g \in Guests, Close(g) PROVE Types'
  BY <1>2, SMTT(30) DEF Close, Call
<1>3. ASSUME NEW g \in Guests, SubmitAsc(g) PROVE Types'
  BY <1>3, SMTT(30) DEF SubmitAsc, Call
<1>4. ASSUME NEW g \in Guests, NEW B \in Ranges, RegisterBuffers(g, B) PROVE Types'
  <2>1. group_index' \in [Buffers -> Groups \cup {None}]
    BY <1>4, SMTT(30) DEF RegisterBuffers, Free
  <2>2. buffer_labels' \in [Buffers -> {0, 1}]
    BY <1>4, SMTT(30) DEF RegisterBuffers
  <2>3. relabelled' \subseteq Buffers
    BY <1>4, SMTT(30) DEF RegisterBuffers, Ranges
  <2>4. gpu' \in Gpus /\ (gpu' # "wait" => gpu # "wait")
    BY <1>4, SMTT(30) DEF RegisterBuffers, SignalVoLabel
  <2> QED BY <1>4, <2>1, <2>2, <2>3, <2>4, Zenon DEF RegisterBuffers
<1>5. ASSUME NEW g \in Guests, NEW n \in Groups, UnregisterBuffers(g, n) PROVE Types'
  BY <1>5, SMTT(30) DEF UnregisterBuffers, Call
<1>6. ASSUME NEW g \in Guests, NEW r \in Rates, SetFlipRate(g, r) PROVE Types'
  BY <1>6, SMTT(30) DEF SetFlipRate, Call
<1>7. ASSUME NEW g \in Guests, NEW b \in CpuBuffers \cup {Blank}, SubmitFlip(g, b) PROVE Types'
  BY <1>7, SMTT(30) DEF SubmitFlip, Call
<1>8. ASSUME NEW g \in Guests, NEW b \in EopBuffers, SubmitAndFlip(g, b) PROVE Types'
  <2>1. submits' \in Seq(EopBuffers) /\ submits' # <<>>
    BY <1>8, Push, SMTT(30) DEF SubmitAndFlip
  <2> QED BY <1>8, <2>1, SMTT(30) DEF SubmitAndFlip, Call
<1>9. ASSUME NEW g \in Guests, SendCommand(g) PROVE Types'
  BY <1>9, SMTT(30) DEF SendCommand
<1>10. ASSUME NEW g \in Guests, CountSubmit(g) PROVE Types'
  BY <1>10, SMTT(30) DEF CountSubmit
<1>11. CASE ProcessCommand
  <2>1. Head(commands) \in Buffers \cup {Blank} /\ Tail(commands) \in Seq(CpuBuffers \cup {Blank})
    BY <1>11, Pop, SMTT(30) DEF ProcessCommand
  <2>2. requests' \in Seq(Request)
    BY <1>11, <2>1, Internal, Zenon DEF ProcessCommand
  <2> QED BY <1>11, <2>1, <2>2, SMTT(30) DEF ProcessCommand
<1>12. CASE Poll
  BY <1>12, SMTT(30) DEF Poll
<1>13. CASE Compute
  BY <1>13, SMTT(30) DEF Compute
<1>14. CASE WaitRegMem
  BY <1>14, SMTT(30) DEF WaitRegMem
<1>15. CASE Resume
  BY <1>15, SMTT(30) DEF Resume
<1>16. CASE WaitVoLabel
  BY <1>16, SMTT(30) DEF WaitVoLabel
<1>17. CASE WriteLock
  BY <1>17, SMTT(30) DEF WriteLock, Frame
<1>18. CASE FlipIrq
  BY <1>18, SMTT(30) DEF FlipIrq
<1>19. CASE FlipPush
  <2>1. Frame \in Buffers \cup {Blank} /\ Tail(submits) \in Seq(EopBuffers)
    BY <1>19, Pop, Zenon DEF FlipPush, Frame
  <2>2. requests' \in Seq(Request)
    BY <1>19, <2>1, Internal, Zenon DEF FlipPush
  <2> QED BY <1>19, <2>1, <2>2, SMTT(30) DEF FlipPush
<1>20. CASE Receive
  <2>1. requests # <<>> => Head(requests) \in Request /\ Tail(requests) \in Seq(Request)
    BY Pop, SMTT(30)
  <2> QED BY <1>20, <2>1, Zenon DEF Receive
<1>21. CASE FlipStatus
  BY <1>21, SMTT(30) DEF FlipStatus, Request
<1>22. CASE FlipTest
  BY <1>22, SMTT(30) DEF FlipTest
<1>23. CASE FlipReset
  BY <1>23, SMTT(30) DEF FlipReset
<1>24. CASE FlipSignal
  BY <1>24, SMTT(30) DEF FlipSignal, SignalVoLabel
<1>25. CASE FlipSave
  BY <1>25, SMTT(30) DEF FlipSave, NoRequest, Request, Blank
<1>26. CASE Vblank
  BY <1>26, SMTT(30) DEF Vblank
<1> QED BY <1>1, <1>2, <1>3, <1>4, <1>5, <1>6, <1>7, <1>8, <1>9, <1>10, <1>11, <1>12, <1>13, <1>14,
          <1>15, <1>16, <1>17, <1>18, <1>19, <1>20, <1>21, <1>22, <1>23, <1>24, <1>25, <1>26, Zenon
          DEF Next, Guest, Gpu, Present

\* What is queued changes only when a request is pushed or taken.
LEMMA QueueSame ==
    ASSUME NEW b, requests' = requests, ppc' = "status" <=> ppc = "status", ppc = "status" => req' = req
    PROVE  (Queued(b)' <=> Queued(b)) /\ (Once(b)' <=> Once(b))
BY Zenon DEF Queued, Once

\* A flip joins the end of the request queue.
LEMMA QueuePush ==
    ASSUME NEW b, NEW k, Len(requests) \in Nat, Len(requests') = Len(requests) + 1,
           \A i \in 1..Len(requests) : requests'[i] = requests[i],
           requests'[Len(requests) + 1].index = k, ppc' = ppc, req' = req
    PROVE  /\ Queued(b)' <=> Queued(b) \/ b = k
           /\ Once(b) /\ (b = k => ~Queued(b)) => Once(b)'
<1>1. \A i \in 1..Len(requests') : i \in 1..Len(requests) \/ i = Len(requests) + 1
  OBVIOUS
<1>2. Queued(b)' <=> Queued(b) \/ b = k
  BY <1>1, SMTT(30) DEF Queued
<1>3. ASSUME Once(b), b = k => ~Queued(b) PROVE Once(b)'
  BY <1>1, <1>3, SMTT(30) DEF Once, Queued
<1> QED BY <1>2, <1>3, Zenon

\* Receive moves the first request into req.
LEMMA QueueTake ==
    ASSUME NEW b, Types, Receive
    PROVE  /\ Queued(b)' <=> Queued(b)
           /\ Once(b) => Once(b)'
<1>1. CASE requests' = requests
  BY <1>1, QueueSame, SMTT(30) DEF Receive
<1>2. CASE requests # <<>> /\ ppc' = "status" /\ req' = Head(requests) /\ requests' = Tail(requests)
  <2>1. /\ req' = requests[1] /\ Len(requests) \in Nat /\ Len(requests) >= 1
        /\ Len(requests') = Len(requests) - 1
        /\ \A i \in 1..Len(requests') : requests'[i] = requests[i + 1]
    BY <1>2, Pop, SMTT(30) DEF Types
  <2>2. ppc # "status"
    BY SMTT(30) DEF Receive
  <2>3. \A i \in 1..Len(requests) : i = 1 \/ (i - 1 \in 1..Len(requests') /\ requests'[i - 1] = requests[i])
    BY <2>1, SMTT(30)
  <2>4. Queued(b)' <=> Queued(b)
    <3>1. ASSUME Queued(b) PROVE Queued(b)'
      <4>1. PICK i \in 1..Len(requests) : requests[i].index = b
        BY <3>1, <2>2, Zenon DEF Queued
      <4> QED BY <4>1, <2>1, <2>3, <1>2, SMTT(30) DEF Queued
    <3>2. ASSUME Queued(b)' PROVE Queued(b)
      <4>1. CASE req'.index = b
        BY <4>1, <2>1, SMTT(30) DEF Queued
      <4>2. CASE \E i \in 1..Len(requests') : requests'[i].index = b
        <5>1. PICK i \in 1..Len(requests') : requests'[i].index = b
          BY <4>2, SMTT(30)
        <5>2. i + 1 \in 1..Len(requests) /\ requests[i + 1].index = b
          BY <5>1, <2>1, SMTT(30)
        <5> QED BY <5>2, SMTT(30) DEF Queued
      <4> QED BY <3>2, <4>1, <4>2, Zenon DEF Queued
    <3> QED BY <3>1, <3>2, SMTT(30)
  <2>5. ASSUME Once(b) PROVE Once(b)'
    <3>1. \A i \in 1..Len(requests') : i + 1 \in 1..Len(requests) /\ i + 1 # 1
      BY <2>1, SMTT(30)
    <3>2. \A i, j \in 1..Len(requests') : requests'[i].index = b /\ requests'[j].index = b => i = j
      <4> TAKE i, j \in 1..Len(requests')
      <4> HAVE requests'[i].index = b /\ requests'[j].index = b
      <4>1. requests[i + 1].index = b /\ requests[j + 1].index = b
        BY <2>1, Zenon
      <4>2. i + 1 = j + 1
        BY <4>1, <3>1, <2>5, Zenon DEF Once
      <4> QED BY <4>2, SMTT(30)
    <3>3. ASSUME req'.index = b, NEW i \in 1..Len(requests') PROVE requests'[i].index # b
      <4>1. 1 \in 1..Len(requests) /\ requests[1].index = b
        BY <2>1, <3>3, SMTT(30)
      <4>2. requests[i + 1].index # b
        BY <4>1, <3>1, <3>3, <2>5, Zenon DEF Once
      <4> QED BY <4>2, <2>1, SMTT(30)
    <3> QED BY <3>2, <3>3, SMTT(30) DEF Once
  <2> QED BY <2>4, <2>5, Zenon
<1> QED BY <1>1, <1>2, SMTT(30) DEF Receive

\* The frame at the head of the queue stays when another is submitted.
LEMMA FrameStays ==
    ASSUME Types, submits # <<>>, NEW b \in EopBuffers, submits' = Append(submits, b)
    PROVE  Frame' = Frame
BY Push, Pop, SMTT(30) DEF Types, Frame

\* A step that puts nothing on a queue, and whose calls name registered buffers, keeps
\* what is on its way registered.
LEMMA RegisteredSame ==
    ASSUME Registered, UNCHANGED <<group_index, submits, commands, requests>>,
           ppc' = "status" => ppc = "status" /\ req' = req,
           \A g \in Guests : gpc'[g] = "send" /\ arg'[g] # Blank =>
               (gpc[g] = "send" /\ arg'[g] = arg[g]) \/ group_index[arg'[g]] # None
    PROVE  Registered'
<1>1. RegQueued'
  BY Zenon DEF Registered, RegQueued, Queued
<1> QED BY <1>1, Zenon DEF Registered, RegSubmits, RegCommands, RegArgs

\* Every step keeps what is on its way registered: buffers are unregistered only when
\* the port is quiet.
LEMMA RegisteredStep ==
    ASSUME Types, Registered, NothingLeft, Next
    PROVE  Registered'
<1> USE DEF portVars, numVars, gpuVars, preVars, gstVars, ghosts
<1>1. ASSUME NEW g \in Guests, Open(g) PROVE Registered'
  BY <1>1, RegisteredSame, Zenon DEF Open
<1>2. ASSUME NEW g \in Guests, Close(g) PROVE Registered'
  <2>1. /\ submits' = <<>> /\ commands' = <<>> /\ requests' = <<>> /\ ppc' # "status"
        /\ \A x \in Guests : gpc'[x] # "send"
    BY <1>2, Zenon DEF Close, Sending, NothingLeft
  <2> QED BY <2>1, SMTT(30) DEF Registered, RegQueued, RegSubmits, RegCommands, RegArgs, Queued
<1>3. ASSUME NEW g \in Guests, SubmitAsc(g) PROVE Registered'
  BY <1>3, RegisteredSame, SMTT(30) DEF SubmitAsc, Types
<1>4. ASSUME NEW g \in Guests, NEW B \in Ranges, RegisterBuffers(g, B) PROVE Registered'
  <2>1. \A c \in Buffers : group_index[c] # None => group_index'[c] # None
    BY <1>4, Constants, Zenon DEF RegisterBuffers, Free
  <2>2. ASSUME NEW c \in EopBuffers PROVE Queued(c)' => Queued(c)
    BY <1>4, QueueSame, Zenon DEF RegisterBuffers
  <2>3. UNCHANGED <<submits, commands, gpc, arg>>
    BY <1>4, Zenon DEF RegisterBuffers
  <2>4. RegQueued'
    BY <2>1, <2>2, Constants, Zenon DEF Registered, RegQueued
  <2>5. RegSubmits'
    BY <2>1, <2>3, Constants, SMTT(30) DEF Registered, RegSubmits, Types
  <2>6. RegCommands'
    BY <2>1, <2>3, Constants, SMTT(30) DEF Registered, RegCommands, Types
  <2>7. RegArgs'
    BY <2>1, <2>3, Constants, Zenon DEF Registered, RegArgs, Types
  <2> QED BY <2>4, <2>5, <2>6, <2>7, Zenon DEF Registered
<1>5. ASSUME NEW g \in Guests, NEW n \in Groups, UnregisterBuffers(g, n) PROVE Registered'
  <2>1. /\ submits' = <<>> /\ commands' = <<>> /\ requests' = <<>> /\ ppc' # "status"
        /\ \A x \in Guests : gpc'[x] # "send"
    BY <1>5, Zenon DEF UnregisterBuffers, Sending, NothingLeft
  <2> QED BY <2>1, SMTT(30) DEF Registered, RegQueued, RegSubmits, RegCommands, RegArgs, Queued
<1>6. ASSUME NEW g \in Guests, NEW r \in Rates, SetFlipRate(g, r) PROVE Registered'
  BY <1>6, RegisteredSame, Zenon DEF SetFlipRate
<1>7. ASSUME NEW g \in Guests, NEW b \in CpuBuffers \cup {Blank}, SubmitFlip(g, b) PROVE Registered'
  BY <1>7, RegisteredSame, SMTT(30) DEF SubmitFlip, Types
<1>8. ASSUME NEW g \in Guests, NEW b \in EopBuffers, SubmitAndFlip(g, b) PROVE Registered'
  <2>1. RegQueued'
    <3>1. ASSUME NEW c \in EopBuffers PROVE Queued(c)' => Queued(c)
      BY <1>8, QueueSame, Zenon DEF SubmitAndFlip
    <3> QED BY <1>8, <3>1, Zenon DEF SubmitAndFlip, Registered, RegQueued
  <2>2. RegSubmits'
    <3>1. /\ Len(submits) \in Nat /\ Len(submits') = Len(submits) + 1
          /\ \A i \in 1..Len(submits) : submits'[i] = submits[i]
          /\ submits'[Len(submits) + 1] = b
      BY <1>8, Push, SMTT(30) DEF SubmitAndFlip, Types
    <3>2. \A i \in 1..Len(submits') : i \in 1..Len(submits) \/ i = Len(submits) + 1
      BY <3>1, SMTT(30)
    <3> QED BY <1>8, <3>1, <3>2, ZenonT(30) DEF SubmitAndFlip, Registered, RegSubmits
  <2>3. RegCommands'
    BY <1>8, Zenon DEF SubmitAndFlip, Registered, RegCommands
  <2>4. RegArgs'
    BY <1>8, SMTT(30) DEF SubmitAndFlip, Registered, RegArgs, Types
  <2> QED BY <2>1, <2>2, <2>3, <2>4, Zenon DEF Registered
<1>9. ASSUME NEW g \in Guests, SendCommand(g) PROVE Registered'
  <2>1. RegQueued'
    <3>1. ASSUME NEW c \in EopBuffers PROVE Queued(c)' => Queued(c)
      BY <1>9, QueueSame, Zenon DEF SendCommand
    <3> QED BY <1>9, <3>1, Zenon DEF SendCommand, Registered, RegQueued
  <2>2. RegSubmits'
    BY <1>9, Zenon DEF SendCommand, Registered, RegSubmits
  <2>3. RegCommands'
    <3>1. /\ Len(commands) \in Nat /\ Len(commands') = Len(commands) + 1
          /\ \A i \in 1..Len(commands) : commands'[i] = commands[i]
          /\ commands'[Len(commands) + 1] = arg[g]
      BY <1>9, Push, SMTT(30) DEF SendCommand, Types
    <3>2. \A i \in 1..Len(commands') : i \in 1..Len(commands) \/ i = Len(commands) + 1
      BY <3>1, SMTT(30)
    <3>3. arg[g] # Blank => group_index[arg[g]] # None
      BY <1>9, Zenon DEF SendCommand, Registered, RegArgs
    <3> QED BY <1>9, <3>1, <3>2, <3>3, Zenon DEF SendCommand, Registered, RegCommands
  <2>4. RegArgs'
    BY <1>9, Zenon DEF SendCommand, Registered, RegArgs, Types
  <2> QED BY <2>1, <2>2, <2>3, <2>4, Zenon DEF Registered
<1>10. ASSUME NEW g \in Guests, CountSubmit(g) PROVE Registered'
  BY <1>10, RegisteredSame, SMTT(30) DEF CountSubmit, Types
<1>11. CASE ProcessCommand
  <2>1. RegQueued'
    <3>1. Head(commands) \in CpuBuffers \cup {Blank}
      BY <1>11, Pop, Zenon DEF ProcessCommand, Types
    <3>2. \/ requests' = requests
          \/ /\ Len(requests) \in Nat /\ Len(requests') = Len(requests) + 1
             /\ \A i \in 1..Len(requests) : requests'[i] = requests[i]
             /\ requests'[Len(requests) + 1].index = Head(commands)
      BY <1>11, <3>1, Internal, Constants, Zenon DEF ProcessCommand, Types
    <3>3. ASSUME NEW c \in EopBuffers PROVE Queued(c)' => Queued(c) \/ c = Head(commands)
      <4>1. CASE requests' = requests
        BY <1>11, <4>1, QueueSame, Zenon DEF ProcessCommand
      <4>2. CASE requests' # requests
        BY <1>11, <4>2, <3>2, QueuePush, Zenon DEF ProcessCommand
      <4> QED BY <4>1, <4>2, Zenon
    <3>4. Head(commands) \notin EopBuffers
      BY <3>1, Constants, Zenon
    <3> QED BY <1>11, <3>3, <3>4, Zenon DEF ProcessCommand, Registered, RegQueued
  <2>2. RegSubmits'
    BY <1>11, Zenon DEF ProcessCommand, Registered, RegSubmits
  <2>3. RegCommands'
    <3>1. /\ Len(commands) \in Nat /\ Len(commands') = Len(commands) - 1
          /\ \A i \in 1..Len(commands') : commands'[i] = commands[i + 1]
      BY <1>11, Pop, SMTT(30) DEF ProcessCommand, Types
    <3>2. \A i \in 1..Len(commands') : i + 1 \in 1..Len(commands)
      BY <3>1, SMTT(30)
    <3> QED BY <1>11, <3>1, <3>2, Zenon DEF ProcessCommand, Registered, RegCommands
  <2>4. RegArgs'
    BY <1>11, Zenon DEF ProcessCommand, Registered, RegArgs
  <2> QED BY <2>1, <2>2, <2>3, <2>4, Zenon DEF Registered
<1>12. CASE Poll
  BY <1>12, RegisteredSame, Zenon DEF Poll
<1>13. CASE Compute
  BY <1>13, RegisteredSame, Zenon DEF Compute
<1>14. CASE WaitRegMem
  BY <1>14, RegisteredSame, Zenon DEF WaitRegMem
<1>15. CASE Resume
  BY <1>15, RegisteredSame, Zenon DEF Resume
<1>16. CASE WaitVoLabel
  BY <1>16, RegisteredSame, Zenon DEF WaitVoLabel
<1>17. CASE WriteLock
  BY <1>17, RegisteredSame, Zenon DEF WriteLock
<1>18. CASE FlipIrq
  BY <1>18, RegisteredSame, Zenon DEF FlipIrq
<1>19. CASE FlipPush
  <2>1. RegQueued'
    <3>1. Frame \in EopBuffers /\ Frame = submits[1] /\ 1 \in 1..Len(submits)
      BY <1>19, Pop, SMTT(30) DEF FlipPush, Types, Frame
    <3>2. \/ requests' = requests
          \/ /\ Len(requests) \in Nat /\ Len(requests') = Len(requests) + 1
             /\ \A i \in 1..Len(requests) : requests'[i] = requests[i]
             /\ requests'[Len(requests) + 1].index = Frame
      BY <1>19, <3>1, Internal, Constants, Zenon DEF FlipPush, Types
    <3>3. ASSUME NEW c \in EopBuffers PROVE Queued(c)' => Queued(c) \/ c = Frame
      <4>1. CASE requests' = requests
        BY <1>19, <4>1, QueueSame, SMTT(30) DEF FlipPush
      <4>2. CASE requests' # requests
        BY <1>19, <4>2, <3>2, QueuePush, SMTT(30) DEF FlipPush
      <4> QED BY <4>1, <4>2, SMTT(30)
    <3>4. group_index[Frame] # None
      BY <3>1, SMTT(30) DEF Registered, RegSubmits
    <3> QED BY <1>19, <3>3, <3>4, Zenon DEF FlipPush, Registered, RegQueued
  <2>2. RegSubmits'
    <3>1. /\ Len(submits) \in Nat /\ Len(submits') = Len(submits) - 1
          /\ \A i \in 1..Len(submits') : submits'[i] = submits[i + 1]
      BY <1>19, Pop, Zenon DEF FlipPush, Types
    <3>2. \A i \in 1..Len(submits') : i + 1 \in 1..Len(submits)
      BY <3>1, SMTT(30)
    <3> QED BY <1>19, <3>1, <3>2, Zenon DEF FlipPush, Registered, RegSubmits
  <2>3. RegCommands'
    BY <1>19, Zenon DEF FlipPush, Registered, RegCommands
  <2>4. RegArgs'
    BY <1>19, Zenon DEF FlipPush, Registered, RegArgs
  <2> QED BY <2>1, <2>2, <2>3, <2>4, SMTT(30) DEF Registered
<1>20. CASE Receive
  <2>1. UNCHANGED <<group_index, submits, commands, gpc, arg>>
    BY <1>20, Zenon DEF Receive
  <2>2. ASSUME NEW b \in EopBuffers PROVE Queued(b)' => Queued(b)
    BY <1>20, <2>1, QueueTake, Zenon DEF Receive
  <2> QED BY <2>1, <2>2, Zenon DEF Registered, RegQueued, RegSubmits, RegCommands, RegArgs
<1>21. CASE FlipStatus
  BY <1>21, RegisteredSame, Zenon DEF FlipStatus
<1>22. CASE FlipTest
  BY <1>22, RegisteredSame, Zenon DEF FlipTest
<1>23. CASE FlipReset
  BY <1>23, RegisteredSame, Zenon DEF FlipReset
<1>24. CASE FlipSignal
  BY <1>24, RegisteredSame, Zenon DEF FlipSignal
<1>25. CASE FlipSave
  BY <1>25, RegisteredSame, Zenon DEF FlipSave
<1>26. CASE Vblank
  BY <1>26, RegisteredSame, Zenon DEF Vblank
<1> QED BY <1>1, <1>2, <1>3, <1>4, <1>5, <1>6, <1>7, <1>8, <1>9, <1>10, <1>11, <1>12, <1>13, <1>14,
          <1>15, <1>16, <1>17, <1>18, <1>19, <1>20, <1>21, <1>22, <1>23, <1>24, <1>25, <1>26, Zenon
          DEF Next, Guest, Gpu, Present

\* A step after which the GPU thread waits for the same label, and that does not take
\* the present thread past its notification, keeps the sleeper heard.
LEMMA SleepSame ==
    ASSUME Sleep, UNCHANGED <<gpu, buffer_labels, num_submits>>,
           gpu = "asleep" => Frame' = Frame, ppc = "signal" => ppc' = "signal"
    PROVE  Sleep'
BY Zenon DEF Sleep, LabelSleeperHeard

\* Every step keeps a sleeping GPU thread heard: a label is reset only on the way to
\* a notification, and Close finds the thread awake.
LEMMA SleepStep ==
    ASSUME Types, NothingLeft, Sleep, Next
    PROVE  Sleep'
<1> USE DEF portVars, numVars, gpuVars, preVars, gstVars, ghosts
<1>1. ASSUME NEW g \in Guests, Open(g) PROVE Sleep'
  BY <1>1, SleepSame, Zenon DEF Open, Frame
<1>2. ASSUME NEW g \in Guests, Close(g) PROVE Sleep'
  <2>1. gpu' = "wait"
    BY <1>2, Zenon DEF Close, NothingLeft
  <2> QED BY <2>1, Zenon DEF Sleep, LabelSleeperHeard
<1>3. ASSUME NEW g \in Guests, SubmitAsc(g) PROVE Sleep'
  BY <1>3, SleepSame, Zenon DEF SubmitAsc, Frame
<1>4. ASSUME NEW g \in Guests, NEW B \in Ranges, RegisterBuffers(g, B) PROVE Sleep'
  BY <1>4, Zenon DEF RegisterBuffers, SignalVoLabel, Sleep, LabelSleeperHeard
<1>5. ASSUME NEW g \in Guests, NEW n \in Groups, UnregisterBuffers(g, n) PROVE Sleep'
  BY <1>5, SleepSame, Zenon DEF UnregisterBuffers, Frame
<1>6. ASSUME NEW g \in Guests, NEW r \in Rates, SetFlipRate(g, r) PROVE Sleep'
  BY <1>6, SleepSame, Zenon DEF SetFlipRate, Frame
<1>7. ASSUME NEW g \in Guests, NEW b \in CpuBuffers \cup {Blank}, SubmitFlip(g, b) PROVE Sleep'
  BY <1>7, SleepSame, Zenon DEF SubmitFlip, Frame
<1>8. ASSUME NEW g \in Guests, NEW b \in EopBuffers, SubmitAndFlip(g, b) PROVE Sleep'
  BY <1>8, SleepSame, FrameStays, Zenon DEF SubmitAndFlip, Types
<1>9. ASSUME NEW g \in Guests, SendCommand(g) PROVE Sleep'
  BY <1>9, SleepSame, Zenon DEF SendCommand, Frame
<1>10. ASSUME NEW g \in Guests, CountSubmit(g) PROVE Sleep'
  BY <1>10, SMTT(30) DEF CountSubmit, Sleep, LabelSleeperHeard, Frame, Types
<1>11. CASE ProcessCommand
  BY <1>11, SleepSame, Zenon DEF ProcessCommand, Frame
<1>12. CASE Poll
  BY <1>12, SleepSame, Zenon DEF Poll, Frame
<1>13. CASE Compute
  BY <1>13, Zenon DEF Compute, Sleep, LabelSleeperHeard
<1>14. CASE WaitRegMem
  <2>1. Len(submits) > 0 /\ submits # <<>>
    BY <1>14, Pop, SMTT(30) DEF WaitRegMem, Types
  <2>2. gpu' \in {"asleep", "woken"} =>
            gpu' = "asleep" /\ buffer_labels'[Frame] # 0 /\ num_submits' = Len(submits)
    BY <1>14, Zenon DEF WaitRegMem
  <2>3. Frame' = Frame
    BY <1>14, Zenon DEF WaitRegMem, Frame
  <2> QED BY <2>1, <2>2, <2>3, Zenon DEF Sleep, LabelSleeperHeard
<1>15. CASE Resume
  BY <1>15, Zenon DEF Resume, Sleep, LabelSleeperHeard
<1>16. CASE WaitVoLabel
  <2>1. gpu' \in {"asleep", "woken"} => gpu' = "asleep" /\ buffer_labels'[Frame] # 0
    BY <1>16, Zenon DEF WaitVoLabel
  <2>2. Frame' = Frame /\ num_submits' = num_submits /\ gpu = "woken"
    BY <1>16, Zenon DEF WaitVoLabel, Frame
  <2> QED BY <2>1, <2>2, Zenon DEF Sleep, LabelSleeperHeard
<1>17. CASE WriteLock
  BY <1>17, Zenon DEF WriteLock, Sleep, LabelSleeperHeard
<1>18. CASE FlipIrq
  BY <1>18, Zenon DEF FlipIrq, Sleep, LabelSleeperHeard
<1>19. CASE FlipPush
  BY <1>19, Zenon DEF FlipPush, Sleep, LabelSleeperHeard
<1>20. CASE Receive
  BY <1>20, SleepSame, Zenon DEF Receive, Frame
<1>21. CASE FlipStatus
  BY <1>21, SleepSame, Zenon DEF FlipStatus, Frame
<1>22. CASE FlipTest
  BY <1>22, SleepSame, Zenon DEF FlipTest, Frame
<1>23. CASE FlipReset
  BY <1>23, Zenon DEF FlipReset, Sleep, LabelSleeperHeard
<1>24. CASE FlipSignal
  BY <1>24, Zenon DEF FlipSignal, SignalVoLabel, Sleep, LabelSleeperHeard
<1>25. CASE FlipSave
  BY <1>25, SleepSame, Zenon DEF FlipSave, Frame
<1>26. CASE Vblank
  BY <1>26, SleepSame, Zenon DEF Vblank, Frame
<1> QED BY <1>1, <1>2, <1>3, <1>4, <1>5, <1>6, <1>7, <1>8, <1>9, <1>10, <1>11, <1>12, <1>13, <1>14,
          <1>15, <1>16, <1>17, <1>18, <1>19, <1>20, <1>21, <1>22, <1>23, <1>24, <1>25, <1>26, SMTT(30)
          DEF Next, Guest, Gpu, Present

\* A step that shows nothing and leaves prev_index alone.
LEMMA PrevSame ==
    ASSUME Prev, UNCHANGED <<shown, prev_index, req, relabelled>>, ppc' \in Tail4 <=> ppc \in Tail4
    PROVE  Prev'
BY Zenon DEF Prev

\* Every step keeps prev_index the buffer shown or one that was relabelled.
LEMMA PrevStep ==
    ASSUME Types, Prev, Next
    PROVE  Prev'
<1> USE DEF portVars, numVars, gpuVars, preVars, gstVars, ghosts
<1>1. ASSUME NEW g \in Guests, Open(g) PROVE Prev'
  BY <1>1, PrevSame, Zenon DEF Open
<1>2. ASSUME NEW g \in Guests, Close(g) PROVE Prev'
  <2>1. /\ shown' = Blank /\ prev_index' = Blank /\ req' = req /\ ppc' = ppc
        /\ ppc \in Tail4 => relabelled' = Buffers \cap {req.index}
    BY <1>2, Zenon DEF Close
  <2>2. req.index \in Buffers \cup {Blank}
    BY RequestIndex, Zenon DEF Types
  <2> QED BY <2>1, <2>2, Zenon DEF Prev
<1>3. ASSUME NEW g \in Guests, SubmitAsc(g) PROVE Prev'
  BY <1>3, PrevSame, Zenon DEF SubmitAsc
<1>4. ASSUME NEW g \in Guests, NEW B \in Ranges, RegisterBuffers(g, B) PROVE Prev'
  BY <1>4, Zenon DEF RegisterBuffers, Prev
<1>5. ASSUME NEW g \in Guests, NEW n \in Groups, UnregisterBuffers(g, n) PROVE Prev'
  BY <1>5, PrevSame, Zenon DEF UnregisterBuffers
<1>6. ASSUME NEW g \in Guests, NEW r \in Rates, SetFlipRate(g, r) PROVE Prev'
  BY <1>6, PrevSame, Zenon DEF SetFlipRate
<1>7. ASSUME NEW g \in Guests, NEW b \in CpuBuffers \cup {Blank}, SubmitFlip(g, b) PROVE Prev'
  BY <1>7, PrevSame, Zenon DEF SubmitFlip
<1>8. ASSUME NEW g \in Guests, NEW b \in EopBuffers, SubmitAndFlip(g, b) PROVE Prev'
  BY <1>8, PrevSame, Zenon DEF SubmitAndFlip
<1>9. ASSUME NEW g \in Guests, SendCommand(g) PROVE Prev'
  BY <1>9, PrevSame, Zenon DEF SendCommand
<1>10. ASSUME NEW g \in Guests, CountSubmit(g) PROVE Prev'
  BY <1>10, PrevSame, Zenon DEF CountSubmit
<1>11. CASE ProcessCommand
  BY <1>11, PrevSame, Zenon DEF ProcessCommand
<1>12. CASE Poll
  BY <1>12, PrevSame, Zenon DEF Poll
<1>13. CASE Compute
  BY <1>13, PrevSame, Zenon DEF Compute
<1>14. CASE WaitRegMem
  BY <1>14, PrevSame, Zenon DEF WaitRegMem
<1>15. CASE Resume
  BY <1>15, PrevSame, Zenon DEF Resume
<1>16. CASE WaitVoLabel
  BY <1>16, PrevSame, Zenon DEF WaitVoLabel
<1>17. CASE WriteLock
  BY <1>17, PrevSame, Zenon DEF WriteLock
<1>18. CASE FlipIrq
  BY <1>18, PrevSame, Zenon DEF FlipIrq
<1>19. CASE FlipPush
  BY <1>19, PrevSame, Zenon DEF FlipPush
<1>20. CASE Receive
  BY <1>20, Zenon DEF Receive, Prev, Tail4
<1>21. CASE FlipStatus
  BY <1>21, Zenon DEF FlipStatus, Prev, Tail4
<1>22. CASE FlipTest
  BY <1>22, PrevSame, Zenon DEF FlipTest, Tail4
<1>23. CASE FlipReset
  BY <1>23, PrevSame, Zenon DEF FlipReset, Tail4
<1>24. CASE FlipSignal
  BY <1>24, PrevSame, Zenon DEF FlipSignal, Tail4
<1>25. CASE FlipSave
  <2>1. ppc \in Tail4 /\ ppc' \notin Tail4 /\ shown' = shown /\ prev_index' = req.index
    BY <1>25, Zenon DEF FlipSave, Tail4
  <2>2. req.index \in relabelled => req.index \in relabelled'
    BY <1>25, Zenon DEF FlipSave, Outstanding
  <2> QED BY <2>1, <2>2, Zenon DEF Prev
<1>26. CASE Vblank
  BY <1>26, PrevSame, Zenon DEF Vblank, Tail4
<1> QED BY <1>1, <1>2, <1>3, <1>4, <1>5, <1>6, <1>7, <1>8, <1>9, <1>10, <1>11, <1>12, <1>13, <1>14,
          <1>15, <1>16, <1>17, <1>18, <1>19, <1>20, <1>21, <1>22, <1>23, <1>24, <1>25, <1>26, Zenon
          DEF Next, Guest, Gpu, Present

\* A step that writes no label and queues nothing, and after which no buffer is in
\* a place it was not in, keeps the labels right.
LEMMA LabelsSame ==
    ASSUME Labels, UNCHANGED <<shown, requests, buffer_labels, relabelled>>,
           ppc' = "status" <=> ppc = "status", ppc = "status" => req' = req,
           ppc' \in {"test", "reset"} => ppc \in {"test", "reset"} /\ prev_index' = prev_index,
           gpu' = "lock" => gpu = "lock" /\ Frame' = Frame,
           gpu' \in {"flip", "push"} => gpu \in {"flip", "push"} /\ Frame' = Frame
    PROVE  Labels'
<1> SUFFICES ASSUME NEW b \in EopBuffers \ relabelled PROVE LabelOK(b)'
  BY Zenon DEF Labels
<1>1. (Queued(b)' <=> Queued(b)) /\ (Once(b)' <=> Once(b))
  BY QueueSame, Zenon
<1>2. (Old(b)' => Old(b)) /\ (Drawing(b)' => Drawing(b)) /\ (Locked(b)' => Locked(b))
  BY Zenon DEF Old, Drawing, Locked
<1> QED BY <1>1, <1>2, Zenon DEF LabelOK, Labels

\* Every step keeps the labels right.
LEMMA LabelsStep ==
    ASSUME Types, Registered, NothingLeft, Labels, Prev, Next
    PROVE  Labels'
<1> USE DEF portVars, numVars, gpuVars, preVars, gstVars, ghosts
<1>1. ASSUME NEW g \in Guests, Open(g) PROVE Labels'
  BY <1>1, LabelsSame, Zenon DEF Open, Frame
<1>2. ASSUME NEW g \in Guests, Close(g) PROVE Labels'
  <2> SUFFICES ASSUME NEW c \in EopBuffers PROVE LabelOK(c)'
    BY Zenon DEF Labels
  <2>1. requests' = <<>> /\ ppc' # "status" /\ gpu' = "wait" /\ shown' = Blank /\ prev_index' = Blank
    BY <1>2, Zenon DEF Close, NothingLeft
  <2>2. c # Blank
    BY Constants, ZenonT(30)
  <2>3. ~Queued(c)' /\ ~Drawing(c)' /\ ~Locked(c)' /\ ~Old(c)' /\ Once(c)'
    BY <2>1, <2>2, SMTT(30) DEF Queued, Drawing, Locked, Old, Once
  <2> QED BY <2>1, <2>2, <2>3, Zenon DEF LabelOK
<1>3. ASSUME NEW g \in Guests, SubmitAsc(g) PROVE Labels'
  BY <1>3, LabelsSame, SMTT(30) DEF SubmitAsc, Frame
<1>4. ASSUME NEW g \in Guests, NEW B \in Ranges, RegisterBuffers(g, B) PROVE Labels'
  <2> SUFFICES ASSUME NEW c \in EopBuffers \ relabelled' PROVE LabelOK(c)'
    BY ZenonT(30) DEF Labels
  <2>1. /\ UNCHANGED <<shown, requests, req, ppc, prev_index, submits>>
        /\ relabelled' = relabelled \cup (B \cap Remembered)
    BY <1>4, SMTT(30) DEF RegisterBuffers
  <2>2. LabelOK(c)
    BY <2>1, Zenon DEF Labels
  <2>3. (Drawing(c)' <=> Drawing(c)) /\ (Locked(c)' <=> Locked(c)) /\ (Old(c)' <=> Old(c))
    BY <1>4, <2>1, Zenon DEF RegisterBuffers, SignalVoLabel, Locked, Drawing, Old, Frame
  <2>4. (Queued(c)' <=> Queued(c)) /\ (Once(c)' <=> Once(c))
    BY <2>1, QueueSame, Zenon
  <2>5. CASE c \notin B
    <3>1. buffer_labels'[c] = buffer_labels[c]
      BY <1>4, <2>5, Constants, Zenon DEF RegisterBuffers
    <3> QED BY <2>1, <2>2, <2>3, <2>4, <3>1, Zenon DEF LabelOK
  <2>6. CASE c \in B
    <3>1. group_index[c] = None /\ c \notin Remembered
      BY <1>4, <2>6, <2>1, Zenon DEF RegisterBuffers
    <3>2. ~Queued(c)
      BY <3>1, Zenon DEF Registered, RegQueued
    <3>3. ~Locked(c)
      <4>1. SUFFICES ASSUME Locked(c) PROVE FALSE
        OBVIOUS
      <4>2. submits # <<>> /\ Frame = c
        BY <4>1, Zenon DEF Locked, Types
      <4>3. 1 \in 1..Len(submits) /\ submits[1] = c
        BY <4>2, Pop, SMTT(30) DEF Types, Frame
      <4> QED BY <4>3, <3>1, SMTT(30) DEF Registered, RegSubmits
    <3>4. ~Old(c)
      BY <3>1, Zenon DEF Old, Remembered
    <3>5. shown # c
      BY <3>1, Constants, Zenon DEF Prev, Remembered
    <3> QED BY <2>1, <2>2, <2>3, <2>4, <3>2, <3>3, <3>4, <3>5, Zenon DEF LabelOK
  <2> QED BY <2>5, <2>6, SMTT(30)
<1>5. ASSUME NEW g \in Guests, NEW n \in Groups, UnregisterBuffers(g, n) PROVE Labels'
  BY <1>5, LabelsSame, Zenon DEF UnregisterBuffers, Frame
<1>6. ASSUME NEW g \in Guests, NEW r \in Rates, SetFlipRate(g, r) PROVE Labels'
  BY <1>6, LabelsSame, Zenon DEF SetFlipRate, Frame
<1>7. ASSUME NEW g \in Guests, NEW b \in CpuBuffers \cup {Blank}, SubmitFlip(g, b) PROVE Labels'
  BY <1>7, LabelsSame, Zenon DEF SubmitFlip, Frame
<1>8. ASSUME NEW g \in Guests, NEW b \in EopBuffers, SubmitAndFlip(g, b) PROVE Labels'
  BY <1>8, LabelsSame, FrameStays, Zenon DEF SubmitAndFlip, Types
<1>9. ASSUME NEW g \in Guests, SendCommand(g) PROVE Labels'
  BY <1>9, LabelsSame, Zenon DEF SendCommand, Frame
<1>10. ASSUME NEW g \in Guests, CountSubmit(g) PROVE Labels'
  BY <1>10, LabelsSame, Zenon DEF CountSubmit, Frame
<1>11. CASE ProcessCommand
  <2> SUFFICES ASSUME NEW c \in EopBuffers \ relabelled PROVE LabelOK(c)'
    BY <1>11, Zenon DEF ProcessCommand, Labels
  <2>1. UNCHANGED <<shown, buffer_labels, ppc, req, prev_index, gpu, submits>>
    BY <1>11, Zenon DEF ProcessCommand
  <2>2. Head(commands) \in CpuBuffers \cup {Blank}
    BY <1>11, Pop, Zenon DEF ProcessCommand, Types
  <2>3. c # Head(commands)
    BY <2>2, Constants, Zenon
  <2>4. (Queued(c)' <=> Queued(c)) /\ (Once(c) => Once(c)')
    <3>1. CASE requests' = requests
      BY <3>1, <2>1, QueueSame, Zenon
    <3>2. CASE requests' # requests
      BY <1>11, <3>2, <2>1, <2>2, <2>3, Internal, QueuePush, Constants, Zenon DEF ProcessCommand, Types
    <3> QED BY <3>1, <3>2, Zenon
  <2>5. (Drawing(c)' <=> Drawing(c)) /\ (Locked(c)' <=> Locked(c)) /\ (Old(c)' <=> Old(c))
    BY <2>1, Zenon DEF Locked, Drawing, Old, Frame
  <2> QED BY <2>1, <2>4, <2>5, Zenon DEF LabelOK, Labels
<1>12. CASE Poll
  BY <1>12, LabelsSame, Zenon DEF Poll, Frame
<1>13. CASE Compute
  BY <1>13, LabelsSame, Zenon DEF Compute, Frame
<1>14. CASE WaitRegMem
  <2> SUFFICES ASSUME NEW c \in EopBuffers \ relabelled PROVE LabelOK(c)'
    BY <1>14, Zenon DEF WaitRegMem, Labels
  <2>1. UNCHANGED <<shown, requests, buffer_labels, ppc, req, prev_index>> /\ Frame' = Frame
    BY <1>14, Zenon DEF WaitRegMem, Frame
  <2>2. ~Locked(c)' /\ (Drawing(c)' => Frame = c /\ buffer_labels[c] = 0) /\ (Old(c)' <=> Old(c))
    BY <1>14, <2>1, Zenon DEF WaitRegMem, Locked, Drawing, Old
  <2>3. (Queued(c)' <=> Queued(c)) /\ (Once(c)' <=> Once(c))
    BY <2>1, QueueSame, Zenon
  <2> QED BY <2>1, <2>2, <2>3, SMTT(30) DEF LabelOK, Labels
<1>15. CASE Resume
  <2> SUFFICES ASSUME NEW c \in EopBuffers \ relabelled PROVE LabelOK(c)'
    BY <1>15, Zenon DEF Resume, Labels
  <2>1. UNCHANGED <<shown, requests, buffer_labels, ppc, req, prev_index>> /\ Frame' = Frame
    BY <1>15, Zenon DEF Resume, Frame
  <2>2. ~Locked(c)' /\ (Drawing(c)' => Frame = c /\ buffer_labels[c] = 0) /\ (Old(c)' <=> Old(c))
    BY <1>15, <2>1, Zenon DEF Resume, Locked, Drawing, Old
  <2>3. (Queued(c)' <=> Queued(c)) /\ (Once(c)' <=> Once(c))
    BY <2>1, QueueSame, Zenon
  <2> QED BY <2>1, <2>2, <2>3, SMTT(30) DEF LabelOK, Labels
<1>16. CASE WaitVoLabel
  <2> SUFFICES ASSUME NEW c \in EopBuffers \ relabelled PROVE LabelOK(c)'
    BY <1>16, Zenon DEF WaitVoLabel, Labels
  <2>1. UNCHANGED <<shown, requests, buffer_labels, ppc, req, prev_index>> /\ Frame' = Frame
    BY <1>16, Zenon DEF WaitVoLabel, Frame
  <2>2. ~Locked(c)' /\ (Drawing(c)' => Frame = c /\ buffer_labels[c] = 0) /\ (Old(c)' <=> Old(c))
    BY <1>16, <2>1, Zenon DEF WaitVoLabel, Locked, Drawing, Old
  <2>3. (Queued(c)' <=> Queued(c)) /\ (Once(c)' <=> Once(c))
    BY <2>1, QueueSame, Zenon
  <2> QED BY <2>1, <2>2, <2>3, SMTT(30) DEF LabelOK, Labels
<1>17. CASE WriteLock
  <2> SUFFICES ASSUME NEW c \in EopBuffers \ relabelled PROVE LabelOK(c)'
    BY <1>17, Zenon DEF WriteLock, Labels
  <2>1. UNCHANGED <<shown, requests, ppc, req, prev_index>> /\ Frame' = Frame
    BY <1>17, Zenon DEF WriteLock, Frame
  <2>2. buffer_labels'[c] = 1 \/ (buffer_labels'[c] = buffer_labels[c] /\ Frame # c)
    BY <1>17, Constants, Zenon DEF WriteLock, Types
  <2>3. (Drawing(c)' <=> Drawing(c)) /\ (Locked(c)' => Frame = c) /\ (Old(c)' <=> Old(c))
    BY <1>17, <2>1, Zenon DEF WriteLock, Locked, Drawing, Old
  <2>4. (Queued(c)' <=> Queued(c)) /\ (Once(c)' <=> Once(c))
    BY <2>1, QueueSame, Zenon
  <2> QED BY <2>1, <2>2, <2>3, <2>4, Zenon DEF LabelOK, Labels
<1>18. CASE FlipIrq
  BY <1>18, LabelsSame, Zenon DEF FlipIrq, Frame
<1>19. CASE FlipPush
  <2> SUFFICES ASSUME NEW c \in EopBuffers \ relabelled PROVE LabelOK(c)'
    BY <1>19, Zenon DEF FlipPush, Labels
  <2>1. UNCHANGED <<shown, buffer_labels, ppc, req, prev_index>> /\ gpu' = "wait" /\ gpu = "push"
    BY <1>19, Zenon DEF FlipPush
  <2>2. Frame \in EopBuffers
    BY <1>19, Pop, Zenon DEF FlipPush, Types, Frame
  <2>3. ~Drawing(c)' /\ ~Locked(c)' /\ (Old(c)' <=> Old(c))
    BY <2>1, Zenon DEF Drawing, Locked, Old
  <2>4. CASE requests' = requests
    <3>1. (Queued(c)' <=> Queued(c)) /\ (Once(c)' <=> Once(c))
      BY <2>1, <2>4, QueueSame, Zenon
    <3> QED BY <2>1, <2>3, <3>1, Zenon DEF LabelOK, Labels
  <2>5. CASE requests' # requests
    <3>1. (Drawing(c) <=> c = Frame) /\ (Locked(c) <=> c = Frame) /\ LabelOK(c)
      BY <2>1, Zenon DEF Drawing, Locked, Labels
    <3>2. (Queued(c)' <=> Queued(c) \/ c = Frame) /\ (Once(c) /\ (c = Frame => ~Queued(c)) => Once(c)')
      BY <1>19, <2>1, <2>2, <2>5, Internal, QueuePush, Constants, Zenon DEF FlipPush, Types
    <3> QED BY <2>1, <2>3, <3>1, <3>2, Zenon DEF LabelOK
  <2> QED BY <2>4, <2>5, Zenon
<1>20. CASE Receive
  <2> SUFFICES ASSUME NEW c \in EopBuffers \ relabelled PROVE LabelOK(c)'
    BY <1>20, Zenon DEF Receive, Labels
  <2>1. UNCHANGED <<shown, buffer_labels, gpu, submits>> /\ ppc' \notin {"test", "reset"}
    BY <1>20, SMTT(30) DEF Receive
  <2>2. (Queued(c)' <=> Queued(c)) /\ (Once(c) => Once(c)')
    BY <1>20, QueueTake, Zenon
  <2>3. (Drawing(c)' <=> Drawing(c)) /\ (Locked(c)' <=> Locked(c)) /\ ~Old(c)'
    BY <2>1, Zenon DEF Locked, Drawing, Old, Frame
  <2> QED BY <2>1, <2>2, <2>3, Zenon DEF LabelOK, Labels
<1>21. CASE FlipStatus
  <2> SUFFICES ASSUME NEW c \in EopBuffers \ relabelled PROVE LabelOK(c)'
    BY <1>21, Zenon DEF FlipStatus, Labels
  <2>1. /\ UNCHANGED <<requests, req, prev_index, buffer_labels, gpu, submits>>
        /\ ppc = "status" /\ ppc' = "test" /\ shown' = req.index
    BY <1>21, SMTT(30) DEF FlipStatus
  <2>2. LabelOK(c)
    BY Zenon DEF Labels
  <2>3. prev_index = c => shown = c
    BY <2>1, Zenon DEF Prev, Tail4
  <2>4. (Drawing(c)' <=> Drawing(c)) /\ (Locked(c)' <=> Locked(c)) /\ (Old(c)' <=> prev_index = c)
    BY <2>1, Zenon DEF Locked, Drawing, Old, Frame
  <2>5. (Queued(c)' => Queued(c)) /\ (req.index = c => Queued(c) /\ ~Queued(c)')
    BY <2>1, <2>2, Zenon DEF Queued, LabelOK, Once
  <2>6. Once(c)'
    BY <2>1, <2>2, Zenon DEF LabelOK, Once
  <2> QED BY <2>1, <2>2, <2>3, <2>4, <2>5, <2>6, Zenon DEF LabelOK
<1>22. CASE FlipTest
  BY <1>22, LabelsSame, Zenon DEF FlipTest, Frame
<1>23. CASE FlipReset
  <2> SUFFICES ASSUME NEW c \in EopBuffers \ relabelled PROVE LabelOK(c)'
    BY <1>23, Zenon DEF FlipReset, Labels
  <2>1. UNCHANGED <<shown, requests, req, prev_index, gpu, submits>> /\ ppc = "reset" /\ ppc' = "signal"
    BY <1>23, Zenon DEF FlipReset
  <2>2. prev_index # c => buffer_labels'[c] = buffer_labels[c]
    BY <1>23, Constants, Zenon DEF FlipReset
  <2>3. (Drawing(c)' <=> Drawing(c)) /\ (Locked(c)' <=> Locked(c)) /\ ~Old(c)' /\ (Old(c) <=> prev_index = c)
    BY <2>1, Zenon DEF Locked, Drawing, Old, Frame
  <2>4. (Queued(c)' <=> Queued(c)) /\ (Once(c)' <=> Once(c))
    BY <2>1, QueueSame, Zenon
  <2>5. Locked(c) => Drawing(c)
    BY Zenon DEF Locked, Drawing
  <2> QED BY <2>1, <2>2, <2>3, <2>4, <2>5, Zenon DEF LabelOK, Labels
<1>24. CASE FlipSignal
  BY <1>24, LabelsSame, Zenon DEF FlipSignal, SignalVoLabel, Frame
<1>25. CASE FlipSave
  <2> SUFFICES ASSUME NEW c \in EopBuffers \ relabelled' PROVE LabelOK(c)'
    BY Zenon DEF Labels
  <2>1. /\ UNCHANGED <<shown, requests, buffer_labels, gpu, submits>> /\ ppc = "save" /\ ppc' = "vblank"
        /\ relabelled' = relabelled \cap Outstanding
    BY <1>25, Zenon DEF FlipSave
  <2>2. (Drawing(c)' <=> Drawing(c)) /\ (Locked(c)' <=> Locked(c)) /\ ~Old(c)'
    BY <2>1, Zenon DEF Locked, Drawing, Old, Frame
  <2>3. (Queued(c)' <=> Queued(c)) /\ (Once(c)' <=> Once(c))
    BY <2>1, QueueSame, Zenon
  <2>4. CASE c \notin relabelled
    BY <2>1, <2>2, <2>3, <2>4, Zenon DEF LabelOK, Labels
  <2>5. CASE c \notin Outstanding
    <3>1. c # req.index /\ ~Queued(c) /\ ~Drawing(c) /\ ~Locked(c)
      BY <2>1, <2>5, Zenon DEF Outstanding, Queued, Drawing, Locked
    <3>2. shown # c
      BY <2>1, <3>1, Constants, Zenon DEF Prev, Tail4
    <3>3. Once(c)
      BY <3>1, <2>1, Zenon DEF Once, Queued
    <3> QED BY <2>1, <2>2, <2>3, <3>1, <3>2, <3>3, Zenon DEF LabelOK
  <2> QED BY <2>1, <2>4, <2>5, Zenon
<1>26. CASE Vblank
  BY <1>26, LabelsSame, SMTT(30) DEF Vblank, Frame
<1> QED BY <1>1, <1>2, <1>3, <1>4, <1>5, <1>6, <1>7, <1>8, <1>9, <1>10, <1>11, <1>12, <1>13, <1>14,
          <1>15, <1>16, <1>17, <1>18, <1>19, <1>20, <1>21, <1>22, <1>23, <1>24, <1>25, <1>26, Zenon
          DEF Next, Guest, Gpu, Present

-----------------------------------------------------------------------------
\* Numbers the counts are made of.
LEMMA Numbers ==
    ASSUME CountRules, Types
    PROVE  /\ Sending \in SUBSET Guests /\ Cardinality(Sending) \in Nat
           /\ Counting \in SUBSET Guests /\ Cardinality(Counting) \in Nat
           /\ Len(commands) \in Nat /\ Len(requests) \in Nat /\ Len(submits) \in Nat
           /\ AtGpu \in {0, 1} /\ InHand \in {0, 1} /\ flip_pending_num \in Int /\ num_submits \in Int
<1>1. Sending \in SUBSET Guests /\ Counting \in SUBSET Guests
  BY Zenon DEF Sending, Counting
<1>2. Cardinality(Sending) \in Nat /\ Cardinality(Counting) \in Nat
  BY <1>1, Zenon DEF CountRules, GuestRules
<1> QED BY <1>1, <1>2, SMTT(30) DEF Types, AtGpu, InHand

\* How a thread's step changes the two sets.
LEMMA Moves ==
    ASSUME CountRules, Types, NEW g \in Guests, NEW k \in {"idle", "send", "count"},
           gpc' = [gpc EXCEPT ![g] = k]
    PROVE  /\ gpc[g] = "idle" /\ k = "send" =>
                Cardinality(Sending') = Cardinality(Sending) + 1 /\ Counting' = Counting
           /\ gpc[g] = "send" /\ k = "idle" =>
                Cardinality(Sending') = Cardinality(Sending) - 1 /\ Counting' = Counting
           /\ gpc[g] = "idle" /\ k = "count" =>
                Sending' = Sending /\ Cardinality(Counting') = Cardinality(Counting) + 1
           /\ gpc[g] = "count" /\ k = "idle" =>
                Sending' = Sending /\ Cardinality(Counting') = Cardinality(Counting) - 1
<1>1. gpc \in [Guests -> {"idle", "send", "count"}]
  BY SMTT(30) DEF Types
<1>2. CASE gpc[g] = "idle" /\ k = "send"
  <2>1. Sending' = Sending \cup {g} /\ g \notin Sending /\ Counting' = Counting
    BY <1>2, <1>1, SMTT(30) DEF Sending, Counting
  <2> QED BY <1>2, <2>1, Numbers, Zenon DEF CountRules, GuestRules
<1>3. CASE gpc[g] = "send" /\ k = "idle"
  <2>1. Sending' = Sending \ {g} /\ g \in Sending /\ Counting' = Counting
    BY <1>3, <1>1, SMTT(30) DEF Sending, Counting
  <2> QED BY <1>3, <2>1, Numbers, Zenon DEF CountRules, GuestRules
<1>4. CASE gpc[g] = "idle" /\ k = "count"
  <2>1. Counting' = Counting \cup {g} /\ g \notin Counting /\ Sending' = Sending
    BY <1>4, <1>1, SMTT(30) DEF Sending, Counting
  <2> QED BY <1>4, <2>1, Numbers, Zenon DEF CountRules, GuestRules
<1>5. CASE gpc[g] = "count" /\ k = "idle"
  <2>1. Counting' = Counting \ {g} /\ g \in Counting /\ Sending' = Sending
    BY <1>5, <1>1, SMTT(30) DEF Sending, Counting
  <2> QED BY <1>5, <2>1, Numbers, Zenon DEF CountRules, GuestRules
<1> QED BY <1>2, <1>3, <1>4, <1>5, SMTT(30)

\* The threads' parts of the counts are unchanged by a step of another thread.
LEMMA Stay ==
    ASSUME gpc' = gpc
    PROVE  Sending' = Sending /\ Counting' = Counting
BY SMTT(30) DEF Sending, Counting

\* A step that moves no flip and no submit keeps the counts.
LEMMA CountsSame ==
    ASSUME Counts, UNCHANGED <<gpc, flip_pending_num, num_submits, commands, requests, submits, compute>>,
           gpu' = "push" <=> gpu = "push", ppc' = "status" <=> ppc = "status"
    PROVE  Counts'
BY SMTT(30) DEF Counts, PendingCount, SubmitCount, AtGpu, InHand, Sending, Counting

\* The counts tell a guest the truth: when they are zero, nothing is left.
LEMMA QuietEmpty ==
    ASSUME CountRules, Types, Counts
    PROVE  NothingLeft
<1> SUFFICES ASSUME Quiet
             PROVE  /\ submits = <<>> /\ commands = <<>> /\ requests = <<>> /\ ~compute
                    /\ gpu = "wait" /\ ppc # "status"
                    /\ Sending = {} /\ Counting = {}
  BY Zenon DEF NothingLeft
<1>1. Sending = {} /\ Counting = {}
  BY SMTT(30) DEF Quiet, Sending, Counting
<1>2. Cardinality(Sending) = 0 /\ Cardinality(Counting) = 0
  BY <1>1, Numbers, Zenon DEF CountRules, GuestRules
<1>3. Len(commands) = 0 /\ Len(requests) = 0 /\ ppc # "status"
  <2>1. 0 = Len(commands) + AtGpu + Len(requests) + (IF ppc = "status" THEN 1 ELSE 0)
    BY <1>2, Numbers, SMTT(30) DEF Counts, PendingCount, SubmitCount, InHand, Quiet
  <2> QED BY <2>1, Numbers, SMTT(30)
<1>4. Len(submits) = 0 /\ ~compute
  <2>1. 0 = Len(submits) + (IF compute THEN 1 ELSE 0)
    BY <1>2, Numbers, SMTT(30) DEF Counts, PendingCount, SubmitCount, InHand, Quiet
  <2> QED BY <2>1, Numbers, SMTT(30)
<1>5. submits = <<>> /\ commands = <<>> /\ requests = <<>>
  BY <1>3, <1>4, SMTT(30) DEF Types
<1> QED BY <1>1, <1>3, <1>4, <1>5, SMTT(30) DEF Types

\* Every step keeps the counts.
LEMMA CountsStep ==
    ASSUME CountRules, Types, Registered, Counts, Next
    PROVE  Counts'
<1> USE DEF portVars, numVars, gpuVars, preVars, gstVars, ghosts
<1>a. /\ Len(commands)' \in Nat /\ Len(requests)' \in Nat
      /\ AtGpu' \in {0, 1} /\ InHand' \in {0, 1}
  BY TypesStep, SMTT(30) DEF Types, AtGpu, InHand
<1>b. /\ Cardinality(Sending) \in Nat /\ Len(commands) \in Nat /\ Len(requests) \in Nat
      /\ AtGpu \in {0, 1} /\ InHand \in {0, 1} /\ flip_pending_num \in Int
  BY Numbers, SMTT(30)
<1>1. ASSUME NEW g \in Guests, Open(g) PROVE Counts'
  BY <1>1, CountsSame, Zenon DEF Open
<1>2. ASSUME NEW g \in Guests, Close(g) PROVE Counts'
  BY <1>2, CountsSame, Zenon DEF Close, Quiet
<1>3. ASSUME NEW g \in Guests, SubmitAsc(g) PROVE Counts'
  <2>1. Sending' = Sending /\ Cardinality(Counting') = Cardinality(Counting) + 1
    BY <1>3, Moves, Zenon DEF SubmitAsc, Call
  <2>2. (IF compute' THEN 1 ELSE 0) = 1 /\ (IF compute THEN 1 ELSE 0) = 0
    BY <1>3, SMTT(30) DEF SubmitAsc
  <2>3. flip_pending_num' = flip_pending_num /\ num_submits' = num_submits /\ commands' = commands
        /\ requests' = requests /\ submits' = submits
        /\ (gpu' = "push" <=> gpu = "push") /\ (ppc' = "status" <=> ppc = "status")
    BY <1>3, SMTT(30) DEF SubmitAsc, portVars, numVars, gpuVars, preVars, gstVars, ghosts
  <2> QED BY <2>1, <2>2, <2>3, Numbers, SMTT(30) DEF Counts, PendingCount, SubmitCount, InHand, AtGpu
<1>4. ASSUME NEW g \in Guests, NEW B \in Ranges, RegisterBuffers(g, B) PROVE Counts'
  BY <1>4, CountsSame, SMTT(30) DEF RegisterBuffers, SignalVoLabel
<1>5. ASSUME NEW g \in Guests, NEW n \in Groups, UnregisterBuffers(g, n) PROVE Counts'
  BY <1>5, CountsSame, SMTT(30) DEF UnregisterBuffers
<1>6. ASSUME NEW g \in Guests, NEW r \in Rates, SetFlipRate(g, r) PROVE Counts'
  BY <1>6, CountsSame, SMTT(30) DEF SetFlipRate
<1>7. ASSUME NEW g \in Guests, NEW b \in CpuBuffers \cup {Blank}, SubmitFlip(g, b) PROVE Counts'
  <2>1. Cardinality(Sending') = Cardinality(Sending) + 1 /\ Counting' = Counting
    BY <1>7, Moves, Zenon DEF SubmitFlip, Call
  <2>2. flip_pending_num' = flip_pending_num + 1 /\ num_submits' = num_submits /\ commands' = commands
        /\ requests' = requests /\ submits' = submits /\ compute' = compute
        /\ (gpu' = "push" <=> gpu = "push") /\ (ppc' = "status" <=> ppc = "status")
    BY <1>7, SMTT(30) DEF SubmitFlip, portVars, numVars, gpuVars, preVars, gstVars, ghosts
  <2> QED BY <2>1, <2>2, Numbers, SMTT(30) DEF Counts, PendingCount, SubmitCount, InHand, AtGpu
<1>8. ASSUME NEW g \in Guests, NEW b \in EopBuffers, SubmitAndFlip(g, b) PROVE Counts'
  <2>1. Sending' = Sending /\ Cardinality(Counting') = Cardinality(Counting) + 1
    BY <1>8, Moves, Zenon DEF SubmitAndFlip, Call
  <2>2. Len(submits') = Len(submits) + 1
    BY <1>8, Push, SMTT(30) DEF SubmitAndFlip, Types
  <2>3. flip_pending_num' = flip_pending_num /\ num_submits' = num_submits /\ commands' = commands
        /\ requests' = requests /\ compute' = compute
        /\ (gpu' = "push" <=> gpu = "push") /\ (ppc' = "status" <=> ppc = "status")
    BY <1>8, SMTT(30) DEF SubmitAndFlip, portVars, numVars, gpuVars, preVars, gstVars, ghosts
  <2> QED BY <2>1, <2>2, <2>3, Numbers, SMTT(30) DEF Counts, PendingCount, SubmitCount, InHand, AtGpu
<1>9. ASSUME NEW g \in Guests, SendCommand(g) PROVE Counts'
  <2>1. Cardinality(Sending') = Cardinality(Sending) - 1 /\ Counting' = Counting
    BY <1>9, Moves, Zenon DEF SendCommand
  <2>2. Len(commands') = Len(commands) + 1
    BY <1>9, Push, SMTT(30) DEF SendCommand, Types
  <2>3. flip_pending_num' = flip_pending_num /\ num_submits' = num_submits /\ requests' = requests
        /\ submits' = submits /\ compute' = compute
        /\ (gpu' = "push" <=> gpu = "push") /\ (ppc' = "status" <=> ppc = "status")
    BY <1>9, SMTT(30) DEF SendCommand, portVars, numVars, gpuVars, preVars, gstVars, ghosts
  <2> QED BY <2>1, <2>2, <2>3, Numbers, SMTT(30) DEF Counts, PendingCount, SubmitCount, InHand, AtGpu
<1>10. ASSUME NEW g \in Guests, CountSubmit(g) PROVE Counts'
  <2>1. Sending' = Sending /\ Cardinality(Counting') = Cardinality(Counting) - 1
    BY <1>10, Moves, Zenon DEF CountSubmit
  <2>2. flip_pending_num' = flip_pending_num /\ num_submits' = num_submits + 1 /\ commands' = commands
        /\ requests' = requests /\ submits' = submits /\ compute' = compute
        /\ (gpu' = "push" <=> gpu = "push") /\ (ppc' = "status" <=> ppc = "status")
    BY <1>10, SMTT(30) DEF CountSubmit, portVars, numVars, gpuVars, preVars, gstVars, ghosts
  <2> QED BY <2>1, <2>2, Numbers, SMTT(30) DEF Counts, PendingCount, SubmitCount, InHand, AtGpu
<1>11. CASE ProcessCommand
  <2>1. Sending' = Sending /\ Counting' = Counting
    BY <1>11, Stay, SMTT(30) DEF ProcessCommand
  <2>2. Head(commands) \in Buffers \cup {Blank} /\ Head(commands) = commands[1] /\ 1 \in 1..Len(commands)
    BY <1>11, Pop, Constants, SMTT(30) DEF ProcessCommand, Types
  <2>3. ~(Head(commands) # Blank /\ group_index[Head(commands)] = None)
    BY <2>2, SMTT(30) DEF Registered, RegCommands, RegSubmits
  <2>4. Len(requests') = Len(requests) + 1
    BY <1>11, <2>2, <2>3, Internal, Zenon DEF ProcessCommand, Types
  <2>5. AtGpu' = AtGpu /\ InHand' = InHand
    BY <1>11, SMTT(30) DEF ProcessCommand, AtGpu, InHand, portVars, numVars, gpuVars, preVars, gstVars, ghosts
  <2>6. Len(commands') = Len(commands) - 1
    BY <1>11, Pop, SMTT(30) DEF ProcessCommand, Types
  <2>7. Len(commands') + Len(requests') = Len(commands) + Len(requests)
    BY <2>4, <2>6, <1>a, Numbers, SMTT(30)
  <2>8. flip_pending_num' = flip_pending_num /\ num_submits' = num_submits /\ submits' = submits
        /\ compute' = compute
        /\ (gpu' = "push" <=> gpu = "push") /\ (ppc' = "status" <=> ppc = "status")
    BY <1>11, SMTT(30) DEF ProcessCommand, portVars, numVars, gpuVars, preVars, gstVars, ghosts
  <2>9. PendingCount'
    BY <2>1, <2>5, <2>7, <2>8, <1>a, <1>b, SMTT(30) DEF Counts, PendingCount
  <2>10. SubmitCount'
    BY <2>1, <2>2, <2>3, <2>4, <2>5, <2>6, <2>7, <2>8, Numbers, SMTT(30) DEF Counts, SubmitCount
  <2> QED BY <2>9, <2>10, SMTT(30) DEF Counts
<1>12. CASE Poll
  BY <1>12, CountsSame, Zenon DEF Poll
<1>13. CASE Compute
  <2>1. Sending' = Sending /\ Counting' = Counting
    BY <1>13, Stay, SMTT(30) DEF Compute
  <2>2. (IF compute' THEN 1 ELSE 0) = 0 /\ (IF compute THEN 1 ELSE 0) = 1
    BY <1>13, SMTT(30) DEF Compute
  <2>3. flip_pending_num' = flip_pending_num /\ num_submits' = num_submits - 1 /\ commands' = commands
        /\ requests' = requests /\ submits' = submits
        /\ (gpu' = "push" <=> gpu = "push") /\ (ppc' = "status" <=> ppc = "status")
    BY <1>13, SMTT(30) DEF Compute, portVars, numVars, gpuVars, preVars, gstVars, ghosts
  <2>4. PendingCount'
    BY <2>1, <2>2, <2>3, <1>a, <1>b, Zenon DEF Counts, PendingCount, AtGpu, InHand
  <2>5. SubmitCount'
    BY <2>1, <2>2, <2>3, Numbers, SMTT(30) DEF Counts, SubmitCount
  <2> QED BY <2>4, <2>5, SMTT(30) DEF Counts
<1>14. CASE WaitRegMem
  BY <1>14, CountsSame, SMTT(30) DEF WaitRegMem
<1>15. CASE Resume
  BY <1>15, CountsSame, SMTT(30) DEF Resume
<1>16. CASE WaitVoLabel
  BY <1>16, CountsSame, SMTT(30) DEF WaitVoLabel
<1>17. CASE WriteLock
  BY <1>17, CountsSame, Zenon DEF WriteLock
<1>18. CASE FlipIrq
  <2>1. Sending' = Sending /\ Counting' = Counting
    BY <1>18, Stay, SMTT(30) DEF FlipIrq, gstVars
  <2>2. \/ flip_pending_num' = flip_pending_num + 1 /\ gpu' = "push" /\ gpu # "push"
        \/ flip_pending_num' = flip_pending_num /\ gpu' = gpu
    BY <1>18, SMTT(30) DEF FlipIrq, portVars, numVars, gpuVars, preVars, gstVars, ghosts
  <2>3. num_submits' = num_submits /\ commands' = commands /\ requests' = requests /\ submits' = submits
        /\ compute' = compute /\ ppc' = ppc
    BY <1>18, SMTT(30) DEF FlipIrq, portVars, numVars, gpuVars, preVars, gstVars, ghosts
  <2> QED BY <2>1, <2>2, <2>3, Numbers, SMTT(30) DEF Counts, PendingCount, SubmitCount, InHand, AtGpu
<1>19. CASE FlipPush
  <2>1. Sending' = Sending /\ Counting' = Counting
    BY <1>19, Stay, Zenon DEF FlipPush
  <2>2. Frame \in Buffers \cup {Blank} /\ Frame = submits[1] /\ 1 \in 1..Len(submits)
    BY <1>19, Pop, Constants, SMTT(30) DEF FlipPush, Types, Frame
  <2>3. ~(Frame # Blank /\ group_index[Frame] = None)
    BY <2>2, Zenon DEF Registered, RegCommands, RegSubmits
  <2>4. Len(requests') = Len(requests) + 1
    BY <1>19, <2>2, <2>3, Internal, Zenon DEF FlipPush, Types
  <2>5. Len(submits') = Len(submits) - 1
    BY <1>19, Pop, SMTT(30) DEF FlipPush, Types, Frame
  <2>6. flip_pending_num' = flip_pending_num /\ num_submits' = num_submits - 1 /\ commands' = commands
        /\ compute' = compute /\ gpu' # "push" /\ gpu = "push" /\ (ppc' = "status" <=> ppc = "status")
    BY <1>19, SMTT(30) DEF FlipPush, portVars, numVars, gpuVars, preVars, gstVars, ghosts
  <2>7. PendingCount'
    BY <2>1, <2>4, <2>5, <2>6, <1>a, <1>b, SMTT(30) DEF Counts, PendingCount, AtGpu, InHand
  <2>8. SubmitCount'
    BY <2>1, <2>2, <2>3, <2>4, <2>5, <2>6, Numbers, SMTT(30) DEF Counts, SubmitCount
  <2> QED BY <2>7, <2>8, SMTT(30) DEF Counts
<1>20. CASE Receive
  <2>1. Sending' = Sending /\ Counting' = Counting
    BY <1>20, Stay, SMTT(30) DEF Receive
  <2>2. Len(requests') + InHand' = Len(requests) + InHand /\ AtGpu' = AtGpu
    BY <1>20, Pop, SMTT(30)
       DEF Receive, Types, InHand, AtGpu, portVars, numVars, gpuVars, preVars, gstVars, ghosts
  <2>3. flip_pending_num' = flip_pending_num /\ num_submits' = num_submits /\ commands' = commands
        /\ submits' = submits /\ compute' = compute
        /\ (gpu' = "push" <=> gpu = "push") /\ ppc # "status"
    BY <1>20, SMTT(30) DEF Receive, portVars, numVars, gpuVars, preVars, gstVars, ghosts
  <2>4. PendingCount'
    BY <2>1, <2>2, <2>3, <1>a, <1>b, SMTT(30) DEF Counts, PendingCount
  <2>5. SubmitCount'
    BY <2>1, <2>2, <2>3, Numbers, SMTT(30) DEF Counts, SubmitCount
  <2> QED BY <2>4, <2>5, SMTT(30) DEF Counts
<1>21. CASE FlipStatus
  <2>1. Sending' = Sending /\ Counting' = Counting
    BY <1>21, Stay, SMTT(30) DEF FlipStatus
  <2>2. flip_pending_num' = flip_pending_num - 1 /\ num_submits' = num_submits /\ commands' = commands
        /\ requests' = requests /\ submits' = submits /\ compute' = compute
        /\ (gpu' = "push" <=> gpu = "push") /\ ppc' # "status" /\ ppc = "status"
    BY <1>21, SMTT(30) DEF FlipStatus, portVars, numVars, gpuVars, preVars, gstVars, ghosts
  <2> QED BY <2>1, <2>2, Numbers, SMTT(30) DEF Counts, PendingCount, SubmitCount, InHand, AtGpu
<1>22. CASE FlipTest
  BY <1>22, CountsSame, SMTT(30) DEF FlipTest
<1>23. CASE FlipReset
  BY <1>23, CountsSame, Zenon DEF FlipReset
<1>24. CASE FlipSignal
  BY <1>24, CountsSame, Zenon DEF FlipSignal, SignalVoLabel
<1>25. CASE FlipSave
  BY <1>25, CountsSame, Zenon DEF FlipSave
<1>26. CASE Vblank
  BY <1>26, CountsSame, Zenon DEF Vblank
<1> QED BY <1>1, <1>2, <1>3, <1>4, <1>5, <1>6, <1>7, <1>8, <1>9, <1>10, <1>11, <1>12, <1>13, <1>14,
          <1>15, <1>16, <1>17, <1>18, <1>19, <1>20, <1>21, <1>22, <1>23, <1>24, <1>25, <1>26, Zenon
          DEF Next, Guest, Gpu, Present

\* The rules of a queue, one by one.
LEMMA SizeRule ==
    ASSUME NEW T, QueueRules(T), NEW s \in Seq(T), NEW S
    PROVE  Count(s, S) \in Nat /\ Count(s, S) <= Len(s)
BY Zenon DEF QueueRules

\* Pushing an entry counts it.
LEMMA PushRule ==
    ASSUME NEW T, QueueRules(T), NEW s \in Seq(T), NEW x \in T, NEW S
    PROVE  Count(Append(s, x), S) = Count(s, S) + One(x, S)
BY Zenon DEF QueueRules

\* Taking one off the front no longer does.
LEMMA PopRule ==
    ASSUME NEW T, QueueRules(T), NEW s \in Seq(T), s # <<>>, NEW S
    PROVE  Count(s, S) = Count(Tail(s), S) + One(Head(s), S)
BY Zenon DEF QueueRules

\* The flips that are not blanks are among the pending ones.
LEMMA Reckon ==
    ASSUME CountRules, Types, Counts
    PROVE  /\ SendingReal \in SUBSET Guests /\ Cardinality(SendingReal) \in Nat
           /\ Count(commands, CpuBuffers) \in Nat
           /\ Count(requests, Reals) \in Nat /\ Count(requests, Eops) \in Nat
           /\ Hand(Reals) \in {0, 1} /\ Hand(Eops) \in {0, 1} /\ AtGpu \in {0, 1}
           /\ RealCount \in Nat /\ RealCount <= flip_pending_num
<1>1. Sending \in SUBSET Guests /\ Cardinality(Sending) \in Nat /\ AtGpu \in {0, 1} /\ InHand \in {0, 1}
  BY Numbers, Zenon
<1>2. SendingReal \in SUBSET Guests /\ Cardinality(SendingReal) <= Cardinality(Sending)
  <2>1. SendingReal \in SUBSET Sending
    BY Zenon DEF SendingReal
  <2> QED BY <1>1, <2>1, Zenon DEF CountRules, GuestRules
<1>3. Cardinality(SendingReal) \in Nat
  BY <1>2, Zenon DEF CountRules, GuestRules
<1>4. /\ Count(commands, CpuBuffers) \in Nat /\ Count(commands, CpuBuffers) <= Len(commands)
      /\ Count(requests, Reals) \in Nat /\ Count(requests, Reals) <= Len(requests)
      /\ Count(requests, Eops) \in Nat
  BY SizeRule, Zenon DEF CountRules, Types
<1>5. Hand(Reals) \in {0, 1} /\ Hand(Eops) \in {0, 1}
  BY Zenon DEF Hand, One
<1>6. Hand(Reals) <= InHand
  BY SMTT(30) DEF Hand, One, InHand
<1>7. Len(commands) \in Nat /\ Len(requests) \in Nat
  BY Numbers, Zenon
<1>8. flip_pending_num = Cardinality(Sending) + Len(commands) + AtGpu + Len(requests) + InHand
  BY Zenon DEF Counts, PendingCount
<1>9. RealCount \in Nat /\ RealCount <= flip_pending_num
  BY <1>1, <1>2, <1>3, <1>4, <1>5, <1>6, <1>7, <1>8, SMTT(30) DEF RealCount
<1> QED BY <1>1, <1>2, <1>3, <1>4, <1>5, <1>9, Zenon

\* A step that moves no flip keeps both.
LEMMA TallySame ==
    ASSUME Tally, UNCHANGED <<gpc, arg, gc_queue_num, commands, requests>>,
           gpu' = "push" <=> gpu = "push", ppc' = "status" <=> ppc = "status", ppc = "status" => req' = req
    PROVE  Tally'
<1>1. SendingReal' = SendingReal /\ AtGpu' = AtGpu
  BY Zenon DEF SendingReal, Sending, AtGpu
<1>2. Hand(Reals)' = Hand(Reals) /\ Hand(Eops)' = Hand(Eops)
  BY Zenon DEF Hand, Reals, Eops, One
<1>3. Count(commands, CpuBuffers)' = Count(commands, CpuBuffers)
      /\ Count(requests, Reals)' = Count(requests, Reals) /\ Count(requests, Eops)' = Count(requests, Eops)
  BY Zenon DEF Reals, Eops
<1> QED BY <1>1, <1>2, <1>3, Zenon DEF Tally, GcCount, Bounded, RealCount

\* Every step keeps gc_queue_num the number of the frames' flips and the flips of
\* buffers within the limit.
LEMMA TallyStep ==
    ASSUME CountRules, IInv, IInv', Kinds, Tally, Next
    PROVE  Tally'
<1> USE DEF portVars, numVars, gpuVars, preVars, gstVars, ghosts
<1>a. Types /\ Counts /\ Registered /\ Types' /\ Counts'
  BY Zenon DEF IInv
<1>b. /\ SendingReal \in SUBSET Guests /\ Cardinality(SendingReal) \in Nat
      /\ Count(commands, CpuBuffers) \in Nat
      /\ Count(requests, Reals) \in Nat /\ Count(requests, Eops) \in Nat
      /\ Hand(Reals) \in {0, 1} /\ Hand(Eops) \in {0, 1} /\ AtGpu \in {0, 1}
      /\ RealCount \in Nat /\ RealCount <= flip_pending_num
  BY <1>a, Reckon, Zenon
<1>c. MaxPending \in Nat /\ flip_pending_num \in Int /\ gc_queue_num \in Int
  BY <1>a, VideoOutAssumption, Zenon DEF Types, Kinds
<1>d. /\ gc_queue_num = AtGpu + Count(requests, Eops) + Hand(Eops)
      /\ Cardinality(SendingReal) + Count(commands, CpuBuffers) + AtGpu + Count(requests, Reals)
             + Hand(Reals) <= MaxPending + 1
  BY Zenon DEF Tally, GcCount, Bounded, RealCount
<1>g. QueueRules(Request) /\ QueueRules(CpuBuffers \cup {Blank})
  BY Zenon DEF CountRules
<1> DEFINE Goal == /\ gc_queue_num' = AtGpu' + Count(requests', Eops) + Hand(Eops)'
                   /\ Cardinality(SendingReal') + Count(commands', CpuBuffers) + AtGpu'
                          + Count(requests', Reals) + Hand(Reals)' <= MaxPending + 1
<1>f. Tally' <=> Goal
  BY Zenon DEF Tally, GcCount, Bounded, RealCount, Eops, Reals
<1> HIDE DEF Goal
<1>1. ASSUME NEW g \in Guests, Open(g) PROVE Goal
  BY <1>1, <1>f, TallySame, Zenon DEF Open
<1>2. ASSUME NEW g \in Guests, Close(g) PROVE Goal
  <2>1. requests = <<>> /\ gpu = "wait" /\ ppc # "status"
    BY <1>2, <1>a, QuietEmpty, Zenon DEF Close, NothingLeft
  <2>2. AtGpu = 0 /\ Hand(Eops) = 0 /\ Count(requests, Eops) = 0
    BY <2>1, <1>g, Zenon DEF AtGpu, Hand, QueueRules
  <2>3. gc_queue_num = 0
    BY <2>2, <1>d, SMTT(30)
  <2> QED BY <1>2, <1>f, <2>3, TallySame, Zenon DEF Close
<1>3. ASSUME NEW g \in Guests, SubmitAsc(g) PROVE Goal
  <2>1. SendingReal' = SendingReal
    BY <1>3, <1>a, Zenon DEF SubmitAsc, Call, SendingReal, Sending, Types
  <2>2. UNCHANGED <<gc_queue_num, commands, requests>> /\ AtGpu' = AtGpu
        /\ Hand(Eops)' = Hand(Eops) /\ Hand(Reals)' = Hand(Reals)
    BY <1>3, Zenon DEF SubmitAsc, AtGpu, Hand, One, Eops, Reals
  <2> QED BY <2>1, <2>2, <1>d, Zenon DEF Goal
<1>4. ASSUME NEW g \in Guests, NEW B \in Ranges, RegisterBuffers(g, B) PROVE Goal
  BY <1>4, <1>f, TallySame, Zenon DEF RegisterBuffers, SignalVoLabel
<1>5. ASSUME NEW g \in Guests, NEW n \in Groups, UnregisterBuffers(g, n) PROVE Goal
  BY <1>5, <1>f, TallySame, Zenon DEF UnregisterBuffers
<1>6. ASSUME NEW g \in Guests, NEW r \in Rates, SetFlipRate(g, r) PROVE Goal
  BY <1>6, <1>f, TallySame, Zenon DEF SetFlipRate
<1>7. ASSUME NEW g \in Guests, NEW b \in CpuBuffers \cup {Blank}, SubmitFlip(g, b) PROVE Goal
  <2>1. UNCHANGED <<gc_queue_num, commands, requests>> /\ AtGpu' = AtGpu
        /\ Hand(Eops)' = Hand(Eops) /\ Hand(Reals)' = Hand(Reals)
    BY <1>7, Zenon DEF SubmitFlip, AtGpu, Hand, One, Eops, Reals
  <2>2. g \notin SendingReal
    BY <1>7, Zenon DEF SubmitFlip, Call, SendingReal, Sending
  <2>3. CASE b = Blank
    <3>1. SendingReal' = SendingReal
      BY <1>7, <2>3, <1>a, SMTT(30) DEF SubmitFlip, Call, SendingReal, Sending, Types
    <3> QED BY <2>1, <3>1, <1>d, Zenon DEF Goal
  <2>4. CASE b # Blank
    <3>1. SendingReal' = SendingReal \cup {g}
      BY <1>7, <2>4, <1>a, SMTT(30) DEF SubmitFlip, Call, SendingReal, Sending, Types
    <3>2. Cardinality(SendingReal') = Cardinality(SendingReal) + 1
      BY <2>2, <3>1, <1>b, Zenon DEF CountRules, GuestRules
    <3>3. flip_pending_num <= MaxPending
      BY <1>7, <2>4, Zenon DEF SubmitFlip
    <3>4. Cardinality(SendingReal') + Count(commands, CpuBuffers) + AtGpu + Count(requests, Reals)
              + Hand(Reals) <= MaxPending + 1
      BY <3>2, <3>3, <1>b, <1>c, SMTT(30) DEF RealCount
    <3> QED BY <2>1, <3>4, <1>d, Zenon DEF Goal
  <2> QED BY <2>3, <2>4, Zenon
<1>8. ASSUME NEW g \in Guests, NEW b \in EopBuffers, SubmitAndFlip(g, b) PROVE Goal
  <2>1. SendingReal' = SendingReal
    BY <1>8, <1>a, Zenon DEF SubmitAndFlip, Call, SendingReal, Sending, Types
  <2>2. UNCHANGED <<gc_queue_num, commands, requests>> /\ AtGpu' = AtGpu
        /\ Hand(Eops)' = Hand(Eops) /\ Hand(Reals)' = Hand(Reals)
    BY <1>8, Zenon DEF SubmitAndFlip, AtGpu, Hand, One, Eops, Reals
  <2> QED BY <2>1, <2>2, <1>d, Zenon DEF Goal
<1>9. ASSUME NEW g \in Guests, SendCommand(g) PROVE Goal
  <2>1. UNCHANGED <<gc_queue_num, requests>> /\ AtGpu' = AtGpu
        /\ Hand(Eops)' = Hand(Eops) /\ Hand(Reals)' = Hand(Reals)
    BY <1>9, Zenon DEF SendCommand, AtGpu, Hand, One, Eops, Reals
  <2>2. arg[g] \in CpuBuffers \cup {Blank} /\ commands \in Seq(CpuBuffers \cup {Blank})
    BY <1>a, Zenon DEF Types
  <2>3. Count(commands', CpuBuffers) = Count(commands, CpuBuffers) + One(arg[g], CpuBuffers)
    BY <1>9, <2>2, <1>g, PushRule, Zenon DEF SendCommand
  <2>4. g \in SendingReal <=> arg[g] \in CpuBuffers
    BY <1>9, <2>2, Constants, Zenon DEF SendCommand, SendingReal, Sending
  <2>5. SendingReal' = SendingReal \ {g}
    BY <1>9, <1>a, SMTT(30) DEF SendCommand, SendingReal, Sending, Types
  <2>6. Cardinality(SendingReal') =
            IF g \in SendingReal THEN Cardinality(SendingReal) - 1 ELSE Cardinality(SendingReal)
    <3>1. CASE g \in SendingReal
      BY <3>1, <2>5, <1>b, Zenon DEF CountRules, GuestRules
    <3>2. CASE g \notin SendingReal
      <4>1. SendingReal' = SendingReal
        BY <3>2, <2>5, Zenon
      <4> QED BY <4>1, <3>2, Zenon
    <3> QED BY <3>1, <3>2, Zenon
  <2>7. Cardinality(SendingReal') + Count(commands', CpuBuffers)
            = Cardinality(SendingReal) + Count(commands, CpuBuffers)
    BY <2>3, <2>4, <2>6, <1>b, SMTT(30) DEF One
  <2> QED BY <2>1, <2>7, <1>d, Zenon DEF Goal
<1>10. ASSUME NEW g \in Guests, CountSubmit(g) PROVE Goal
  <2>1. SendingReal' = SendingReal
    BY <1>10, <1>a, Zenon DEF CountSubmit, SendingReal, Sending, Types
  <2>2. UNCHANGED <<gc_queue_num, commands, requests>> /\ AtGpu' = AtGpu
        /\ Hand(Eops)' = Hand(Eops) /\ Hand(Reals)' = Hand(Reals)
    BY <1>10, Zenon DEF CountSubmit, AtGpu, Hand, One, Eops, Reals
  <2> QED BY <2>1, <2>2, <1>d, Zenon DEF Goal
<1>11. ASSUME ProcessCommand PROVE Goal
  <2> DEFINE k == Head(commands)
             r == [index |-> k, eop |-> FALSE]
  <2>1. /\ commands \in Seq(CpuBuffers \cup {Blank}) /\ commands # <<>> /\ commands' = Tail(commands)
        /\ requests \in Seq(Request) /\ SubmitFlipInternal(k, FALSE)
    BY <1>11, <1>a, Zenon DEF ProcessCommand, Types
  <2>2. k \in CpuBuffers \cup {Blank} /\ k = commands[1] /\ 1 \in 1..Len(commands)
    BY <2>1, Pop, SMTT(30)
  <2>3. ~(k # Blank /\ group_index[k] = None)
    BY <2>2, <1>a, Zenon DEF Registered, RegCommands
  <2>4. requests' = Append(requests, r)
    BY <2>1, <2>3, Zenon DEF SubmitFlipInternal
  <2>5. r \in Request /\ r.index = k /\ r.eop = FALSE
    BY <2>2, Constants, SMTT(30) DEF Request
  <2>6. r \notin Eops /\ (r \in Reals <=> k \in CpuBuffers)
    <3>1. r \in Reals <=> k # Blank
      BY <2>5, Zenon DEF Reals
    <3>2. r \notin Eops
      BY <2>5, Zenon DEF Eops
    <3> QED BY <3>1, <3>2, <2>2, Constants, Zenon
  <2> HIDE DEF r, k
  <2>7. /\ Count(requests', Eops) = Count(requests, Eops) + One(r, Eops)
        /\ Count(requests', Reals) = Count(requests, Reals) + One(r, Reals)
    BY <2>1, <2>4, <2>5, <1>g, PushRule, Zenon
  <2>8. Count(commands, CpuBuffers) = Count(commands', CpuBuffers) + One(k, CpuBuffers)
    BY <2>1, <1>g, PopRule, Zenon DEF k
  <2>9. Count(commands', CpuBuffers) \in Nat
    BY <1>a, <1>g, SizeRule, Zenon DEF Types
  <2>10. /\ Count(requests', Eops) = Count(requests, Eops)
         /\ Count(commands', CpuBuffers) + Count(requests', Reals)
                = Count(commands, CpuBuffers) + Count(requests, Reals)
    BY <2>6, <2>7, <2>8, <2>9, <1>b, SMTT(30) DEF One
  <2>11. UNCHANGED gc_queue_num /\ AtGpu' = AtGpu /\ SendingReal' = SendingReal
         /\ Hand(Eops)' = Hand(Eops) /\ Hand(Reals)' = Hand(Reals)
    BY <1>11, Zenon DEF ProcessCommand, AtGpu, Hand, One, Eops, Reals, SendingReal, Sending
  <2>12. Count(requests', Reals) \in Nat
    BY <1>a, <1>g, SizeRule, Zenon DEF Types
  <2> QED BY <2>9, <2>10, <2>11, <2>12, <1>b, <1>c, <1>d, SMTT(30) DEF Goal
<1>12. ASSUME Poll PROVE Goal
  BY <1>12, <1>f, TallySame, Zenon DEF Poll
<1>13. ASSUME Compute PROVE Goal
  BY <1>13, <1>f, TallySame, Zenon DEF Compute
<1>14. ASSUME WaitRegMem PROVE Goal
  BY <1>14, <1>f, TallySame, Zenon DEF WaitRegMem
<1>15. ASSUME Resume PROVE Goal
  BY <1>15, <1>f, TallySame, Zenon DEF Resume
<1>16. ASSUME WaitVoLabel PROVE Goal
  BY <1>16, <1>f, TallySame, Zenon DEF WaitVoLabel
<1>17. ASSUME WriteLock PROVE Goal
  BY <1>17, <1>f, TallySame, Zenon DEF WriteLock
<1>18. ASSUME FlipIrq PROVE Goal
  <2>1. CASE gpu' = "push"
    <3>1. /\ flip_pending_num <= MaxPending /\ gc_queue_num' = gc_queue_num + 1
          /\ AtGpu' = 1 /\ AtGpu = 0
      BY <1>18, <2>1, Zenon DEF FlipIrq, AtGpu
    <3>2. UNCHANGED <<commands, requests>> /\ SendingReal' = SendingReal
          /\ Hand(Eops)' = Hand(Eops) /\ Hand(Reals)' = Hand(Reals)
      BY <1>18, Zenon DEF FlipIrq, Hand, One, Eops, Reals, SendingReal, Sending
    <3>3. /\ gc_queue_num' = AtGpu' + Count(requests, Eops) + Hand(Eops)
          /\ Cardinality(SendingReal) + Count(commands, CpuBuffers) + AtGpu'
                 + Count(requests, Reals) + Hand(Reals) <= MaxPending + 1
      BY <3>1, <1>b, <1>c, <1>d, SMTT(30) DEF RealCount
    <3> QED BY <3>2, <3>3, Zenon DEF Goal
  <2>2. CASE gpu' # "push"
    <3>1. /\ UNCHANGED <<gpc, arg, gc_queue_num, commands, requests, ppc, req>>
          /\ gpu' = "push" <=> gpu = "push"
      BY <1>18, <2>2, Zenon DEF FlipIrq
    <3> QED BY <3>1, <1>f, TallySame, Zenon
  <2> QED BY <2>1, <2>2, Zenon
<1>19. ASSUME FlipPush PROVE Goal
  <2> DEFINE r == [index |-> Frame, eop |-> TRUE]
  <2>1. /\ submits \in Seq(EopBuffers) /\ submits # <<>>
        /\ requests \in Seq(Request) /\ SubmitFlipInternal(Frame, TRUE)
    BY <1>19, <1>a, Zenon DEF FlipPush, Types
  <2>2. Frame \in EopBuffers /\ Frame = submits[1] /\ 1 \in 1..Len(submits)
    BY <2>1, Pop, SMTT(30) DEF Frame
  <2>3. group_index[Frame] # None
    BY <2>2, <1>a, Zenon DEF Registered, RegSubmits
  <2>4. requests' = Append(requests, r)
    BY <2>1, <2>3, Zenon DEF SubmitFlipInternal
  <2>5. r \in Request /\ r.index = Frame /\ r.eop = TRUE
    BY <2>2, Constants, SMTT(30) DEF Request
  <2>6. r \in Eops /\ r \in Reals
    BY <2>2, <2>5, Constants, Zenon DEF Eops, Reals
  <2> HIDE DEF r
  <2>7. /\ Count(requests', Eops) = Count(requests, Eops) + 1
        /\ Count(requests', Reals) = Count(requests, Reals) + 1
    <3>1. One(r, Eops) = 1 /\ One(r, Reals) = 1
      BY <2>6, Zenon DEF One
    <3>2. /\ Count(requests', Eops) = Count(requests, Eops) + One(r, Eops)
          /\ Count(requests', Reals) = Count(requests, Reals) + One(r, Reals)
      BY <2>1, <2>4, <2>5, <1>g, PushRule, Zenon
    <3> QED BY <3>1, <3>2, Zenon
  <2>8. AtGpu = 1 /\ AtGpu' = 0
    BY <1>19, Zenon DEF FlipPush, AtGpu
  <2>9. UNCHANGED <<gc_queue_num, commands>> /\ SendingReal' = SendingReal
        /\ Hand(Eops)' = Hand(Eops) /\ Hand(Reals)' = Hand(Reals)
    BY <1>19, Zenon DEF FlipPush, Hand, One, Eops, Reals, SendingReal, Sending
  <2>10. /\ gc_queue_num = AtGpu' + Count(requests', Eops) + Hand(Eops)
         /\ Cardinality(SendingReal) + Count(commands, CpuBuffers) + AtGpu'
                + Count(requests', Reals) + Hand(Reals) <= MaxPending + 1
    BY <2>7, <2>8, <1>b, <1>c, <1>d, SMTT(30)
  <2> QED BY <2>9, <2>10, Zenon DEF Goal
<1>20. ASSUME Receive PROVE Goal
  <2>1. CASE requests' = requests
    <3>1. UNCHANGED <<gpc, arg, gc_queue_num, commands, gpu>> /\ ppc # "status" /\ ppc' # "status"
      <4>1. requests # <<>> => Tail(requests) # requests
        BY <1>a, Pop, SMTT(30) DEF Types
      <4> QED BY <1>20, <2>1, <4>1, Zenon DEF Receive
    <3> QED BY <3>1, <2>1, <1>f, TallySame, Zenon
  <2>2. CASE requests' # requests
    <3>1. /\ requests \in Seq(Request) /\ requests # <<>> /\ requests' = Tail(requests)
          /\ ppc = "receive" /\ ppc' = "status" /\ req' = Head(requests)
      BY <1>20, <2>2, <1>a, Zenon DEF Receive, Types
    <3>2. /\ Count(requests, Eops) = Count(requests', Eops) + One(req', Eops)
          /\ Count(requests, Reals) = Count(requests', Reals) + One(req', Reals)
      BY <3>1, <1>g, PopRule, Zenon
    <3>3. /\ Hand(Eops) = 0 /\ Hand(Reals) = 0
          /\ Hand(Eops)' = One(req', Eops) /\ Hand(Reals)' = One(req', Reals)
      BY <3>1, Zenon DEF Hand, One, Eops, Reals
    <3>4. UNCHANGED <<gc_queue_num, commands>> /\ SendingReal' = SendingReal /\ AtGpu' = AtGpu
      BY <1>20, Zenon DEF Receive, SendingReal, Sending, AtGpu
    <3>5. Count(requests', Eops) \in Nat /\ Count(requests', Reals) \in Nat
      BY <1>a, <1>g, SizeRule, Zenon DEF Types
    <3>6. One(req', Eops) \in Nat /\ One(req', Reals) \in Nat
      BY SMTT(30) DEF One
    <3>7. /\ gc_queue_num = AtGpu + Count(requests', Eops) + One(req', Eops)
          /\ Cardinality(SendingReal) + Count(commands, CpuBuffers) + AtGpu
                 + Count(requests', Reals) + One(req', Reals) <= MaxPending + 1
      BY <3>2, <3>3, <3>5, <3>6, <1>b, <1>c, <1>d, SMTT(30)
    <3> QED BY <3>3, <3>4, <3>7, Zenon DEF Goal
  <2> QED BY <2>1, <2>2, Zenon
<1>21. ASSUME FlipStatus PROVE Goal
  <2>1. ppc = "status" /\ ppc' = "test" /\ req \in Request
    BY <1>21, <1>a, Zenon DEF FlipStatus, Types
  <2>2. Hand(Eops)' = 0 /\ Hand(Reals)' = 0 /\ Hand(Eops) = IF req.eop THEN 1 ELSE 0
    BY <2>1, Zenon DEF Hand, One, Eops
  <2>3. gc_queue_num' = gc_queue_num - Hand(Eops)
    BY <1>21, <2>2, <1>c, SMTT(30) DEF FlipStatus
  <2>4. UNCHANGED <<commands, requests>> /\ SendingReal' = SendingReal /\ AtGpu' = AtGpu
    BY <1>21, Zenon DEF FlipStatus, SendingReal, Sending, AtGpu
  <2>5. /\ gc_queue_num' = AtGpu + Count(requests, Eops) + 0
        /\ Cardinality(SendingReal) + Count(commands, CpuBuffers) + AtGpu
               + Count(requests, Reals) + 0 <= MaxPending + 1
    BY <2>3, <1>b, <1>c, <1>d, SMTT(30)
  <2> QED BY <2>2, <2>4, <2>5, Zenon DEF Goal
<1>22. ASSUME FlipTest PROVE Goal
  BY <1>22, <1>f, TallySame, Zenon DEF FlipTest
<1>23. ASSUME FlipReset PROVE Goal
  BY <1>23, <1>f, TallySame, Zenon DEF FlipReset
<1>24. ASSUME FlipSignal PROVE Goal
  BY <1>24, <1>f, TallySame, Zenon DEF FlipSignal, SignalVoLabel
<1>25. ASSUME FlipSave PROVE Goal
  BY <1>25, <1>f, TallySame, Zenon DEF FlipSave
<1>26. ASSUME Vblank PROVE Goal
  BY <1>26, <1>f, TallySame, Zenon DEF Vblank
<1> QED BY <1>f, <1>1, <1>2, <1>3, <1>4, <1>5, <1>6, <1>7, <1>8, <1>9, <1>10, <1>11, <1>12, <1>13, <1>14,
          <1>15, <1>16, <1>17, <1>18, <1>19, <1>20, <1>21, <1>22, <1>23, <1>24, <1>25, <1>26, Zenon
          DEF Next, Guest, Gpu, Present

\* Every step keeps the remaining types.
LEMMA KindsStep ==
    ASSUME Kinds, Next
    PROVE  Kinds'
<1> USE DEF portVars, numVars, gpuVars, preVars, gstVars, ghosts
<1>a. VblankMod \in Nat \ {0} /\ 0 \in Rates
  BY VideoOutAssumption, Zenon
<1>b. /\ vblank' \in {vblank, 0, (vblank + 1) % VblankMod}
      /\ calls' = calls \/ (calls > 0 /\ calls' = calls - 1)
      /\ gc_queue_num' \in {gc_queue_num, 0, gc_queue_num + 1, gc_queue_num - 1}
      /\ is_open' \in BOOLEAN /\ compute' \in BOOLEAN /\ polled' \in BOOLEAN /\ aborted' \in BOOLEAN
      /\ flip_rate' \in Rates
  BY <1>a, ZenonT(60) DEF Kinds, Next, Guest, Gpu, Present, Call, Open, Close, SubmitAsc, RegisterBuffers,
     UnregisterBuffers, SetFlipRate, SubmitFlip, SubmitAndFlip, SendCommand, CountSubmit, ProcessCommand,
     Poll, Compute, SubmitFlipInternal, WaitRegMem, Resume, WaitVoLabel, WriteLock, FlipIrq, FlipPush,
     Receive, FlipStatus, FlipTest, FlipReset, FlipSignal, FlipSave, Vblank
<1>c. 0 \in 0..(VblankMod - 1) /\ (vblank + 1) % VblankMod \in 0..(VblankMod - 1)
  BY <1>a, SMTT(30) DEF Kinds
<1>d. vblank' \in 0..(VblankMod - 1)
  BY <1>b, <1>c, Zenon DEF Kinds
<1>e. calls' \in Nat /\ gc_queue_num' \in Int
  BY <1>b, SMTT(30) DEF Kinds
<1> QED BY <1>b, <1>d, <1>e, Zenon DEF Kinds

\* The GPU thread decrements num_submits only after it has seen it positive.
LEMMA RunningStep ==
    ASSUME Types, Running, Next
    PROVE  Running'
<1> USE DEF portVars, numVars, gpuVars, preVars, gstVars, ghosts
<1>1. \/ UNCHANGED <<polled, num_submits>> /\ (gpu' = "push" => gpu = "push")
      \/ UNCHANGED <<polled, gpu>> /\ num_submits' = num_submits + 1
      \/ ~polled' /\ UNCHANGED num_submits /\ gpu' # "push"
      \/ polled' /\ num_submits > 0 /\ UNCHANGED <<num_submits, gpu>> /\ gpu # "push"
      \/ polled /\ ~polled' /\ num_submits' = num_submits - 1 /\ gpu' # "push"
      \/ polled /\ ~polled' /\ UNCHANGED num_submits
      \/ gpu = "push" /\ UNCHANGED polled /\ num_submits' = num_submits - 1 /\ gpu' = "wait"
  BY ZenonT(60) DEF Next, Guest, Gpu, Present, Call, Open, Close, SubmitAsc, RegisterBuffers,
     UnregisterBuffers, SetFlipRate, SubmitFlip, SubmitAndFlip, SendCommand, CountSubmit, ProcessCommand,
     Poll, Compute, SignalVoLabel,
     WaitRegMem, Resume, WaitVoLabel, WriteLock, FlipIrq, FlipPush, Receive, FlipStatus, FlipTest,
     FlipReset, FlipSignal, FlipSave, Vblank
<1> QED BY <1>1, SMTT(30) DEF Running

\* A stuttering step keeps it.
LEMMA Stutter ==
    ASSUME IInv, UNCHANGED vars
    PROVE  IInv'
<1> USE DEF vars, portVars, numVars, gpuVars, preVars, gstVars, ghosts, IInv
<1>1. Types'
  BY Zenon DEF Types
<1>2. Registered'
  BY RegisteredSame, Zenon
<1>3. Counts'
  BY CountsSame, Zenon
<1>4. Sleep'
  BY SleepSame, Zenon DEF Frame
<1>5. Labels'
  BY LabelsSame, Zenon DEF Frame
<1>6. Prev'
  BY PrevSame, SMTT(30)
<1> QED BY <1>1, <1>2, <1>3, <1>4, <1>5, <1>6, Zenon

-----------------------------------------------------------------------------
INSTANCE FiniteSetTheorems

\* A queue has no more entries of one kind than it has entries.
LEMMA CountSize ==
    ASSUME NEW T, NEW s \in Seq(T), NEW S
    PROVE  Count(s, S) \in Nat /\ Count(s, S) <= Len(s) /\ IsFiniteSet({i \in 1..Len(s) : s[i] \in S})
<1> DEFINE I == {i \in 1..Len(s) : s[i] \in S}
<1>1. Len(s) \in Nat
  OBVIOUS
<1>2. IsFiniteSet(1..Len(s)) /\ Cardinality(1..Len(s)) = Len(s)
  <2>1. 1 \in Int /\ Len(s) \in Int
    BY <1>1, SMTT(30)
  <2>2. IsFiniteSet(1..Len(s)) /\ Cardinality(1..Len(s)) = IF 1 > Len(s) THEN 0 ELSE Len(s) - 1 + 1
    BY <2>1, FS_Interval, Zenon
  <2> QED BY <2>2, <1>1, SMTT(30)
<1>3. I \in SUBSET (1..Len(s))
  OBVIOUS
<1>4. IsFiniteSet(I) /\ Cardinality(I) <= Cardinality(1..Len(s))
  BY <1>2, <1>3, FS_Subset, Zenon
<1>5. Cardinality(I) \in Nat
  BY <1>4, FS_CardinalityType, Zenon
<1> QED BY <1>2, <1>4, <1>5, Zenon DEF Count

\* Nothing is in an empty queue.
LEMMA CountEmpty ==
    ASSUME NEW S
    PROVE  Count(<<>>, S) = 0
<1>1. {i \in 1..Len(<<>>) : <<>>[i] \in S} = {}
  OBVIOUS
<1> QED BY <1>1, FS_EmptySet, Zenon DEF Count

\* One more entry counts if it is in the set.
LEMMA CountPush ==
    ASSUME NEW T, NEW s \in Seq(T), NEW x \in T, NEW S
    PROVE  Count(Append(s, x), S) = Count(s, S) + One(x, S)
<1> DEFINE I == {i \in 1..Len(s) : s[i] \in S}
           J == {i \in 1..Len(Append(s, x)) : Append(s, x)[i] \in S}
<1>1. /\ Len(s) \in Nat /\ Len(Append(s, x)) = Len(s) + 1
      /\ \A i \in 1..Len(s) : Append(s, x)[i] = s[i]
      /\ Append(s, x)[Len(s) + 1] = x
  BY Push, SMTT(30)
<1>2. \A i : i \in 1..(Len(s) + 1) <=> i \in 1..Len(s) \/ i = Len(s) + 1
  BY <1>1, SMTT(30)
<1>3. Len(s) + 1 \notin I
  BY <1>1, SMTT(30)
<1>4. J = IF x \in S THEN I \cup {Len(s) + 1} ELSE I
  BY <1>1, <1>2, SMTT(30)
<1>5. IsFiniteSet(I) /\ Cardinality(I) \in Nat
  BY CountSize, Zenon DEF Count
<1>6. CASE x \in S
  <2>1. Cardinality(J) = Cardinality(I) + 1
    BY <1>6, <1>3, <1>4, <1>5, FS_AddElement, Zenon
  <2> QED BY <2>1, <1>6, Zenon DEF Count, One
<1>7. CASE x \notin S
  <2>1. Count(Append(s, x), S) = Cardinality(I) /\ Count(s, S) = Cardinality(I) /\ One(x, S) = 0
    BY <1>7, <1>4, Zenon DEF Count, One
  <2> QED BY <2>1, <1>5, SMTT(30)
<1> QED BY <1>6, <1>7, SMTT(30)

\* The entries of the tail are those of the queue but the first, one place further.
LEMMA CountPop ==
    ASSUME NEW T, NEW s \in Seq(T), s # <<>>, NEW S
    PROVE  Count(s, S) = Count(Tail(s), S) + One(Head(s), S)
<1> DEFINE I == {i \in 1..Len(s) : s[i] \in S}
           J == {i \in 1..Len(Tail(s)) : Tail(s)[i] \in S}
           K == I \ {1}
           f == [j \in J |-> j + 1]
<1>1. /\ Head(s) = s[1] /\ Tail(s) \in Seq(T)
      /\ Len(s) \in Nat /\ Len(s) >= 1 /\ Len(Tail(s)) = Len(s) - 1
      /\ \A i \in 1..Len(Tail(s)) : Tail(s)[i] = s[i + 1]
  BY Pop, SMTT(30)
<1>2. ASSUME NEW j \in J PROVE j + 1 \in K /\ j \in Int
  BY <1>1, SMTT(30)
<1>3. ASSUME NEW k \in K PROVE k - 1 \in J /\ k = (k - 1) + 1
  <2>1. k \in 1..Len(s) /\ k # 1 /\ s[k] \in S
    OBVIOUS
  <2>2. k - 1 \in 1..Len(Tail(s)) /\ (k - 1) + 1 = k
    BY <2>1, <1>1, SMTT(30)
  <2>3. Tail(s)[k - 1] = s[k]
    BY <2>2, <1>1, Zenon
  <2> QED BY <2>1, <2>2, <2>3, Zenon
<1>4. f \in Bijection(J, K)
  <2>1. f \in [J -> K]
    BY <1>2, Zenon
  <2>2. \A a, b \in J : f[a] = f[b] => a = b
    BY <1>2, SMTT(30)
  <2>3. \A k \in K : \E j \in J : f[j] = k
    <3> TAKE k \in K
    <3>1. k - 1 \in J /\ f[k - 1] = k
      BY <1>3, Zenon
    <3> QED BY <3>1, Zenon
  <2> HIDE DEF f, J, K
  <2> QED BY <2>1, <2>2, <2>3, Zenon DEF Bijection, Injection, Surjection, IsInjective
<1>5. IsFiniteSet(I) /\ IsFiniteSet(J) /\ Cardinality(J) \in Nat /\ Cardinality(I) \in Nat
  BY <1>1, CountSize, Zenon DEF Count
<1>6. Cardinality(K) = Cardinality(J)
  <2>1. ExistsBijection(J, K)
    BY <1>4, Zenon DEF ExistsBijection
  <2> QED BY <2>1, <1>5, FS_Bijection, Zenon
<1>7. Cardinality(K) = IF 1 \in I THEN Cardinality(I) - 1 ELSE Cardinality(I)
  BY <1>5, FS_RemoveElement, Zenon
<1>8. 1 \in I <=> Head(s) \in S
  BY <1>1, SMTT(30)
<1>9. Count(s, S) = Cardinality(I) /\ Count(Tail(s), S) = Cardinality(J)
  BY Zenon DEF Count
<1> HIDE DEF I, J, K
<1> QED BY <1>5, <1>6, <1>7, <1>8, <1>9, SMTT(30) DEF One

\* The rules hold, as there are finitely many guests.
LEMMA RulesHold == CountRules
<1>1. ASSUME NEW S \in SUBSET Guests
      PROVE  IsFiniteSet(S) /\ Cardinality(S) \in Nat
  BY Constants, FS_Subset, FS_CardinalityType, Zenon
<1>2. GuestRules
  <2> SUFFICES ASSUME NEW S \in SUBSET Guests
               PROVE  /\ Cardinality(S) \in Nat
                      /\ S = {} => Cardinality(S) = 0
                      /\ \A g \in Guests \ S : Cardinality(S \cup {g}) = Cardinality(S) + 1
                      /\ \A g \in S : Cardinality(S \ {g}) = Cardinality(S) - 1
                      /\ \A T \in SUBSET S : Cardinality(T) <= Cardinality(S)
    BY Zenon DEF GuestRules
  <2>1. S = {} => Cardinality(S) = 0
    BY FS_EmptySet, Zenon
  <2>2. \A g \in Guests \ S : Cardinality(S \cup {g}) = Cardinality(S) + 1
    BY <1>1, FS_AddElement, Zenon
  <2>3. \A g \in S : Cardinality(S \ {g}) = Cardinality(S) - 1
    BY <1>1, FS_RemoveElement, Zenon
  <2>4. \A T \in SUBSET S : Cardinality(T) <= Cardinality(S)
    BY <1>1, FS_Subset, Zenon
  <2> QED BY <1>1, <2>1, <2>2, <2>3, <2>4, Zenon
<1>3. ASSUME NEW T PROVE QueueRules(T)
  <2>1. ASSUME NEW S PROVE Count(<<>>, S) = 0
    BY CountEmpty, Zenon
  <2>2. ASSUME NEW S, NEW s \in Seq(T) PROVE Count(s, S) \in Nat /\ Count(s, S) <= Len(s)
    BY CountSize, Zenon
  <2>3. ASSUME NEW S, NEW s \in Seq(T), NEW x \in T PROVE Count(Append(s, x), S) = Count(s, S) + One(x, S)
    BY CountPush, Zenon
  <2>4. ASSUME NEW S, NEW s \in Seq(T), s # <<>> PROVE Count(s, S) = Count(Tail(s), S) + One(Head(s), S)
    BY <2>4, CountPop, Zenon
  <2> QED BY <2>1, <2>2, <2>3, <2>4, Zenon DEF QueueRules
<1> QED BY <1>2, <1>3, Zenon DEF CountRules

\* The invariant holds in every initial state.
LEMMA InitInv == Init => IInv
<1> SUFFICES ASSUME Init PROVE IInv
  OBVIOUS
<1>1. Types
  BY Constants, SMTT(30) DEF Init, Types, Gpus, Ppcs, Request, NoRequest
<1>2. submits = <<>> /\ commands = <<>> /\ requests = <<>> /\ ppc = "receive" /\ gpu = "wait"
  BY ZenonT(30) DEF Init
<1>3. Registered
  BY <1>2, SMTT(30) DEF Init, Registered, RegQueued, RegSubmits, RegCommands, RegArgs, Queued
<1>4. Counts
  <2>1. Sending = {} /\ Counting = {}
    BY SMTT(30) DEF Init, Sending, Counting
  <2>2. Cardinality(Sending) = 0 /\ Cardinality(Counting) = 0
    BY <2>1, FS_EmptySet, SMTT(30)
  <2> QED BY <2>2, <1>2, SMTT(30) DEF Init, Counts, PendingCount, SubmitCount, AtGpu, InHand
<1>5. Sleep
  BY <1>2, Zenon DEF Sleep, LabelSleeperHeard
<1>6. Labels
  <2> SUFFICES ASSUME NEW b \in EopBuffers PROVE LabelOK(b)
    BY Zenon DEF Labels
  <2>1. shown # b /\ ~Drawing(b) /\ ~Locked(b) /\ ~Old(b)
    BY <1>2, Constants, Zenon DEF Init, Drawing, Locked, Old
  <2>2. ~Queued(b) /\ Once(b)
    BY <1>2, SMTT(30) DEF Once, Queued
  <2> QED BY <2>1, <2>2, SMTT(30) DEF LabelOK
<1>7. Prev
  BY <1>2, Zenon DEF Init, Prev, Tail4
<1> QED BY <1>1, <1>3, <1>4, <1>5, <1>6, <1>7, Zenon DEF IInv

\* The types, the registration of what is on its way, the two counts, the sleeper,
\* the labels and prev_index together are an inductive invariant of the port, the
\* GPU thread and the present thread.
THEOREM InductiveInvariant == Spec => []IInv
<1>1. ASSUME IInv, [Next]_vars PROVE IInv'
  <2>1. CASE Next
    <3>1. NothingLeft
      BY <1>1, QuietEmpty, RulesHold, Zenon DEF IInv
    <3> QED BY <1>1, <2>1, <3>1, RulesHold, TypesStep, RegisteredStep, CountsStep, SleepStep, LabelsStep, PrevStep, Zenon
            DEF IInv
  <2>2. CASE UNCHANGED vars
    BY <1>1, <2>2, Stutter, SMTT(30)
  <2> QED BY <1>1, <2>1, <2>2, Zenon
<1> QED BY InitInv, <1>1, PTL DEF Spec

\* SignalVoLabel is never lost: the GPU thread sleeps for a label that is zero only
\* while the present thread is on its way to the notification.
THEOREM SleeperAlwaysHeard == Spec => []LabelSleeperHeard
<1>1. IInv => LabelSleeperHeard
  BY Zenon DEF IInv, Sleep
<1> QED BY <1>1, InductiveInvariant, PTL

\* A frame past its label wait never draws into a buffer that is shown or queued.
THEOREM NoTearing == Spec => []NoDrawWhileShown
<1>1. IInv => NoDrawWhileShown
  <2> SUFFICES ASSUME IInv, gpu \in {"lock", "flip"}, Frame \notin relabelled
               PROVE  Frame # shown /\ \A i \in 1..Len(InDriver) : InDriver[i].index # Frame
    BY Zenon DEF NoDrawWhileShown
  <2>1. Frame \in EopBuffers
    BY Pop, SMTT(30) DEF IInv, Types, Frame
  <2>2. LabelOK(Frame) /\ Drawing(Frame)
    BY <2>1, Zenon DEF IInv, Labels, Drawing
  <2>3. shown # Frame /\ ~Queued(Frame)
    BY <2>2, Zenon DEF LabelOK
  <2>4. \A i \in 1..Len(InDriver) :
            \/ i \in 1..Len(requests) /\ InDriver[i] = requests[i]
            \/ ppc = "status" /\ InDriver[i] = req
    <3>1. requests \in Seq(Request) /\ req \in Request
      BY Zenon DEF IInv, Types
    <3> QED BY <3>1, SMTT(30) DEF InDriver
  <2> QED BY <2>3, <2>4, Zenon DEF Queued
<1> QED BY <1>1, InductiveInvariant, PTL

\* The assertion "Out of order flip IRQ" of sceVideoOutSubmitEopFlip never fails for
\* a buffer that was not relabelled.
THEOREM FlipIrqNeverOutOfOrder == Spec => []FlipIrqInOrder
<1>1. IInv => FlipIrqInOrder
  <2> SUFFICES ASSUME IInv, gpu = "flip", Frame \notin relabelled PROVE buffer_labels[Frame] = 1
    BY Zenon DEF FlipIrqInOrder
  <2>1. Frame \in EopBuffers
    BY Pop, SMTT(30) DEF IInv, Types, Frame
  <2> QED BY <2>1, SMTT(30) DEF IInv, Labels, LabelOK, Locked
<1> QED BY <1>1, InductiveInvariant, PTL
-----------------------------------------------------------------------------
\* At the start nothing is on its way.
LEMMA InitCInv == Init => CInv
<1> SUFFICES ASSUME Init PROVE CInv
  OBVIOUS
<1>1. requests = <<>> /\ commands = <<>> /\ ppc = "receive" /\ gpu = "wait" /\ gc_queue_num = 0
      /\ num_submits = 0 /\ polled = FALSE
  BY ZenonT(30) DEF Init
<1>2. Kinds
  <2>1. vblank = 0 /\ gc_queue_num = 0 /\ 0 \in 0..(VblankMod - 1)
    BY VideoOutAssumption, SMTT(30) DEF Init
  <2>2. 0 \in Int
    OBVIOUS
  <2> QED BY <2>1, <2>2, VideoOutAssumption, Zenon DEF Init, Kinds
<1>3. Running
  BY <1>1, SMTT(30) DEF Running
<1>4. SendingReal = {}
  BY Zenon DEF Init, SendingReal, Sending
<1>5. Cardinality(SendingReal) = 0
  BY <1>4, FS_EmptySet, Zenon
<1>6. /\ AtGpu = 0 /\ Hand(Reals) = 0 /\ Hand(Eops) = 0 /\ Count(requests, Reals) = 0
      /\ Count(requests, Eops) = 0 /\ Count(commands, CpuBuffers) = 0
  BY <1>1, CountEmpty, Zenon DEF AtGpu, Hand
<1>7. GcCount /\ Bounded
  BY <1>1, <1>5, <1>6, VideoOutAssumption, SMTT(30) DEF GcCount, Bounded, RealCount
<1> QED BY <1>2, <1>3, <1>7, Zenon DEF CInv, Tally

\* Every flip that is counted in flip_pending_num or gc_queue_num is in one of the
\* places between SubmitFlip and the status update, at every step of the three threads.
THEOREM CountersInvariant == Spec => []CInv
<1>1. ASSUME IInv, IInv', CInv, [Next]_vars PROVE CInv'
  <2>1. CASE Next
    BY <1>1, <2>1, RulesHold, TallyStep, KindsStep, RunningStep, Zenon DEF IInv, CInv, Tally
  <2>2. CASE UNCHANGED vars
    <3>1. Tally'
      BY <1>1, <2>2, TallySame, Zenon DEF vars, numVars, gpuVars, preVars, gstVars, CInv, Tally
    <3>2. Kinds' /\ Running'
      BY <1>1, <2>2, Zenon DEF vars, portVars, numVars, gpuVars, preVars, gstVars, CInv, Kinds, Running
    <3> QED BY <3>1, <3>2, Zenon DEF CInv
  <2> QED BY <1>1, <2>1, <2>2, Zenon
<1> QED BY InitCInv, <1>1, InductiveInvariant, PTL DEF Spec

\* flip_pending_num and gc_queue_num are exact, never negative, and at most
\* MaxPending + 1 flips of buffers are on their way, whatever the guests' calls, the GPU
\* thread and the present thread interleave.
THEOREM CountersExact == Spec => []CountsOK
<1>1. ASSUME IInv, CInv PROVE CountsOK
  <2>a. Types /\ Counts /\ Kinds /\ Running /\ GcCount /\ Bounded
    BY <1>1, Zenon DEF IInv, CInv, Tally
  <2>b. /\ Count(requests, Eops) \in Nat /\ Hand(Eops) \in {0, 1} /\ AtGpu \in {0, 1}
        /\ RealCount \in Nat /\ RealCount <= flip_pending_num
    BY <2>a, RulesHold, Reckon, Zenon
  <2>1. flip_pending_num \in Nat /\ gc_queue_num \in Nat /\ num_submits \in Nat
    BY <2>a, <2>b, SMTT(30) DEF GcCount, Running, Types
  <2>2. TypeOK
    BY <2>a, <2>1, Zenon DEF TypeOK, Types, Kinds, Gpus, Ppcs, Tail4
  <2>3. requests \in Seq(Request) /\ req \in Request
    BY <2>a, Zenon DEF Types
  <2>4. InDriver = IF ppc = "status" THEN Append(requests, req) ELSE requests
    BY <2>3, SMTT(30) DEF InDriver
  <2>5. Len(InDriver) = Len(requests) + InHand
    BY <2>3, <2>4, SMTT(30) DEF InHand
  <2>6. ASSUME NEW S PROVE Count(InDriver, S) = Count(requests, S) + Hand(S)
    <3>1. CASE ppc = "status"
      BY <3>1, <2>3, <2>4, CountPush, Zenon DEF Hand
    <3>2. CASE ppc # "status"
      <4>1. Hand(S) = 0 /\ Count(InDriver, S) = Count(requests, S)
        BY <3>2, <2>4, Zenon DEF Hand
      <4>2. Count(requests, S) \in Nat
        BY <2>3, CountSize, Zenon
      <4> QED BY <4>1, <4>2, SMTT(30)
    <3> QED BY <3>1, <3>2, Zenon
  <2>7. PendingExact
    <3>1. flip_pending_num = Cardinality(Sending) + Len(commands) + AtGpu + Len(InDriver)
      BY <2>a, <2>5, RulesHold, Numbers, SMTT(30) DEF Counts, PendingCount
    <3>2. Count(InDriver, Eops) = Count(requests, Eops) + Hand(Eops)
      BY <2>6, Zenon
    <3>3. gc_queue_num = AtGpu + Count(InDriver, Eops)
      BY <3>2, <2>a, <2>b, SMTT(30) DEF GcCount
    <3> QED BY <3>1, <3>3, Zenon DEF PendingExact, Eops
  <2>8. QueueBounded
    <3>1. Count(InDriver, Reals) = Count(requests, Reals) + Hand(Reals)
      BY <2>6, Zenon
    <3>2. /\ Cardinality(SendingReal) \in Nat /\ Count(commands, CpuBuffers) \in Nat
          /\ Count(requests, Reals) \in Nat /\ Hand(Reals) \in {0, 1}
      BY <2>a, RulesHold, Reckon, Zenon
    <3>3. Cardinality(SendingReal) + Count(commands, CpuBuffers) + AtGpu + Count(InDriver, Reals) <= MaxPending + 1
      BY <3>1, <3>2, <2>a, <2>b, SMTT(30) DEF Bounded, RealCount
    <3> QED BY <3>3, Zenon DEF QueueBounded, SendingReal, Reals
  <2> QED BY <2>2, <2>7, <2>8, SMTT(30) DEF CountsOK
<1> QED BY <1>1, InductiveInvariant, CountersInvariant, PTL
=============================================================================
