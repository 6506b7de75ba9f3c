------------------------------ MODULE VideoOut ------------------------------
(***************************************************************************)
(* The main video port: guest threads that register buffers and submit    *)
(* flips, the GPU command processor that runs frames and forwards flips,   *)
(* and the present thread that shows them at vertical blanks.              *)
(*                                                                         *)
(* A buffer's label is what a frame waits for before it draws: the frame's *)
(* last packets set it and raise the flip interrupt, and the present       *)
(* thread resets it when the flip after that one is shown.  The guest      *)
(* keeps the rules of the interface: a frame waits for the label of its    *)
(* buffer, a buffer is flipped either by frames or from the CPU, and the   *)
(* port is closed and buffers are unregistered only when no flip is        *)
(* pending and the GPU is idle.                                            *)
(***************************************************************************)
EXTENDS Integers, Sequences, FiniteSets

CONSTANTS
    Guests,
    EopBuffers,   \* indices that frames flip
    CpuBuffers,   \* indices that sceVideoOutSubmitFlip flips
    Groups,       \* 0 .. MaxDisplayBufferGroups - 1
    Rates,        \* arguments of sceVideoOutSetFlipRate
    VblankMod,    \* a common multiple of rate + 1: vblank_status.count is kept modulo it
    MaxPending,   \* 16
    MaxCalls,     \* bound: calls of the guest other than Open and RegisterBuffers
    None

Buffers == EopBuffers \cup CpuBuffers
Blank == -1

ASSUME VideoOutAssumption ==
    /\ IsFiniteSet(Guests) /\ None \notin Guests
    /\ Buffers \subseteq Nat /\ EopBuffers \cap CpuBuffers = {}
    /\ Groups \subseteq Nat /\ Groups # {} /\ None \notin Groups
    /\ Rates \subseteq Nat /\ 0 \in Rates
    /\ VblankMod \in Nat \ {0} /\ \A r \in Rates : VblankMod % (r + 1) = 0
    /\ MaxPending \in Nat /\ MaxCalls \in Nat

VARIABLES
    \* VideoOutPort
    is_open, group_index, buffer_labels, flip_pending_num, gc_queue_num,
    vblank, flip_rate, prev_index,
    requests,     \* VideoOutDriver::requests
    \* Liverpool
    commands,     \* command_queue, of flips sent from the CPU
    submits,      \* frames on the graphics queue, by the buffer they flip
    compute,      \* whether a compute queue has a submit
    num_submits,
    gpu,          \* the packet the graphics queue is at
    polled,       \* ProcessCommands found no command
    \* the present thread
    ppc, req,
    \* guests
    gpc, arg,
    aborted,      \* an ASSERT_MSG failed
    calls,
    \* ghosts
    shown,        \* index of the last flip presented
    relabelled    \* buffers whose label was cleared while the port held them for shown

portVars == <<is_open, group_index, flip_rate>>
numVars  == <<flip_pending_num, gc_queue_num>>
gpuVars  == <<submits, compute, num_submits, gpu, polled>>
preVars  == <<ppc, req>>
gstVars  == <<gpc, arg, calls>>
ghosts   == <<shown, relabelled>>
vars == <<portVars, buffer_labels, numVars, vblank, prev_index, requests, commands,
          gpuVars, preVars, gstVars, aborted, ghosts>>

NoRequest == [index |-> Blank, eop |-> FALSE]
Tail4 == {"test", "reset", "signal", "save"}   \* labels of Flip after the status is updated
\* notify_one() under vo_mutex, for the one thread that can be in WaitVoLabel.
SignalVoLabel == gpu' = IF gpu = "asleep" THEN "woken" ELSE gpu
-----------------------------------------------------------------------------
(* Guest threads                                                           *)
Call(g) ==
    /\ gpc[g] = "idle" /\ calls > 0
    /\ calls' = calls - 1

\* The ranges startIndex .. startIndex + bufferNum - 1.
Ranges == {B \in SUBSET Buffers : B # {} /\ \A i, j \in B : i..j \subseteq B}

\* What IsFlipPending and the idle interrupt tell a guest that waits for both.
Quiet ==
    /\ flip_pending_num = 0 /\ num_submits = 0
    /\ \A g \in Guests : gpc[g] = "idle"

Open(g) ==
    /\ gpc[g] = "idle" /\ ~is_open
    /\ is_open' = TRUE
    /\ UNCHANGED <<group_index, flip_rate, buffer_labels, numVars, vblank, prev_index, requests,
                   commands, gpuVars, preVars, gstVars, aborted, ghosts>>

\* The buffers prev_index names, or will when the flip under way is done.
Remembered == {prev_index} \cup (IF ppc \in Tail4 THEN {req.index} ELSE {})

\* Nothing orders Close's memset with the present thread's count++.  A closed port
\* shows a blank frame.
Close(g) ==
    /\ Call(g) /\ is_open /\ Quiet
    /\ is_open' = FALSE
    /\ flip_rate' = 0
    /\ prev_index' = Blank
    /\ buffer_labels' = [b \in Buffers |-> 0]
    /\ group_index' = [b \in Buffers |-> None]
    /\ flip_pending_num' = 0 /\ gc_queue_num' = 0
    /\ vblank' \in {0, vblank}
    /\ shown' = Blank
    /\ relabelled' = Buffers \cap IF ppc \in Tail4 THEN {req.index} ELSE {}
    /\ UNCHANGED <<requests, commands, gpuVars, preVars, gpc, arg, aborted>>

Free == {n \in Groups : \A b \in Buffers : group_index[b] # n}

\* The code resets and signals the labels one by one; nobody waits for or flips a
\* buffer that is not registered yet, so all of them are one step.
RegisterBuffers(g, B) ==
    /\ gpc[g] = "idle" /\ is_open
    /\ \A b \in B : group_index[b] = None
    /\ \E n \in Free :
         /\ \A k \in Free : n <= k
         /\ group_index' = [b \in Buffers |-> IF b \in B THEN n ELSE group_index[b]]
    /\ buffer_labels' = [b \in Buffers |-> IF b \in B THEN 0 ELSE buffer_labels[b]]
    /\ SignalVoLabel
    /\ relabelled' = relabelled \cup (B \cap Remembered)
    /\ UNCHANGED <<is_open, flip_rate, numVars, vblank, prev_index, requests, commands, submits,
                   compute, num_submits, polled, preVars, gstVars, aborted, shown>>

UnregisterBuffers(g, n) ==
    /\ Call(g) /\ is_open /\ Quiet
    /\ n \notin Free
    /\ group_index' = [b \in Buffers |-> IF group_index[b] = n THEN None ELSE group_index[b]]
    /\ UNCHANGED <<is_open, flip_rate, buffer_labels, numVars, vblank, prev_index, requests,
                   commands, gpuVars, preVars, gpc, arg, aborted, ghosts>>

SetFlipRate(g, r) ==
    /\ Call(g) /\ r # flip_rate
    /\ flip_rate' = r
    /\ UNCHANGED <<is_open, group_index, buffer_labels, numVars, vblank, prev_index, requests,
                   commands, gpuVars, preVars, gpc, arg, aborted, ghosts>>

\* sceVideoOutSubmitFlip up to the end of SubmitFlip's critical section; a
\* blank is never refused.
SubmitFlip(g, b) ==
    /\ Call(g)
    /\ b # Blank => group_index[b] # None /\ flip_pending_num <= MaxPending
    /\ flip_pending_num' = flip_pending_num + 1
    /\ gpc' = [gpc EXCEPT ![g] = "send"]
    /\ arg' = [arg EXCEPT ![g] = b]
    /\ UNCHANGED <<portVars, buffer_labels, gc_queue_num, vblank, prev_index, requests, commands,
                   gpuVars, preVars, aborted, ghosts>>

SendCommand(g) ==
    /\ gpc[g] = "send"
    /\ commands' = Append(commands, arg[g])
    /\ gpc' = [gpc EXCEPT ![g] = "idle"]
    /\ arg' = [arg EXCEPT ![g] = Blank]
    /\ UNCHANGED <<portVars, buffer_labels, numVars, vblank, prev_index, requests, gpuVars, preVars,
                   calls, aborted, ghosts>>

\* sceGnmSubmitAndFlipCommandBuffers up to the push on the queue.  The interrupt
\* handler is registered under a fresh token that the frame carries, so frame and
\* handler are one here.  The guest flips buffers it has registered; nothing
\* checks it.
SubmitAndFlip(g, b) ==
    /\ Call(g) /\ group_index[b] # None
    /\ submits' = Append(submits, b)
    /\ gpc' = [gpc EXCEPT ![g] = "count"]
    /\ UNCHANGED <<portVars, buffer_labels, numVars, vblank, prev_index, requests, commands, compute,
                   num_submits, gpu, polled, preVars, arg, aborted, ghosts>>

SubmitAsc(g) ==
    /\ Call(g) /\ ~compute
    /\ compute' = TRUE
    /\ gpc' = [gpc EXCEPT ![g] = "count"]
    /\ UNCHANGED <<portVars, buffer_labels, numVars, vblank, prev_index, requests, commands, submits,
                   num_submits, gpu, polled, preVars, arg, aborted, ghosts>>

\* Either submit counts itself under submit_mutex when it is already on its queue.
CountSubmit(g) ==
    /\ gpc[g] = "count"
    /\ num_submits' = num_submits + 1
    /\ gpc' = [gpc EXCEPT ![g] = "idle"]
    /\ UNCHANGED <<portVars, buffer_labels, numVars, vblank, prev_index, requests, commands, submits,
                   compute, gpu, polled, preVars, arg, calls, aborted, ghosts>>
-----------------------------------------------------------------------------
(* The GPU thread.  Between two packets it runs the commands it finds;     *)
(* asleep in WaitVoLabel it runs none.                                     *)
Frame == Head(submits)

SubmitFlipInternal(i, e) ==
    IF i # Blank /\ group_index[i] = None
    THEN aborted' = TRUE /\ UNCHANGED requests
    ELSE requests' = Append(requests, [index |-> i, eop |-> e]) /\ UNCHANGED aborted

ProcessCommand ==
    /\ gpu \notin {"asleep", "woken", "push"} /\ ~polled /\ commands # <<>>
    /\ SubmitFlipInternal(Head(commands), FALSE)
    /\ commands' = Tail(commands)
    /\ UNCHANGED <<portVars, buffer_labels, numVars, vblank, prev_index, gpuVars, preVars, gstVars, ghosts>>

Poll ==
    /\ gpu \notin {"asleep", "woken", "push"} /\ ~polled /\ commands = <<>>
    /\ num_submits > 0
    /\ polled' = TRUE
    /\ UNCHANGED <<portVars, buffer_labels, numVars, vblank, prev_index, requests, commands, submits,
                   compute, num_submits, gpu, preVars, gstVars, aborted, ghosts>>

\* A compute submit runs while the graphics queue is empty or has yielded.
Compute ==
    /\ polled /\ compute /\ gpu \in {"wait", "yield"}
    /\ polled' = FALSE
    /\ compute' = FALSE
    /\ num_submits' = num_submits - 1
    /\ UNCHANGED <<portVars, buffer_labels, numVars, vblank, prev_index, requests, commands, submits,
                   gpu, preVars, gstVars, aborted, ghosts>>

\* As WaitRegMem, but the frame does not wait.
WaitRegMem_Skip ==
    /\ polled /\ submits # <<>> /\ gpu = "wait"
    /\ gpu' = "lock" /\ polled' = FALSE
    /\ UNCHANGED <<portVars, buffer_labels, numVars, vblank, prev_index, requests, commands, submits,
                   compute, num_submits, preVars, gstVars, aborted, ghosts>>

\* The wait for the label at the start of a frame: it sleeps if no other queue
\* seems to have a submit, and otherwise yields until the label is zero.
WaitRegMem ==
    /\ polled /\ submits # <<>> /\ gpu = "wait"
    /\ gpu' = IF buffer_labels[Frame] = 0 THEN "lock"
              ELSE IF num_submits = Len(submits) THEN "asleep" ELSE "yield"
    /\ polled' = FALSE
    /\ UNCHANGED <<portVars, buffer_labels, numVars, vblank, prev_index, requests, commands, submits,
                   compute, num_submits, preVars, gstVars, aborted, ghosts>>

\* As Resume, but the label was read before the loop.
Resume_Stale ==
    /\ polled /\ gpu = "yield"
    /\ polled' = FALSE
    /\ UNCHANGED <<portVars, buffer_labels, numVars, vblank, prev_index, requests, commands, submits,
                   compute, num_submits, gpu, preVars, gstVars, aborted, ghosts>>

Resume ==
    /\ polled /\ gpu = "yield"
    /\ gpu' = IF buffer_labels[Frame] = 0 THEN "lock" ELSE "yield"
    /\ polled' = FALSE
    /\ UNCHANGED <<portVars, buffer_labels, numVars, vblank, prev_index, requests, commands, submits,
                   compute, num_submits, preVars, gstVars, aborted, ghosts>>

\* WaitVoLabel's predicate, after a notification.
WaitVoLabel ==
    /\ gpu = "woken"
    /\ gpu' = IF buffer_labels[Frame] = 0 THEN "lock" ELSE "asleep"
    /\ UNCHANGED <<portVars, buffer_labels, numVars, vblank, prev_index, requests, commands, submits,
                   compute, num_submits, polled, preVars, gstVars, aborted, ghosts>>

\* As WriteLock, but the label stays as it was.
WriteLock_Unlocked ==
    /\ polled /\ gpu = "lock"
    /\ gpu' = "flip" /\ polled' = FALSE
    /\ UNCHANGED <<portVars, buffer_labels, numVars, vblank, prev_index, requests, commands, submits, compute,
                   num_submits, preVars, gstVars, aborted, ghosts>>

\* The frame is drawn; its WriteData packet sets the label.
WriteLock ==
    /\ polled /\ gpu = "lock"
    /\ buffer_labels' = [buffer_labels EXCEPT ![Frame] = 1]
    /\ gpu' = "flip" /\ polled' = FALSE
    /\ UNCHANGED <<portVars, numVars, vblank, prev_index, requests, commands, submits, compute,
                   num_submits, preVars, gstVars, aborted, ghosts>>

\* The PatchedFlip packet signals GfxFlip: the handler of sceVideoOutSubmitEopFlip
\* up to the end of SubmitFlip's critical section, with its two assertions.
FlipIrq ==
    /\ polled /\ gpu = "flip"
    /\ polled' = FALSE
    /\ IF buffer_labels[Frame] = 1 /\ flip_pending_num <= MaxPending
       THEN /\ gc_queue_num' = gc_queue_num + 1
            /\ flip_pending_num' = flip_pending_num + 1
            /\ gpu' = "push" /\ UNCHANGED aborted
       ELSE aborted' = TRUE /\ UNCHANGED <<numVars, gpu>>
    /\ UNCHANGED <<portVars, buffer_labels, vblank, prev_index, requests, commands, submits, compute,
                   num_submits, preVars, gstVars, ghosts>>

\* The rest of the handler; the submit is done.
FlipPush ==
    /\ gpu = "push"
    /\ SubmitFlipInternal(Frame, TRUE)
    /\ submits' = Tail(submits) /\ num_submits' = num_submits - 1
    /\ gpu' = "wait"
    /\ UNCHANGED <<portVars, buffer_labels, numVars, vblank, prev_index, commands, compute, polled,
                   preVars, gstVars, ghosts>>
-----------------------------------------------------------------------------
(* The present thread                                                      *)
Receive ==
    /\ ppc = "receive"
    /\ IF vblank % (flip_rate + 1) = 0 /\ requests # <<>>
       THEN ppc' = "status" /\ req' = Head(requests) /\ requests' = Tail(requests)
       ELSE ppc' = "vblank" /\ UNCHANGED <<req, requests>>
    /\ UNCHANGED <<portVars, buffer_labels, numVars, vblank, prev_index, commands, gpuVars, gstVars,
                   aborted, ghosts>>

\* As FlipStatus, but an EOP flip is only taken off gc_queue_num.
FlipStatus_EopOnly ==
    /\ ppc = "status"
    /\ gc_queue_num' = IF req.eop THEN gc_queue_num - 1 ELSE gc_queue_num
    /\ flip_pending_num' = IF req.eop THEN flip_pending_num ELSE flip_pending_num - 1
    /\ shown' = req.index
    /\ ppc' = "test"
    /\ UNCHANGED <<portVars, buffer_labels, vblank, prev_index, requests, commands, gpuVars, req,
                   gstVars, aborted, relabelled>>

\* Flip: Present and the status under port_mutex.
FlipStatus ==
    /\ ppc = "status"
    /\ gc_queue_num' = IF req.eop THEN gc_queue_num - 1 ELSE gc_queue_num
    /\ flip_pending_num' = flip_pending_num - 1
    /\ shown' = req.index
    /\ ppc' = "test"
    /\ UNCHANGED <<portVars, buffer_labels, vblank, prev_index, requests, commands, gpuVars, req,
                   gstVars, aborted, relabelled>>

FlipTest ==
    /\ ppc = "test"
    /\ ppc' = IF prev_index # Blank THEN "reset" ELSE "save"
    /\ UNCHANGED <<portVars, buffer_labels, numVars, vblank, prev_index, requests, commands, gpuVars,
                   req, gstVars, aborted, ghosts>>

\* prev_index is read again; if Close came in between it is -1 and the code writes in
\* front of the array, which the model takes to leave the labels alone.
FlipReset ==
    /\ ppc = "reset"
    /\ buffer_labels' = [b \in Buffers |-> IF b = prev_index THEN 0 ELSE buffer_labels[b]]
    /\ ppc' = "signal"
    /\ UNCHANGED <<portVars, numVars, vblank, prev_index, requests, commands, gpuVars, req, gstVars,
                   aborted, ghosts>>

\* As FlipSignal, but nobody is notified.
FlipSignal_Nobody ==
    /\ ppc = "signal"
    /\ ppc' = "save"
    /\ UNCHANGED <<portVars, buffer_labels, numVars, vblank, prev_index, requests, commands, gpuVars,
                   req, gstVars, aborted, ghosts>>

FlipSignal ==
    /\ ppc = "signal"
    /\ SignalVoLabel
    /\ ppc' = "save"
    /\ UNCHANGED <<portVars, buffer_labels, numVars, vblank, prev_index, requests, commands, submits,
                   compute, num_submits, polled, req, gstVars, aborted, ghosts>>

\* The buffers the port still has to reset, or that a frame has got the label of.
Outstanding ==
    {req.index} \cup {requests[i].index : i \in 1..Len(requests)}
                \cup (IF gpu \in {"lock", "flip", "push"} THEN {Frame} ELSE {})

FlipSave ==
    /\ ppc = "save"
    /\ prev_index' = req.index
    /\ req' = NoRequest
    /\ ppc' = "vblank"
    /\ relabelled' = relabelled \cap Outstanding
    /\ UNCHANGED <<portVars, buffer_labels, numVars, vblank, requests, commands, gpuVars, gstVars,
                   aborted, shown>>

Vblank ==
    /\ ppc = "vblank"
    /\ vblank' = (vblank + 1) % VblankMod
    /\ ppc' = "receive"
    /\ UNCHANGED <<portVars, buffer_labels, numVars, prev_index, requests, commands, gpuVars, req,
                   gstVars, aborted, ghosts>>
-----------------------------------------------------------------------------
Init ==
    /\ is_open = FALSE /\ group_index = [b \in Buffers |-> None] /\ flip_rate = 0
    /\ buffer_labels = [b \in Buffers |-> 0]
    /\ flip_pending_num = 0 /\ gc_queue_num = 0
    /\ vblank = 0 /\ prev_index = Blank
    /\ requests = <<>> /\ commands = <<>>
    /\ submits = <<>> /\ compute = FALSE /\ num_submits = 0 /\ gpu = "wait" /\ polled = FALSE
    /\ ppc = "receive" /\ req = NoRequest
    /\ gpc = [g \in Guests |-> "idle"] /\ arg = [g \in Guests |-> Blank]
    /\ calls = MaxCalls
    /\ aborted = FALSE
    /\ shown = Blank /\ relabelled = {}

Guest(g) ==
    \/ Open(g) \/ Close(g) \/ SubmitAsc(g)
    \/ \E B \in Ranges : RegisterBuffers(g, B)
    \/ \E n \in Groups : UnregisterBuffers(g, n)
    \/ \E r \in Rates : SetFlipRate(g, r)
    \/ \E b \in CpuBuffers \cup {Blank} : SubmitFlip(g, b)
    \/ \E b \in EopBuffers : SubmitAndFlip(g, b)

Gpu == \/ ProcessCommand \/ Poll \/ Compute
       \/ WaitRegMem \/ Resume \/ WaitVoLabel \/ WriteLock \/ FlipIrq \/ FlipPush

Present == Receive \/ FlipStatus \/ FlipTest \/ FlipReset \/ FlipSignal \/ FlipSave \/ Vblank

Next ==
    /\ ~aborted
    /\ (\E g \in Guests : Guest(g) \/ SendCommand(g) \/ CountSubmit(g)) \/ Gpu \/ Present

Spec == Init /\ [][Next]_vars

\* The host runs the GPU thread, the present thread and a guest thread that is
\* in a call; the guest need not call anything.
LiveSpec ==
    /\ Spec
    /\ WF_vars(~aborted /\ Gpu)
    /\ WF_vars(~aborted /\ Present)
    /\ \A g \in Guests : WF_vars(~aborted /\ (SendCommand(g) \/ CountSubmit(g)))
-----------------------------------------------------------------------------
(* Properties                                                              *)

Request == [index : Buffers \cup {Blank}, eop : BOOLEAN]

\* Types of the port, the queues and the threads' positions.
TypeOK ==
    /\ is_open \in BOOLEAN /\ compute \in BOOLEAN /\ polled \in BOOLEAN /\ aborted \in BOOLEAN
    /\ group_index \in [Buffers -> Groups \cup {None}]
    /\ buffer_labels \in [Buffers -> {0, 1}]
    /\ flip_pending_num \in Nat /\ gc_queue_num \in Nat /\ num_submits \in Nat
    /\ vblank \in 0..(VblankMod - 1) /\ flip_rate \in Rates
    /\ prev_index \in Buffers \cup {Blank} /\ shown \in Buffers \cup {Blank}
    /\ requests \in Seq(Request) /\ req \in Request
    /\ commands \in Seq(CpuBuffers \cup {Blank}) /\ submits \in Seq(EopBuffers)
    /\ gpu \in {"wait", "yield", "asleep", "woken", "lock", "flip", "push"}
    /\ ppc \in {"receive", "status", "vblank"} \cup Tail4
    /\ gpc \in [Guests -> {"idle", "send", "count"}] /\ arg \in [Guests -> CpuBuffers \cup {Blank}]
    /\ calls \in Nat /\ relabelled \subseteq Buffers

Sending == {g \in Guests : gpc[g] = "send"}
\* How many entries of the queue s are in S.
Count(s, S) == Cardinality({i \in 1..Len(s) : s[i] \in S})

\* The flips that have left the queues of the GPU thread, and those it holds.
InDriver == requests \o (IF ppc = "status" THEN <<req>> ELSE <<>>)
AtGpu == IF gpu = "push" THEN 1 ELSE 0

\* flip_pending_num, which IsFlipPending reports and the queue limit is tested
\* with, is the number of flips on their way through the guest's call, the GPU's
\* command queue, the request queue and the present thread, and gc_queue_num the
\* number of those that frames made.
PendingExact ==
    /\ flip_pending_num = Cardinality(Sending) + Len(commands) + AtGpu + Len(InDriver)
    /\ gc_queue_num = AtGpu + Count(InDriver, {r \in Request : r.eop})

\* The flips of registered buffers are limited although the test of the limit and
\* the queues are under different locks; only blanks may exceed it.
QueueBounded ==
    Cardinality({g \in Sending : arg[g] # Blank})
        + Count(commands, CpuBuffers)
        + AtGpu + Count(InDriver, {r \in Request : r.index # Blank}) <= MaxPending + 1

\* The counters that SubmitFlip, FlipIrq and FlipStatus keep under port_mutex match
\* the queues they do not lock: exact, never negative, and within the limit.
CountsOK == TypeOK /\ PendingExact /\ QueueBounded

\* A frame that got past its label wait never draws into a buffer that is shown or
\* waits to be shown, unless the label was cleared by Close or RegisterBuffers while
\* the port still had the buffer for the one shown.
NoDrawWhileShown ==
    gpu \in {"lock", "flip"} /\ Frame \notin relabelled =>
        /\ Frame # shown
        /\ \A i \in 1..Len(InDriver) : InDriver[i].index # Frame

\* ASSERT_MSG "Out of order flip IRQ": the label a frame has set is still set when
\* its flip interrupt is raised, with the same exception.
FlipIrqInOrder ==
    gpu = "flip" /\ Frame \notin relabelled => buffer_labels[Frame] = 1

\* The GPU thread sleeps on a label that is zero only if a signal is on its way.
LabelSleeperHeard == gpu = "asleep" /\ buffer_labels[Frame] = 0 => ppc = "signal"

\* The flip that will be the last one shown, of those that have reached the driver.
LastInDriver ==
    LET all == <<shown>> \o (IF ppc = "status" THEN <<req.index>> ELSE <<>>)
                         \o [i \in 1..Len(requests) |-> requests[i].index]
    IN  all[Len(all)]

\* A flip after b's is sure to be shown.  One sent from the CPU reaches the driver
\* only through the GPU thread, which runs commands while it yields and none while
\* it sleeps.
Superseded(b) ==
    \/ LastInDriver # b
    \/ gpu = "yield" /\ (commands # <<>> \/ Sending # {})

\* A frame that waits for a label gets on once a later flip is sure to be shown: the
\* present thread resets the label and wakes the GPU thread.
SupersededWaitEnds ==
    \A b \in EopBuffers :
        (gpu \in {"asleep", "woken", "yield"} /\ Frame = b /\ Superseded(b)) ~> (gpu = "lock" \/ aborted)

\* "the current scanout buffer eventually becomes safe for rendering at a later vblank
\* even when no replacement flip has executed yet": a frame that waits for a label
\* gets on, whatever else is submitted.  The code resets a label only when a later
\* flip has been shown, so a frame for the buffer on the screen waits forever if that
\* flip is behind it in the queue, or in the commands a sleeping GPU thread leaves
\* alone.
LabelWaitEnds ==
    gpu \in {"asleep", "woken", "yield"} ~> (gpu = "lock" \/ aborted)

\* ASSERT_MSG "Out of order flip IRQ" as it stands, with no exception for buffers that
\* were registered again: when the flip interrupt is raised the label is set.
FlipIrqAssertion == gpu = "flip" => buffer_labels[Frame] = 1
=============================================================================
