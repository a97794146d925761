--------------------------- MODULE FrameScheduling ---------------------------
(***************************************************************************)
(* When frames are built: the Animator and the SmoothPointerDataDispatcher *)
(* on the UI thread, driven by the VsyncWaiter.  A request for a frame     *)
(* takes the one token of pending_frame_semaphore_, waits for a vsync and  *)
(* becomes a frame of the framework or, if only textures have changed, a   *)
(* redraw of the last layer trees.  Pointer packets that arrive faster     *)
(* than frames are held back for one vsync each.                           *)
(*                                                                         *)
(* UI tasks run one at a time, so each is one step up to the point where   *)
(* it arms the platform or calls the waiter again.  The pipeline appears   *)
(* as its free slots; FramePipeline models what happens behind it.         *)
(***************************************************************************)
EXTENDS VsyncWaiter

CONSTANTS Depth,      \* depth of the layer tree pipeline
          MaxPackets  \* bound: pointer packets the platform delivers

ASSUME FrameSchedulingAssumption ==
  /\ Depth \in Nat \ {0}
  /\ MaxPackets \in Nat
  /\ SecondaryIds = {"flows", "pointer"}

VARIABLES semaphore,     \* count of pending_frame_semaphore_
          regenerate,    \* regenerate_layer_trees_
          scheduled,     \* frame_scheduled_
          continuation,  \* does producer_continuation_ hold a slot?
          recorder,      \* is frame_timings_recorder_ set?
          rendered,      \* is layer_trees_tasks_ non-empty?
          inFrame,       \* is the framework building a frame in a vsync task?
          queued,        \* frames in the pipeline
          flows,         \* number of trace_flow_ids_
          sent,          \* pointer packets received so far
          pending,       \* number of pending_packet_, 0 if it is null
          delivered,     \* number of the last packet the framework has got
          inProgress,    \* is_pointer_data_in_progress_
          calls          \* callbacks the UI task in progress has to schedule

animatorVars ==
  <<semaphore, regenerate, scheduled, continuation, recorder, rendered, inFrame, queued>>
pointerVars == <<sent, pending, delivered, inProgress>>
vars == <<waiterVars, animatorVars, flows, pointerVars, calls>>

Init ==
  /\ WaiterInit
  /\ semaphore = 1
  /\ regenerate = FALSE
  /\ scheduled = FALSE
  /\ continuation = FALSE
  /\ recorder = FALSE
  /\ rendered = FALSE
  /\ inFrame = FALSE
  /\ queued = 0
  /\ flows = 0
  /\ sent = 0
  /\ pending = 0
  /\ delivered = 0
  /\ inProgress = FALSE
  /\ calls = <<>>

\* The UI thread can take up its next task.
UiIdle == ~arming /\ calls = <<>> /\ ~inFrame

\* Dart code runs: in a task of its own or in the frame being built.
DartRuns == ~arming /\ calls = <<>>

\* The UI task queue gives it a task.
Takes(task) ==
  /\ UiIdle
  /\ uiTasks # <<>>
  /\ Head(uiTasks) = task

-----------------------------------------------------------------------------
(* The Animator.                                                           *)

\* Of several requests before a vsync only the first one takes the token.
RequestFrame(regenerateLayerTrees) ==
  /\ DartRuns
  /\ regenerate' = (regenerate \/ regenerateLayerTrees)
  /\ \/ /\ semaphore > 0
        /\ semaphore' = semaphore - 1
        /\ uiTasks' = Append(uiTasks, "await")
        /\ scheduled' = TRUE
     \/ /\ semaphore = 0
        /\ UNCHANGED <<semaphore, uiTasks, scheduled>>
  /\ UNCHANGED <<callback, secondary, arming, armed, firing, pauses, continuation,
                 recorder, rendered, inFrame, queued, flows, pointerVars, calls>>

\* The posted task of RequestFrame.
RunAwaitVSync ==
  /\ Takes("await")
  /\ uiTasks' = Tail(uiTasks)
  /\ AsyncWaitForVsync
  /\ UNCHANGED <<animatorVars, flows, pointerVars, calls>>

Render ==
  /\ DartRuns
  /\ recorder' = TRUE
  /\ rendered' = TRUE
  /\ UNCHANGED <<waiterVars, semaphore, regenerate, scheduled, continuation, inFrame,
                 queued, flows, pointerVars, calls>>

\* Mutant of EndFrame: Complete without a continuation pushes the frame, too.
EndFrameUnreserved ==
  /\ recorder' = FALSE
  /\ rendered' = (rendered /\ ~recorder)
  /\ LET commits == recorder /\ rendered
     IN  /\ continuation' = (continuation /\ ~commits)
         /\ queued' = IF commits THEN queued + 1 ELSE queued

\* EndFrame commits what has been rendered if there is a continuation.
EndFrame ==
  /\ recorder' = FALSE
  /\ rendered' = (rendered /\ ~recorder)
  /\ LET commits == recorder /\ rendered /\ continuation
     IN  /\ continuation' = (continuation /\ ~commits)
         /\ queued' = IF commits THEN queued + 1 ELSE queued

OnAllViewsRendered ==
  /\ DartRuns
  /\ rendered
  /\ EndFrame
  /\ UNCHANGED <<waiterVars, semaphore, regenerate, scheduled, inFrame, flows,
                 pointerVars, calls>>

\* Mutant of PipelineFull: no other frame is requested.
PipelineFullGivingUp ==
  /\ ~continuation
  /\ queued = Depth
  /\ regenerate' = FALSE
  /\ semaphore' = semaphore + 1
  /\ uiTasks' = Tail(uiTasks)
  /\ scheduled' = FALSE
  /\ recorder' = FALSE
  /\ pauses' = pauses - 1
  /\ UNCHANGED <<continuation, inFrame, queued>>

\* Mutant of PipelineFull: the early return skips the resume.
PipelineFullPaused ==
  /\ ~continuation
  /\ queued = Depth
  /\ regenerate' = TRUE
  /\ semaphore' = semaphore
  /\ uiTasks' = Append(Tail(uiTasks), "await")
  /\ scheduled' = TRUE
  /\ recorder' = FALSE
  /\ UNCHANGED <<continuation, inFrame, queued, pauses>>

\* BeginFrame without a slot, and the EndFrame that follows it: the frame is
\* put off to the next vsync.
PipelineFull ==
  /\ ~continuation
  /\ queued = Depth
  /\ regenerate' = TRUE
  /\ semaphore' = semaphore
  /\ uiTasks' = Append(Tail(uiTasks), "await")
  /\ scheduled' = TRUE
  /\ recorder' = FALSE
  /\ pauses' = pauses - 1
  /\ UNCHANGED <<continuation, inFrame, queued>>

\* BeginFrame up to the call of the framework.
BeginFrame ==
  /\ continuation \/ queued < Depth
  /\ continuation' = TRUE
  /\ regenerate' = FALSE
  /\ semaphore' = semaphore + 1
  /\ uiTasks' = Tail(uiTasks)
  /\ scheduled' = FALSE
  /\ recorder' = TRUE
  /\ inFrame' = TRUE
  /\ UNCHANGED <<pauses, queued>>

\* Mutant of DrawLastLayerTrees: the semaphore is not signalled.
DrawLastLayerTreesWaiting ==
  /\ uiTasks' = Tail(uiTasks)
  /\ pauses' = pauses - 1
  /\ UNCHANGED <<semaphore, regenerate, scheduled, continuation, recorder, rendered,
                 inFrame, queued, flows>>

\* DrawLastLayerTrees leaves frame_scheduled_ as it is.
DrawLastLayerTrees ==
  /\ semaphore' = semaphore + 1
  /\ uiTasks' = Tail(uiTasks)
  /\ pauses' = pauses - 1
  /\ UNCHANGED <<regenerate, scheduled, continuation, recorder, rendered, inFrame,
                 queued, flows>>

\* The task of the frame callback.
RunFrameTask ==
  /\ Takes("frame")
  /\ \/ /\ regenerate
        /\ rendered' = FALSE
        /\ flows' = 0
        /\ PipelineFull \/ BeginFrame
     \/ /\ ~regenerate
        /\ DrawLastLayerTrees
  /\ UNCHANGED <<callback, secondary, arming, armed, firing, pointerVars, calls>>

\* The framework is done: EndFrame, and the Dart event loop resumes.
EndFrameTask ==
  /\ inFrame
  /\ DartRuns
  /\ inFrame' = FALSE
  /\ EndFrame
  /\ pauses' = pauses - 1
  /\ UNCHANGED <<callback, secondary, arming, armed, firing, uiTasks, semaphore,
                 regenerate, scheduled, flows, pointerVars, calls>>

\* The Rasterizer consumes a frame.
ConsumeFrame ==
  /\ queued > 0
  /\ queued' = queued - 1
  /\ UNCHANGED <<waiterVars, semaphore, regenerate, scheduled, continuation, recorder,
                 rendered, inFrame, flows, pointerVars, calls>>

-----------------------------------------------------------------------------
(* Secondary callbacks: the trace flow ids of the Animator and the packets *)
(* of the SmoothPointerDataDispatcher.                                     *)

\* Engine::DoDispatchPacket: the packet and a trace flow id for it.
DoDispatchPacket(packet) ==
  /\ delivered' = packet
  /\ flows' = flows + 1

\* Mutant of DispatchPacket: a packet that is held back is replaced.
DispatchPacketReplacing ==
  /\ UiIdle
  /\ sent < MaxPackets
  /\ sent' = sent + 1
  /\ inProgress' = TRUE
  /\ \/ /\ inProgress
        /\ pending' = sent + 1
        /\ calls' = <<"pointer">>
        /\ UNCHANGED <<delivered, flows>>
     \/ /\ ~inProgress
        /\ DoDispatchPacket(sent + 1)
        /\ calls' = <<"flows", "pointer">>
        /\ UNCHANGED pending
  /\ UNCHANGED <<waiterVars, animatorVars>>

DispatchPacket ==
  /\ UiIdle
  /\ sent < MaxPackets
  /\ sent' = sent + 1
  /\ inProgress' = TRUE
  /\ \/ /\ inProgress
        /\ pending # 0
        /\ DoDispatchPacket(pending)
        /\ pending' = sent + 1
        /\ calls' = <<"flows", "pointer", "pointer">>
     \/ /\ inProgress
        /\ pending = 0
        /\ pending' = sent + 1
        /\ calls' = <<"pointer">>
        /\ UNCHANGED <<delivered, flows>>
     \/ /\ ~inProgress
        /\ DoDispatchPacket(sent + 1)
        /\ calls' = <<"flows", "pointer">>
        /\ UNCHANGED pending
  /\ UNCHANGED <<waiterVars, animatorVars>>

\* Mutant of RunPointerCallback: the dispatch ends with the packet still held.
RunPointerCallbackEnding ==
  /\ Takes("pointer")
  /\ uiTasks' = Tail(uiTasks)
  /\ inProgress' = FALSE
  /\ UNCHANGED <<callback, secondary, arming, armed, firing, pauses, animatorVars, sent,
                 pending, delivered, flows, calls>>

\* The callback of SmoothPointerDataDispatcher::ScheduleSecondaryVsyncCallback
RunPointerCallback ==
  /\ Takes("pointer")
  /\ uiTasks' = Tail(uiTasks)
  /\ \/ /\ inProgress
        /\ pending # 0
        /\ DoDispatchPacket(pending)
        /\ pending' = 0
        /\ calls' = <<"flows", "pointer">>
        /\ UNCHANGED inProgress
     \/ /\ inProgress => pending = 0
        /\ inProgress' = FALSE
        /\ UNCHANGED <<pending, delivered, flows, calls>>
  /\ UNCHANGED <<callback, secondary, arming, armed, firing, pauses, animatorVars, sent>>

\* The callback of Animator::ScheduleMaybeClearTraceFlowIds
RunFlowsCallback ==
  /\ Takes("flows")
  /\ uiTasks' = Tail(uiTasks)
  /\ flows' = IF scheduled THEN flows ELSE 0
  /\ UNCHANGED <<callback, secondary, arming, armed, firing, pauses, animatorVars,
                 pointerVars, calls>>

\* The task in progress reaches its next ScheduleSecondaryCallback.
ScheduleNextCallback ==
  /\ calls # <<>>
  /\ ScheduleSecondaryCallback(Head(calls))
  /\ calls' = Tail(calls)
  /\ UNCHANGED <<animatorVars, flows, pointerVars>>

-----------------------------------------------------------------------------
Arm == AwaitVSync /\ UNCHANGED <<animatorVars, flows, pointerVars, calls>>

Vsync == VsyncStep /\ UNCHANGED <<animatorVars, flows, pointerVars, calls>>

\* What the UI thread does next, its current task first.
UiStep ==
  \/ Arm
  \/ ScheduleNextCallback
  \/ EndFrameTask
  \/ RunAwaitVSync
  \/ RunFrameTask
  \/ RunPointerCallback
  \/ RunFlowsCallback

\* What the application and the platform may call.
AppStep ==
  \/ \E regenerateLayerTrees \in BOOLEAN : RequestFrame(regenerateLayerTrees)
  \/ Render
  \/ OnAllViewsRendered
  \/ DispatchPacket

Next == UiStep \/ AppStep \/ Vsync \/ ConsumeFrame

Spec == Init /\ [][Next]_vars

(* The UI message loop runs its tasks, frames that are begun end, the      *)
(* platform fires the vsyncs it owes and the rasterizer consumes frames;   *)
(* nothing obliges the application or the platform to call.                *)
Fairness == WF_vars(UiStep) /\ WF_vars(Vsync) /\ WF_vars(ConsumeFrame)

FairSpec == Spec /\ Fairness

-----------------------------------------------------------------------------
TypeOK ==
  /\ WaiterTypeOK
  /\ semaphore \in 0..1
  /\ regenerate \in BOOLEAN
  /\ scheduled \in BOOLEAN
  /\ continuation \in BOOLEAN
  /\ recorder \in BOOLEAN
  /\ rendered \in BOOLEAN
  /\ inFrame \in BOOLEAN
  /\ queued \in 0..Depth
  /\ flows \in 0..MaxPackets
  /\ sent \in 0..MaxPackets
  /\ pending \in 0..MaxPackets
  /\ delivered \in 0..MaxPackets
  /\ inProgress \in BOOLEAN
  /\ calls \in Seq(SecondaryIds)

Places(seq, x) == {i \in 1..Len(seq) : seq[i] = x}
Count(task) == Cardinality(Places(uiTasks, task))
One(condition) == IF condition THEN 1 ELSE 0

(* The one token of pending_frame_semaphore_ is always in exactly one      *)
(* place: in the semaphore, in a posted AwaitVSync, in the waiter, in a    *)
(* vsync being fired or in a posted frame task.  It is never lost (no      *)
(* frame would ever be built again) nor doubled (two frame callbacks in    *)
(* one vsync interval, animator.cc:251-255).                               *)
OneRequestToken ==
  semaphore + Count("await") + One(callback) + One(firing.callback) + Count("frame") = 1

(* A request to regenerate the layer trees is recorded only while a        *)
(* request is under way that will look at it: a call to RequestFrame that  *)
(* finds the token taken is not lost (animator.cc:239-255).                *)
RegenerationIsUnderWay == regenerate => semaphore = 0 /\ scheduled

(* The Dart event loop is paused once for each frame callback between the  *)
(* vsync and the end of its task, hence never twice, and it is resumed     *)
(* after a frame, a redraw and a full pipeline alike                       *)
(* (vsync_waiter.cc:117-119, 143-145).                                     *)
PausesMatchFrames ==
  pauses = One(firing.paused) + Count("frame") + One(inFrame)

(* Pointer packets reach the framework in the order in which the platform  *)
(* delivers them, none is dropped or repeated, and only the last one is    *)
(* ever held back (pointer_data_dispatcher.cc:37-46).                      *)
PacketsInOrder ==
  \/ pending = 0 /\ delivered = sent
  \/ pending = sent /\ delivered = sent - 1 /\ inProgress

(* A request to regenerate the layer trees leads to a frame of the         *)
(* framework, however often the pipeline was full, requests were merged    *)
(* and redraws came in between (animator.cc:100-108, 239-289).             *)
RequestsLeadToFrames == regenerate ~> inFrame

(* A packet that is held back reaches the framework.                       *)
PacketsAreDelivered ==
  \A n \in 1..MaxPackets : sent >= n ~> delivered >= n

=============================================================================
