---------------------------- MODULE FramePipeline ----------------------------
(***************************************************************************)
(* How frames travel from the UI thread to the screen.  The Animator       *)
(* reserves a slot of the Pipeline, fills it with the frame it has built   *)
(* and, when the frame is the first one queued, has the Shell post         *)
(* Rasterizer::Draw to the raster task queue.  Draw consumes one frame,    *)
(* may put it back, and posts itself again while there is more to draw.    *)
(*                                                                         *)
(* The raster queue is served by the raster thread or, while a lease of    *)
(* the RasterThreadMerger runs (Android, frames with platform views), by   *)
(* the platform thread.  The lease is taken and given up in the middle of  *)
(* a Draw, so for a while both threads may be inside Draw: each step below *)
(* is one lock-protected or single-access step of one thread.              *)
(*                                                                         *)
(* One view is modelled.  The raster thread and the platform thread are    *)
(* distinct, the merger belongs to one shell and stays enabled; setting up *)
(* and tearing down the surface shows as draws that find no surface.       *)
(***************************************************************************)
EXTENDS Pipeline

CONSTANTS UI, Raster, Platform,  \* the threads
          Merging,    \* is there a raster_thread_merger_?
          LeaseTerm,  \* kDefaultMergedLeaseDuration
          MaxFrames,  \* bound: frames the application builds or asks to draw again
          MaxReuses   \* bound: those of them that are drawn again

Drawers == {Raster, Platform}

\* A frame is what the properties need of a FrameItem: its number and whether
\* its layer tree embeds platform views.
Frames == [n : 1..MaxFrames, platformViews : BOOLEAN]

ASSUME FramePipelineAssumption ==
  /\ UI # Raster /\ UI # Platform /\ Raster # Platform
  /\ Threads = {UI, Raster, Platform}
  /\ Items = Frames
  /\ Merging \in BOOLEAN
  /\ LeaseTerm \in Nat \ {0, 1}
  /\ MaxFrames \in Nat
  /\ MaxReuses \in Nat

VARIABLES built,     \* number of frames committed so far
          reuses,    \* number of DrawLastLayerTrees requests so far
          notify,    \* has the UI thread still to call OnAnimatorDraw?
          tasks,     \* the raster task queue
          at,        \* where each drawing thread is
          frame,     \* the frame each drawing thread works on
          resubmit,  \* does its DoDrawResult carry a resubmitted_item?
          more,      \* is its consume_result MoreAvailable?
          lease,     \* lease_term_by_caller_ of the one caller; 0: not merged
          composed,  \* is the embedder's composition_order_ non-empty?
          last,      \* last_successful_task of the view
          presented, \* number of the frame on the screen
          mishaps    \* history: hazards the run has met

uiVars == <<built, reuses, notify>>
drawVars == <<at, frame, resubmit, more>>
embedderVars == <<lease, composed>>
screenVars == <<last, presented>>
vars == <<pipelineVars, uiVars, tasks, drawVars, embedderVars, screenVars, mishaps>>

Merged == lease > 0

\* The thread that runs the tasks of the raster queue, which is also the
\* thread for which IsOnRasterizingThread holds.
RasterizingThread == IF Merged THEN Platform ELSE Raster

Init ==
  /\ PipelineInit
  /\ built = 0
  /\ reuses = 0
  /\ notify = FALSE
  /\ tasks = <<>>
  /\ at = [d \in Drawers |-> "idle"]
  /\ frame = [d \in Drawers |-> NoItem]
  /\ resubmit = [d \in Drawers |-> FALSE]
  /\ more = [d \in Drawers |-> FALSE]
  /\ lease = 0
  /\ composed = FALSE
  /\ last = NoItem
  /\ presented = 0
  /\ mishaps = {}

-----------------------------------------------------------------------------
(* The UI thread: the Animator and, for the posts, the Shell.              *)

\* Animator::BeginFrame gets a continuation unless it still holds one; with
\* the pipeline full it changes nothing here and asks for another vsync.
BeginFrame ==
  /\ ~notify
  /\ Produce(UI, "append")
  /\ UNCHANGED <<uiVars, tasks, drawVars, embedderVars, screenVars, mishaps>>

\* Animator::EndFrame completes the continuation with the frame rendered since
\* (a frame rendered without a continuation is dropped: no step).
CompleteFrame ==
  /\ built + reuses < MaxFrames
  /\ built' = built + 1
  /\ \E views \in BOOLEAN :
       ProducerCommit(UI, [n |-> built + 1, platformViews |-> views])
  /\ UNCHANGED <<reuses, notify, tasks, drawVars, embedderVars, screenVars, mishaps>>

\* Complete signals; EndFrame learns from is_first_item whether to notify.
SignalFrame ==
  /\ Signal(UI)
  /\ notify' = (stage[UI] = "signalFirst")
  /\ UNCHANGED <<built, reuses, tasks, drawVars, embedderVars, screenVars, mishaps>>

\* Shell::OnAnimatorDraw
OnAnimatorDraw ==
  /\ notify
  /\ notify' = FALSE
  /\ tasks' = Append(tasks, "Draw")
  /\ UNCHANGED <<pipelineVars, built, reuses, drawVars, embedderVars, screenVars, mishaps>>

\* Shell::OnAnimatorDrawLastLayerTrees, at a vsync that builds no new frame.
OnAnimatorDrawLastLayerTrees ==
  /\ ~notify
  /\ stage[UI] = "idle"
  /\ reuses < MaxReuses /\ built + reuses < MaxFrames
  /\ reuses' = reuses + 1
  /\ tasks' = Append(tasks, "DrawLast")
  /\ UNCHANGED <<pipelineVars, built, notify, drawVars, embedderVars, screenVars, mishaps>>

-----------------------------------------------------------------------------
(* Rasterizer::Draw and DrawLastLayerTrees on drawing thread d.            *)

Goto(d, place) == at' = [at EXCEPT ![d] = place]

\* A thread that works on a frame, from the pop of it to the end of Draw.
Drawing(d) == frame[d] # NoItem

\* History: thread d takes up a frame while the other thread works on one.
NoteOverlap(d) ==
  mishaps' = IF \E e \in Drawers \ {d} : Drawing(e)
             THEN mishaps \cup {"overlap"} ELSE mishaps

\* Draws from the pipeline are being consumed; DrawLastLayerTrees is not.
FromPipeline(d) == d \in Servers

\* Where Draw resp. DrawLastLayerTrees continues when DrawToSurfaces returns.
AfterSurfaces(d) == IF FromPipeline(d) THEN "lease" ELSE "finish"

\* The Draws posted by the Shell, with a weak reference to the pipeline, and
\* those that a Draw posts when there is more to draw, with a strong one.
DrawTasks == {"Draw", "DrawMore"}

\* The message loop of d pops a task of the raster queue and starts it.
StartTask(d) ==
  /\ at[d] = "idle"
  /\ d = RasterizingThread
  /\ tasks # <<>>
  /\ tasks' = Tail(tasks)
  /\ \/ /\ Head(tasks) \in DrawTasks
        /\ Goto(d, "check")
        /\ UNCHANGED <<frame, last, mishaps>>
     \/ /\ Head(tasks) = "DrawLast"
        /\ last # NoItem
        /\ Goto(d, "doDraw")
        /\ frame' = [frame EXCEPT ![d] = last]
        /\ last' = NoItem
        /\ NoteOverlap(d)
     \/ /\ Head(tasks) = "DrawLast"   \* nothing to draw, or no surface
        /\ UNCHANGED <<at, frame, last, mishaps>>
  /\ UNCHANGED <<pipelineVars, uiVars, resubmit, more, embedderVars, presented>>

\* Draw yields when it finds itself on the wrong thread.
CheckThread(d) ==
  /\ at[d] = "check"
  /\ Goto(d, IF Merging /\ d # RasterizingThread THEN "idle" ELSE "consume")
  /\ UNCHANGED <<pipelineVars, uiVars, tasks, frame, resubmit, more, embedderVars,
                 screenVars, mishaps>>

\* Pipeline::Consume; a failed TryWait ends Draw with kPipelineEmpty.
Consume(d) ==
  /\ at[d] = "consume"
  /\ \/ /\ ConsumeTryWait(d)
        /\ Goto(d, "pop")
        /\ UNCHANGED mishaps
     \/ /\ available = 0
        /\ Goto(d, "idle")
        /\ mishaps' = IF queue = <<>> THEN mishaps ELSE mishaps \cup {"missed"}
        /\ UNCHANGED pipelineVars
  /\ UNCHANGED <<uiVars, tasks, frame, resubmit, more, embedderVars, screenVars>>

PopFrame(d) ==
  /\ at[d] = "pop"
  /\ ConsumePop(d)
  /\ Goto(d, "doDraw")
  /\ frame' = [frame EXCEPT ![d] = Head(queue)]
  /\ NoteOverlap(d)
  /\ UNCHANGED <<uiVars, tasks, resubmit, more, embedderVars, screenVars>>

\* No surface, or a disabled GPU: DoDraw returns before it touches the lease.
AbandonDraw(d) ==
  /\ at[d] = "doDraw"
  /\ Goto(d, IF FromPipeline(d) THEN "release" ELSE "finish")
  /\ UNCHANGED <<pipelineVars, uiVars, tasks, frame, resubmit, more, embedderVars,
                 screenVars, mishaps>>

\* The delegate discards the layer tree (ShouldDiscardLayerTree).
DiscardLayerTree(d) ==
  /\ at[d] = "doDraw"
  /\ Goto(d, AfterSurfaces(d))
  /\ UNCHANGED <<pipelineVars, uiVars, tasks, frame, resubmit, more, embedderVars,
                 screenVars, mishaps>>

\* The embedder's BeginFrame.  It would find used_this_frame_ set only after
\* an overlap of the two threads.
BeginEmbedderFrame(d) ==
  /\ at[d] = "doDraw"
  /\ Goto(d, "raster")
  /\ UNCHANGED <<pipelineVars, uiVars, tasks, frame, resubmit, more, embedderVars,
                 screenVars, mishaps>>

\* The layer tree embeds views that the embedder must composite.
Composites(d) == Merging /\ frame[d].platformViews

\* DrawToSurfaceUnsafe cannot acquire a surface frame.  PrepareFlutterView has
\* already reset the composition order.
FailDraw(d) ==
  /\ at[d] = "raster"
  /\ Goto(d, AfterSurfaces(d))
  /\ composed' = FALSE
  /\ UNCHANGED <<pipelineVars, uiVars, tasks, frame, resubmit, more, lease,
                 screenVars, mishaps>>

\* PostPrerollAction, threads not merged: merge them and try the frame again
\* (kSkipAndRetryFrame).  DrawLastLayerTrees drops a frame to be retried.
MergeAndRetry(d) ==
  /\ at[d] = "raster"
  /\ Composites(d)
  /\ ~Merged
  /\ Goto(d, AfterSurfaces(d))
  /\ lease' = LeaseTerm
  /\ composed' = FALSE
  /\ resubmit' = [resubmit EXCEPT ![d] = FromPipeline(d)]
  /\ UNCHANGED <<pipelineVars, uiVars, tasks, frame, more, screenVars, mishaps>>

\* PostPrerollAction, merged, no platform view in the previous frame: the
\* surface is switched and the frame submitted again (kResubmitFrame).
SwitchSurfaceAndRetry(d) ==
  /\ at[d] = "raster"
  /\ Composites(d)
  /\ Merged
  /\ ~composed
  /\ Goto(d, AfterSurfaces(d))
  /\ lease' = LeaseTerm
  /\ composed' = TRUE
  /\ resubmit' = [resubmit EXCEPT ![d] = FromPipeline(d)]
  /\ UNCHANGED <<pipelineVars, uiVars, tasks, frame, more, screenVars, mishaps>>

\* The frame is submitted and becomes the last successful one.
PresentFrame(d) ==
  /\ at[d] = "raster"
  /\ \/ /\ ~Composites(d)
        /\ composed' = FALSE
        /\ UNCHANGED lease
     \/ /\ Composites(d)
        /\ Merged
        /\ composed
        /\ lease' = LeaseTerm
        /\ UNCHANGED composed
  /\ Goto(d, AfterSurfaces(d))
  /\ last' = frame[d]
  /\ presented' = frame[d].n
  /\ UNCHANGED <<pipelineVars, uiVars, tasks, frame, resubmit, more, mishaps>>

\* Mutant of DecrementLease: no early return for kRemainsUnmerged.
DecrementLeaseUnmerged(d) ==
  /\ at[d] = "lease"
  /\ Goto(d, "release")
  /\ lease' = lease - 1
  /\ more' = [more EXCEPT ![d] = lease = 1]
  /\ UNCHANGED <<pipelineVars, uiVars, tasks, frame, resubmit, composed,
                 screenVars, mishaps>>

\* RasterThreadMerger::DecrementLease: kUnmergedNow asks for one more Draw.
DecrementLease(d) ==
  /\ at[d] = "lease"
  /\ Goto(d, "release")
  /\ lease' = IF Merged THEN lease - 1 ELSE lease
  /\ more' = [more EXCEPT ![d] = lease = 1]
  /\ UNCHANGED <<pipelineVars, uiVars, tasks, frame, resubmit, composed,
                 screenVars, mishaps>>

\* Mutant of ReleaseFrame: MoreAvailable is not reported.
ReleaseFrameOnly(d) ==
  /\ at[d] = "release"
  /\ ConsumeEnd(d)
  /\ Goto(d, IF resubmit[d] THEN "resubmit" ELSE "finish")
  /\ more' = [more EXCEPT ![d] = @ /\ ~resubmit[d]]
  /\ UNCHANGED <<uiVars, tasks, frame, resubmit, embedderVars, screenVars, mishaps>>

\* Consume returns: the slot is freed.  kEnqueuePipeline counts only when no
\* frame is to be resubmitted.
ReleaseFrame(d) ==
  /\ at[d] = "release"
  /\ ConsumeEnd(d)
  /\ Goto(d, IF resubmit[d] THEN "resubmit" ELSE "finish")
  /\ more' = [more EXCEPT ![d] =
                stage[d] = "serveMore" \/ (more[d] /\ ~resubmit[d])]
  /\ UNCHANGED <<uiVars, tasks, frame, resubmit, embedderVars, screenVars, mishaps>>

\* Mutant of ResubmitFrame: ProduceIfEmpty wants the whole pipeline empty.
ResubmitFrameIfUnused(d) ==
  /\ at[d] = "resubmit"
  /\ \/ /\ empty = Depth
        /\ Produce(d, "ifEmpty")
        /\ Goto(d, "commit")
     \/ /\ empty < Depth
        /\ Goto(d, "finish")
        /\ UNCHANGED pipelineVars
  /\ UNCHANGED <<uiVars, tasks, frame, resubmit, more, embedderVars, screenVars, mishaps>>

\* ProduceIfEmpty; without a free slot the frame is dropped.
ResubmitFrame(d) ==
  /\ at[d] = "resubmit"
  /\ \/ /\ Produce(d, "ifEmpty")
        /\ Goto(d, "commit")
     \/ /\ empty = 0
        /\ Goto(d, "finish")
        /\ UNCHANGED pipelineVars
  /\ UNCHANGED <<uiVars, tasks, frame, resubmit, more, embedderVars, screenVars, mishaps>>

\* Mutant of CommitResubmitted: the frame goes behind the queued ones.
CommitResubmittedBehind(d) ==
  /\ at[d] = "commit"
  /\ continuation' = [continuation EXCEPT ![d] = "none"]
  /\ Push(d, frame[d])
  /\ Goto(d, "signal")
  /\ UNCHANGED <<uiVars, tasks, frame, resubmit, more, embedderVars, screenVars, mishaps>>

\* Complete of that continuation; behind a queued frame the frame is dropped.
CommitResubmitted(d) ==
  /\ at[d] = "commit"
  /\ ProducerCommitIfEmpty(d, frame[d])
  /\ Goto(d, IF queue = <<>> THEN "signal" ELSE "finish")
  /\ UNCHANGED <<uiVars, tasks, frame, resubmit, more, embedderVars, screenVars, mishaps>>

\* Mutant of SignalResubmitted: consume_result stays as it was.
SignalResubmittedQuietly(d) ==
  /\ at[d] = "signal"
  /\ Signal(d)
  /\ Goto(d, "finish")
  /\ UNCHANGED <<uiVars, tasks, frame, resubmit, more, embedderVars, screenVars, mishaps>>

SignalResubmitted(d) ==
  /\ at[d] = "signal"
  /\ Signal(d)
  /\ Goto(d, "finish")
  /\ more' = [more EXCEPT ![d] = TRUE]
  /\ UNCHANGED <<uiVars, tasks, frame, resubmit, embedderVars, screenVars, mishaps>>

\* The embedder's EndFrame, and the post of the next Draw.
FinishDraw(d) ==
  /\ at[d] = "finish"
  /\ Goto(d, "idle")
  /\ tasks' = IF more[d] THEN Append(tasks, "DrawMore") ELSE tasks
  /\ frame' = [frame EXCEPT ![d] = NoItem]
  /\ resubmit' = [resubmit EXCEPT ![d] = FALSE]
  /\ more' = [more EXCEPT ![d] = FALSE]
  /\ UNCHANGED <<pipelineVars, uiVars, lease, composed, screenVars, mishaps>>

DrawStep(d) ==
  \/ StartTask(d)
  \/ CheckThread(d)
  \/ Consume(d)
  \/ PopFrame(d)
  \/ AbandonDraw(d)
  \/ DiscardLayerTree(d)
  \/ BeginEmbedderFrame(d)
  \/ FailDraw(d)
  \/ MergeAndRetry(d)
  \/ SwitchSurfaceAndRetry(d)
  \/ PresentFrame(d)
  \/ DecrementLease(d)
  \/ ReleaseFrame(d)
  \/ ResubmitFrame(d)
  \/ CommitResubmitted(d)
  \/ SignalResubmitted(d)
  \/ FinishDraw(d)

Next ==
  \/ BeginFrame
  \/ CompleteFrame
  \/ SignalFrame
  \/ OnAnimatorDraw
  \/ OnAnimatorDrawLastLayerTrees
  \/ \E d \in Drawers : DrawStep(d)

Spec == Init /\ [][Next]_vars

(* A thread that has started a handler finishes it and a message loop runs *)
(* its tasks; nothing obliges the application to build another frame.      *)
Fairness ==
  /\ WF_vars(SignalFrame)
  /\ WF_vars(OnAnimatorDraw)
  /\ \A d \in Drawers : WF_vars(DrawStep(d))

FairSpec == Spec /\ Fairness

-----------------------------------------------------------------------------
Places == {"idle", "check", "consume", "pop", "doDraw", "raster", "lease", "release",
           "resubmit", "commit", "signal", "finish"}

(* Type correctness of the frame path.                                     *)
TypeOK ==
  /\ PipelineTypeOK
  /\ built \in 0..MaxFrames
  /\ reuses \in 0..MaxReuses
  /\ notify \in BOOLEAN
  /\ tasks \in Seq(DrawTasks \cup {"DrawLast"})
  /\ at \in [Drawers -> Places]
  /\ frame \in [Drawers -> Items \cup {NoItem}]
  /\ resubmit \in [Drawers -> BOOLEAN]
  /\ more \in [Drawers -> BOOLEAN]
  /\ lease \in 0..LeaseTerm
  /\ composed \in BOOLEAN
  /\ last \in Items \cup {NoItem}
  /\ presented \in 0..MaxFrames
  /\ mishaps \in SUBSET {"missed", "overlap"}

(* Draw drops a frame that it should retry (no slot for ProduceIfEmpty, or *)
(* ProducerCommitIfEmpty bails out) only when a newer frame has been       *)
(* committed, which will replace it on the screen (rasterizer.cc:271-279,  *)
(* for the pipeline depth of 2, as long as the drawing threads have not    *)
(* overlapped).                                                            *)
RetryYieldsToNewerFrame ==
  [][\A d \in Drawers :
       at[d] \in {"resubmit", "commit"} /\ at'[d] = "finish"
         => built > frame[d].n \/ "overlap" \in mishaps]_vars

(* As long as the two drawing threads have not overlapped, the screen      *)
(* never goes back to an older frame: neither a retried frame, nor a frame *)
(* drawn again for a texture, overtakes a newer one.                       *)
PresentsInOrder ==
  [][presented' >= presented \/ "overlap" \in mishaps']_vars

InPipeline(n) ==
  \/ \E i \in 1..Len(queue) : queue[i].n = n
  \/ \E d \in Drawers : FromPipeline(d) /\ frame[d].n = n

(* "Eventually the 'Rasterizer' will consume it, so we don't need to       *)
(* notify the delegate" (animator.cc:149): every committed frame leaves    *)
(* the pipeline, but for the two cases in which the code can strand it: a  *)
(* Draw that finds the queue filled but not yet signalled, and two threads *)
(* that draw at the same time.                                             *)
FramesAreConsumedUnlessMissed ==
  \A n \in 1..MaxFrames :
    InPipeline(n) ~> (~InPipeline(n) \/ mishaps \cap {"missed", "overlap"} # {})

\* Someone is going to run Draw again: a task or a notification is pending, or
\* a Draw in progress will consume a frame, find out that there are more, or
\* put its own frame back.
DrawIsComing ==
  \/ notify
  \/ stage[UI] = "signalFirst"
  \/ \E i \in 1..Len(tasks) : tasks[i] \in DrawTasks
  \/ \E d \in Drawers :
       \/ at[d] \in {"check", "consume", "pop", "signal"}
       \/ stage[d] = "serveMore"
       \/ more[d] /\ at[d] \in {"resubmit", "commit", "finish"}

(* Whenever frames wait in the pipeline, a Draw that can consume them is   *)
(* coming, although only the first item of an empty queue is announced to  *)
(* the rasterizer: a Draw that yields, a merge, an unmerge, a frame that   *)
(* is retried, dropped or failed never strands the frames behind it        *)
(* (animator.cc:146-154, rasterizer.cc:271-305).                           *)
WaitingFramesHaveADraw ==
  queue # <<>> => DrawIsComing \/ mishaps \cap {"missed", "overlap"} # {}
=============================================================================
