---------------------------- MODULE FrameShutdown ----------------------------
(***************************************************************************)
(* The end of the frame path.  Shell::~Shell has the UI thread destroy the *)
(* engine, and with it the Animator, then the raster thread destroy the    *)
(* Rasterizer.  A continuation that the Animator holds at that time, as it *)
(* does after a frame in which nothing was rendered, commits a null item.  *)
(* The pipeline itself lives on in the Draws that have a strong reference  *)
(* to it.                                                                  *)
(*                                                                         *)
(* The queues are not merged: OnPlatformViewDestroyed has unmerged them,   *)
(* or there is no merger (Merging = FALSE).                                *)
(***************************************************************************)
EXTENDS FramePipeline, SequencesExt

\* How far Shell::~Shell has come: "engine", the Animator is destroyed;
\* "rasterizer", the task that destroys the Rasterizer is posted.
VARIABLE shutdown

ShutdownInit == Init /\ shutdown = "no"

\* engine_.reset() in a task of the UI thread, with ~ProducerContinuation for
\* the Animator's continuation
DestroyAnimator ==
  /\ shutdown = "no"
  /\ ~notify
  /\ stage[UI] = "idle"
  /\ shutdown' = "engine"
  /\ IF continuation[UI] = "none" THEN UNCHANGED pipelineVars ELSE DropContinuation(UI)
  /\ UNCHANGED <<uiVars, tasks, drawVars, embedderVars, screenVars, mishaps>>

\* The null item is signalled, and nobody looks at is_first_item.
SignalDropped ==
  /\ shutdown = "engine"
  /\ Signal(UI)
  /\ UNCHANGED <<shutdown, uiVars, tasks, drawVars, embedderVars, screenVars, mishaps>>

\* The platform thread has waited for ui_latch.
PostRasterizerReset ==
  /\ shutdown = "engine"
  /\ stage[UI] = "idle"
  /\ shutdown' = "rasterizer"
  /\ tasks' = Append(tasks, "Reset")
  /\ UNCHANGED <<pipelineVars, uiVars, drawVars, embedderVars, screenVars, mishaps>>

\* Which task the raster thread takes next, if it takes one.
NextTask == IF at[Raster] = "idle" /\ tasks # <<>> THEN Head(tasks) ELSE "none"

\* Does weak_pipeline.lock() find the pipeline when the raster thread is idle?
PipelineLives == Contains(tasks, "DrawMore")

\* Shell::OnAnimatorDraw: the task finds that the pipeline is gone.
SkipDraw ==
  /\ NextTask = "Draw" /\ ~PipelineLives
  /\ tasks' = Tail(tasks)
  /\ UNCHANGED <<shutdown, pipelineVars, uiVars, drawVars, embedderVars, screenVars, mishaps>>

\* rasterizer.reset(): weak references to the Rasterizer are invalid from now on.
ResetRasterizer ==
  /\ NextTask = "Reset"
  /\ tasks' = <<>>
  /\ shutdown' = "done"
  /\ UNCHANGED <<pipelineVars, uiVars, drawVars, embedderVars, screenVars, mishaps>>

\* The raster thread goes on with its Draw or starts another one.
DrawOn ==
  /\ NextTask = "Draw" => PipelineLives
  /\ NextTask # "Reset"
  /\ DrawStep(Raster)
  /\ UNCHANGED shutdown

ShutdownNext ==
  \/ shutdown = "no" /\ Next /\ UNCHANGED shutdown
  \/ DestroyAnimator
  \/ SignalDropped
  \/ PostRasterizerReset
  \/ /\ shutdown \in {"engine", "rasterizer"}
     /\ SkipDraw \/ ResetRasterizer \/ DrawOn

ShutdownSpec == ShutdownInit /\ [][ShutdownNext]_<<vars, shutdown>>

\* The rasterizer draws frames that were prepared, never a null item: "When the
\* resource has been prepared, the producer calls `Complete` on the
\* continuation, which enqueues the resource" (pipeline.h:49-51), and Draw
\* dereferences the item it consumes (rasterizer.cc:260).
ConsumedItemsArePrepared == \A d \in Drawers : frame[d] # Null
=============================================================================
