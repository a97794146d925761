---------------------------- MODULE WindowResize ----------------------------
(***************************************************************************)
(* The resizing of a Flutter view on Windows.  The platform thread blocks  *)
(* the window's message until the raster thread has recreated the surface  *)
(* at the new size and has presented a frame of that size, or until 100 ms *)
(* are over; meanwhile it polls its task runner, which runs the UI isolate *)
(* too (the default thread policy).  A frame reaches the view only if it   *)
(* has the size of the last metrics (Shell::ShouldDiscardLayerTree).       *)
(*                                                                         *)
(* A step is a critical section of resize_mutex_, or what one thread does  *)
(* between two of them.  surface_ is not covered by that mutex on the      *)
(* platform thread.                                                        *)
(***************************************************************************)
EXTENDS Naturals, Sequences

CONSTANTS Sizes,       \* sizes of windows, <<width, height>>
          MaxResizes,  \* bound: size changes of the window
          MaxFrames,   \* bound: frames the application asks for by itself
          MaxNesting,  \* bound: size changes handled inside one another
          MaxFailures  \* bound: EGL calls that fail

ASSUME WindowResizeAssumption ==
  /\ Sizes \subseteq Nat \X Nat
  /\ \A size \in Sizes : <<size[2], size[1]>> \in Sizes
  /\ {MaxResizes, MaxFrames, MaxNesting, MaxFailures} \subseteq Nat

Swapped(size) == <<size[2], size[1]>>

\* A minimised window has no width or no height.
Empty(size) == size[1] = 0 \/ size[2] = 0

\* An empty frame, one without layers, has nothing to be resized for.
Frames == [size : Sizes, empty : BOOLEAN]
NoFrame == [size |-> <<0, 0>>, empty |-> TRUE]

VARIABLES window,    \* the size of the window
          resizes,   \* number of size changes so far
          calls,     \* OnWindowSizeChanged calls that wait
          platform,  \* where the innermost of them is; "idle": there is none
          change,    \* the size that the platform thread has begun to handle
          status,    \* resize_status_
          target,    \* resize_target_width_, resize_target_height_
          surface,   \* surface_: its size and whether it is valid
          wake,      \* wake_up_posted_
          metrics,   \* the last window metrics sent
          wanted,    \* has a frame been scheduled?
          frames,    \* the frames in the pipeline
          asked,     \* frames the application has asked for so far
          raster,    \* where the raster thread is
          frame,     \* the frame it presents
          screen,    \* the size of the last frame presented
          failures,  \* number of failures so far
          mishaps    \* history: what has gone wrong

platformVars == <<window, resizes, calls, platform, change>>
uiVars == <<metrics, wanted, frames, asked>>
resizeVars == <<status, target>>
rasterVars == <<raster, frame, screen, failures>>
vars == <<platformVars, resizeVars, surface, wake, uiVars, rasterVars, mishaps>>

\* The raster thread holds resize_mutex_ for several steps.
Unlocked == raster # "resize"

\* The view is created with a surface of the window's size and shows a frame.
Init ==
  /\ window \in Sizes /\ ~Empty(window)
  /\ resizes = 0 /\ calls = 0 /\ platform = "idle" /\ change = window
  /\ status = "done" /\ target = window
  /\ surface = [size |-> window, valid |-> TRUE]
  /\ wake = FALSE
  /\ metrics = window /\ wanted = FALSE /\ frames = <<>> /\ asked = 0
  /\ raster = "idle" /\ frame = NoFrame /\ screen = window /\ failures = 0
  /\ mishaps = {}

-----------------------------------------------------------------------------
(* The platform thread.                                                    *)

\* FlutterWindowsView::SendWindowMetrics: the isolate gets the metrics at once
\* and schedules a frame; the shell expects frames of that size from now on.
\* The shell ignores metrics that are empty (ValidateViewportMetrics).
SendWindowMetrics(size) ==
  /\ IF Empty(size) THEN UNCHANGED <<metrics, wanted>> ELSE metrics' = size /\ wanted' = TRUE
  /\ UNCHANGED <<frames, asked>>

SurfaceWillUpdate(size) == ~Empty(size) /\ surface.size # size

\* OnWindowSizeChanged, for a message of the window or inside a task that
\* PollOnce runs and that changes the window's size.
OnWindowSizeChanged ==
  /\ platform \in {"idle", "poll"}
  /\ resizes < MaxResizes /\ calls < MaxNesting
  /\ resizes' = resizes + 1
  /\ \E size \in Sizes \ {window} :
       /\ window' = size
       /\ \/ /\ surface.valid /\ SurfaceWillUpdate(size)
             /\ change' = size
             /\ platform' = "begin"
             /\ UNCHANGED <<uiVars, mishaps>>
          \/ /\ ~surface.valid \/ ~SurfaceWillUpdate(size)
             /\ SendWindowMetrics(size)
             /\ platform' = IF platform = "poll" THEN "check" ELSE "idle"
             /\ mishaps' = IF status = "done" THEN mishaps ELSE mishaps \cup {"skipped"}
             /\ UNCHANGED change
  /\ UNCHANGED <<calls, resizeVars, surface, wake, rasterVars>>

BeginResize ==
  /\ platform = "begin" /\ Unlocked
  /\ platform' = "metrics"
  /\ status' = "started"
  /\ target' = change
  /\ UNCHANGED <<window, resizes, calls, change, surface, wake, uiVars, rasterVars,
                 mishaps>>

SendMetrics ==
  /\ platform = "metrics"
  /\ SendWindowMetrics(change)
  /\ calls' = calls + 1
  /\ platform' = "check"
  /\ UNCHANGED <<window, resizes, change, resizeVars, surface, wake, rasterVars, mishaps>>

\* A call returns into PollOnce of the call around it.
ReturnFromCall ==
  /\ calls' = calls - 1
  /\ platform' = IF calls > 1 THEN "check" ELSE "idle"

CheckStatus ==
  /\ platform = "check" /\ Unlocked
  /\ \/ /\ status = "done"
        /\ ReturnFromCall
     \/ /\ status # "done"
        /\ platform' = "poll"
        /\ UNCHANGED calls
  /\ UNCHANGED <<window, resizes, change, resizeVars, surface, wake, uiVars, rasterVars,
                 mishaps>>

\* kWindowResizeTimeout is over, at the head of the loop or in PollOnce.
TimeOut ==
  /\ platform \in {"check", "poll"}
  /\ ReturnFromCall
  /\ mishaps' = mishaps \cup {"late"}
  /\ UNCHANGED <<window, resizes, change, resizeVars, surface, wake, uiVars, rasterVars>>

\* TaskRunnerWindow::PollOnce dispatches WM_NULL and runs the posted tasks.
PollOnce ==
  /\ platform = "poll" /\ wake
  /\ wake' = FALSE
  /\ platform' = "check"
  /\ UNCHANGED <<window, resizes, calls, change, resizeVars, surface, uiVars, rasterVars,
                 mishaps>>

\* Outside a resize, the message loop of the application dispatches it.
RunTasks ==
  /\ platform = "idle" /\ wake
  /\ wake' = FALSE
  /\ UNCHANGED <<platformVars, resizeVars, surface, uiVars, rasterVars, mishaps>>

\* OnWindowRepaint: ForceRedraw reads the status without the mutex.
ForceRedraw ==
  /\ platform = "idle"
  /\ status = "done" /\ ~wanted /\ asked < MaxFrames
  /\ asked' = asked + 1
  /\ wanted' = TRUE
  /\ UNCHANGED <<platformVars, resizeVars, surface, wake, metrics, frames, rasterVars,
                 mishaps>>

-----------------------------------------------------------------------------
(* The UI isolate, in tasks of the platform thread.                        *)

RunsTasks == platform \in {"idle", "poll"}

\* One message is dispatched by each PollOnce.
AfterTask == platform' = IF platform = "poll" THEN "check" ELSE "idle"

RequestFrame ==
  /\ RunsTasks /\ ~wanted /\ asked < MaxFrames
  /\ asked' = asked + 1
  /\ wanted' = TRUE
  /\ AfterTask
  /\ UNCHANGED <<window, resizes, calls, change, resizeVars, surface, wake, metrics, frames,
                 rasterVars, mishaps>>

\* Mutant of BuildFrame: the pipeline is never full.
BuildFrameUnbounded ==
  /\ RunsTasks /\ wanted
  /\ wanted' = FALSE
  /\ frames' = Append(frames, [size |-> metrics, empty |-> FALSE])
  /\ AfterTask
  /\ UNCHANGED <<window, resizes, calls, change, resizeVars, surface, wake, metrics, asked,
                 rasterVars, mishaps>>

BuildFrame ==
  /\ RunsTasks /\ wanted /\ Len(frames) < 2
  /\ wanted' = FALSE
  /\ \E empty \in BOOLEAN :
       frames' = Append(frames, [size |-> metrics, empty |-> empty])
  /\ AfterTask
  /\ UNCHANGED <<window, resizes, calls, change, resizeVars, surface, wake, metrics, asked,
                 rasterVars, mishaps>>

-----------------------------------------------------------------------------
(* The raster thread.                                                      *)

\* Rasterizer::DrawToSurfacesUnsafe and Shell::ShouldDiscardLayerTree
DrawFrame ==
  /\ raster = "idle" /\ frames # <<>>
  /\ frames' = Tail(frames)
  /\ \/ /\ Head(frames).size = metrics
        /\ raster' = "generate"
        /\ frame' = Head(frames)
     \/ /\ Head(frames).size # metrics
        /\ UNCHANGED <<raster, frame>>
  /\ UNCHANGED <<platformVars, resizeVars, surface, wake, metrics, wanted, asked, screen,
                 failures, mishaps>>

EndPresent ==
  /\ raster' = "idle"
  /\ frame' = NoFrame

Fail ==
  /\ failures < MaxFailures
  /\ failures' = failures + 1
  /\ mishaps' = mishaps \cup {"failed"}

\* OnFrameGenerated and OnEmptyFrameGenerated return false: not presented.
RefuseFrame ==
  /\ raster = "generate"
  /\ \/ ~surface.valid
     \/ status = "started" /\ ~frame.empty /\ frame.size # target
  /\ EndPresent
  /\ UNCHANGED <<platformVars, resizeVars, surface, wake, uiVars, screen, failures, mishaps>>

\* They return true: no frame is waited for.
AcceptFrame ==
  /\ raster = "generate"
  /\ surface.valid /\ status # "started"
  /\ raster' = "swap"
  /\ UNCHANGED <<platformVars, resizeVars, surface, wake, uiVars, frame, screen, failures,
                 mishaps>>

\* OnEmptyFrameGenerated passes the height for the width.
NewSurfaceSize == IF frame.empty THEN Swapped(target) ELSE target

\* The resize is completed with a surface of that size.  OnEmptyFrameGenerated
\* does not look at the frame's size; and the frame may be older than the resize,
\* whose metrics have not been sent yet.
FrameGenerated ==
  /\ status' = "generated"
  /\ raster' = "swap"
  /\ mishaps' = mishaps \cup {mishap \in {"misfit", "early"} :
                  \/ mishap = "misfit" /\ frame.empty /\ {NewSurfaceSize, frame.size} # {target}
                  \/ mishap = "early" /\ metrics # target}

\* Mutant of Awaited: the size of the frame is not looked at.
AwaitedAnySize == surface.valid /\ status = "started"

\* The frame is the one the resize waits for.
Awaited ==
  /\ surface.valid /\ status = "started"
  /\ frame.empty \/ frame.size = target

KeepSurface ==
  /\ raster = "generate" /\ Awaited
  /\ surface.size = NewSurfaceSize
  /\ FrameGenerated
  /\ UNCHANGED <<platformVars, target, surface, wake, uiVars, frame, screen, failures>>

\* ResizeRenderSurface destroys the surface, or fails to.
DestroySurface ==
  /\ raster = "generate" /\ Awaited
  /\ surface.size # NewSurfaceSize
  /\ \/ /\ surface' = [surface EXCEPT !.valid = FALSE]
        /\ raster' = "resize"
        /\ UNCHANGED <<frame, failures, mishaps>>
     \/ /\ Fail
        /\ EndPresent
        /\ UNCHANGED surface
  /\ UNCHANGED <<platformVars, resizeVars, wake, uiVars, screen>>

\* ResizeRenderSurface creates the new one, or fails to.
CreateSurface ==
  /\ raster = "resize"
  /\ \/ /\ surface' = [size |-> NewSurfaceSize, valid |-> TRUE]
        /\ FrameGenerated
        /\ UNCHANGED <<frame, failures>>
     \/ /\ Fail
        /\ EndPresent
        /\ UNCHANGED <<surface, status>>
  /\ UNCHANGED <<platformVars, target, wake, uiVars, screen>>

\* CompositorOpenGL::Present makes the surface current and swaps the buffers.
SwapBuffers ==
  /\ raster = "swap"
  /\ \/ /\ raster' = "presented"
        /\ screen' = IF frame.empty THEN surface.size ELSE frame.size
        /\ UNCHANGED <<frame, failures, mishaps>>
     \/ /\ Fail
        /\ EndPresent
        /\ UNCHANGED screen
  /\ UNCHANGED <<platformVars, resizeVars, surface, wake, uiVars>>

\* Mutant of OnFramePresented: the platform thread is not woken.
OnFramePresentedQuietly ==
  /\ raster = "presented"
  /\ EndPresent
  /\ status' = IF status = "generated" THEN "done" ELSE status
  /\ UNCHANGED <<platformVars, target, surface, wake, uiVars, screen, failures, mishaps>>

\* Mutant of OnFramePresented: any frame completes the resize.
OnFramePresentedAlways ==
  /\ raster = "presented"
  /\ EndPresent
  /\ status' = "done"
  /\ wake' = (wake \/ status # "done")
  /\ UNCHANGED <<platformVars, target, surface, uiVars, screen, failures, mishaps>>

\* PostTask wakes the platform thread up if no message is on its way.
OnFramePresented ==
  /\ raster = "presented"
  /\ EndPresent
  /\ \/ /\ status = "generated"
        /\ status' = "done"
        /\ wake' = TRUE
     \/ /\ status # "generated"
        /\ UNCHANGED <<status, wake>>
  /\ UNCHANGED <<platformVars, target, surface, uiVars, screen, failures, mishaps>>

RasterStep ==
  \/ DrawFrame
  \/ RefuseFrame
  \/ AcceptFrame
  \/ KeepSurface
  \/ DestroySurface
  \/ CreateSurface
  \/ SwapBuffers
  \/ OnFramePresented

-----------------------------------------------------------------------------
Next ==
  \/ OnWindowSizeChanged
  \/ BeginResize
  \/ SendMetrics
  \/ CheckStatus
  \/ TimeOut
  \/ PollOnce
  \/ RunTasks
  \/ ForceRedraw
  \/ RequestFrame
  \/ BuildFrame
  \/ RasterStep

Spec == Init /\ [][Next]_vars

\* Threads go on with what they have begun, a scheduled frame is built, and the
\* timer of PollOnce ends a wait for a message that does not come.
Fairness ==
  /\ WF_vars(BeginResize)
  /\ WF_vars(SendMetrics)
  /\ WF_vars(CheckStatus)
  /\ WF_vars(PollOnce)
  /\ WF_vars(TimeOut /\ platform = "poll")
  /\ WF_vars(RunTasks)
  /\ WF_vars(BuildFrame)
  /\ WF_vars(RasterStep)

FairSpec == Spec /\ Fairness

-----------------------------------------------------------------------------
(* Properties.                                                             *)

\* The variables keep their types; a frame is at hand while one is presented.
TypeOK ==
  /\ window \in Sizes /\ change \in Sizes /\ target \in Sizes /\ metrics \in Sizes
  /\ resizes \in 0..MaxResizes /\ calls \in 0..MaxNesting
  /\ platform \in {"idle", "begin", "metrics", "check", "poll"}
  /\ platform \in {"check", "poll"} => calls > 0
  /\ status \in {"started", "generated", "done"}
  /\ surface \in [size : Sizes, valid : BOOLEAN]
  /\ wake \in BOOLEAN /\ wanted \in BOOLEAN
  /\ frames \in Seq(Frames) /\ Len(frames) <= 2
  /\ asked \in 0..MaxFrames
  /\ raster \in {"idle", "generate", "resize", "swap", "presented"}
  /\ frame \in IF raster = "idle" THEN {NoFrame} ELSE Frames
  /\ screen \in Sizes
  /\ failures \in 0..MaxFailures
  /\ mishaps \subseteq {"late", "failed", "misfit", "early", "skipped"}

\* The platform thread does not sleep through the end of a resize: when it
\* waits for a message and the resize is done, the message is there.
DoneWakesThePlatform == platform = "poll" /\ status = "done" => wake

\* A frame is presented on a surface of its own size, nothing is stretched,
\* until one of these has happened: a wait has timed out ("late"), an EGL call
\* has failed ("failed"), an empty frame has completed a resize with a surface
\* of another size ("misfit"), a frame of an earlier resize has completed one whose
\* metrics are not sent yet ("early"), or a size change has been judged by the
\* old surface while a resize was pending ("skipped").
FramesFitTheSurface ==
  raster = "swap" /\ ~frame.empty /\ mishaps = {} => surface.size = frame.size

\* The window, unless it is minimised, ends up with a frame of its size on the
\* screen, and in any case with no resize pending, unless one of these mishaps has
\* happened.
WindowGetsItsFrame ==
  <>[](\/ mishaps # {}
       \/ /\ status = "done"
          /\ Empty(window) \/ (screen = window /\ surface.size = window))
=============================================================================
