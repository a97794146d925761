------------------------- MODULE WindowResizeProofs -------------------------
(***************************************************************************)
(* Theorems about WindowResize, for any set of sizes and any number of     *)
(* size changes inside one another.                                        *)
(*                                                                         *)
(* The types and the wakeup need little besides themselves.  That a frame  *)
(* fits its surface is a matter of what the two threads believe while they *)
(* do not hold resize_mutex_: as long as nothing has gone wrong, a resize  *)
(* that has begun is not completed before its metrics are sent, and        *)
(* outside a resize the surface has the size of the metrics.               *)
(***************************************************************************)
EXTENDS WindowResize, TLAPS

\* A call that has not begun to wait may still do so.
CallsMayWait == platform \in {"begin", "metrics"} => calls < MaxNesting

Typing == TypeOK /\ CallsMayWait

\* OnWindowSizeChanged is between its decision to resize and its metrics
\* (flutter_windows_view.cc:200-217).
Beginning == platform \in {"begin", "metrics"}

\* The size that is being begun is the window's, and is not the one of the metrics.
BeginsSomethingNew ==
  /\ Beginning => window = change /\ ~Empty(change) /\ metrics # change
  /\ platform = "metrics" => status = "started" /\ target = change

\* At any other time the isolate has been told of the window's size; a minimised
\* window awaits no frame.
MetricsAreTheWindows ==
  /\ ~Beginning /\ ~Empty(window) => metrics = window
  /\ Empty(window) => status = "done"

\* With no frame awaited there is a surface, and it has the size of the metrics.
SurfaceMatchesMetrics ==
  /\ status # "started" => surface.valid /\ surface.size = metrics
  /\ surface.valid \/ raster = "resize"

\* What the raster thread has found out about its frame still holds.
FrameIsRight ==
  /\ raster = "generate" /\ status # "started" => frame.size = metrics
  /\ raster = "resize" => status = "started" /\ (frame.empty \/ frame.size = target)
  /\ raster = "swap" /\ ~frame.empty => surface.size = frame.size

FitInv ==
  mishaps = {} =>
    BeginsSomethingNew /\ MetricsAreTheWindows /\ SurfaceMatchesMetrics /\ FrameIsRight

ResizeInv == Typing /\ DoneWakesThePlatform /\ FitInv
-----------------------------------------------------------------------------
(* Types and wakeups.                                                      *)

\* The bounds are natural numbers.
LEMMA Bounds == MaxResizes \in Nat /\ MaxFrames \in Nat /\ MaxNesting \in Nat /\ MaxFailures \in Nat
  BY WindowResizeAssumption DEF WindowResizeAssumption

\* The height for the width.
LEMMA SwappedSize == ASSUME NEW size \in Sizes PROVE Swapped(size) \in Sizes
  BY WindowResizeAssumption DEF WindowResizeAssumption, Swapped

LEMMA TypingInit == Init => Typing
<1> SUFFICES ASSUME Init PROVE Typing
  OBVIOUS
<1>1. <<>> \in Seq(Frames) /\ Len(<<>>) = 0
  OBVIOUS
<1>2. surface \in [size : Sizes, valid : BOOLEAN]
  BY DEF Init
<1>3. frames \in Seq(Frames) /\ Len(frames) <= 2
  BY <1>1 DEF Init
<1>4. frame \in (IF raster = "idle" THEN {NoFrame} ELSE Frames)
  BY DEF Init
<1>5. /\ window \in Sizes /\ change \in Sizes /\ target \in Sizes /\ metrics \in Sizes
      /\ screen \in Sizes
  BY DEF Init
<1>6. wake \in BOOLEAN /\ wanted \in BOOLEAN
  BY DEF Init
<1>7. resizes = 0 /\ calls = 0 /\ asked = 0 /\ failures = 0 /\ platform = "idle" /\ status = "done"
      /\ raster = "idle" /\ mishaps = {}
  BY DEF Init
<1> QED
  BY <1>2, <1>3, <1>4, <1>5, <1>6, <1>7, Bounds DEF Typing, TypeOK, CallsMayWait

LEMMA TypingStep == Typing /\ [Next]_vars => Typing'
<1> SUFFICES ASSUME Typing, [Next]_vars PROVE Typing'
  OBVIOUS
<1> USE Bounds DEF Typing, TypeOK, CallsMayWait
<1>1. CASE OnWindowSizeChanged
  <2>1. PICK size \in Sizes : OnWindowSizeChanged!4!(size)
    BY <1>1 DEF OnWindowSizeChanged
  <2>1a. resizes < MaxResizes /\ calls < MaxNesting /\ resizes' = resizes + 1
    BY <1>1 DEF OnWindowSizeChanged
  <2>2. metrics' \in Sizes /\ wanted' \in BOOLEAN /\ change' \in Sizes /\ window' \in Sizes
    BY <2>1 DEF SendWindowMetrics, uiVars
  <2>3. platform' \in {"idle", "begin", "check"} /\ (platform' = "check" => calls > 0)
    BY <2>1, <1>1 DEF OnWindowSizeChanged
  <2>4. mishaps' \subseteq {"late", "failed", "misfit", "early", "skipped"}
    BY <2>1
  <2>5. asked' = asked /\ frames' = frames
    BY <2>1 DEF SendWindowMetrics, uiVars
  <2> QED
    BY <2>1a, <2>2, <2>3, <2>4, <2>5, <1>1 DEF OnWindowSizeChanged, resizeVars, rasterVars
<1>2. CASE BeginResize
  BY <1>2 DEF BeginResize, Unlocked, vars, platformVars, uiVars, resizeVars, rasterVars
<1>3. CASE SendMetrics
  <2>1. metrics' \in Sizes /\ wanted' \in BOOLEAN /\ asked' = asked /\ frames' = frames
    BY <1>3 DEF SendMetrics, SendWindowMetrics
  <2> QED
    BY <2>1, <1>3 DEF SendMetrics, resizeVars, rasterVars
<1>4. CASE CheckStatus
  BY <1>4 DEF CheckStatus, Unlocked, ReturnFromCall, vars, platformVars, uiVars,
     resizeVars, rasterVars
<1>5. CASE TimeOut
  BY <1>5 DEF TimeOut, ReturnFromCall, vars, platformVars, uiVars, resizeVars, rasterVars
<1>6. CASE PollOnce
  BY <1>6 DEF PollOnce, vars, platformVars, uiVars, resizeVars, rasterVars
<1>7. CASE RunTasks
  BY <1>7 DEF RunTasks, vars, platformVars, uiVars, resizeVars, rasterVars
<1>8. CASE ForceRedraw
  BY <1>8 DEF ForceRedraw, vars, platformVars, uiVars, resizeVars, rasterVars
<1>9. CASE RequestFrame
  BY <1>9 DEF RequestFrame, RunsTasks, AfterTask, vars, platformVars, uiVars, resizeVars,
     rasterVars
<1>10. CASE BuildFrame
  <2>1. PICK empty \in BOOLEAN :
          frames' = Append(frames, [size |-> metrics, empty |-> empty])
    BY <1>10 DEF BuildFrame
  <2>2. [size |-> metrics, empty |-> empty] \in Frames
    BY DEF Frames
  <2>3. frames' \in Seq(Frames) /\ Len(frames') <= 2
    BY <2>1, <2>2, <1>10 DEF BuildFrame
  <2> QED
    BY <2>3, <1>10 DEF BuildFrame, RunsTasks, AfterTask, resizeVars, rasterVars
<1>11. CASE DrawFrame
  BY <1>11 DEF DrawFrame, vars, platformVars, uiVars, resizeVars, rasterVars
<1>12. CASE RefuseFrame
  BY <1>12 DEF RefuseFrame, EndPresent, vars, platformVars, uiVars, resizeVars, rasterVars
<1>13. CASE AcceptFrame
  BY <1>13 DEF AcceptFrame, vars, platformVars, uiVars, resizeVars, rasterVars
<1>14. CASE KeepSurface
  BY <1>14 DEF KeepSurface, Awaited, NewSurfaceSize, FrameGenerated, vars, platformVars,
     uiVars, resizeVars, rasterVars
<1>15. CASE DestroySurface
  <2>1. surface' \in [size : Sizes, valid : BOOLEAN]
    BY <1>15 DEF DestroySurface
  <2>2. raster' \in {"idle",
     "resize"} /\ frame' \in (IF raster' = "idle" THEN {NoFrame} ELSE Frames)
    BY <1>15 DEF DestroySurface, Fail, EndPresent
  <2>3. failures' \in 0..MaxFailures
    BY <1>15 DEF DestroySurface, Fail
  <2>4. mishaps' \subseteq {"late", "failed", "misfit", "early", "skipped"}
    BY <1>15 DEF DestroySurface, Fail
  <2> QED
    BY <2>1, <2>2, <2>3, <2>4, <1>15 DEF DestroySurface, platformVars, uiVars, resizeVars
<1>16. CASE CreateSurface
  <2>1. NewSurfaceSize \in Sizes
    BY SwappedSize DEF NewSurfaceSize
  <2>2a. surface' = [size |-> NewSurfaceSize, valid |-> TRUE] \/ surface' = surface
    BY <1>16 DEF CreateSurface
  <2>2. surface' \in [size : Sizes, valid : BOOLEAN]
    <3>1. surface \in [size : Sizes, valid : BOOLEAN]
      OBVIOUS
    <3>2. [size |-> NewSurfaceSize, valid |-> TRUE] \in [size : Sizes, valid : BOOLEAN]
      BY <2>1
    <3> QED
      BY <2>2a, <3>1, <3>2
  <2>3. raster' \in {"idle",
     "swap"} /\ frame' \in (IF raster' = "idle" THEN {NoFrame} ELSE Frames)
    BY <1>16 DEF CreateSurface, FrameGenerated, Fail, EndPresent
  <2>4. failures' \in 0..MaxFailures /\ status' \in {"started", "generated", "done"}
    BY <1>16 DEF CreateSurface, FrameGenerated, Fail
  <2>5. mishaps' \subseteq {"late", "failed", "misfit", "early", "skipped"}
    BY <1>16 DEF CreateSurface, FrameGenerated, Fail
  <2> QED
    BY <2>2, <2>3, <2>4, <2>5, <1>16 DEF CreateSurface, platformVars, uiVars
<1>17. CASE SwapBuffers
  <2>1. screen' \in Sizes
    BY <1>17 DEF SwapBuffers, Frames
  <2>2. raster' \in {"idle",
     "presented"} /\ frame' \in (IF raster' = "idle" THEN {NoFrame} ELSE Frames)
    BY <1>17 DEF SwapBuffers, Fail, EndPresent
  <2>3. failures' \in 0..MaxFailures
    BY <1>17 DEF SwapBuffers, Fail
  <2>4. mishaps' \subseteq {"late", "failed", "misfit", "early", "skipped"}
    BY <1>17 DEF SwapBuffers, Fail
  <2> QED
    BY <2>1, <2>2, <2>3, <2>4, <1>17 DEF SwapBuffers, platformVars, uiVars, resizeVars
<1>18. CASE OnFramePresented
  BY <1>18 DEF OnFramePresented, EndPresent, vars, platformVars, uiVars, resizeVars,
     rasterVars
<1>19. CASE UNCHANGED vars
  BY <1>19 DEF vars, platformVars, uiVars, resizeVars, rasterVars
<1> QED
  BY <1>1, <1>2, <1>3, <1>4, <1>5, <1>6, <1>7, <1>8, <1>9, <1>10, <1>11, <1>12, <1>13,
     <1>14, <1>15, <1>16, <1>17, <1>18, <1>19 DEF Next, RasterStep

\* A message is on its way by the time the platform thread could wait for a
\* resize that is done.
LEMMA WakeStep == Typing /\ DoneWakesThePlatform /\ [Next]_vars => DoneWakesThePlatform'
<1> SUFFICES ASSUME Typing, DoneWakesThePlatform, [Next]_vars PROVE DoneWakesThePlatform'
  OBVIOUS
<1> USE DEF Typing, TypeOK, DoneWakesThePlatform
<1>1. CASE OnWindowSizeChanged
  BY <1>1 DEF OnWindowSizeChanged, SendWindowMetrics, SurfaceWillUpdate, Empty, vars,
     platformVars, uiVars, resizeVars, rasterVars
<1>2. CASE BeginResize
  BY <1>2 DEF BeginResize, Unlocked, vars, platformVars, uiVars, resizeVars, rasterVars
<1>3. CASE SendMetrics
  BY <1>3 DEF SendMetrics, SendWindowMetrics, Empty, vars, platformVars, uiVars,
     resizeVars, rasterVars
<1>4. CASE CheckStatus
  BY <1>4 DEF CheckStatus, Unlocked, ReturnFromCall, vars, platformVars, uiVars,
     resizeVars, rasterVars
<1>5. CASE TimeOut
  BY <1>5 DEF TimeOut, ReturnFromCall, vars, platformVars, uiVars, resizeVars, rasterVars
<1>6. CASE PollOnce
  BY <1>6 DEF PollOnce, vars, platformVars, uiVars, resizeVars, rasterVars
<1>7. CASE RunTasks
  BY <1>7 DEF RunTasks, vars, platformVars, uiVars, resizeVars, rasterVars
<1>8. CASE ForceRedraw
  BY <1>8 DEF ForceRedraw, vars, platformVars, uiVars, resizeVars, rasterVars
<1>9. CASE RequestFrame
  BY <1>9 DEF RequestFrame, RunsTasks, AfterTask, vars, platformVars, uiVars, resizeVars,
     rasterVars
<1>10. CASE BuildFrame
  BY <1>10 DEF BuildFrame, RunsTasks, AfterTask, Frames, vars, platformVars, uiVars,
     resizeVars, rasterVars
<1>11. CASE DrawFrame
  BY <1>11 DEF DrawFrame, vars, platformVars, uiVars, resizeVars, rasterVars
<1>12. CASE RefuseFrame
  BY <1>12 DEF RefuseFrame, EndPresent, vars, platformVars, uiVars, resizeVars, rasterVars
<1>13. CASE AcceptFrame
  BY <1>13 DEF AcceptFrame, vars, platformVars, uiVars, resizeVars, rasterVars
<1>14. CASE KeepSurface
  BY <1>14 DEF KeepSurface, Awaited, NewSurfaceSize, FrameGenerated, vars, platformVars,
     uiVars, resizeVars, rasterVars
<1>15. CASE DestroySurface
  BY <1>15 DEF DestroySurface, Awaited, NewSurfaceSize, Fail, EndPresent, vars,
     platformVars, uiVars, resizeVars, rasterVars
<1>16. CASE CreateSurface
  BY <1>16 DEF CreateSurface, NewSurfaceSize, FrameGenerated, Fail, EndPresent, vars,
     platformVars, uiVars, resizeVars, rasterVars
<1>17. CASE SwapBuffers
  BY <1>17 DEF SwapBuffers, Fail, EndPresent, vars, platformVars, uiVars, resizeVars,
     rasterVars
<1>18. CASE OnFramePresented
  BY <1>18 DEF OnFramePresented, EndPresent, vars, platformVars, uiVars, resizeVars,
     rasterVars
<1>19. CASE UNCHANGED vars
  BY <1>19 DEF vars, platformVars, uiVars, resizeVars, rasterVars
<1> QED
  BY <1>1, <1>2, <1>3, <1>4, <1>5, <1>6, <1>7, <1>8, <1>9, <1>10, <1>11, <1>12, <1>13,
     <1>14, <1>15, <1>16, <1>17, <1>18, <1>19 DEF Next, RasterStep

-----------------------------------------------------------------------------
(* Frames and surfaces.                                                    *)

\* Mishaps are not forgotten.
LEMMA MishapsStay == [Next]_vars /\ mishaps' = {} => mishaps = {}
<1> SUFFICES ASSUME [Next]_vars, mishaps' = {} PROVE mishaps = {}
  OBVIOUS
<1>1. CASE OnWindowSizeChanged
  BY <1>1 DEF OnWindowSizeChanged
<1>2. CASE TimeOut
  BY <1>2 DEF TimeOut
<1>3. CASE KeepSurface
  BY <1>3 DEF KeepSurface, FrameGenerated
<1>4. CASE DestroySurface
  BY <1>4 DEF DestroySurface, Fail
<1>5. CASE CreateSurface
  BY <1>5 DEF CreateSurface, FrameGenerated, Fail
<1>6. CASE SwapBuffers
  BY <1>6 DEF SwapBuffers, Fail
<1>7. CASE \/ BeginResize \/ SendMetrics \/ CheckStatus \/ PollOnce \/ RunTasks \/ ForceRedraw
           \/ RequestFrame \/ BuildFrame \/ DrawFrame \/ RefuseFrame \/ AcceptFrame
           \/ OnFramePresented
  BY <1>7 DEF BeginResize, SendMetrics, CheckStatus, PollOnce, RunTasks, ForceRedraw,
     RequestFrame,
      BuildFrame, DrawFrame, RefuseFrame, AcceptFrame, OnFramePresented
<1>8. CASE UNCHANGED vars
  BY <1>8 DEF vars
<1> QED
  BY <1>1, <1>2, <1>3, <1>4, <1>5, <1>6, <1>7, <1>8 DEF Next, RasterStep

\* A resize that is completed without a mishap has the size of the metrics, and its
\* surface the right size.
LEMMA GoodCompletion ==
  FrameGenerated /\ mishaps' = {} /\ (frame.empty \/ frame.size = target)
    => metrics = target /\ NewSurfaceSize = target
  BY DEF FrameGenerated, NewSurfaceSize

LEMMA FitInit == Init => FitInv
  BY DEF Init, FitInv, BeginsSomethingNew, Beginning, MetricsAreTheWindows,
     SurfaceMatchesMetrics,
      FrameIsRight

LEMMA FitStep == Typing /\ FitInv /\ [Next]_vars => FitInv'
<1> SUFFICES ASSUME Typing, FitInv, [Next]_vars, mishaps' = {}
             PROVE  (/\ BeginsSomethingNew /\ MetricsAreTheWindows
                     /\ SurfaceMatchesMetrics /\ FrameIsRight)'
  BY DEF FitInv
<1>0. /\ BeginsSomethingNew /\ MetricsAreTheWindows /\ SurfaceMatchesMetrics /\ FrameIsRight
      /\ mishaps = {}
  BY MishapsStay DEF FitInv
<1> USE <1>0 DEF Typing, TypeOK, BeginsSomethingNew, Beginning, MetricsAreTheWindows,
        SurfaceMatchesMetrics, FrameIsRight, Empty
<1>1. CASE OnWindowSizeChanged
  BY <1>1 DEF OnWindowSizeChanged, SendWindowMetrics, SurfaceWillUpdate, Empty, vars,
     platformVars, uiVars, resizeVars, rasterVars
<1>2. CASE BeginResize
  BY <1>2 DEF BeginResize, Unlocked, vars, platformVars, uiVars, resizeVars, rasterVars
<1>3. CASE SendMetrics
  BY <1>3 DEF SendMetrics, SendWindowMetrics, Empty, vars, platformVars, uiVars,
     resizeVars, rasterVars
<1>4. CASE CheckStatus
  BY <1>4 DEF CheckStatus, Unlocked, ReturnFromCall, vars, platformVars, uiVars,
     resizeVars, rasterVars
<1>5. CASE TimeOut
  BY <1>5 DEF TimeOut, ReturnFromCall, vars, platformVars, uiVars, resizeVars, rasterVars
<1>6. CASE PollOnce
  BY <1>6 DEF PollOnce, vars, platformVars, uiVars, resizeVars, rasterVars
<1>7. CASE RunTasks
  BY <1>7 DEF RunTasks, vars, platformVars, uiVars, resizeVars, rasterVars
<1>8. CASE ForceRedraw
  BY <1>8 DEF ForceRedraw, vars, platformVars, uiVars, resizeVars, rasterVars
<1>9. CASE RequestFrame
  BY <1>9 DEF RequestFrame, RunsTasks, AfterTask, vars, platformVars, uiVars, resizeVars,
     rasterVars
<1>10. CASE BuildFrame
  BY <1>10 DEF BuildFrame, RunsTasks, AfterTask, Frames, vars, platformVars, uiVars,
     resizeVars, rasterVars
<1>11. CASE DrawFrame
  BY <1>11 DEF DrawFrame, vars, platformVars, uiVars, resizeVars, rasterVars
<1>12. CASE RefuseFrame
  BY <1>12 DEF RefuseFrame, EndPresent, vars, platformVars, uiVars, resizeVars, rasterVars
<1>13. CASE AcceptFrame
  BY <1>13 DEF AcceptFrame, vars, platformVars, uiVars, resizeVars, rasterVars
<1>14. CASE KeepSurface
  BY <1>14, GoodCompletion DEF KeepSurface, Awaited, NewSurfaceSize, FrameGenerated, vars,
     platformVars, uiVars, resizeVars, rasterVars
<1>15. CASE DestroySurface
  BY <1>15 DEF DestroySurface, Awaited, NewSurfaceSize, Fail, EndPresent, vars,
     platformVars, uiVars, resizeVars, rasterVars
<1>16. CASE CreateSurface
  <2>1. raster = "resize" /\ status = "started" /\ (frame.empty \/ frame.size = target)
    BY <1>16 DEF CreateSurface
  <2>2. FrameGenerated /\ surface' = [size |-> NewSurfaceSize, valid |-> TRUE]
    BY <1>16 DEF CreateSurface, Fail
  <2>3. metrics = target /\ surface' = [size |-> target, valid |-> TRUE]
    BY <2>1, <2>2, GoodCompletion
  <2>4. status' = "generated" /\ raster' = "swap" /\ frame' = frame
    BY <2>2, <1>16 DEF CreateSurface, FrameGenerated, Fail
  <2> QED
    BY <2>1, <2>3, <2>4, <1>16 DEF CreateSurface, platformVars, uiVars
<1>17. CASE SwapBuffers
  BY <1>17 DEF SwapBuffers, Fail, EndPresent, vars, platformVars, uiVars, resizeVars,
     rasterVars
<1>18. CASE OnFramePresented
  BY <1>18 DEF OnFramePresented, EndPresent, vars, platformVars, uiVars, resizeVars,
     rasterVars
<1>19. CASE UNCHANGED vars
  BY <1>19 DEF vars, platformVars, uiVars, resizeVars, rasterVars
<1> QED
  BY <1>1, <1>2, <1>3, <1>4, <1>5, <1>6, <1>7, <1>8, <1>9, <1>10, <1>11, <1>12, <1>13,
     <1>14, <1>15, <1>16, <1>17, <1>18, <1>19 DEF Next, RasterStep

-----------------------------------------------------------------------------
(* Theorems.                                                               *)

LEMMA ResizeInvariant == Spec => []ResizeInv
<1>1. Init => ResizeInv
  BY TypingInit, FitInit DEF ResizeInv, Init, DoneWakesThePlatform
<1>2. ResizeInv /\ [Next]_vars => ResizeInv'
  BY TypingStep, WakeStep, FitStep DEF ResizeInv
<1> QED
  BY <1>1, <1>2, PTL DEF Spec

\* The variables keep their types whatever the sizes and however many size changes
\* are handled inside one another; in particular the pipeline of frames stays within
\* its depth and no call returns that has not been made.
THEOREM ResizeTypeCorrect == Spec => []TypeOK
  BY ResizeInvariant, PTL DEF ResizeInv, Typing

\* The platform thread never sleeps through the end of a resize: a message is on its
\* way when it polls (flutter_windows_view.cc:219-231, 682-700).
THEOREM EndOfResizeIsNoticed == Spec => []DoneWakesThePlatform
  BY ResizeInvariant, PTL DEF ResizeInv

\* Frames are presented on surfaces of their own size, for any set of sizes and any
\* nesting, until one of the listed mishaps has happened
\* (flutter_windows_view.cc:148-177).
THEOREM PresentedFramesFit == Spec => []FramesFitTheSurface
<1>1. ResizeInv => FramesFitTheSurface
  BY DEF ResizeInv, FitInv, FrameIsRight, FramesFitTheSurface
<1> QED
  BY <1>1, ResizeInvariant, PTL
=============================================================================
