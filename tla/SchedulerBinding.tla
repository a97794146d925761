-------------------------- MODULE SchedulerBinding --------------------------
(***************************************************************************)
(* The scheduler of the framework: the Dart object that asks the engine    *)
(* for frames and runs the callbacks of a frame phase by phase.  A frame   *)
(* comes from the engine, in one event of the isolate, or is the warm-up   *)
(* frame, which two timers run, so that an engine's frame may come between *)
(* them and is then postponed.                                             *)
(*                                                                         *)
(* The isolate has one thread.  A step is what it does between two points  *)
(* at which callbacks, microtasks or events of the application can call    *)
(* the scheduler; these calls may come in every phase.  The engine is what *)
(* FrameScheduling promises: a request leads to one frame, and requests    *)
(* made before that frame begins are one (RequestsLeadToFrames).           *)
(***************************************************************************)
EXTENDS Naturals, Sequences

CONSTANTS Tickers,   \* those who schedule transient callbacks
          MaxPosts   \* bound: callbacks waiting when the engine adds a frame

ASSUME SchedulerAssumption == MaxPosts \in Nat

\* The priorities of tasks; only the first one is served during animations.
Priorities == {"animation", "idle"}

VARIABLES phase,      \* _schedulerPhase
          running,    \* whose frame code is on the stack
          hasScheduledFrame,
          requested,  \* does the engine owe a frame?
          framesEnabled,
          dirty,      \* history: a visual update waits for a draw
          warmUp,     \* the next timer of the warm-up frame; "none": no _warmUpFrame
          hadScheduledFrame,
          reschedule, \* _rescheduleAfterWarmUpFrame
          tickers,    \* owners of _transientCallbacks
          current,    \* those whose callbacks the frame has still to call
          posts,      \* _postFrameCallbacks of the scheduler's own
          local,      \* localPostFrameCallbacks still to be called
          completer,  \* is there a _nextFrameCompleter?
          late,       \* history: it was made by a post-frame callback
          locked,     \* the lock of lockEvents; "released": its future is complete
          tasks,      \* _taskQueue
          eventLoop   \* _hasRequestedAnEventLoopCallback

requestVars == <<hasScheduledFrame, requested>>
frameVars == <<phase, running>>
warmUpVars == <<warmUp, hadScheduledFrame, reschedule>>
tickerVars == <<tickers, current>>
postVars == <<posts, local, completer, late>>
taskVars == <<locked, tasks, eventLoop>>
vars == <<frameVars, requestVars, framesEnabled, dirty, warmUpVars, tickerVars, postVars,
          taskVars>>

Init ==
  /\ phase = "idle" /\ running = "none"
  /\ hasScheduledFrame = FALSE /\ requested = FALSE
  /\ framesEnabled = TRUE
  /\ dirty = FALSE
  /\ warmUp = "none" /\ hadScheduledFrame = FALSE /\ reschedule = FALSE
  /\ tickers = {} /\ current = {}
  /\ posts = <<>> /\ local = <<>> /\ completer = FALSE /\ late = FALSE
  /\ locked = "no" /\ tasks = {} /\ eventLoop = FALSE

-----------------------------------------------------------------------------
(* Calls of the application, in any phase.                                 *)

\* scheduleFrame and scheduleForcedFrame, which does not ask for framesEnabled
ScheduleFrameIf(enabled) ==
  IF hasScheduledFrame \/ ~enabled
    THEN UNCHANGED requestVars
    ELSE hasScheduledFrame' = TRUE /\ requested' = TRUE

ScheduleFrame == ScheduleFrameIf(framesEnabled)

ScheduleForcedFrame ==
  /\ ScheduleFrameIf(TRUE)
  /\ UNCHANGED <<frameVars, framesEnabled, dirty, warmUpVars, tickerVars, postVars, taskVars>>

\* Mutant of EnsureVisualUpdate: a frame in its last phase counts as well.
EnsureVisualUpdateIdle ==
  /\ phase # "persistent"
  /\ dirty' = TRUE
  /\ IF phase = "idle" THEN ScheduleFrame ELSE UNCHANGED requestVars
  /\ UNCHANGED <<frameVars, framesEnabled, warmUpVars, tickerVars, postVars, taskVars>>

\* In the phase of the persistent callbacks the frame is being drawn: no effect.
EnsureVisualUpdate ==
  /\ phase # "persistent"
  /\ dirty' = TRUE
  /\ IF phase \in {"idle", "post"} THEN ScheduleFrame ELSE UNCHANGED requestVars
  /\ UNCHANGED <<frameVars, framesEnabled, warmUpVars, tickerVars, postVars, taskVars>>

\* scheduleFrameCallback and cancelFrameCallbackWithId.  An id that has been
\* removed matters if the frame would still call it.
ScheduleFrameCallback(k) ==
  /\ k \notin tickers \cup current
  /\ tickers' = tickers \cup {k}
  /\ ScheduleFrame
  /\ UNCHANGED <<frameVars, framesEnabled, dirty, warmUpVars, current, postVars, taskVars>>

CancelFrameCallback(k) ==
  /\ k \in tickers \cup current
  /\ tickers' = tickers \ {k}
  /\ current' = current \ {k}
  /\ UNCHANGED <<frameVars, requestVars, framesEnabled, dirty, warmUpVars, postVars,
                 taskVars>>

EndOfFrame ==
  IF completer
    THEN UNCHANGED <<requestVars, postVars>>
    ELSE /\ completer' = TRUE
         /\ late' = (phase = "post")
         /\ posts' = Append(posts, "complete")
         /\ IF phase = "idle" THEN ScheduleFrame ELSE UNCHANGED requestVars
         /\ UNCHANGED local

AwaitEndOfFrame ==
  /\ EndOfFrame
  /\ UNCHANGED <<frameVars, framesEnabled, dirty, warmUpVars, tickerVars, taskVars>>

\* Events are locked until the end of the frame.
ScheduleWarmUpFrame ==
  /\ warmUp = "none" /\ phase = "idle"
  /\ warmUp' = "begin"
  /\ hadScheduledFrame' = hasScheduledFrame
  /\ locked' = "waiting"
  /\ EndOfFrame
  /\ UNCHANGED <<frameVars, framesEnabled, dirty, reschedule, tickerVars, tasks, eventLoop>>

\* handleAppLifecycleStateChanged, from a state with frames to one without, or back
SetFramesEnabledState ==
  /\ framesEnabled' = ~framesEnabled
  /\ IF framesEnabled THEN UNCHANGED requestVars ELSE ScheduleFrameIf(TRUE)
  /\ UNCHANGED <<frameVars, dirty, warmUpVars, tickerVars, postVars, taskVars>>

ScheduleTask(priority) ==
  /\ priority \notin tasks
  /\ tasks' = tasks \cup {priority}
  /\ eventLoop' = (eventLoop \/ (tasks = {} /\ locked = "no"))
  /\ UNCHANGED <<frameVars, requestVars, framesEnabled, dirty, warmUpVars, tickerVars,
                 postVars, locked>>

Application ==
  \/ ScheduleForcedFrame
  \/ EnsureVisualUpdate
  \/ \E k \in Tickers : ScheduleFrameCallback(k) \/ CancelFrameCallback(k)
  \/ AwaitEndOfFrame
  \/ ScheduleWarmUpFrame
  \/ SetFramesEnabledState
  \/ \E priority \in Priorities : ScheduleTask(priority)

-----------------------------------------------------------------------------
(* Events of the isolate: the engine's frames and timers.                  *)

\* The engine schedules a frame by itself, for new metrics or a new surface.
EngineSchedulesFrame ==
  /\ ~requested
  /\ Len(posts) < MaxPosts
  /\ requested' = TRUE
  /\ UNCHANGED <<frameVars, hasScheduledFrame, framesEnabled, dirty, warmUpVars, tickerVars,
                 postVars, taskVars>>

HandleBeginFrame(who) ==
  /\ running' = who
  /\ phase' = "transient"
  /\ hasScheduledFrame' = FALSE
  /\ current' = tickers
  /\ tickers' = {}

\* Mutant of EngineBeginFrame: the warm-up frame is not looked at.
EngineBeginFrameAlways ==
  /\ running = "none" /\ requested
  /\ requested' = FALSE
  /\ HandleBeginFrame("engine")
  /\ UNCHANGED <<framesEnabled, dirty, warmUpVars, postVars, taskVars>>

\* _handleBeginFrame
EngineBeginFrame ==
  /\ running = "none" /\ requested
  /\ requested' = FALSE
  /\ \/ /\ warmUp # "none"
        /\ running' = "engine"
        /\ reschedule' = TRUE
        /\ UNCHANGED <<phase, hasScheduledFrame, tickerVars>>
     \/ /\ warmUp = "none"
        /\ HandleBeginFrame("engine")
        /\ UNCHANGED reschedule
  /\ UNCHANGED <<framesEnabled, dirty, warmUp, hadScheduledFrame, postVars, taskVars>>

\* The timer that begins the warm-up frame.
WarmUpBeginFrame ==
  /\ running = "none" /\ warmUp = "begin"
  /\ warmUp' = "draw"
  /\ HandleBeginFrame("warmUp")
  /\ UNCHANGED <<requested, framesEnabled, dirty, hadScheduledFrame, reschedule, postVars,
                 taskVars>>

\* A transient callback; that of a ticker that goes on schedules the next one.
InvokeTransientCallback(k) ==
  /\ phase = "transient" /\ k \in current
  /\ current' = current \ {k}
  /\ \/ /\ tickers' = tickers \cup {k}
        /\ ScheduleFrame
     \/ UNCHANGED <<tickers, requestVars>>
  /\ UNCHANGED <<frameVars, framesEnabled, dirty, warmUpVars, postVars, taskVars>>

\* The begin of the frame is over; the timer of the warm-up frame returns.
EndTransientCallbacks ==
  /\ phase = "transient" /\ current = {}
  /\ phase' = "microtasks"
  /\ running' = IF running = "warmUp" THEN "none" ELSE running
  /\ UNCHANGED <<requestVars, framesEnabled, dirty, warmUpVars, tickerVars, postVars,
                 taskVars>>

\* _handleDrawFrame of a frame that has come during the warm-up frame
PostponeFrame ==
  /\ running = "engine" /\ reschedule
  /\ reschedule' = FALSE
  /\ running' = "none"
  /\ posts' = Append(posts, "reschedule")
  /\ UNCHANGED <<phase, requestVars, framesEnabled, dirty, warmUp, hadScheduledFrame,
                 tickerVars, local, completer, late, taskVars>>

\* handleDrawFrame, called by the engine or by the second timer
HandleDrawFrame ==
  /\ phase = "microtasks"
  /\ \/ running = "engine" /\ ~reschedule /\ UNCHANGED running
     \/ running = "none" /\ warmUp = "draw" /\ running' = "warmUp"
  /\ phase' = "persistent"
  /\ dirty' = FALSE
  /\ UNCHANGED <<requestVars, framesEnabled, warmUpVars, tickerVars, postVars, taskVars>>

StartPostFrameCallbacks ==
  /\ phase = "persistent"
  /\ phase' = "post"
  /\ local' = posts
  /\ posts' = <<>>
  /\ UNCHANGED <<running, requestVars, framesEnabled, dirty, warmUpVars, tickerVars,
                 completer, late, taskVars>>

\* The callback of endOfFrame.
CompleteNextFrame ==
  /\ phase = "post" /\ local # <<>> /\ Head(local) = "complete"
  /\ local' = Tail(local)
  /\ completer' = FALSE
  /\ late' = FALSE
  /\ locked' = IF locked = "waiting" THEN "released" ELSE locked
  /\ UNCHANGED <<frameVars, requestVars, framesEnabled, dirty, warmUpVars, tickerVars,
                 posts, tasks, eventLoop>>

\* Mutant of RescheduleFrame: _hasScheduledFrame is not reset.
RescheduleFrameUnlessScheduled ==
  /\ phase = "post" /\ local # <<>> /\ Head(local) = "reschedule"
  /\ local' = Tail(local)
  /\ ScheduleFrame
  /\ UNCHANGED <<frameVars, framesEnabled, dirty, warmUpVars, tickerVars, posts, completer,
                 late, taskVars>>

\* The callback that forces the frame that has been postponed.
RescheduleFrame ==
  /\ phase = "post" /\ local # <<>> /\ Head(local) = "reschedule"
  /\ local' = Tail(local)
  /\ hasScheduledFrame' = framesEnabled
  /\ requested' = (requested \/ framesEnabled)
  /\ UNCHANGED <<frameVars, framesEnabled, dirty, warmUpVars, tickerVars, posts, completer,
                 late, taskVars>>

\* The frame is over.  Microtasks run at once: the lock is given up, and tasks
\* that were scheduled meanwhile ask for the event loop (unlocked).
EndFrame ==
  /\ phase = "post" /\ local = <<>>
  /\ phase' = "idle"
  /\ running' = "none"
  /\ IF running = "warmUp"
       THEN /\ warmUp' = "none"
            /\ IF hadScheduledFrame THEN ScheduleFrame ELSE UNCHANGED requestVars
       ELSE UNCHANGED <<warmUp, requestVars>>
  /\ IF locked = "released"
       THEN locked' = "no" /\ eventLoop' = (eventLoop \/ tasks # {})
       ELSE UNCHANGED <<locked, eventLoop>>
  /\ UNCHANGED <<framesEnabled, dirty, hadScheduledFrame, reschedule, tickerVars, postVars,
                 tasks>>

\* defaultSchedulingStrategy, for the first task of the queue
Serves(priority) ==
  /\ priority \in tasks
  /\ priority = "idle" => "animation" \notin tasks /\ tickers = {}

\* _runTasks: the timer is set again while there are tasks, run or refused.
RunTasks ==
  /\ running = "none" /\ eventLoop
  /\ \/ /\ locked = "no"
        /\ \E priority \in Priorities :
             /\ Serves(priority)
             /\ tasks' = tasks \ {priority}
             /\ eventLoop' = (tasks # {priority})
     \/ /\ locked # "no" \/ tasks = {}
        /\ eventLoop' = FALSE
        /\ UNCHANGED tasks
  /\ UNCHANGED <<frameVars, requestVars, framesEnabled, dirty, warmUpVars, tickerVars,
                 postVars, locked>>

FrameStep ==
  \/ \E k \in Tickers : InvokeTransientCallback(k)
  \/ EndTransientCallbacks
  \/ PostponeFrame
  \/ StartPostFrameCallbacks
  \/ CompleteNextFrame
  \/ RescheduleFrame
  \/ EndFrame

-----------------------------------------------------------------------------
Next ==
  \/ Application
  \/ EngineSchedulesFrame
  \/ EngineBeginFrame
  \/ WarmUpBeginFrame
  \/ HandleDrawFrame
  \/ RunTasks
  \/ FrameStep

Spec == Init /\ [][Next]_vars

\* A frame that has begun goes on, the engine keeps its promise, and the event
\* loop takes the events in order, so that a timer has its turn.
Fairness ==
  /\ WF_vars(FrameStep)
  /\ SF_vars(HandleDrawFrame)
  /\ SF_vars(EngineBeginFrame)
  /\ SF_vars(WarmUpBeginFrame)
  /\ SF_vars(RunTasks)

FairSpec == Spec /\ Fairness

-----------------------------------------------------------------------------
(* Properties.                                                             *)

\* The variables keep their types, and "begin frame" and "draw frame" strictly
\* alternate, over the two timers of the warm-up frame and the frames of the
\* engine: no assertion on the phase fails.
TypeOK ==
  /\ phase \in {"idle", "transient", "microtasks", "persistent", "post"}
  /\ running \in {"none", "engine", "warmUp"}
  /\ {hasScheduledFrame, requested, framesEnabled, dirty, hadScheduledFrame, reschedule,
      completer, late, eventLoop} \subseteq BOOLEAN
  /\ warmUp \in {"none", "begin", "draw"}
  /\ tickers \subseteq Tickers /\ current \subseteq Tickers
  /\ posts \in Seq({"complete", "reschedule"}) /\ local \in Seq({"complete", "reschedule"})
  /\ locked \in {"no", "waiting", "released"}
  /\ tasks \subseteq Priorities
  /\ warmUp = "begin" => phase = "idle"
  /\ warmUp = "draw" => phase # "idle"
  /\ running = "none" => phase = "idle" \/ (phase = "microtasks" /\ warmUp = "draw")
  /\ reschedule => running = "engine" /\ warmUp # "none"
  /\ local # <<>> => phase = "post"

\* A postponed frame that will be scheduled again.
Postponed ==
  reschedule \/ \E i \in 1..Len(posts \o local) : (posts \o local)[i] = "reschedule"

\* When the framework believes that it has scheduled a frame, the engine owes
\* one, or the frame has been postponed; otherwise no frame would ever be
\* scheduled again.
ScheduledFramesAreRequested == hasScheduledFrame => requested \/ Postponed

\* While frames are enabled, a visual update is drawn; events are unlocked; the
\* end of a frame is announced to those who await it, unless they have begun in
\* a post-frame callback, which schedules nothing (binding.dart:849); tasks are run when there are no more warm-up frames, those of
\* a low priority if animations end.
NothingWaitsForever ==
  /\ dirty /\ framesEnabled ~> ~dirty \/ ~framesEnabled
  /\ locked # "no" ~> locked = "no"
  /\ completer /\ ~late /\ framesEnabled ~> ~completer \/ ~framesEnabled
  /\ <>[](warmUp = "none") => ("animation" \in tasks ~> "animation" \notin tasks)
  /\ <>[](warmUp = "none" /\ tickers = {} /\ "animation" \notin tasks) =>
       ("idle" \in tasks ~> "idle" \notin tasks)
=============================================================================
