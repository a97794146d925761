----------------------- MODULE SchedulerBindingProofs -----------------------
(***************************************************************************)
(* Proofs about SchedulerBinding for any tickers, and whatever the calls   *)
(* of the application between two frames and inside one.  The inductive    *)
(* invariant says which frame is on the stack in which phase, and what is  *)
(* in the two lists of post-frame callbacks: the callback that completes   *)
(* endOfFrame is there exactly when somebody waits for it, and once.       *)
(***************************************************************************)
EXTENDS SchedulerBinding, SequenceTheorems, TLAPS

Phases == {"idle", "transient", "microtasks", "persistent", "post"}
Callbacks == {"complete", "reschedule"}

Types ==
  /\ phase \in Phases
  /\ running \in {"none", "engine", "warmUp"}
  /\ hasScheduledFrame \in BOOLEAN /\ requested \in BOOLEAN /\ framesEnabled \in BOOLEAN
  /\ dirty \in BOOLEAN /\ hadScheduledFrame \in BOOLEAN /\ reschedule \in BOOLEAN
  /\ completer \in BOOLEAN /\ late \in BOOLEAN /\ eventLoop \in BOOLEAN
  /\ warmUp \in {"none", "begin", "draw"}
  /\ tickers \subseteq Tickers /\ current \subseteq Tickers
  /\ posts \in Seq(Callbacks) /\ local \in Seq(Callbacks)
  /\ locked \in {"no", "waiting", "released"}
  /\ tasks \subseteq Priorities

\* The engine's frame and the warm-up frame: which of them is on the stack, in
\* which phase; a frame is postponed only between the two timers.
Alternation ==
  /\ running = "none" => phase = "idle" \/ (phase = "microtasks" /\ warmUp = "draw")
  /\ running = "engine" /\ ~reschedule => warmUp = "none" /\ phase # "idle"
  /\ reschedule => /\ running = "engine"
                   /\ \/ warmUp = "begin" /\ phase = "idle"
                      \/ warmUp = "draw" /\ phase = "microtasks"
  /\ running = "warmUp" => warmUp = "draw" /\ phase \in {"transient", "persistent", "post"}
  /\ warmUp = "begin" => phase = "idle"
  /\ warmUp = "draw" => phase # "idle"
  /\ local # <<>> => phase = "post"

Holds(callbacks, what) == \E i \in 1..Len(callbacks) : callbacks[i] = what

CompletesOnce(callbacks) ==
  \A i, j \in 1..Len(callbacks) :
    callbacks[i] = "complete" /\ callbacks[j] = "complete" => i = j

(* _nextFrameCompleter! is completed once and never when it is null: its   *)
(* callback is in one of the two lists, once, exactly while it exists      *)
(* (binding.dart:848-858).                                                 *)
CompleterIsCompletedOnce ==
  /\ completer <=> Holds(posts, "complete") \/ Holds(local, "complete")
  /\ ~(Holds(posts, "complete") /\ Holds(local, "complete"))
  /\ CompletesOnce(posts) /\ CompletesOnce(local)

(* Events are locked for the whole warm-up frame, until its post-frame     *)
(* callbacks, and the lock waits for an end of frame that is announced     *)
(* (binding.dart:1038-1110).                                               *)
EventsAreLocked ==
  /\ locked = "waiting" => completer
  /\ locked = "released" => phase = "post"
  /\ warmUp = "begin" => locked = "waiting"
  /\ warmUp = "draw" /\ phase # "post" => locked = "waiting"

(* A task that waits, with events not locked, has a callback of the event  *)
(* loop to run it (binding.dart:470-510).                                  *)
TasksHaveAnEvent == tasks # {} /\ locked = "no" => eventLoop

-----------------------------------------------------------------------------
(* The lists of post-frame callbacks.                                      *)

LEMMA Added ==
  ASSUME NEW q \in Seq(Callbacks), NEW y \in Callbacks
  PROVE  /\ Append(q, y) \in Seq(Callbacks)
         /\ \A what : Holds(Append(q, y), what) <=> Holds(q, what) \/ y = what
         /\ CompletesOnce(q) /\ ~(y = "complete" /\ Holds(q, "complete"))
              => CompletesOnce(Append(q, y))
<1>1. /\ Append(q, y) \in Seq(Callbacks) /\ Len(Append(q, y)) = Len(q) + 1 /\ Len(q) \in Nat
      /\ Append(q, y)[Len(q) + 1] = y
      /\ \A i \in 1..Len(q) : Append(q, y)[i] = q[i]
  BY AppendProperties, LenProperties
<1>2. \A what : Holds(Append(q, y), what) <=> Holds(q, what) \/ y = what
  <2> SUFFICES ASSUME NEW what PROVE Holds(Append(q, y), what) <=> Holds(q, what) \/ y = what
    OBVIOUS
  <2>1. \A i \in 1..Len(q) + 1 : i \in 1..Len(q) \/ i = Len(q) + 1
    BY <1>1
  <2>2. \A i \in 1..Len(q) : i \in 1..Len(q) + 1
    BY <1>1
  <2>3. Len(q) + 1 \in 1..Len(q) + 1
    BY <1>1
  <2>. QED
    BY <1>1, <2>1, <2>2, <2>3 DEF Holds
<1>3. CompletesOnce(q) /\ ~(y = "complete" /\ Holds(q, "complete")) => CompletesOnce(Append(q, y))
  BY <1>1 DEF CompletesOnce, Holds
<1>. QED
  BY <1>1, <1>2, <1>3

LEMMA Taken ==
  ASSUME NEW q \in Seq(Callbacks), q # <<>>
  PROVE  /\ Head(q) \in Callbacks /\ Tail(q) \in Seq(Callbacks)
         /\ \A what : Holds(q, what) <=> Head(q) = what \/ Holds(Tail(q), what)
         /\ CompletesOnce(q) =>
              CompletesOnce(Tail(q)) /\ ~(Head(q) = "complete" /\ Holds(Tail(q), "complete"))
<1>1. /\ Head(q) \in Callbacks /\ Tail(q) \in Seq(Callbacks) /\ Head(q) = q[1]
      /\ Len(q) \in Nat /\ Len(q) > 0 /\ Len(Tail(q)) = Len(q) - 1
      /\ \A i \in 1..Len(q) - 1 : Tail(q)[i] = q[i + 1]
  BY HeadTailProperties, LenProperties, EmptySeq
<1>2. \A what : Holds(q, what) <=> Head(q) = what \/ Holds(Tail(q), what)
  <2> SUFFICES ASSUME NEW what PROVE Holds(q, what) <=> Head(q) = what \/ Holds(Tail(q), what)
    OBVIOUS
  <2>1. \A i \in 1..Len(q) : i = 1 \/ (i - 1 \in 1..Len(q) - 1 /\ Tail(q)[i - 1] = q[i])
    BY <1>1
  <2>2. 1 \in 1..Len(q) /\ \A i \in 1..Len(q) - 1 : i + 1 \in 1..Len(q)
    BY <1>1
  <2>. QED
    BY <1>1, <2>1, <2>2 DEF Holds
<1>3. ASSUME CompletesOnce(q)
      PROVE  CompletesOnce(Tail(q)) /\ ~(Head(q) = "complete" /\ Holds(Tail(q), "complete"))
  <2>1. \A i \in 1..Len(q) - 1 : i + 1 \in 1..Len(q) /\ i + 1 # 1
    BY <1>1
  <2>2. CompletesOnce(Tail(q))
    BY <1>1, <1>3, <2>1 DEF CompletesOnce
  <2>3. ~(Head(q) = "complete" /\ Holds(Tail(q), "complete"))
    BY <1>1, <1>3, <2>1 DEF CompletesOnce, Holds
  <2>. QED
    BY <2>2, <2>3
<1>. QED
  BY <1>1, <1>2, <1>3

LEMMA None ==
  <<>> \in Seq(Callbacks) /\ CompletesOnce(<<>>) /\ \A what : ~Holds(<<>>, what)
BY DEF Holds, CompletesOnce

LEMMA Joined ==
  ASSUME NEW p \in Seq(Callbacks), NEW q \in Seq(Callbacks), NEW what
  PROVE  Holds(p \o q, what) <=> Holds(p, what) \/ Holds(q, what)
<1>. DEFINE both == p \o q
<1>1. /\ Len(p) \in Nat /\ Len(q) \in Nat /\ Len(both) = Len(p) + Len(q)
      /\ \A i \in 1..Len(both) : both[i] = IF i <= Len(p) THEN p[i] ELSE q[i - Len(p)]
  BY ConcatProperties, LenProperties
<1>. HIDE DEF both
<1>2. \A i \in 1..Len(p) : i \in 1..Len(both) /\ both[i] = p[i]
  BY <1>1
<1>3. \A i \in 1..Len(q) : i + Len(p) \in 1..Len(both) /\ both[i + Len(p)] = q[i]
  BY <1>1
<1>4. \A i \in 1..Len(both) :
        (i \in 1..Len(p) /\ both[i] = p[i])
        \/ (i - Len(p) \in 1..Len(q) /\ both[i] = q[i - Len(p)])
  BY <1>1
<1>5. Holds(both, what) <=> Holds(p, what) \/ Holds(q, what)
  BY <1>2, <1>3, <1>4 DEF Holds
<1>. QED
  BY <1>5 DEF both

-----------------------------------------------------------------------------
(* The steps.                                                              *)

LEMMA FrameRequests ==
  ASSUME Types,
         \/ ScheduleFrame
         \/ ScheduleFrameIf(TRUE)
         \/ UNCHANGED requestVars
  PROVE  hasScheduledFrame' \in BOOLEAN /\ requested' \in BOOLEAN
BY DEF Types, ScheduleFrame, ScheduleFrameIf, requestVars

LEMMA TypesStep ==
  ASSUME Types, [Next]_vars
  PROVE  Types'
<1>. USE DEF Types
<1>1. CASE UNCHANGED vars
  BY <1>1 DEF vars, frameVars, requestVars, warmUpVars, tickerVars, postVars, taskVars
<1>0. "complete" \in Callbacks /\ "reschedule" \in Callbacks
  BY DEF Callbacks
<1>. USE DEF HandleBeginFrame, frameVars, warmUpVars, tickerVars, postVars, taskVars, Phases
<1>2. CASE ScheduleForcedFrame
  BY <1>2, FrameRequests DEF ScheduleForcedFrame
<1>3. CASE EnsureVisualUpdate
  <2>1. hasScheduledFrame' \in BOOLEAN /\ requested' \in BOOLEAN
    BY <1>3, FrameRequests DEF EnsureVisualUpdate
  <2>. QED
    BY <1>3, <2>1 DEF EnsureVisualUpdate
<1>4. CASE \E k \in Tickers : ScheduleFrameCallback(k)
  BY <1>4, FrameRequests DEF ScheduleFrameCallback
<1>5. CASE \E k \in Tickers : CancelFrameCallback(k)
  BY <1>5 DEF CancelFrameCallback, requestVars
<1>6. CASE AwaitEndOfFrame
  <2>1. completer' \in BOOLEAN /\ late' \in BOOLEAN
    BY <1>6 DEF AwaitEndOfFrame, EndOfFrame
  <2>2. posts' \in Seq(Callbacks) /\ local' \in Seq(Callbacks)
    BY <1>6, <1>0, Added DEF AwaitEndOfFrame, EndOfFrame
  <2>3. hasScheduledFrame' \in BOOLEAN /\ requested' \in BOOLEAN
    BY <1>6, FrameRequests DEF AwaitEndOfFrame, EndOfFrame, requestVars
  <2>. QED
    BY <1>6, <2>1, <2>2, <2>3 DEF AwaitEndOfFrame
<1>7. CASE ScheduleWarmUpFrame
  <2>1. completer' \in BOOLEAN /\ late' \in BOOLEAN
    BY <1>7 DEF ScheduleWarmUpFrame, EndOfFrame
  <2>2. posts' \in Seq(Callbacks) /\ local' \in Seq(Callbacks)
    BY <1>7, <1>0, Added DEF ScheduleWarmUpFrame, EndOfFrame
  <2>3. hasScheduledFrame' \in BOOLEAN /\ requested' \in BOOLEAN
    BY <1>7, FrameRequests DEF ScheduleWarmUpFrame, EndOfFrame, requestVars
  <2>. QED
    BY <1>7, <2>1, <2>2, <2>3 DEF ScheduleWarmUpFrame
<1>8. CASE SetFramesEnabledState
  <2>1. hasScheduledFrame' \in BOOLEAN /\ requested' \in BOOLEAN
    BY <1>8, FrameRequests DEF SetFramesEnabledState
  <2>2. framesEnabled' \in BOOLEAN
    BY <1>8 DEF SetFramesEnabledState
  <2>. QED
    BY <1>8, <2>1, <2>2 DEF SetFramesEnabledState
<1>9. CASE \E priority \in Priorities : ScheduleTask(priority)
  BY <1>9 DEF ScheduleTask, requestVars
<1>10. CASE EngineSchedulesFrame
  BY <1>10 DEF EngineSchedulesFrame, requestVars
<1>11. CASE EngineBeginFrame
  BY <1>11 DEF EngineBeginFrame, requestVars
<1>12. CASE WarmUpBeginFrame
  BY <1>12 DEF WarmUpBeginFrame, requestVars
<1>13. CASE HandleDrawFrame
  BY <1>13 DEF HandleDrawFrame, requestVars
<1>14. CASE RunTasks
  <2>1. tasks' \subseteq Priorities
    BY <1>14 DEF RunTasks
  <2>2. eventLoop' \in BOOLEAN
    BY <1>14 DEF RunTasks
  <2>. QED
    BY <1>14, <2>1, <2>2 DEF RunTasks, requestVars
<1>15. CASE \E k \in Tickers : InvokeTransientCallback(k)
  <2>1. hasScheduledFrame' \in BOOLEAN /\ requested' \in BOOLEAN
    BY <1>15, FrameRequests DEF InvokeTransientCallback
  <2>2. tickers' \subseteq Tickers /\ current' \subseteq Tickers
    BY <1>15 DEF InvokeTransientCallback
  <2>. QED
    BY <1>15, <2>1, <2>2 DEF InvokeTransientCallback
<1>16. CASE EndTransientCallbacks
  BY <1>16 DEF EndTransientCallbacks, requestVars
<1>17. CASE PostponeFrame
  <2>1. posts' \in Seq(Callbacks)
    BY <1>17, <1>0, Added DEF PostponeFrame
  <2>2. phase' \in Phases /\ running' \in {"none", "engine", "warmUp"} /\ reschedule' \in BOOLEAN
    BY <1>17 DEF PostponeFrame
  <2>. QED
    BY <1>17, <2>1, <2>2 DEF PostponeFrame, requestVars
<1>18. CASE StartPostFrameCallbacks
  BY <1>18, None DEF StartPostFrameCallbacks, requestVars
<1>19. CASE CompleteNextFrame
  BY <1>19, Taken DEF CompleteNextFrame, requestVars
<1>20. CASE RescheduleFrame
  BY <1>20, Taken DEF RescheduleFrame, requestVars
<1>21. CASE EndFrame
  BY <1>21, FrameRequests DEF EndFrame
<1>. QED
  BY <1>1, <1>2, <1>3, <1>4, <1>5, <1>6, <1>7, <1>8, <1>9, <1>10, <1>11, <1>12, <1>13, <1>14, <1>15, <1>16, <1>17, <1>18, <1>19, <1>20, <1>21 DEF Next, Application, FrameStep

LEMMA AlternationStep ==
  ASSUME Types, Alternation, [Next]_vars
  PROVE  Alternation'
<1>. USE DEF Types, Alternation, Phases
<1>1. CASE UNCHANGED vars
  BY <1>1 DEF vars, frameVars, requestVars, warmUpVars, tickerVars, postVars, taskVars
<1>. USE DEF HandleBeginFrame, frameVars, warmUpVars, tickerVars, postVars, taskVars
<1>2. CASE ScheduleForcedFrame
  BY <1>2 DEF ScheduleForcedFrame
<1>3. CASE EnsureVisualUpdate
  BY <1>3 DEF EnsureVisualUpdate
<1>4. CASE \E k \in Tickers : ScheduleFrameCallback(k)
  BY <1>4 DEF ScheduleFrameCallback
<1>5. CASE \E k \in Tickers : CancelFrameCallback(k)
  BY <1>5 DEF CancelFrameCallback
<1>6. CASE AwaitEndOfFrame
  BY <1>6 DEF AwaitEndOfFrame, EndOfFrame
<1>7. CASE ScheduleWarmUpFrame
  BY <1>7 DEF ScheduleWarmUpFrame, EndOfFrame
<1>8. CASE SetFramesEnabledState
  BY <1>8 DEF SetFramesEnabledState
<1>9. CASE \E priority \in Priorities : ScheduleTask(priority)
  BY <1>9 DEF ScheduleTask
<1>10. CASE EngineSchedulesFrame
  BY <1>10 DEF EngineSchedulesFrame
<1>11. CASE EngineBeginFrame
  BY <1>11 DEF EngineBeginFrame
<1>12. CASE WarmUpBeginFrame
  BY <1>12 DEF WarmUpBeginFrame
<1>13. CASE HandleDrawFrame
  BY <1>13 DEF HandleDrawFrame
<1>14. CASE RunTasks
  BY <1>14 DEF RunTasks
<1>15. CASE \E k \in Tickers : InvokeTransientCallback(k)
  BY <1>15 DEF InvokeTransientCallback
<1>16. CASE EndTransientCallbacks
  BY <1>16 DEF EndTransientCallbacks
<1>17. CASE PostponeFrame
  BY <1>17 DEF PostponeFrame
<1>18. CASE StartPostFrameCallbacks
  BY <1>18 DEF StartPostFrameCallbacks
<1>19. CASE CompleteNextFrame
  BY <1>19 DEF CompleteNextFrame
<1>20. CASE RescheduleFrame
  BY <1>20 DEF RescheduleFrame
<1>21. CASE EndFrame
  BY <1>21 DEF EndFrame
<1>. QED
  BY <1>1, <1>2, <1>3, <1>4, <1>5, <1>6, <1>7, <1>8, <1>9, <1>10, <1>11, <1>12, <1>13, <1>14, <1>15, <1>16, <1>17, <1>18, <1>19, <1>20, <1>21 DEF Next, Application, FrameStep

\* What a step does to the lists of callbacks, and to a postponed frame.
ListsKept == UNCHANGED <<posts, local, completer>> /\ (reschedule => reschedule')
CompleterMade ==
  /\ ~completer /\ completer' /\ posts' = Append(posts, "complete")
  /\ UNCHANGED <<local, reschedule>>
FramePostponed == posts' = Append(posts, "reschedule") /\ UNCHANGED <<local, completer>>
ListsSwapped ==
  phase = "persistent" /\ local' = posts /\ posts' = <<>> /\ UNCHANGED <<completer, reschedule>>
CompleterCalled ==
  /\ local # <<>> /\ Head(local) = "complete" /\ local' = Tail(local)
  /\ ~completer' /\ UNCHANGED <<posts, reschedule>>
FrameForced ==
  /\ local # <<>> /\ Head(local) = "reschedule" /\ local' = Tail(local)
  /\ UNCHANGED <<posts, completer>>
  /\ hasScheduledFrame' => requested'

LEMMA ListSteps ==
  ASSUME Types, [Next]_vars
  PROVE  \/ ListsKept \/ CompleterMade \/ FramePostponed \/ ListsSwapped \/ CompleterCalled
         \/ FrameForced
<1>. USE DEF ListsKept, CompleterMade, FramePostponed, ListsSwapped, CompleterCalled, FrameForced,
             postVars, warmUpVars, Types
<1>1. CASE UNCHANGED vars
  BY <1>1 DEF vars
<1>2. CASE Application
  BY <1>2 DEF Application, ScheduleForcedFrame, EnsureVisualUpdate, ScheduleFrameCallback,
     CancelFrameCallback, AwaitEndOfFrame, ScheduleWarmUpFrame, SetFramesEnabledState,
     ScheduleTask, EndOfFrame
<1>3. CASE EngineSchedulesFrame \/ EngineBeginFrame \/ WarmUpBeginFrame \/ HandleDrawFrame \/ RunTasks
  BY <1>3 DEF EngineSchedulesFrame, EngineBeginFrame, WarmUpBeginFrame, HandleDrawFrame, RunTasks
<1>4. CASE FrameStep
  BY <1>4 DEF FrameStep, InvokeTransientCallback, EndTransientCallbacks, PostponeFrame,
     StartPostFrameCallbacks, CompleteNextFrame, RescheduleFrame, EndFrame
<1>. QED
  BY <1>1, <1>2, <1>3, <1>4 DEF Next

LEMMA CompleterStep ==
  ASSUME Types, Alternation, CompleterIsCompletedOnce, [Next]_vars
  PROVE  CompleterIsCompletedOnce'
<1>. posts \in Seq(Callbacks) /\ local \in Seq(Callbacks)
     /\ "complete" \in Callbacks /\ "reschedule" \in Callbacks
  BY DEF Types, Callbacks
<1>. USE DEF CompleterIsCompletedOnce
<1>1. CASE ListsKept
  BY <1>1 DEF ListsKept
<1>2. CASE CompleterMade
  BY <1>2, Added DEF CompleterMade
<1>3. CASE FramePostponed
  BY <1>3, Added DEF FramePostponed
<1>4. CASE ListsSwapped
  <2>1. local = <<>>
    BY <1>4 DEF ListsSwapped, Alternation
  <2>. QED
    BY <1>4, <2>1, None DEF ListsSwapped
<1>5. CASE CompleterCalled
  BY <1>5, Taken DEF CompleterCalled
<1>6. CASE FrameForced
  BY <1>6, Taken DEF FrameForced
<1>. QED
  BY <1>1, <1>2, <1>3, <1>4, <1>5, <1>6, ListSteps

\* What a step does to the requests of frames.
LEMMA RequestSteps ==
  ASSUME Types, [Next]_vars
  PROVE  \/ hasScheduledFrame' => requested'
         \/ reschedule'
         \/ (hasScheduledFrame' => hasScheduledFrame) /\ (requested => requested')
<1>. USE DEF Types, ScheduleFrame, ScheduleFrameIf, HandleBeginFrame, requestVars, warmUpVars
<1>1. CASE UNCHANGED vars
  BY <1>1 DEF vars
<1>2. CASE Application
  BY <1>2 DEF Application, ScheduleForcedFrame, EnsureVisualUpdate, ScheduleFrameCallback,
     CancelFrameCallback, AwaitEndOfFrame, ScheduleWarmUpFrame, SetFramesEnabledState,
     ScheduleTask, EndOfFrame
<1>3. CASE EngineSchedulesFrame \/ EngineBeginFrame \/ WarmUpBeginFrame \/ HandleDrawFrame \/ RunTasks
  BY <1>3 DEF EngineSchedulesFrame, EngineBeginFrame, WarmUpBeginFrame, HandleDrawFrame, RunTasks
<1>4. CASE FrameStep
  BY <1>4 DEF FrameStep, InvokeTransientCallback, EndTransientCallbacks, PostponeFrame,
     StartPostFrameCallbacks, CompleteNextFrame, RescheduleFrame, EndFrame
<1>. QED
  BY <1>1, <1>2, <1>3, <1>4 DEF Next

LEMMA RequestedStep ==
  ASSUME Types, Types', Alternation, ScheduledFramesAreRequested, [Next]_vars
  PROVE  ScheduledFramesAreRequested'
<1>. posts \in Seq(Callbacks) /\ local \in Seq(Callbacks)
     /\ posts' \in Seq(Callbacks) /\ local' \in Seq(Callbacks)
     /\ "complete" \in Callbacks /\ "reschedule" \in Callbacks
  BY DEF Types, Callbacks
<1>. DEFINE Later == Holds(posts, "reschedule") \/ Holds(local, "reschedule")
<1>1. Postponed <=> reschedule \/ Later
  <2>1. Holds(posts \o local, "reschedule") <=> Later
    BY Joined
  <2>2. Postponed <=> reschedule \/ Holds(posts \o local, "reschedule")
    BY DEF Postponed, Holds
  <2>. QED
    BY <2>1, <2>2
<1>2. Postponed' <=> reschedule' \/ Later'
  <2>1. Holds(posts \o local, "reschedule")' <=> Later'
    BY Joined
  <2>2. Postponed' <=> reschedule' \/ Holds(posts \o local, "reschedule")'
    BY DEF Postponed, Holds
  <2>. QED
    BY <2>1, <2>2
<1>3. Postponed => Postponed' \/ (hasScheduledFrame' => requested')
  <2>1. CASE ListsKept
    BY <1>1, <1>2, <2>1 DEF ListsKept
  <2>2. CASE CompleterMade
    BY <1>1, <1>2, <2>2, Added DEF CompleterMade
  <2>3. CASE FramePostponed
    BY <1>1, <1>2, <2>3, Added DEF FramePostponed
  <2>4. CASE ListsSwapped
    BY <1>1, <1>2, <2>4, None DEF ListsSwapped, Alternation
  <2>5. CASE CompleterCalled
    BY <1>1, <1>2, <2>5, Taken DEF CompleterCalled
  <2>6. CASE FrameForced
    BY <2>6 DEF FrameForced
  <2>. QED
    BY <2>1, <2>2, <2>3, <2>4, <2>5, <2>6, ListSteps
<1>. QED
  BY <1>2, <1>3, RequestSteps DEF ScheduledFramesAreRequested

LEMMA LockStep ==
  ASSUME Types, Alternation, CompleterIsCompletedOnce, EventsAreLocked, [Next]_vars
  PROVE  EventsAreLocked'
<1>. posts \in Seq(Callbacks) /\ local \in Seq(Callbacks)
  BY DEF Types
<1>. USE DEF EventsAreLocked, Alternation, Types, Phases, HandleBeginFrame, frameVars, warmUpVars, postVars,
             taskVars
<1>1. CASE UNCHANGED vars
  BY <1>1 DEF vars
<1>2. CASE Application
  BY <1>2 DEF Application, ScheduleForcedFrame, EnsureVisualUpdate, ScheduleFrameCallback,
     CancelFrameCallback, AwaitEndOfFrame, ScheduleWarmUpFrame, SetFramesEnabledState,
     ScheduleTask, EndOfFrame
<1>3. CASE EngineSchedulesFrame \/ EngineBeginFrame \/ WarmUpBeginFrame \/ HandleDrawFrame \/ RunTasks
  BY <1>3 DEF EngineSchedulesFrame, EngineBeginFrame, WarmUpBeginFrame, HandleDrawFrame, RunTasks
<1>4. CASE FrameStep
  BY <1>4 DEF FrameStep, InvokeTransientCallback, EndTransientCallbacks, PostponeFrame,
     StartPostFrameCallbacks, CompleteNextFrame, RescheduleFrame, EndFrame
<1>. QED
  BY <1>1, <1>2, <1>3, <1>4 DEF Next

LEMMA TasksStep ==
  ASSUME Types, TasksHaveAnEvent, [Next]_vars
  PROVE  TasksHaveAnEvent'
<1>. USE DEF TasksHaveAnEvent, Types, taskVars
<1>1. CASE UNCHANGED vars
  BY <1>1 DEF vars
<1>2. CASE Application
  BY <1>2 DEF Application, ScheduleForcedFrame, EnsureVisualUpdate, ScheduleFrameCallback,
     CancelFrameCallback, AwaitEndOfFrame, ScheduleWarmUpFrame, SetFramesEnabledState,
     ScheduleTask
<1>3. CASE EngineSchedulesFrame \/ EngineBeginFrame \/ WarmUpBeginFrame \/ HandleDrawFrame \/ RunTasks
  BY <1>3 DEF EngineSchedulesFrame, EngineBeginFrame, WarmUpBeginFrame, HandleDrawFrame, RunTasks
<1>4. CASE FrameStep
  BY <1>4 DEF FrameStep, InvokeTransientCallback, EndTransientCallbacks, PostponeFrame,
     StartPostFrameCallbacks, CompleteNextFrame, RescheduleFrame, EndFrame
<1>. QED
  BY <1>1, <1>2, <1>3, <1>4 DEF Next

SchedulerInv ==
  /\ Types
  /\ Alternation
  /\ ScheduledFramesAreRequested
  /\ CompleterIsCompletedOnce
  /\ EventsAreLocked
  /\ TasksHaveAnEvent

LEMMA SchedulerInvInit == Init => SchedulerInv
<1> SUFFICES ASSUME Init PROVE SchedulerInv
  OBVIOUS
<1>1. Types /\ Alternation /\ ScheduledFramesAreRequested /\ EventsAreLocked /\ TasksHaveAnEvent
  BY None DEF Init, Types, Phases, Alternation, ScheduledFramesAreRequested, EventsAreLocked,
     TasksHaveAnEvent
<1>2. CompleterIsCompletedOnce
  BY None DEF Init, CompleterIsCompletedOnce
<1>. QED
  BY <1>1, <1>2 DEF SchedulerInv

LEMMA SchedulerInvariant == Spec => []SchedulerInv
<1>1. SchedulerInv /\ [Next]_vars => SchedulerInv'
  BY TypesStep, AlternationStep, RequestedStep, CompleterStep, LockStep, TasksStep DEF SchedulerInv
<1>. QED
  BY <1>1, SchedulerInvInit, PTL DEF Spec

\* The scheduler's variables keep their types, and "begin frame" and "draw frame"
\* alternate over the engine's frames and the timers of the warm-up frame: no
\* assertion on schedulerPhase fails (binding.dart:1253, 1339).
THEOREM SchedulerTypeCorrect == Spec => []TypeOK
<1>1. SchedulerInv => TypeOK
  BY DEF SchedulerInv, Types, Alternation, TypeOK, Phases, Callbacks
<1>. QED
  BY <1>1, SchedulerInvariant, PTL

\* While _hasScheduledFrame keeps scheduleFrame from asking again, the engine owes
\* a frame or a postponed frame will be forced, whatever the order of warm-up and
\* engine frames and of the calls in between.
THEOREM ScheduledFramesComeFromTheEngine == Spec => []ScheduledFramesAreRequested
BY SchedulerInvariant, PTL DEF SchedulerInv

\* The future of endOfFrame is completed once: its callback is never missing and
\* never there twice.
THEOREM EndOfFrameCompletesOnce == Spec => []CompleterIsCompletedOnce
BY SchedulerInvariant, PTL DEF SchedulerInv

\* No event is dispatched between the two halves of the warm-up frame.
THEOREM WarmUpFramesLockEvents == Spec => []EventsAreLocked
BY SchedulerInvariant, PTL DEF SchedulerInv

\* No task is left in the queue without a timer that runs it.
THEOREM TasksAreNotForgotten == Spec => []TasksHaveAnEvent
BY SchedulerInvariant, PTL DEF SchedulerInv
=============================================================================
