---------------------------- MODULE VsyncWaiter ----------------------------
(***************************************************************************)
(* The class VsyncWaiter of shell/common/vsync_waiter.cc.  The UI thread   *)
(* registers one frame callback and any number of secondary callbacks; the *)
(* first registration after a vsync arms the platform (AwaitVSync), and    *)
(* the vsync, on a thread of its own, hands all callbacks over to the UI   *)
(* task queue.                                                             *)
(*                                                                         *)
(* callback_mutex_ is held while the members change, but neither while the *)
(* platform is armed nor while the callbacks are posted: those are steps   *)
(* of their own here.  pause_secondary_tasks is TRUE, as it is on every    *)
(* platform (it is FALSE in tests only).                                   *)
(***************************************************************************)
EXTENDS Naturals, Sequences, FiniteSets

CONSTANT SecondaryIds  \* the keys of secondary_callbacks_

ASSUME VsyncWaiterAssumption == {"await", "frame"} \cap SecondaryIds = {}

VARIABLES callback,   \* is callback_ set?
          secondary,  \* the keys in secondary_callbacks_
          arming,     \* is the UI thread about to call AwaitVSync?
          armed,      \* vsyncs the platform still owes
          firing,     \* what the FireCallback in progress has still to post
          pauses,     \* secondary_pause_requests_ of the UI task queue
          uiTasks     \* the UI task queue

waiterVars == <<callback, secondary, arming, armed, firing, pauses, uiTasks>>

\* "await" is Animator::AwaitVSync, "frame" the task FireCallback posts for
\* the frame callback; a key stands for the task of that secondary callback.
Tasks == {"await", "frame"} \cup SecondaryIds

NotFiring == [callback |-> FALSE, paused |-> FALSE, ids |-> {}]

WaiterInit ==
  /\ callback = FALSE
  /\ secondary = {}
  /\ arming = FALSE
  /\ armed = 0
  /\ firing = NotFiring
  /\ pauses = 0
  /\ uiTasks = <<>>

\* Somebody waits for the next vsync.
Awaited == callback \/ secondary # {}

\* AsyncWaitForVsync, up to the call of AwaitVSync
AsyncWaitForVsync ==
  /\ ~arming
  /\ callback' = TRUE
  /\ arming' = ~Awaited
  /\ UNCHANGED <<secondary, armed, firing, pauses>>

\* Mutant of ScheduleSecondaryCallback: callback_ is not looked at.
ScheduleSecondaryCallbackAlone(id) ==
  /\ ~arming
  /\ secondary' = secondary \cup {id}
  /\ arming' = (secondary = {})
  /\ UNCHANGED <<callback, armed, firing, pauses, uiTasks>>

\* ScheduleSecondaryCallback, up to the call of AwaitVSyncForSecondaryCallback
ScheduleSecondaryCallback(id) ==
  /\ ~arming
  /\ secondary' = secondary \cup {id}
  /\ arming' = ~Awaited
  /\ UNCHANGED <<callback, armed, firing, pauses, uiTasks>>

AwaitVSync ==
  /\ arming
  /\ arming' = FALSE
  /\ armed' = armed + 1
  /\ UNCHANGED <<callback, secondary, firing, pauses, uiTasks>>

\* FireCallback takes all callbacks under the lock.
FireCallback ==
  /\ armed > 0
  /\ firing = NotFiring
  /\ armed' = armed - 1
  /\ firing' = [callback |-> callback, paused |-> FALSE, ids |-> secondary]
  /\ callback' = FALSE
  /\ secondary' = {}
  /\ UNCHANGED <<arming, pauses, uiTasks>>

PauseDartEventLoopTasks ==
  /\ firing.callback
  /\ ~firing.paused
  /\ firing' = [firing EXCEPT !.paused = TRUE]
  /\ pauses' = pauses + 1
  /\ UNCHANGED <<callback, secondary, arming, armed, uiTasks>>

PostFrameCallback ==
  /\ firing.callback
  /\ firing.paused
  /\ firing' = [firing EXCEPT !.callback = FALSE, !.paused = FALSE]
  /\ uiTasks' = Append(uiTasks, "frame")
  /\ UNCHANGED <<callback, secondary, arming, armed, pauses>>

\* The map of the secondary callbacks is walked in any order.
PostSecondaryCallback(id) ==
  /\ ~firing.callback
  /\ id \in firing.ids
  /\ firing' = [firing EXCEPT !.ids = @ \ {id}]
  /\ uiTasks' = Append(uiTasks, id)
  /\ UNCHANGED <<callback, secondary, arming, armed, pauses>>

\* The thread that delivers the vsync.
VsyncStep ==
  \/ FireCallback
  \/ PauseDartEventLoopTasks
  \/ PostFrameCallback
  \/ \E id \in SecondaryIds : PostSecondaryCallback(id)

-----------------------------------------------------------------------------
WaiterTypeOK ==
  /\ callback \in BOOLEAN
  /\ secondary \subseteq SecondaryIds
  /\ arming \in BOOLEAN
  /\ armed \in 0..1
  /\ firing \in [callback : BOOLEAN, paused : BOOLEAN, ids : SUBSET SecondaryIds]
  /\ pauses \in Nat
  /\ uiTasks \in Seq(Tasks)

(* The platform owes a vsync exactly while somebody waits for one, and     *)
(* never more than one: no registration is forgotten because its caller    *)
(* believed the platform armed, none arms it twice, and no vsync is fired  *)
(* for nobody ("MismatchedFrameCallback", vsync_waiter.cc:106-112).        *)
OneVsyncAwaited ==
  armed + (IF arming THEN 1 ELSE 0) = (IF Awaited THEN 1 ELSE 0)
=============================================================================
