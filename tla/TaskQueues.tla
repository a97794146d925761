----------------------------- MODULE TaskQueues -----------------------------
(***************************************************************************)
(* MessageLoopTaskQueues and the message loops it feeds (fml/).  Every     *)
(* loop has a queue of delayed tasks; a queue may be merged into the queue *)
(* of another loop, which then runs its tasks, and the Dart event loop's   *)
(* tasks of a queue may be paused.  A loop sleeps until its timer, which   *)
(* every operation on the queues has to keep early enough.                 *)
(*                                                                         *)
(* All methods of MessageLoopTaskQueues hold queue_mutex_ throughout: each *)
(* is one atomic step, and loops and other threads interleave between      *)
(* them.  A task acts through the methods it calls: it may merge, unmerge  *)
(* or, if it is the task of a vsync, resume what that vsync has paused.    *)
(* The timer stands for the Wakeable of the platform (a timerfd on Linux   *)
(* and Android).                                                           *)
(***************************************************************************)
EXTENDS Integers, FiniteSets

CONSTANTS Queues,     \* the task queues, one for each message loop
          kUnmerged,  \* TaskQueueId::kUnmerged
          MaxTime,    \* bound: the clock stops here
          MaxTasks    \* bound: tasks registered

ASSUME TaskQueuesAssumption ==
  /\ kUnmerged \notin Queues
  /\ MaxTime \in Nat
  /\ MaxTasks \in Nat

VARIABLES tasks,       \* the delayed tasks of each queue
          pauses,      \* secondary_pause_requests_ of its task source
          owner_of,    \* the queues that each queue has subsumed
          subsumed_by, \* the queue each queue has been merged into
          order,       \* order_: number of tasks registered
          vsync,       \* has the queue's vsync paused, but not posted yet?
          clock,       \* the time
          timer,       \* when the loop's timer goes off
          loop,        \* what each message loop is doing
          from_time,   \* when its flush has begun
          running      \* the task it runs

queueVars == <<tasks, pauses, order, vsync>>
mergeVars == <<owner_of, subsumed_by>>
loopVars == <<loop, from_time, running>>
vars == <<queueVars, mergeVars, clock, timer, loopVars>>

Times == 0..MaxTime
Never == MaxTime + 1  \* a timer that is not armed

\* "frame" is the task FireCallback posts: it ends with a resume.  "dart" is
\* TaskSourceGrade::kDartEventLoop, the other kinds are primary tasks.
Kinds == {"plain", "frame", "dart"}

Tasks == [order : Nat, due : Times, kind : Kinds, queue : Queues]

NoTask == [order |-> 0, due |-> 0, kind |-> "none", queue |-> kUnmerged]

Init ==
  /\ tasks = [q \in Queues |-> {}]
  /\ pauses = [q \in Queues |-> 0]
  /\ owner_of = [q \in Queues |-> {}]
  /\ subsumed_by = [q \in Queues |-> kUnmerged]
  /\ order = 0
  /\ vsync = [q \in Queues |-> FALSE]
  /\ clock = 0
  /\ timer = [q \in Queues |-> Never]
  /\ loop = [q \in Queues |-> "waiting"]
  /\ from_time = [q \in Queues |-> 0]
  /\ running = [q \in Queues |-> NoTask]

\* The tasks a task source gives out: TaskSource::Top and IsEmpty.
Unpaused(q) == {x \in tasks[q] : x.kind = "dart" => pauses[q] = 0}

\* The tasks loop q may run: none if its queue is subsumed, else its own and
\* those of the queues it owns.
Pending(q) ==
  IF subsumed_by[q] # kUnmerged THEN {}
  ELSE UNION {Unpaused(r) : r \in owner_of[q] \cup {q}}

\* DelayedTask::operator>, the other way round
Before(x, y) == x.due < y.due \/ (x.due = y.due /\ x.order < y.order)

\* PeekNextTaskUnlocked
IsNext(x, q) == x \in Pending(q) /\ \A y \in Pending(q) \ {x} : Before(x, y)

\* The loop that runs the tasks of queue q.
LoopOf(q) == IF subsumed_by[q] = kUnmerged THEN q ELSE subsumed_by[q]

\* if (HasPendingTasksUnlocked(q)) WakeUpUnlocked(q, GetNextWakeTimeUnlocked(q))
\* for every q of a set, after the change this step makes to the queues.
WakeUp(loops) ==
  \E times \in [loops -> Times \cup {Never}] :
    /\ \A q \in loops :
         IF Pending(q)' = {} THEN times[q] = timer[q]
         ELSE \E x \in Pending(q)' :
                times[q] = x.due /\ \A y \in Pending(q)' : x.due <= y.due
    /\ timer' = [q \in Queues |-> IF q \in loops THEN times[q] ELSE timer[q]]

-----------------------------------------------------------------------------
(* The methods that any thread calls.                                      *)

\* The bound on tasks leaves room for the task of every vsync that has paused.
Room == order + Cardinality({q \in Queues : vsync[q]}) < MaxTasks

\* Mutant of RegisterTask: the queue's own loop is woken up, subsumed or not.
RegisterTaskUnrouted(q, kind, due) ==
  /\ order' = order + 1
  /\ tasks' = [tasks EXCEPT ![q] = @ \cup
                {[order |-> order, due |-> due, kind |-> kind, queue |-> q]}]
  /\ UNCHANGED <<pauses, mergeVars, clock, loopVars>>
  /\ WakeUp({q})

RegisterTask(q, kind, due) ==
  /\ order' = order + 1
  /\ tasks' = [tasks EXCEPT ![q] = @ \cup
                {[order |-> order, due |-> due, kind |-> kind, queue |-> q]}]
  /\ UNCHANGED <<pauses, mergeVars, clock, loopVars>>
  /\ WakeUp({LoopOf(q)})

\* A thread posts a task to run now or later.
PostTask(q) ==
  /\ Room
  /\ \E kind \in {"plain", "dart"}, due \in clock..MaxTime : RegisterTask(q, kind, due)
  /\ UNCHANGED vsync

\* VsyncWaiter::FireCallback pauses the Dart event loop, then posts its task.
PauseSecondarySource(q) ==
  /\ Room
  /\ ~vsync[q]
  /\ vsync' = [vsync EXCEPT ![q] = TRUE]
  /\ pauses' = [pauses EXCEPT ![q] = @ + 1]
  /\ UNCHANGED <<tasks, order, mergeVars, clock, timer, loopVars>>

PostFrameTask(q) ==
  /\ vsync[q]
  /\ RegisterTask(q, "frame", clock)
  /\ vsync' = [vsync EXCEPT ![q] = FALSE]

Tick ==
  /\ clock < MaxTime
  /\ clock' = clock + 1
  /\ UNCHANGED <<queueVars, mergeVars, timer, loopVars>>

-----------------------------------------------------------------------------
(* A message loop.                                                         *)

\* The timer goes off and is drained: FlushTasks begins.
OnEventFired(q) ==
  /\ loop[q] = "waiting"
  /\ timer[q] <= clock
  /\ timer' = [timer EXCEPT ![q] = Never]
  /\ loop' = [loop EXCEPT ![q] = "flushing"]
  /\ from_time' = [from_time EXCEPT ![q] = clock]
  /\ UNCHANGED <<queueVars, mergeVars, clock, running>>

\* GetNextTaskToRun finds no task, or none that is due.
StopFlushing(q) ==
  /\ loop[q] = "flushing"
  /\ loop' = [loop EXCEPT ![q] = "waiting"]
  /\ \/ /\ Pending(q) = {}
        /\ UNCHANGED timer
     \/ \E x \in Pending(q) :
          /\ IsNext(x, q)
          /\ x.due > from_time[q]
          /\ timer' = [timer EXCEPT ![q] = x.due]
  /\ UNCHANGED <<queueVars, mergeVars, clock, from_time, running>>

\* GetNextTaskToRun sets the timer by the task it is about to pop.
GetNextTaskToRun(q) ==
  /\ loop[q] = "flushing"
  /\ \E x \in Pending(q) :
       /\ IsNext(x, q)
       /\ x.due <= from_time[q]
       /\ timer' = [timer EXCEPT ![q] = x.due]
       /\ tasks' = [tasks EXCEPT ![x.queue] = @ \ {x}]
       /\ running' = [running EXCEPT ![q] = x]
  /\ loop' = [loop EXCEPT ![q] = "running"]
  /\ UNCHANGED <<pauses, order, vsync, mergeVars, clock, from_time>>

\* Mutant of EndTask: every task resumes the Dart event loop.
EndTaskResuming(q) ==
  /\ loop[q] = "running"
  /\ loop' = [loop EXCEPT ![q] = "flushing"]
  /\ running' = [running EXCEPT ![q] = NoTask]
  /\ UNCHANGED <<tasks, order, vsync, mergeVars, clock, from_time>>
  /\ pauses' = [pauses EXCEPT ![running[q].queue] = @ - 1]
  /\ WakeUp({running[q].queue})

\* The task returns; the task of a vsync resumes the Dart event loop first
\* (ResumeSecondarySource).
EndTask(q) ==
  /\ loop[q] = "running"
  /\ loop' = [loop EXCEPT ![q] = "flushing"]
  /\ running' = [running EXCEPT ![q] = NoTask]
  /\ UNCHANGED <<tasks, order, vsync, mergeVars, clock, from_time>>
  /\ IF running[q].kind = "frame"
     THEN /\ pauses' = [pauses EXCEPT ![running[q].queue] = @ - 1]
          /\ WakeUp({running[q].queue})
     ELSE UNCHANGED <<pauses, timer>>

\* Mutant of Merge: the owner is not woken up for the tasks it takes over.
MergeQuietly(owner, subsumed) ==
  /\ loop[subsumed] = "running"
  /\ running[subsumed].kind # "frame"
  /\ owner # subsumed
  /\ subsumed_by[owner] = kUnmerged
  /\ owner_of[subsumed] = {}
  /\ subsumed_by[subsumed] = kUnmerged
  /\ owner_of' = [owner_of EXCEPT ![owner] = @ \cup {subsumed}]
  /\ subsumed_by' = [subsumed_by EXCEPT ![subsumed] = owner]
  /\ UNCHANGED <<queueVars, clock, timer, loopVars>>

\* A task of loop `subsumed` merges its loop into another one: the raster
\* thread in the middle of a frame, or the UI thread at launch.
Merge(owner, subsumed) ==
  /\ loop[subsumed] = "running"
  /\ running[subsumed].kind # "frame"
  /\ owner # subsumed
  /\ subsumed_by[owner] = kUnmerged
  /\ owner_of[subsumed] = {}
  /\ subsumed_by[subsumed] = kUnmerged
  /\ owner_of' = [owner_of EXCEPT ![owner] = @ \cup {subsumed}]
  /\ subsumed_by' = [subsumed_by EXCEPT ![subsumed] = owner]
  /\ UNCHANGED <<queueVars, clock, loopVars>>
  /\ WakeUp({owner})

\* The owner's thread, in a task or in a call from the platform (~Shell), gives
\* the loop its tasks back.
Unmerge(owner, subsumed) ==
  /\ loop[owner] # "flushing"
  /\ running[owner].kind # "frame"
  /\ subsumed_by[owner] = kUnmerged
  /\ subsumed \in owner_of[owner]
  /\ owner_of' = [owner_of EXCEPT ![owner] = @ \ {subsumed}]
  /\ subsumed_by' = [subsumed_by EXCEPT ![subsumed] = kUnmerged]
  /\ UNCHANGED <<queueVars, clock, loopVars>>
  /\ WakeUp({owner, subsumed})

LoopStep(q) ==
  \/ OnEventFired(q)
  \/ StopFlushing(q)
  \/ GetNextTaskToRun(q)
  \/ EndTask(q)

Next ==
  \/ \E q \in Queues :
       \/ PostTask(q)
       \/ PauseSecondarySource(q)
       \/ PostFrameTask(q)
       \/ LoopStep(q)
  \/ \E owner, subsumed \in Queues : Merge(owner, subsumed) \/ Unmerge(owner, subsumed)
  \/ Tick

Spec == Init /\ [][Next]_vars

(* Time passes, every loop that can run does, and a vsync that has paused  *)
(* the Dart event loop posts its task.                                     *)
Fairness ==
  /\ WF_vars(Tick)
  /\ \A q \in Queues : WF_vars(LoopStep(q)) /\ WF_vars(PostFrameTask(q))

FairSpec == Spec /\ Fairness

-----------------------------------------------------------------------------
TypeOK ==
  /\ tasks \in [Queues -> SUBSET Tasks]
  /\ pauses \in [Queues -> Nat]
  /\ owner_of \in [Queues -> SUBSET Queues]
  /\ subsumed_by \in [Queues -> Queues \cup {kUnmerged}]
  /\ order \in Nat
  /\ vsync \in [Queues -> BOOLEAN]
  /\ clock \in Times
  /\ timer \in [Queues -> Times \cup {Never}]
  /\ loop \in [Queues -> {"waiting", "flushing", "running"}]
  /\ from_time \in [Queues -> Times]
  /\ running \in [Queues -> Tasks \cup {NoTask}]

(* "A TaskQueue can be in exactly one of the following three states": the  *)
(* owner of others, subsumed by one (an owner can never be subsumed), or   *)
(* independent (message_loop_task_queues.h:113-117); owner_of and          *)
(* subsumed_by say the same, whatever the order of merges and unmerges.    *)
MergesAreFlat ==
  /\ \A q \in Queues : subsumed_by[q] # kUnmerged => owner_of[q] = {}
  /\ \A q, r \in Queues : r \in owner_of[q] <=> subsumed_by[r] = q

(* No wakeup is lost: a loop that sleeps wakes up no later than the first  *)
(* task it is to run is due, although tasks are registered with another    *)
(* queue, queues change hands and task sources are paused and resumed      *)
(* while it sleeps (message_loop_task_queues.cc:92-140, 247-252, 292-301,  *)
(* 327-334).                                                               *)
SleepersWakeInTime ==
  \A q \in Queues :
    loop[q] = "waiting" => \A x \in Pending(q) : timer[q] <= x.due

(* A vsync's task resumes its queue on the loop that runs that queue, even *)
(* if queues were merged since the vsync paused it; a resume that came     *)
(* from elsewhere would wake nobody (message_loop_task_queues.cc:327-334). *)
ResumesReachTheLoop ==
  \A q \in Queues :
    running[q].kind = "frame" => LoopOf(running[q].queue) = q

(* Every task that is registered is given to a loop, wherever merges,      *)
(* unmerges and pauses leave it.                                           *)
TasksAreRun ==
  \A q \in Queues : tasks[q] # {} ~> tasks[q] = {}
=============================================================================
