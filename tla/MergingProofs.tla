---------------------------- MODULE MergingProofs ----------------------------
(***************************************************************************)
(* Proofs about the task queues that are merged while they run, for every  *)
(* set of queues, every clock and every number of tasks, and about the     *)
(* merger, for any set of engines that share it, any lease term of at      *)
(* least two frames and any number of draws and of changes of views.       *)
(*                                                                         *)
(* TaskQueues: none of the three safety properties is inductive.  A        *)
(* registration wakes the loop that subsumed_by names, while that loop     *)
(* looks for tasks by owner_of, so no wakeup is lost only because the two  *)
(* agree (MergesAreFlat); and a resume wakes its own queue only, which is  *)
(* enough because it runs on the loop of that queue (ResumesReachTheLoop). *)
(* A pause must not bring a queue's count of pauses from -1 to 0, which    *)
(* would give out tasks: PausesMatchVsyncs counts them.                    *)
(*                                                                         *)
(* ThreadMerger: MergerInv says who may still act on the leases.  Only the *)
(* raster thread merges, so while the queues are merged it can merely be   *)
(* on its way out of the Draw that merged them, with a lease that outlasts *)
(* its own decrement; and a Draw on the platform thread finds the queues   *)
(* merged until it ends.                                                   *)
(***************************************************************************)
EXTENDS TaskQueues, ThreadMerger, FiniteSetTheorems, TLAPS

-----------------------------------------------------------------------------
(* The task queues.                                                        *)

\* A task remembers the queue it was registered with.
TasksKnowTheirQueue == \A q \in Queues : \A x \in tasks[q] : x.queue = q

\* The tasks of a queue are finitely many, and older than the next one.
TasksAreOlder ==
  \A q \in Queues : IsFiniteSet(tasks[q]) /\ \A x \in tasks[q] : x.order < order

RunningWhenInTask == \A q \in Queues : loop[q] # "running" => running[q] = NoTask

FrameTasks(q) == {x \in tasks[q] : x.kind = "frame"}

Resuming(q) == \E p \in Queues : running[p].kind = "frame" /\ running[p].queue = q

One(condition) == IF condition THEN 1 ELSE 0

\* A queue is paused once for each vsync on its way: paused and not posted,
\* posted and not run, or running.
PausesMatchVsyncs ==
  \A q \in Queues :
    pauses[q] = Cardinality(FrameTasks(q)) + One(vsync[q]) + One(Resuming(q))

TaskQueuesInv ==
  /\ TypeOK
  /\ TasksKnowTheirQueue
  /\ TasksAreOlder
  /\ RunningWhenInTask
  /\ PausesMatchVsyncs
  /\ MergesAreFlat
  /\ SleepersWakeInTime
  /\ ResumesReachTheLoop

-----------------------------------------------------------------------------
(* What a loop looks at.                                                   *)

LEMMA PendingTasks ==
  ASSUME NEW q \in Queues, NEW x
  PROVE  x \in Pending(q) <=>
           /\ subsumed_by[q] = kUnmerged
           /\ \E r \in owner_of[q] \cup {q} : x \in Unpaused(r)
BY DEF Pending

LEMMA PendingTasksNext ==
  ASSUME NEW q \in Queues, NEW x
  PROVE  x \in Pending(q)' <=>
           /\ subsumed_by'[q] = kUnmerged
           /\ \E r \in owner_of'[q] \cup {q} : x \in Unpaused(r)'
BY DEF Pending

LEMMA PendingTyping ==
  ASSUME TypeOK, NEW q \in Queues, NEW x \in Pending(q)
  PROVE  x \in Tasks /\ \E r \in owner_of[q] \cup {q} : r \in Queues /\ x \in tasks[r]
BY DEF Pending, Unpaused, TypeOK

\* Times are integers, and Never is later than all of them.
LEMMA TimesAreIntegers == Times \subseteq Nat /\ Never \in Nat /\ 0 \in Times
BY TaskQueuesAssumption DEF Times, Never

\* After a WakeUp the timers of these loops are early enough, and only theirs
\* have changed.
LEMMA WakeUpWakes ==
  ASSUME NEW loops, loops \subseteq Queues, timer \in [Queues -> Times \cup {Never}],
         WakeUp(loops)
  PROVE  /\ timer' \in [Queues -> Times \cup {Never}]
         /\ \A q \in loops : \A x \in Pending(q)' : timer'[q] <= x.due
         /\ \A q \in Queues :
              q \notin loops \/ Pending(q)' = {} => timer'[q] = timer[q]
<1>1. PICK times \in [loops -> Times \cup {Never}] :
        /\ \A q \in loops :
             IF Pending(q)' = {} THEN times[q] = timer[q]
             ELSE \E x \in Pending(q)' :
                    times[q] = x.due /\ \A y \in Pending(q)' : x.due <= y.due
        /\ timer' = [q \in Queues |-> IF q \in loops THEN times[q] ELSE timer[q]]
  BY DEF WakeUp
<1>2. timer' \in [Queues -> Times \cup {Never}]
  BY <1>1
<1>3. ASSUME NEW q \in loops, NEW x \in Pending(q)' PROVE timer'[q] <= x.due
  <2>1. PICK y \in Pending(q)' : times[q] = y.due /\ \A z \in Pending(q)' : y.due <= z.due
    BY <1>1, <1>3
  <2>. QED
    BY <1>1, <2>1
<1>4. ASSUME NEW q \in Queues, q \notin loops \/ Pending(q)' = {}
      PROVE  timer'[q] = timer[q]
  BY <1>1, <1>4
<1>. QED
  BY <1>2, <1>3, <1>4

\* No wakeup is lost by a step that wakes the loops for which there is more to
\* do than before.
LEMMA SleepersStayAwakeInTime ==
  ASSUME TypeOK, SleepersWakeInTime, NEW loops, loops \subseteq Queues, WakeUp(loops),
         \A q \in Queues \ loops :
           loop'[q] = "waiting" => loop[q] = "waiting" /\ Pending(q)' \subseteq Pending(q)
  PROVE  SleepersWakeInTime'
<1> SUFFICES ASSUME NEW q \in Queues, loop'[q] = "waiting", NEW x \in Pending(q)'
             PROVE  timer'[q] <= x.due
  BY DEF SleepersWakeInTime
<1>1. CASE q \in loops
  BY <1>1, WakeUpWakes DEF TypeOK
<1>2. CASE q \notin loops
  <2>1. x \in Pending(q) /\ loop[q] = "waiting"
    BY <1>2
  <2>2. timer[q] <= x.due
    BY <2>1 DEF SleepersWakeInTime
  <2>3. timer'[q] = timer[q]
    BY <1>2, WakeUpWakes DEF TypeOK
  <2>. QED
    BY <2>2, <2>3
<1>. QED
  BY <1>1, <1>2

\* Likewise if no timer changes.
LEMMA SleepersUndisturbed ==
  ASSUME SleepersWakeInTime,
         \A q \in Queues :
           loop'[q] = "waiting" =>
             /\ loop[q] = "waiting"
             /\ Pending(q)' \subseteq Pending(q)
             /\ timer'[q] = timer[q]
  PROVE  SleepersWakeInTime'
BY DEF SleepersWakeInTime

\* Tasks of a queue are looked at by one loop only.
LEMMA OneLoopLooks ==
  ASSUME TypeOK, MergesAreFlat, NEW q \in Queues, NEW r \in owner_of[q] \cup {q},
         subsumed_by[q] = kUnmerged
  PROVE  r \in Queues /\ LoopOf(r) = q
BY TaskQueuesAssumption DEF TypeOK, MergesAreFlat, LoopOf

-----------------------------------------------------------------------------
\* The frame tasks of a queue can be counted.
LEMMA FrameTasksCount ==
  ASSUME TasksAreOlder, NEW q \in Queues
  PROVE  IsFiniteSet(FrameTasks(q)) /\ Cardinality(FrameTasks(q)) \in Nat
<1>1. IsFiniteSet(tasks[q]) /\ FrameTasks(q) \subseteq tasks[q]
  BY DEF TasksAreOlder, FrameTasks
<1>. QED
  BY <1>1, FS_Subset, FS_CardinalityType

LEMMA InitInv == Init => TaskQueuesInv
<1> SUFFICES ASSUME Init PROVE TaskQueuesInv
  OBVIOUS
<1>1. TypeOK
  BY TimesAreIntegers DEF Init, TypeOK
<1>2. TasksKnowTheirQueue /\ MergesAreFlat /\ ResumesReachTheLoop /\ RunningWhenInTask
  BY TaskQueuesAssumption
  DEF Init, TasksKnowTheirQueue, MergesAreFlat, ResumesReachTheLoop, RunningWhenInTask,
      NoTask
<1>3. SleepersWakeInTime
  BY DEF Init, SleepersWakeInTime, Pending, Unpaused
<1>4. TasksAreOlder
  BY FS_EmptySet DEF Init, TasksAreOlder
<1>5. PausesMatchVsyncs
  <2> SUFFICES ASSUME NEW q \in Queues
               PROVE  pauses[q] = Cardinality(FrameTasks(q)) + One(vsync[q]) + One(Resuming(q))
    BY DEF PausesMatchVsyncs
  <2>1. FrameTasks(q) = {}
    BY DEF Init, FrameTasks
  <2>2. Cardinality(FrameTasks(q)) = 0
    BY <2>1, FS_EmptySet
  <2>3. ~Resuming(q)
    BY DEF Init, Resuming, NoTask
  <2>. QED
    BY <2>2, <2>3 DEF Init, One
<1>. QED
  BY <1>1, <1>2, <1>3, <1>4, <1>5 DEF TaskQueuesInv

-----------------------------------------------------------------------------
(* RegisterTask, for PostTask and PostFrameTask.                           *)

\* The new task, of kind "frame" if it takes over the pause of a vsync.
Registers(q, kind, due) ==
  /\ RegisterTask(q, kind, due)
  /\ IF kind = "frame" THEN vsync[q] /\ vsync' = [vsync EXCEPT ![q] = FALSE]
     ELSE vsync' = vsync

LEMMA RegisterPauses ==
  ASSUME TaskQueuesInv, NEW q \in Queues, NEW kind \in Kinds, NEW due \in Times,
         Registers(q, kind, due)
  PROVE  TasksAreOlder' /\ PausesMatchVsyncs'
<1> DEFINE new == [order |-> order, due |-> due, kind |-> kind, queue |-> q]
<1>1. /\ tasks \in [Queues -> SUBSET Tasks] /\ order \in Nat /\ order' = order + 1
      /\ tasks' = [tasks EXCEPT ![q] = @ \cup {new}]
      /\ vsync \in [Queues -> BOOLEAN]
      /\ UNCHANGED <<pauses, running>>
  BY DEF Registers, RegisterTask, TaskQueuesInv, TypeOK, loopVars
<1>2. TasksAreOlder'
  <2> SUFFICES ASSUME NEW p \in Queues
               PROVE  IsFiniteSet(tasks'[p]) /\ \A x \in tasks'[p] : x.order < order'
    BY DEF TasksAreOlder
  <2>1. IsFiniteSet(tasks[p]) /\ \A x \in tasks[p] : x.order \in Nat /\ x.order < order
    BY <1>1 DEF TaskQueuesInv, TasksAreOlder, Tasks
  <2>2. tasks'[p] = tasks[p] \/ tasks'[p] = tasks[p] \cup {new}
    BY <1>1
  <2>3. IsFiniteSet(tasks'[p])
    BY <2>1, <2>2, FS_AddElement
  <2>. QED
    BY <1>1, <2>1, <2>2, <2>3
<1>3. ASSUME NEW p \in Queues
      PROVE  pauses'[p]
               = Cardinality(FrameTasks(p)') + One(vsync'[p]) + One(Resuming(p)')
  <2>1. pauses[p] = Cardinality(FrameTasks(p)) + One(vsync[p]) + One(Resuming(p))
    BY DEF TaskQueuesInv, PausesMatchVsyncs
  <2>2. IsFiniteSet(FrameTasks(p)) /\ Cardinality(FrameTasks(p)) \in Nat
    BY FrameTasksCount DEF TaskQueuesInv
  <2>3. Resuming(p)' <=> Resuming(p)
    BY <1>1 DEF Resuming
  <2>4. CASE p = q /\ kind = "frame"
    <3>1. new \notin FrameTasks(p)
      BY <1>1 DEF TaskQueuesInv, TasksAreOlder, FrameTasks
    <3>2. FrameTasks(p)' = FrameTasks(p) \cup {new}
      BY <1>1, <2>4 DEF FrameTasks
    <3>3. Cardinality(FrameTasks(p)') = Cardinality(FrameTasks(p)) + 1
      BY <2>2, <3>1, <3>2, FS_AddElement
    <3>4. vsync[p] /\ ~vsync'[p]
      BY <1>1, <2>4 DEF Registers
    <3>. QED
      BY <1>1, <2>1, <2>2, <2>3, <3>3, <3>4 DEF One
  <2>5. CASE p # q \/ kind # "frame"
    <3>1. FrameTasks(p)' = FrameTasks(p)
      BY <1>1, <2>5 DEF FrameTasks
    <3>2. vsync'[p] = vsync[p]
      BY <1>1, <2>5 DEF Registers
    <3>. QED
      BY <1>1, <2>1, <2>3, <3>1, <3>2 DEF One
  <2>. QED
    BY <2>4, <2>5
<1>. QED
  BY <1>2, <1>3 DEF PausesMatchVsyncs

LEMMA RegisterInv ==
  ASSUME TaskQueuesInv, NEW q \in Queues, NEW kind \in Kinds, NEW due \in Times,
         Registers(q, kind, due)
  PROVE  TaskQueuesInv'
<1> DEFINE new == [order |-> order, due |-> due, kind |-> kind, queue |-> q]
<1> USE DEF Registers
<1>1. new \in Tasks
  BY DEF TaskQueuesInv, TypeOK, Tasks
<1>2. LoopOf(q) \in Queues
  BY DEF TaskQueuesInv, TypeOK, LoopOf
<1>3. WakeUp({LoopOf(q)})
  BY DEF RegisterTask
<1>4. TypeOK'
  <2>1. tasks' \in [Queues -> SUBSET Tasks] /\ order' \in Nat
    BY <1>1 DEF TaskQueuesInv, TypeOK, RegisterTask
  <2>2. timer' \in [Queues -> Times \cup {Never}]
    BY <1>2, <1>3, WakeUpWakes DEF TaskQueuesInv, TypeOK
  <2>3. vsync' \in [Queues -> BOOLEAN]
    BY DEF TaskQueuesInv, TypeOK
  <2>. QED
    BY <2>1, <2>2, <2>3 DEF TaskQueuesInv, TypeOK, RegisterTask, mergeVars, loopVars
<1>5. TasksKnowTheirQueue'
  BY DEF TaskQueuesInv, TypeOK, RegisterTask, TasksKnowTheirQueue
<1>6. MergesAreFlat' /\ ResumesReachTheLoop' /\ RunningWhenInTask'
  BY DEF TaskQueuesInv, RegisterTask, mergeVars, loopVars, MergesAreFlat,
         ResumesReachTheLoop, RunningWhenInTask, LoopOf
<1>7. ASSUME NEW p \in Queues, p # LoopOf(q) PROVE Pending(p)' \subseteq Pending(p)
  <2> SUFFICES ASSUME NEW x, x \in Pending(p)' PROVE x \in Pending(p)
    OBVIOUS
  <2>1. PICK r \in owner_of[p] \cup {p} : subsumed_by[p] = kUnmerged /\ x \in Unpaused(r)'
    BY PendingTasksNext DEF RegisterTask, mergeVars
  <2>2. r \in Queues /\ r # q
    BY <1>7, <2>1, OneLoopLooks DEF TaskQueuesInv
  <2>3. x \in Unpaused(r)
    BY <2>1, <2>2 DEF TaskQueuesInv, TypeOK, RegisterTask, Unpaused
  <2>. QED
    BY <2>1, <2>3, PendingTasks
<1>8. SleepersWakeInTime'
  BY <1>2, <1>3, <1>7, SleepersStayAwakeInTime DEF TaskQueuesInv, RegisterTask, loopVars
<1>9. TasksAreOlder' /\ PausesMatchVsyncs'
  BY RegisterPauses
<1>. QED
  BY <1>4, <1>5, <1>6, <1>8, <1>9 DEF TaskQueuesInv

LEMMA PostInv ==
  ASSUME TaskQueuesInv, NEW q \in Queues, PostTask(q) \/ PostFrameTask(q)
  PROVE  TaskQueuesInv'
<1>1. CASE PostTask(q)
  <2>1. PICK kind \in {"plain", "dart"}, due \in clock..MaxTime : RegisterTask(q, kind, due)
    BY <1>1 DEF PostTask
  <2>2. due \in Times /\ kind \in Kinds
    BY TaskQueuesAssumption DEF TaskQueuesInv, TypeOK, Times, Kinds
  <2>3. Registers(q, kind, due)
    BY <1>1, <2>1 DEF PostTask, Registers
  <2>. QED
    BY <2>2, <2>3, RegisterInv
<1>2. CASE PostFrameTask(q)
  BY <1>2, RegisterInv DEF PostFrameTask, Registers, Kinds, TaskQueuesInv, TypeOK
<1>. QED
  BY <1>1, <1>2

-----------------------------------------------------------------------------
LEMMA PauseInv ==
  ASSUME TaskQueuesInv, NEW q \in Queues, PauseSecondarySource(q)
  PROVE  TaskQueuesInv'
<1> USE DEF PauseSecondarySource, mergeVars, loopVars
<1>1. TypeOK'
  BY DEF TaskQueuesInv, TypeOK
<1>2. /\ TasksKnowTheirQueue' /\ TasksAreOlder' /\ RunningWhenInTask'
      /\ MergesAreFlat' /\ ResumesReachTheLoop'
  BY DEF TaskQueuesInv, TasksKnowTheirQueue, TasksAreOlder, RunningWhenInTask,
         MergesAreFlat, ResumesReachTheLoop, LoopOf
<1>3. ASSUME NEW p \in Queues PROVE Pending(p)' \subseteq Pending(p)
  <2> SUFFICES ASSUME NEW x, x \in Pending(p)' PROVE x \in Pending(p)
    OBVIOUS
  <2>1. PICK r \in owner_of[p] \cup {p} : subsumed_by[p] = kUnmerged /\ x \in Unpaused(r)'
    BY PendingTasksNext
  <2>2. r \in Queues
    BY DEF TaskQueuesInv, TypeOK
  <2>3. x \in Unpaused(r)
    BY <2>1, <2>2 DEF TaskQueuesInv, TypeOK, Unpaused
  <2>. QED
    BY <2>1, <2>3, PendingTasks
<1>4. SleepersWakeInTime'
  BY <1>3, SleepersUndisturbed DEF TaskQueuesInv
<1>5. ASSUME NEW p \in Queues
      PROVE  pauses'[p]
               = Cardinality(FrameTasks(p)') + One(vsync'[p]) + One(Resuming(p)')
  <2>1. pauses[p] = Cardinality(FrameTasks(p)) + One(vsync[p]) + One(Resuming(p))
    BY DEF TaskQueuesInv, PausesMatchVsyncs
  <2>2. Cardinality(FrameTasks(p)) \in Nat
    BY FrameTasksCount DEF TaskQueuesInv
  <2>3. (Resuming(p)' <=> Resuming(p)) /\ FrameTasks(p)' = FrameTasks(p)
    BY DEF Resuming, FrameTasks
  <2>. QED
    BY <2>1, <2>2, <2>3 DEF One, TaskQueuesInv, TypeOK
<1>. QED
  BY <1>1, <1>2, <1>4, <1>5 DEF TaskQueuesInv, PausesMatchVsyncs

\* A step that gives no queue to another loop, adds no task and resumes nothing.
LEMMA PendingShrinks ==
  ASSUME TypeOK, UNCHANGED <<mergeVars, pauses>>, NEW q \in Queues,
         \A r \in Queues : tasks'[r] \subseteq tasks[r]
  PROVE  Pending(q)' \subseteq Pending(q)
<1> SUFFICES ASSUME NEW x, x \in Pending(q)' PROVE x \in Pending(q)
  OBVIOUS
<1>1. PICK r \in owner_of[q] \cup {q} : subsumed_by[q] = kUnmerged /\ x \in Unpaused(r)'
  BY PendingTasksNext DEF mergeVars
<1>2. r \in Queues
  BY DEF TypeOK
<1>3. x \in Unpaused(r)
  BY <1>1, <1>2 DEF Unpaused
<1>. QED
  BY <1>1, <1>3, PendingTasks

LEMMA TickInv ==
  ASSUME TaskQueuesInv, Tick
  PROVE  TaskQueuesInv'
<1> USE DEF Tick, queueVars, mergeVars, loopVars
<1>1. TypeOK'
  BY TaskQueuesAssumption DEF TaskQueuesInv, TypeOK, Times
<1>2. /\ TasksKnowTheirQueue' /\ TasksAreOlder' /\ RunningWhenInTask'
      /\ MergesAreFlat' /\ ResumesReachTheLoop'
  BY DEF TaskQueuesInv, TasksKnowTheirQueue, TasksAreOlder, RunningWhenInTask,
         MergesAreFlat, ResumesReachTheLoop, LoopOf
<1>3. SleepersWakeInTime'
  BY PendingShrinks, SleepersUndisturbed DEF TaskQueuesInv
<1>4. PausesMatchVsyncs'
  BY DEF TaskQueuesInv, PausesMatchVsyncs, Resuming, FrameTasks
<1>. QED
  BY <1>1, <1>2, <1>3, <1>4 DEF TaskQueuesInv

LEMMA OnEventFiredInv ==
  ASSUME TaskQueuesInv, NEW q \in Queues, OnEventFired(q)
  PROVE  TaskQueuesInv'
<1> USE DEF OnEventFired, queueVars, mergeVars
<1>1. TypeOK'
  BY DEF TaskQueuesInv, TypeOK
<1>2. /\ TasksKnowTheirQueue' /\ TasksAreOlder' /\ RunningWhenInTask'
      /\ MergesAreFlat' /\ ResumesReachTheLoop'
  BY DEF TaskQueuesInv, TypeOK, TasksKnowTheirQueue, TasksAreOlder, RunningWhenInTask,
         MergesAreFlat, ResumesReachTheLoop, LoopOf
<1>3. SleepersWakeInTime'
  BY PendingShrinks, SleepersUndisturbed DEF TaskQueuesInv, TypeOK
<1>4. PausesMatchVsyncs'
  BY DEF TaskQueuesInv, PausesMatchVsyncs, Resuming, FrameTasks
<1>. QED
  BY <1>1, <1>2, <1>3, <1>4 DEF TaskQueuesInv

LEMMA StopFlushingInv ==
  ASSUME TaskQueuesInv, NEW q \in Queues, StopFlushing(q)
  PROVE  TaskQueuesInv'
<1> USE DEF StopFlushing, queueVars, mergeVars
<1>1. \/ Pending(q) = {} /\ timer' = timer
      \/ \E x \in Pending(q) : IsNext(x, q) /\ timer' = [timer EXCEPT ![q] = x.due]
  OBVIOUS
<1>2. timer' \in [Queues -> Times \cup {Never}]
  BY <1>1, PendingTyping DEF TaskQueuesInv, TypeOK, Tasks
<1>3. TypeOK'
  BY <1>2 DEF TaskQueuesInv, TypeOK
<1>4. /\ TasksKnowTheirQueue' /\ TasksAreOlder' /\ RunningWhenInTask'
      /\ MergesAreFlat' /\ ResumesReachTheLoop'
  BY DEF TaskQueuesInv, TypeOK, TasksKnowTheirQueue, TasksAreOlder, RunningWhenInTask,
         MergesAreFlat, ResumesReachTheLoop, LoopOf
<1>5. SleepersWakeInTime'
  <2> SUFFICES ASSUME NEW p \in Queues, loop'[p] = "waiting", NEW x \in Pending(p)'
               PROVE  timer'[p] <= x.due
    BY DEF SleepersWakeInTime
  <2>1. x \in Pending(p)
    BY PendingShrinks DEF TaskQueuesInv
  <2>2. CASE p = q
    <3>1. PICK y \in Pending(q) : IsNext(y, q) /\ timer' = [timer EXCEPT ![q] = y.due]
      BY <1>1, <2>1, <2>2
    <3>2. timer'[q] = y.due
      BY <3>1 DEF TaskQueuesInv, TypeOK
    <3>3. x.due \in Nat /\ y.due \in Nat
      BY <2>1, <2>2, PendingTyping, TimesAreIntegers DEF TaskQueuesInv, Tasks
    <3>4. x = y \/ Before(y, x)
      BY <2>1, <2>2, <3>1 DEF IsNext
    <3>. QED
      BY <2>2, <3>2, <3>3, <3>4 DEF Before
  <2>3. CASE p # q
    BY <1>1, <2>1, <2>3 DEF TaskQueuesInv, TypeOK, SleepersWakeInTime
  <2>. QED
    BY <2>2, <2>3
<1>6. PausesMatchVsyncs'
  BY DEF TaskQueuesInv, PausesMatchVsyncs, Resuming, FrameTasks
<1>. QED
  BY <1>3, <1>4, <1>5, <1>6 DEF TaskQueuesInv

-----------------------------------------------------------------------------
(* A loop takes a task and ends it.                                        *)

LEMMA GetNextTaskToRunInv ==
  ASSUME TaskQueuesInv, NEW q \in Queues, GetNextTaskToRun(q)
  PROVE  TaskQueuesInv'
<1> USE DEF mergeVars
<1>1. PICK x \in Pending(q) :
        /\ IsNext(x, q)
        /\ timer' = [timer EXCEPT ![q] = x.due]
        /\ tasks' = [tasks EXCEPT ![x.queue] = @ \ {x}]
        /\ running' = [running EXCEPT ![q] = x]
  BY DEF GetNextTaskToRun
<1>2. PICK r \in owner_of[q] \cup {q} : x \in Unpaused(r) /\ subsumed_by[q] = kUnmerged
  BY PendingTasks
<1>3. r \in Queues /\ LoopOf(r) = q
  BY <1>2, OneLoopLooks DEF TaskQueuesInv
<1>4. x \in tasks[r] /\ x \in Tasks /\ x.queue = r /\ x.due \in Times
  BY <1>2, <1>3 DEF Unpaused, TaskQueuesInv, TypeOK, TasksKnowTheirQueue, Tasks
<1>5. /\ loop' = [loop EXCEPT ![q] = "running"] /\ loop[q] = "flushing"
      /\ UNCHANGED <<pauses, order, vsync, mergeVars, clock, from_time>>
  BY DEF GetNextTaskToRun
<1>6. /\ tasks'[r] = tasks[r] \ {x}
      /\ \A p \in Queues \ {r} : tasks'[p] = tasks[p]
      /\ \A p \in Queues \ {q} : running'[p] = running[p]
      /\ running'[q] = x /\ running[q] = NoTask
  BY <1>1, <1>3, <1>4, <1>5 DEF TaskQueuesInv, TypeOK, RunningWhenInTask
<1>7. TypeOK'
  <2>1. tasks' \in [Queues -> SUBSET Tasks]
    BY <1>1, <1>3, <1>4 DEF TaskQueuesInv, TypeOK
  <2>2. timer' \in [Queues -> Times \cup {Never}] /\ running' \in [Queues -> Tasks \cup {NoTask}]
    BY <1>1, <1>4 DEF TaskQueuesInv, TypeOK
  <2>. QED
    BY <1>5, <2>1, <2>2 DEF TaskQueuesInv, TypeOK
<1>8. TasksKnowTheirQueue' /\ MergesAreFlat' /\ RunningWhenInTask'
  BY <1>5, <1>6 DEF TaskQueuesInv, TypeOK, TasksKnowTheirQueue, MergesAreFlat, RunningWhenInTask
<1>9. TasksAreOlder'
  <2> SUFFICES ASSUME NEW p \in Queues
               PROVE  IsFiniteSet(tasks'[p]) /\ \A y \in tasks'[p] : y.order < order
    BY <1>5 DEF TasksAreOlder
  <2>1. IsFiniteSet(tasks[p]) /\ \A y \in tasks[p] : y.order < order
    BY DEF TaskQueuesInv, TasksAreOlder
  <2>2. tasks'[p] \subseteq tasks[p]
    BY <1>6
  <2>. QED
    BY <2>1, <2>2, FS_Subset
<1>10. ResumesReachTheLoop'
  BY <1>3, <1>4, <1>5, <1>6 DEF TaskQueuesInv, ResumesReachTheLoop, LoopOf
<1>11. SleepersWakeInTime'
  <2>1. \A p \in Queues : tasks'[p] \subseteq tasks[p]
    BY <1>6
  <2>2. \A p \in Queues : Pending(p)' \subseteq Pending(p)
    BY <1>5, <2>1, PendingShrinks DEF TaskQueuesInv
  <2>3. \A p \in Queues : loop'[p] = "waiting" => loop[p] = "waiting" /\ timer'[p] = timer[p]
    BY <1>1, <1>5 DEF TaskQueuesInv, TypeOK
  <2>. QED
    BY <2>2, <2>3, SleepersUndisturbed DEF TaskQueuesInv
<1>12. ASSUME NEW p \in Queues
       PROVE  pauses'[p]
                = Cardinality(FrameTasks(p)') + One(vsync'[p]) + One(Resuming(p)')
  <2>1. pauses[p] = Cardinality(FrameTasks(p)) + One(vsync[p]) + One(Resuming(p))
    BY DEF TaskQueuesInv, PausesMatchVsyncs
  <2>2. IsFiniteSet(FrameTasks(p)) /\ Cardinality(FrameTasks(p)) \in Nat
    BY FrameTasksCount DEF TaskQueuesInv
  <2>3. CASE p = r /\ x.kind = "frame"
    <3>1. FrameTasks(p)' = FrameTasks(p) \ {x} /\ x \in FrameTasks(p)
      BY <1>4, <1>6, <2>3 DEF FrameTasks
    <3>2. Cardinality(FrameTasks(p)') = Cardinality(FrameTasks(p)) - 1
      BY <2>2, <3>1, FS_RemoveElement
    <3>3. Resuming(p)'
      BY <1>4, <1>6, <2>3 DEF Resuming
    <3>4. ~Resuming(p)
      <4> SUFFICES ASSUME NEW s \in Queues, running[s].kind = "frame", running[s].queue = p
                   PROVE  FALSE
        BY DEF Resuming
      <4>1. s = q
        BY <1>3, <2>3 DEF TaskQueuesInv, ResumesReachTheLoop
      <4>. QED
        BY <1>6, <4>1 DEF NoTask
    <3>. QED
      BY <1>5, <2>1, <2>2, <3>2, <3>3, <3>4 DEF One
  <2>4. CASE p # r \/ x.kind # "frame"
    <3>1. FrameTasks(p)' = FrameTasks(p)
      BY <1>6, <2>4 DEF FrameTasks
    <3>2. Resuming(p)' <=> Resuming(p)
      BY <1>4, <1>6, <2>4 DEF Resuming, NoTask
    <3>. QED
      BY <1>5, <2>1, <3>1, <3>2 DEF One
  <2>. QED
    BY <2>3, <2>4
<1>. QED
  BY <1>7, <1>8, <1>9, <1>10, <1>11, <1>12 DEF TaskQueuesInv, PausesMatchVsyncs

LEMMA EndTaskPauses ==
  ASSUME TaskQueuesInv, NEW q \in Queues, EndTask(q)
  PROVE  pauses' \in [Queues -> Nat] /\ PausesMatchVsyncs'
<1>1. /\ running' = [running EXCEPT ![q] = NoTask]
      /\ UNCHANGED <<tasks, vsync>>
  BY DEF EndTask
<1>2. /\ running \in [Queues -> Tasks \cup {NoTask}]
      /\ pauses \in [Queues -> Nat]
  BY DEF TaskQueuesInv, TypeOK
<1>3. ASSUME NEW p \in Queues
      PROVE  /\ pauses[p] = Cardinality(FrameTasks(p)) + One(vsync[p]) + One(Resuming(p))
             /\ Cardinality(FrameTasks(p)) \in Nat
             /\ FrameTasks(p)' = FrameTasks(p)
  BY <1>1, FrameTasksCount DEF TaskQueuesInv, PausesMatchVsyncs, FrameTasks
<1>4. CASE running[q].kind = "frame"
  <2>1. PICK r \in Queues : running[q].queue = r /\ pauses' = [pauses EXCEPT ![r] = @ - 1]
    BY <1>2, <1>4 DEF EndTask, Tasks, NoTask
  <2>2. Resuming(r)
    BY <1>4, <2>1 DEF Resuming
  <2>3. ~Resuming(r)'
    <3> SUFFICES ASSUME NEW s \in Queues, running'[s].kind = "frame", running'[s].queue = r
                 PROVE  FALSE
      BY <1>1, <2>1 DEF Resuming
    <3>1. s # q /\ running[s] = running'[s]
      BY <1>1, <1>2 DEF NoTask
    <3>2. LoopOf(r) = s /\ LoopOf(r) = q
      BY <1>4, <2>1, <3>1 DEF TaskQueuesInv, ResumesReachTheLoop
    <3>. QED
      BY <3>1, <3>2
  <2>4. pauses[r] - 1 = Cardinality(FrameTasks(r)) + One(vsync[r])
    BY <1>3, <2>1, <2>2 DEF One
  <2>5. pauses[r] - 1 \in Nat
    BY <1>3, <2>1, <2>4 DEF One
  <2>6. pauses' \in [Queues -> Nat]
    BY <1>2, <2>1, <2>5
  <2>7. ASSUME NEW p \in Queues
        PROVE  pauses'[p]
                 = Cardinality(FrameTasks(p)') + One(vsync'[p]) + One(Resuming(p)')
    <3>1. CASE p = r
      BY <1>1, <1>2, <1>3, <2>1, <2>3, <2>4, <3>1 DEF One
    <3>2. CASE p # r
      <4>1. Resuming(p)' <=> Resuming(p)
        BY <1>1, <1>2, <2>1, <3>2 DEF Resuming, NoTask
      <4>. QED
        BY <1>1, <1>2, <1>3, <2>1, <3>2, <4>1 DEF One
    <3>. QED
      BY <3>1, <3>2
  <2>. QED
    BY <2>6, <2>7 DEF PausesMatchVsyncs
<1>5. CASE running[q].kind # "frame"
  <2>1. pauses' = pauses
    BY <1>5 DEF EndTask
  <2>2. \A p \in Queues : Resuming(p)' <=> Resuming(p)
    BY <1>1, <1>2, <1>5 DEF Resuming, NoTask
  <2>. QED
    BY <1>1, <1>2, <1>3, <2>1, <2>2 DEF PausesMatchVsyncs, One
<1>. QED
  BY <1>4, <1>5

LEMMA EndTaskInv ==
  ASSUME TaskQueuesInv, NEW q \in Queues, EndTask(q)
  PROVE  TaskQueuesInv'
<1> USE DEF mergeVars
<1>1. /\ loop' = [loop EXCEPT ![q] = "flushing"]
      /\ running' = [running EXCEPT ![q] = NoTask]
      /\ UNCHANGED <<tasks, order, vsync, mergeVars, clock, from_time>>
  BY DEF EndTask
<1>2. pauses' \in [Queues -> Nat] /\ PausesMatchVsyncs'
  BY EndTaskPauses
<1>3. /\ TasksKnowTheirQueue' /\ TasksAreOlder' /\ RunningWhenInTask'
      /\ MergesAreFlat' /\ ResumesReachTheLoop'
  BY <1>1 DEF TaskQueuesInv, TypeOK, TasksKnowTheirQueue, TasksAreOlder, RunningWhenInTask,
              MergesAreFlat, ResumesReachTheLoop, LoopOf, NoTask
<1>4. timer' \in [Queues -> Times \cup {Never}] /\ SleepersWakeInTime'
  <2>1. CASE running[q].kind = "frame"
    <3> DEFINE r == running[q].queue
    <3>1. /\ r \in Queues /\ LoopOf(r) = q
          /\ pauses' = [pauses EXCEPT ![r] = @ - 1]
          /\ WakeUp({r})
      BY <2>1 DEF EndTask, TaskQueuesInv, TypeOK, Tasks, NoTask, ResumesReachTheLoop
    <3>2. timer' \in [Queues -> Times \cup {Never}]
      BY <3>1, WakeUpWakes DEF TaskQueuesInv, TypeOK
    <3>3. ASSUME NEW p \in Queues, p # q PROVE Pending(p)' \subseteq Pending(p)
      <4> SUFFICES ASSUME NEW x, x \in Pending(p)' PROVE x \in Pending(p)
        OBVIOUS
      <4>1. PICK s \in owner_of[p] \cup {p} : subsumed_by[p] = kUnmerged /\ x \in Unpaused(s)'
        BY <1>1, PendingTasksNext
      <4>2. s \in Queues /\ s # r
        BY <3>1, <3>3, <4>1, OneLoopLooks DEF TaskQueuesInv
      <4>3. x \in Unpaused(s)
        BY <1>1, <3>1, <4>1, <4>2 DEF TaskQueuesInv, TypeOK, Unpaused
      <4>. QED
        BY <4>1, <4>3, PendingTasks
    <3>4. \A p \in Queues : loop'[p] = "waiting" => p # q /\ loop[p] = "waiting"
      BY <1>1 DEF TaskQueuesInv, TypeOK
    <3>5. SleepersWakeInTime'
      BY <3>1, <3>3, <3>4, SleepersStayAwakeInTime DEF TaskQueuesInv
    <3>. QED
      BY <3>2, <3>5
  <2>2. CASE running[q].kind # "frame"
    <3>1. UNCHANGED <<pauses, timer>>
      BY <2>2 DEF EndTask
    <3>2. \A p \in Queues : Pending(p)' \subseteq Pending(p)
      BY <1>1, <3>1, PendingShrinks DEF TaskQueuesInv
    <3>3. \A p \in Queues : loop'[p] = "waiting" => loop[p] = "waiting"
      BY <1>1 DEF TaskQueuesInv, TypeOK
    <3>4. SleepersWakeInTime'
      BY <3>1, <3>2, <3>3, SleepersUndisturbed DEF TaskQueuesInv
    <3>. QED
      BY <3>1, <3>4 DEF TaskQueuesInv, TypeOK
  <2>. QED
    BY <2>1, <2>2
<1>5. TypeOK'
  BY <1>1, <1>2, <1>4 DEF TaskQueuesInv, TypeOK
<1>. QED
  BY <1>2, <1>3, <1>4, <1>5 DEF TaskQueuesInv

-----------------------------------------------------------------------------
(* Queues change hands.                                                    *)

LEMMA MergeInv ==
  ASSUME TaskQueuesInv, NEW owner \in Queues, NEW subsumed \in Queues,
         Merge(owner, subsumed)
  PROVE  TaskQueuesInv'
<1> USE DEF queueVars, loopVars
<1>1. /\ loop[subsumed] = "running" /\ running[subsumed].kind # "frame"
      /\ owner # subsumed
      /\ subsumed_by[owner] = kUnmerged /\ subsumed_by[subsumed] = kUnmerged
      /\ owner_of[subsumed] = {}
      /\ owner_of' = [owner_of EXCEPT ![owner] = @ \cup {subsumed}]
      /\ subsumed_by' = [subsumed_by EXCEPT ![subsumed] = owner]
      /\ UNCHANGED <<queueVars, clock, loopVars>>
      /\ WakeUp({owner})
  BY DEF Merge
<1>2. timer' \in [Queues -> Times \cup {Never}]
  BY <1>1, WakeUpWakes DEF TaskQueuesInv, TypeOK
<1>3. TypeOK'
  BY <1>1, <1>2 DEF TaskQueuesInv, TypeOK
<1>4. TasksKnowTheirQueue' /\ TasksAreOlder' /\ RunningWhenInTask' /\ PausesMatchVsyncs'
  BY <1>1 DEF TaskQueuesInv, TasksKnowTheirQueue, TasksAreOlder, RunningWhenInTask,
              PausesMatchVsyncs, Resuming, FrameTasks
<1>5. MergesAreFlat'
  BY <1>1, TaskQueuesAssumption DEF TaskQueuesInv, TypeOK, MergesAreFlat
<1>6. ResumesReachTheLoop'
  <2> SUFFICES ASSUME NEW p \in Queues, running[p].kind = "frame"
               PROVE  LoopOf(running[p].queue)' = p
    BY <1>1 DEF ResumesReachTheLoop, LoopOf
  <2>1. LoopOf(running[p].queue) = p
    BY DEF TaskQueuesInv, ResumesReachTheLoop
  <2>2. running[p].queue # subsumed
    BY <1>1, <2>1 DEF LoopOf
  <2>3. running[p].queue \in Queues
    BY DEF TaskQueuesInv, TypeOK, Tasks, NoTask
  <2>. QED
    BY <1>1, <2>1, <2>2, <2>3 DEF TaskQueuesInv, TypeOK, LoopOf
<1>7. ASSUME NEW p \in Queues, p # owner PROVE Pending(p)' \subseteq Pending(p)
  <2>1. owner_of'[p] = owner_of[p] /\ (subsumed_by'[p] = kUnmerged => subsumed_by[p] = kUnmerged)
    BY <1>1, <1>7 DEF TaskQueuesInv, TypeOK
  <2>2. \A r : Unpaused(r)' = Unpaused(r)
    BY <1>1 DEF Unpaused
  <2>. QED
    BY <2>1, <2>2, PendingTasks, PendingTasksNext
<1>8. SleepersWakeInTime'
  BY <1>1, <1>7, SleepersStayAwakeInTime DEF TaskQueuesInv
<1>. QED
  BY <1>3, <1>4, <1>5, <1>6, <1>8 DEF TaskQueuesInv

LEMMA UnmergeInv ==
  ASSUME TaskQueuesInv, NEW owner \in Queues, NEW subsumed \in Queues,
         Unmerge(owner, subsumed)
  PROVE  TaskQueuesInv'
<1> USE DEF queueVars, loopVars
<1>1. /\ running[owner].kind # "frame"
      /\ subsumed_by[owner] = kUnmerged /\ subsumed \in owner_of[owner]
      /\ owner_of' = [owner_of EXCEPT ![owner] = @ \ {subsumed}]
      /\ subsumed_by' = [subsumed_by EXCEPT ![subsumed] = kUnmerged]
      /\ UNCHANGED <<queueVars, clock, loopVars>>
      /\ WakeUp({owner, subsumed})
  BY DEF Unmerge
<1>2. subsumed_by[subsumed] = owner
  BY <1>1 DEF TaskQueuesInv, MergesAreFlat
<1>3. timer' \in [Queues -> Times \cup {Never}]
  BY <1>1, WakeUpWakes DEF TaskQueuesInv, TypeOK
<1>4. TypeOK'
  BY <1>1, <1>3 DEF TaskQueuesInv, TypeOK
<1>5. TasksKnowTheirQueue' /\ TasksAreOlder' /\ RunningWhenInTask' /\ PausesMatchVsyncs'
  BY <1>1 DEF TaskQueuesInv, TasksKnowTheirQueue, TasksAreOlder, RunningWhenInTask,
              PausesMatchVsyncs, Resuming, FrameTasks
<1>6. MergesAreFlat'
  BY <1>1, <1>2, TaskQueuesAssumption DEF TaskQueuesInv, TypeOK, MergesAreFlat
<1>7. ResumesReachTheLoop'
  <2> SUFFICES ASSUME NEW p \in Queues, running[p].kind = "frame"
               PROVE  LoopOf(running[p].queue)' = p
    BY <1>1 DEF ResumesReachTheLoop, LoopOf
  <2>1. LoopOf(running[p].queue) = p
    BY DEF TaskQueuesInv, ResumesReachTheLoop
  <2>2. running[p].queue # subsumed
    BY <1>1, <1>2, <2>1, TaskQueuesAssumption DEF LoopOf
  <2>3. running[p].queue \in Queues
    BY DEF TaskQueuesInv, TypeOK, Tasks, NoTask
  <2>. QED
    BY <1>1, <2>1, <2>2, <2>3 DEF TaskQueuesInv, TypeOK, LoopOf
<1>8. ASSUME NEW p \in Queues \ {owner, subsumed} PROVE Pending(p)' \subseteq Pending(p)
  <2>1. owner_of'[p] = owner_of[p] /\ subsumed_by'[p] = subsumed_by[p]
    BY <1>1, <1>8 DEF TaskQueuesInv, TypeOK
  <2>2. \A r : Unpaused(r)' = Unpaused(r)
    BY <1>1 DEF Unpaused
  <2>. QED
    BY <2>1, <2>2, PendingTasks, PendingTasksNext
<1>9. SleepersWakeInTime'
  BY <1>1, <1>8, SleepersStayAwakeInTime DEF TaskQueuesInv
<1>. QED
  BY <1>4, <1>5, <1>6, <1>7, <1>9 DEF TaskQueuesInv

-----------------------------------------------------------------------------
LEMMA NextInv ==
  ASSUME TaskQueuesInv, Next
  PROVE  TaskQueuesInv'
<1>1. ASSUME NEW q \in Queues, PostTask(q) \/ PostFrameTask(q) PROVE TaskQueuesInv'
  BY <1>1, PostInv
<1>2. ASSUME NEW q \in Queues, PauseSecondarySource(q) PROVE TaskQueuesInv'
  BY <1>2, PauseInv
<1>3. ASSUME NEW q \in Queues, LoopStep(q) PROVE TaskQueuesInv'
  BY <1>3, OnEventFiredInv, StopFlushingInv, GetNextTaskToRunInv, EndTaskInv DEF LoopStep
<1>4. ASSUME NEW owner \in Queues, NEW subsumed \in Queues,
             Merge(owner, subsumed) \/ Unmerge(owner, subsumed)
      PROVE  TaskQueuesInv'
  BY <1>4, MergeInv, UnmergeInv
<1>5. CASE Tick
  BY <1>5, TickInv
<1>. QED
  BY <1>1, <1>2, <1>3, <1>4, <1>5 DEF Next

LEMMA StutterInv ==
  ASSUME TaskQueuesInv, UNCHANGED vars
  PROVE  TaskQueuesInv'
<1> USE DEF vars, queueVars, mergeVars, loopVars
<1>1. \A q \in Queues : Pending(q)' = Pending(q)
  BY DEF Pending, Unpaused
<1>2. TypeOK'
  BY DEF TaskQueuesInv, TypeOK
<1>3. /\ TasksKnowTheirQueue' /\ TasksAreOlder' /\ RunningWhenInTask'
      /\ MergesAreFlat' /\ ResumesReachTheLoop'
  BY DEF TaskQueuesInv, TasksKnowTheirQueue, TasksAreOlder, RunningWhenInTask,
         MergesAreFlat, ResumesReachTheLoop, LoopOf
<1>4. PausesMatchVsyncs'
  BY DEF TaskQueuesInv, PausesMatchVsyncs, Resuming, FrameTasks
<1>5. SleepersWakeInTime'
  BY <1>1 DEF TaskQueuesInv, SleepersWakeInTime
<1>. QED
  BY <1>2, <1>3, <1>4, <1>5 DEF TaskQueuesInv

\* The inductive invariant holds in every reachable state: queues agree on who
\* owns whom, each loop's timer is early enough and each pause belongs to one
\* vsync on its way (message_loop_task_queues.cc).
THEOREM TaskQueuesInvariant == Spec => []TaskQueuesInv
<1>1. TaskQueuesInv /\ [Next]_vars => TaskQueuesInv'
  BY NextInv, StutterInv
<1>. QED
  BY <1>1, InitInv, PTL DEF Spec

\* The variables keep their types; in particular no resume takes the count of
\* pauses of a task source below zero, which task_source.cc does not prevent.
THEOREM TypeCorrect == Spec => []TypeOK
<1>1. TaskQueuesInv => TypeOK
  BY DEF TaskQueuesInv
<1>. QED
  BY <1>1, TaskQueuesInvariant, PTL

\* Every queue is the owner of others, subsumed or independent, and owner_of
\* and subsumed_by agree, for any number of queues.
THEOREM MergesStayFlat == Spec => []MergesAreFlat
<1>1. TaskQueuesInv => MergesAreFlat
  BY DEF TaskQueuesInv
<1>. QED
  BY <1>1, TaskQueuesInvariant, PTL

\* No wakeup is lost: a sleeping loop's timer goes off no later than the first
\* task it is to run is due, whatever is registered, merged, unmerged, paused
\* and resumed meanwhile.
THEOREM NoLostWakeup == Spec => []SleepersWakeInTime
<1>1. TaskQueuesInv => SleepersWakeInTime
  BY DEF TaskQueuesInv
<1>. QED
  BY <1>1, TaskQueuesInvariant, PTL

\* The task of a vsync resumes its queue on the loop that runs that queue.
THEOREM ResumesComeFromTheLoop == Spec => []ResumesReachTheLoop
<1>1. TaskQueuesInv => ResumesReachTheLoop
  BY DEF TaskQueuesInv
<1>. QED
  BY <1>1, TaskQueuesInvariant, PTL

-----------------------------------------------------------------------------
(* The merger.                                                             *)

\* The places inside a Draw.
Drawing == {"preroll", "merge", "merging", "extend", "extending", "decrement", "decrementing"}

\* Those at which a thread holds its engine's mutex.
Holding == {"merging", "extending", "decrementing", "unmerging"}

\* The end of a Draw.
Leaving == {"decrement", "decrementing"}

PlatformDraws == IF at[Platform] \in Drawing THEN 1 ELSE 0

\* Only the raster thread merges, and whoever extends a lease finds one.
MergesFromRaster ==
  /\ at[Raster] \notin {"extend", "extending"}
  /\ at[Platform] \notin {"merge", "merging"}
  /\ merged => at[Raster] \in {"idle"} \cup Leaving

\* A Draw of the platform thread happens in merged queues, from its start to its end.
PlatformDrawsMerged == at[Platform] \in Drawing => merged

\* Draws of the platform thread are counted from the start of the raster thread's.
AheadIsCounted ==
  /\ at[Raster] \in Drawing \ Leaving => ahead = 0
  /\ at[Raster] \in Leaving /\ at[Platform] \in Drawing => ahead >= 1
  /\ ahead <= LeaseTerm - 2

\* Each of them takes one frame at most of the lease the raster thread has recorded.
LeaseOutlastsDraw ==
  merged /\ at[Raster] \in Leaving /\ engine[Raster] \in callers
    => lease[engine[Raster]] + ahead >= LeaseTerm + PlatformDraws

LeaseInv ==
  /\ LeasesMatchQueues
  /\ MergesFromRaster
  /\ PlatformDrawsMerged
  /\ AheadIsCounted
  /\ LeaseOutlastsDraw

MergerInv == MergerTypeOK /\ LeaseInv

\* A thread on its way into the shared merger holds its engine's mutex.
MutexIsHeld == \A t \in Threads : at[t] \in Holding => mutex[engine[t]] = t

\* The platform thread is destroying a view, with the merger disabled.
Destroying == at[Platform] \in {"destroying", "waiting"} /\ ~enabled

\* Meanwhile the raster thread is not inside the merger for the same engine.
EngineIsStopped ==
  Destroying => at[Raster] \notin Holding \/ engine[Raster] # engine[Platform]

-----------------------------------------------------------------------------
(* Types of the merger.                                                    *)

\* The constants and the two threads.
LEMMA Constants ==
  /\ Platform # Raster /\ Nobody \notin Threads /\ Platform \in Threads /\ Raster \in Threads
  /\ LeaseTerm \in Nat /\ LeaseTerm >= 2 /\ MaxDraws \in Nat /\ MaxChanges \in Nat
  BY ThreadMergerAssumption DEF ThreadMergerAssumption, Threads

\* The first entry of a queue and the entries behind it.
LEMMA HeadAndTail ==
  ASSUME NEW S, NEW q \in Seq(S), q # <<>>
  PROVE  Head(q) \in S /\ Tail(q) \in Seq(S)
  OBVIOUS

\* Tasks of the raster queue.
LEMMA TaskNames ==
  ASSUME MergerTypeOK, rasterTasks # <<>>
  PROVE  Head(rasterTasks).name \in {"setup", "teardown"}
<1>1. rasterTasks \in Seq([name : {"setup", "teardown"}, engine : Mergers])
  BY DEF MergerTypeOK
<1>2. Head(rasterTasks) \in [name : {"setup", "teardown"}, engine : Mergers]
  BY <1>1, HeadAndTail
<1>. QED
  BY <1>2

\* A queue with one more entry.
LEMMA Appended ==
  ASSUME NEW S, NEW q \in Seq(S), NEW e \in S
  PROVE  Append(q, e) \in Seq(S)
  OBVIOUS

\* The variables of the merger in the groups of the specification.
SharedTypes ==
  /\ merged \in BOOLEAN
  /\ callers \subseteq Mergers
  /\ lease \in [Mergers -> 0..LeaseTerm]
  /\ failed \subseteq {"lease", "unmerge"}

FlagTypes ==
  /\ enabled \in BOOLEAN
  /\ mutex \in [Mergers -> Threads \cup {Nobody}]
  /\ view \in [Mergers -> BOOLEAN]
  /\ surface \in [Mergers -> BOOLEAN]

ThreadTypes ==
  /\ at \in [Threads -> Places]
  /\ engine \in [Threads -> Mergers]
  /\ rasterTasks \in Seq([name : {"setup", "teardown"}, engine : Mergers])

BoundTypes ==
  /\ ahead \in Nat
  /\ draws \in 0..MaxDraws
  /\ changes \in 0..MaxChanges

\* Together they are MergerTypeOK.
LEMMA Types == MergerTypeOK <=> SharedTypes /\ FlagTypes /\ ThreadTypes /\ BoundTypes
  BY DEF MergerTypeOK, SharedTypes, FlagTypes, ThreadTypes, BoundTypes

\* Every step keeps the types, one group of variables at a time.
LEMMA SharedTypesStep == MergerTypeOK /\ [MergerNext]_mergerVars => SharedTypes'
<1> SUFFICES ASSUME MergerTypeOK, [MergerNext]_mergerVars PROVE SharedTypes'
  OBVIOUS
<1> DEFINE Goal == SharedTypes
<1> USE Constants DEF MergerTypeOK, Places, SharedTypes
<1>1. ASSUME NEW t \in Threads, NEW m \in Mergers, StartDraw(t, m) PROVE Goal'
  BY <1>1 DEF StartDraw, Running, Server, sharedVars, threadVars, boundVars
<1>2. ASSUME NEW t \in Threads, PostPrerollAction(t) PROVE Goal'
  BY <1>2 DEF PostPrerollAction, Locks, Running, Goto, sharedVars, threadVars, boundVars
<1>3. ASSUME NEW t \in Threads, PrepareMerge(t) PROVE Goal'
  BY <1>3 DEF PrepareMerge, Locks, Running, Goto, Hold, sharedVars, threadVars, boundVars
<1>4. ASSUME NEW t \in Threads, PrepareExtend(t) PROVE Goal'
  BY <1>4 DEF PrepareExtend, Locks, Running, Goto, Hold, sharedVars, threadVars, boundVars
<1>5. ASSUME NEW t \in Threads, MergeWithLease(t) PROVE Goal'
  <2>1. engine[t] \in Mergers
    OBVIOUS
  <2>2. CASE UNCHANGED sharedVars
    BY <2>2, <1>5 DEF MergeWithLease, sharedVars
  <2>3. CASE merged' = TRUE /\ Record(engine[t])
    BY <2>1, <2>3, <1>5 DEF MergeWithLease, Record
  <2>. QED
    BY <2>2, <2>3, <1>5 DEF MergeWithLease
<1>6. ASSUME NEW t \in Threads, ExtendLeaseTo(t) PROVE Goal'
  BY <1>6 DEF ExtendLeaseTo, Running, Goto, Record, Release, sharedVars, threadVars, boundVars
<1>7. ASSUME NEW t \in Threads, PrepareDecrement(t) PROVE Goal'
  BY <1>7 DEF PrepareDecrement, Locks, Running, Goto, Hold, sharedVars, threadVars, boundVars
<1>8. ASSUME NEW t \in Threads, DecrementLease(t) PROVE Goal'
  <2> DEFINE m == engine[t]
  <2>1. m \in Mergers
    OBVIOUS
  <2>2. CASE m \in callers /\ lease[m] = 0
    BY <2>2, <1>8 DEF DecrementLease, sharedVars
  <2>3. CASE ~(m \in callers /\ lease[m] = 0)
    <3>1. /\ lease' = [lease EXCEPT ![m] = IF m \in callers THEN lease[m] - 1 ELSE lease[m]]
          /\ callers' = callers /\ UnMergeIfNoLease
      BY <2>3, <1>8 DEF DecrementLease
    <3>2. (IF m \in callers THEN lease[m] - 1 ELSE lease[m]) \in 0..LeaseTerm
      BY <2>1, <2>3
    <3>3. lease' \in [Mergers -> 0..LeaseTerm]
      BY <3>1, <3>2
    <3>4. merged' \in BOOLEAN /\ failed' \subseteq {"lease", "unmerge"}
      BY <3>1 DEF UnMergeIfNoLease
    <3>. QED
      BY <3>1, <3>3, <3>4
  <2>. QED
    BY <2>2, <2>3
<1>9. ASSUME NEW t \in Threads, StartTask(t) PROVE Goal'
  BY <1>9 DEF StartTask, Running, Server, sharedVars, threadVars, boundVars
<1>10. ASSUME NEW t \in Threads, SetUp(t) PROVE Goal'
  BY <1>10 DEF SetUp, Locks, Running, Goto, sharedVars, threadVars, boundVars
<1>11. ASSUME NEW t \in Threads, TearDown(t) PROVE Goal'
  BY <1>11 DEF TearDown, Locks, Running, Goto, sharedVars, threadVars, boundVars
<1>12. ASSUME NEW t \in Threads, PrepareUnMerge(t) PROVE Goal'
  BY <1>12 DEF PrepareUnMerge, Locks, Running, Hold, AfterTearDown, sharedVars, threadVars,
     boundVars
<1>17. ASSUME NEW t \in Threads, AskIsMerged(t) PROVE Goal'
  BY <1>17 DEF AskIsMerged, Locks, Running, Goto, AfterTearDown, sharedVars, threadVars,
     boundVars
<1>13. ASSUME NEW t \in Threads, UnMergeNowIfLastOne(t) PROVE Goal'
  BY <1>13 DEF UnMergeNowIfLastOne, Running, Release, UnMergeIfNoLease, AfterTearDown,
     sharedVars, threadVars, boundVars
<1>14. ASSUME NEW m \in Mergers, Disable(m) PROVE Goal'
  BY <1>14 DEF Disable, Running, sharedVars, threadVars, boundVars
<1>15. CASE PlaceRasterTask
  BY <1>15 DEF PlaceRasterTask, Running, Goto, sharedVars, threadVars, boundVars
<1>16. CASE UNCHANGED mergerVars
  BY <1>16 DEF mergerVars, sharedVars, threadVars, boundVars
<1>. QED
  BY <1>1, <1>2, <1>3, <1>4, <1>5, <1>6, <1>7, <1>8, <1>9, <1>10, <1>11, <1>12, <1>13, <1>14,
     <1>15, <1>16, <1>17 DEF MergerNext, DrawStep, ChangeStep

LEMMA FlagTypesStep == MergerTypeOK /\ [MergerNext]_mergerVars => FlagTypes'
<1> SUFFICES ASSUME MergerTypeOK, [MergerNext]_mergerVars PROVE FlagTypes'
  OBVIOUS
<1> DEFINE Goal == FlagTypes
<1> USE Constants DEF MergerTypeOK, Places, FlagTypes
<1>1. ASSUME NEW t \in Threads, NEW m \in Mergers, StartDraw(t, m) PROVE Goal'
  BY <1>1 DEF StartDraw, Running, Server, sharedVars, threadVars, boundVars
<1>2. ASSUME NEW t \in Threads, PostPrerollAction(t) PROVE Goal'
  BY <1>2 DEF PostPrerollAction, Locks, Running, Goto, sharedVars, threadVars, boundVars
<1>3. ASSUME NEW t \in Threads, PrepareMerge(t) PROVE Goal'
  <2>1. mutex' \in [Mergers -> Threads \cup {Nobody}]
    <3>1. engine[t] \in Mergers
      OBVIOUS
    <3>2. CASE Hold(t)
      BY <3>1, <3>2 DEF Hold
    <3>3. CASE UNCHANGED mutex
      BY <3>3
    <3>. QED
      BY <3>2, <3>3, <1>3 DEF PrepareMerge
  <2>2. UNCHANGED <<enabled, view, surface>>
    BY <1>3 DEF PrepareMerge
  <2>. QED
    BY <2>1, <2>2
<1>4. ASSUME NEW t \in Threads, PrepareExtend(t) PROVE Goal'
  <2>1. mutex' \in [Mergers -> Threads \cup {Nobody}]
    <3>1. engine[t] \in Mergers
      OBVIOUS
    <3>2. CASE Hold(t)
      BY <3>1, <3>2 DEF Hold
    <3>3. CASE UNCHANGED mutex
      BY <3>3
    <3>. QED
      BY <3>2, <3>3, <1>4 DEF PrepareExtend
  <2>2. UNCHANGED <<enabled, view, surface>>
    BY <1>4 DEF PrepareExtend
  <2>. QED
    BY <2>1, <2>2
<1>5. ASSUME NEW t \in Threads, MergeWithLease(t) PROVE Goal'
  BY <1>5 DEF MergeWithLease, Running, Goto, Record, Release, sharedVars, threadVars, boundVars
<1>6. ASSUME NEW t \in Threads, ExtendLeaseTo(t) PROVE Goal'
  BY <1>6 DEF ExtendLeaseTo, Running, Goto, Record, Release, sharedVars, threadVars, boundVars
<1>7. ASSUME NEW t \in Threads, PrepareDecrement(t) PROVE Goal'
  BY <1>7 DEF PrepareDecrement, Locks, Running, Goto, Hold, sharedVars, threadVars, boundVars
<1>8. ASSUME NEW t \in Threads, DecrementLease(t) PROVE Goal'
  BY <1>8 DEF DecrementLease, Running, Goto, Release, UnMergeIfNoLease, sharedVars, threadVars,
     boundVars
<1>9. ASSUME NEW t \in Threads, StartTask(t) PROVE Goal'
  BY <1>9 DEF StartTask, Running, Server, sharedVars, threadVars, boundVars
<1>10. ASSUME NEW t \in Threads, SetUp(t) PROVE Goal'
  BY <1>10 DEF SetUp, Locks, Running, Goto, sharedVars, threadVars, boundVars
<1>11. ASSUME NEW t \in Threads, TearDown(t) PROVE Goal'
  BY <1>11 DEF TearDown, Locks, Running, Goto, sharedVars, threadVars, boundVars
<1>12. ASSUME NEW t \in Threads, PrepareUnMerge(t) PROVE Goal'
  BY <1>12 DEF PrepareUnMerge, Locks, Running, Hold, AfterTearDown, sharedVars, threadVars,
     boundVars
<1>17. ASSUME NEW t \in Threads, AskIsMerged(t) PROVE Goal'
  BY <1>17 DEF AskIsMerged, Locks, Running, Goto, AfterTearDown, sharedVars, threadVars,
     boundVars
<1>13. ASSUME NEW t \in Threads, UnMergeNowIfLastOne(t) PROVE Goal'
  BY <1>13 DEF UnMergeNowIfLastOne, Running, Release, UnMergeIfNoLease, AfterTearDown,
     sharedVars, threadVars, boundVars
<1>14. ASSUME NEW m \in Mergers, Disable(m) PROVE Goal'
  BY <1>14 DEF Disable, Running, sharedVars, threadVars, boundVars
<1>15. CASE PlaceRasterTask
  BY <1>15 DEF PlaceRasterTask, Running, Goto, sharedVars, threadVars, boundVars
<1>16. CASE UNCHANGED mergerVars
  BY <1>16 DEF mergerVars, sharedVars, threadVars, boundVars
<1>. QED
  BY <1>1, <1>2, <1>3, <1>4, <1>5, <1>6, <1>7, <1>8, <1>9, <1>10, <1>11, <1>12, <1>13, <1>14,
     <1>15, <1>16, <1>17 DEF MergerNext, DrawStep, ChangeStep

LEMMA ThreadTypesStep == MergerTypeOK /\ [MergerNext]_mergerVars => ThreadTypes'
<1> SUFFICES ASSUME MergerTypeOK, [MergerNext]_mergerVars PROVE ThreadTypes'
  OBVIOUS
<1> DEFINE Goal == ThreadTypes
<1> USE Constants DEF MergerTypeOK, Places, ThreadTypes
<1>1. ASSUME NEW t \in Threads, NEW m \in Mergers, StartDraw(t, m) PROVE Goal'
  BY <1>1 DEF StartDraw, Running, Server, sharedVars, threadVars, boundVars
<1>2. ASSUME NEW t \in Threads, PostPrerollAction(t) PROVE Goal'
  BY <1>2 DEF PostPrerollAction, Locks, Running, Goto, sharedVars, threadVars, boundVars
<1>3. ASSUME NEW t \in Threads, PrepareMerge(t) PROVE Goal'
  BY <1>3 DEF PrepareMerge, Locks, Running, Goto, Hold, sharedVars, threadVars, boundVars
<1>4. ASSUME NEW t \in Threads, PrepareExtend(t) PROVE Goal'
  BY <1>4 DEF PrepareExtend, Locks, Running, Goto, Hold, sharedVars, threadVars, boundVars
<1>5. ASSUME NEW t \in Threads, MergeWithLease(t) PROVE Goal'
  BY <1>5 DEF MergeWithLease, Running, Goto, Record, Release, sharedVars, threadVars, boundVars
<1>6. ASSUME NEW t \in Threads, ExtendLeaseTo(t) PROVE Goal'
  BY <1>6 DEF ExtendLeaseTo, Running, Goto, Record, Release, sharedVars, threadVars, boundVars
<1>7. ASSUME NEW t \in Threads, PrepareDecrement(t) PROVE Goal'
  BY <1>7 DEF PrepareDecrement, Locks, Running, Goto, Hold, sharedVars, threadVars, boundVars
<1>8. ASSUME NEW t \in Threads, DecrementLease(t) PROVE Goal'
  BY <1>8 DEF DecrementLease, Running, Goto, Release, UnMergeIfNoLease, sharedVars, threadVars,
     boundVars
<1>9. ASSUME NEW t \in Threads, StartTask(t) PROVE Goal'
  <2>1. rasterTasks # <<>> /\ rasterTasks \in Seq([name : {"setup", "teardown"}, engine : Mergers])
    BY <1>9 DEF StartTask
  <2>2. /\ Head(rasterTasks) \in [name : {"setup", "teardown"}, engine : Mergers]
        /\ Tail(rasterTasks) \in Seq([name : {"setup", "teardown"}, engine : Mergers])
    BY <2>1, HeadAndTail
  <2>3. Head(rasterTasks).name \in Places /\ Head(rasterTasks).engine \in Mergers
    BY <2>2
  <2>. QED
    BY <2>2, <2>3, <1>9 DEF StartTask
<1>10. ASSUME NEW t \in Threads, SetUp(t) PROVE Goal'
  BY <1>10 DEF SetUp, Locks, Running, Goto, sharedVars, threadVars, boundVars
<1>11. ASSUME NEW t \in Threads, TearDown(t) PROVE Goal'
  BY <1>11 DEF TearDown, Locks, Running, Goto, sharedVars, threadVars, boundVars
<1>12. ASSUME NEW t \in Threads, PrepareUnMerge(t) PROVE Goal'
  <2>1. rasterTasks' = rasterTasks /\ engine' = engine
    BY <1>12 DEF PrepareUnMerge, Goto, AfterTearDown
  <2>2. CASE Goto(t, "unmerging")
    BY <2>1, <2>2 DEF Goto
  <2>3. CASE AfterTearDown(t)
    BY <2>1, <2>3 DEF AfterTearDown
  <2>. QED
    BY <2>2, <2>3, <1>12 DEF PrepareUnMerge
<1>17. ASSUME NEW t \in Threads, AskIsMerged(t) PROVE Goal'
  <2>1. rasterTasks' = rasterTasks /\ engine' = engine
    BY <1>17 DEF AskIsMerged, Goto, AfterTearDown
  <2>2. CASE Goto(t, "unmerge")
    BY <2>1, <2>2 DEF Goto
  <2>3. CASE AfterTearDown(t)
    BY <2>1, <2>3 DEF AfterTearDown
  <2>. QED
    BY <2>2, <2>3, <1>17 DEF AskIsMerged
<1>13. ASSUME NEW t \in Threads, UnMergeNowIfLastOne(t) PROVE Goal'
  BY <1>13 DEF UnMergeNowIfLastOne, Running, Release, UnMergeIfNoLease, AfterTearDown,
     sharedVars, threadVars, boundVars
<1>14. ASSUME NEW m \in Mergers, Disable(m) PROVE Goal'
  BY <1>14 DEF Disable, Running, sharedVars, threadVars, boundVars
<1>15. CASE PlaceRasterTask
  <2>1. engine[Platform] \in Mergers /\ engine' = engine
    BY <1>15 DEF PlaceRasterTask, Goto
  <2>2. PICK place \in Places : at' = [at EXCEPT ![Platform] = place]
    BY <1>15 DEF PlaceRasterTask, Goto
  <2>3. \/ rasterTasks' = rasterTasks
        \/ \E name \in {"setup", "teardown"} :
             rasterTasks' = Append(rasterTasks, [name |-> name, engine |-> engine[Platform]])
    BY <1>15 DEF PlaceRasterTask
  <2>4. rasterTasks' \in Seq([name : {"setup", "teardown"}, engine : Mergers])
    <3>1. ASSUME NEW name \in {"setup", "teardown"}
          PROVE  Append(rasterTasks, [name |-> name, engine |-> engine[Platform]])
                   \in Seq([name : {"setup", "teardown"}, engine : Mergers])
      <4>1. [name |-> name, engine |-> engine[Platform]]
              \in [name : {"setup", "teardown"}, engine : Mergers]
        BY <2>1
      <4>. QED
        BY <4>1, Appended
    <3>. QED
      BY <2>3, <3>1
  <2>. QED
    BY <2>1, <2>2, <2>4
<1>16. CASE UNCHANGED mergerVars
  BY <1>16 DEF mergerVars, sharedVars, threadVars, boundVars
<1>. QED
  BY <1>1, <1>2, <1>3, <1>4, <1>5, <1>6, <1>7, <1>8, <1>9, <1>10, <1>11, <1>12, <1>13, <1>14,
     <1>15, <1>16, <1>17 DEF MergerNext, DrawStep, ChangeStep

LEMMA BoundTypesStep == MergerTypeOK /\ [MergerNext]_mergerVars => BoundTypes'
<1> SUFFICES ASSUME MergerTypeOK, [MergerNext]_mergerVars PROVE BoundTypes'
  OBVIOUS
<1> DEFINE Goal == BoundTypes
<1> USE Constants DEF MergerTypeOK, Places, BoundTypes
<1>1. ASSUME NEW t \in Threads, NEW m \in Mergers, StartDraw(t, m) PROVE Goal'
  BY <1>1 DEF StartDraw, Running, Server, sharedVars, threadVars, boundVars
<1>2. ASSUME NEW t \in Threads, PostPrerollAction(t) PROVE Goal'
  BY <1>2 DEF PostPrerollAction, Locks, Running, Goto, sharedVars, threadVars, boundVars
<1>3. ASSUME NEW t \in Threads, PrepareMerge(t) PROVE Goal'
  BY <1>3 DEF PrepareMerge, Locks, Running, Goto, Hold, sharedVars, threadVars, boundVars
<1>4. ASSUME NEW t \in Threads, PrepareExtend(t) PROVE Goal'
  BY <1>4 DEF PrepareExtend, Locks, Running, Goto, Hold, sharedVars, threadVars, boundVars
<1>5. ASSUME NEW t \in Threads, MergeWithLease(t) PROVE Goal'
  BY <1>5 DEF MergeWithLease, Running, Goto, Record, Release, sharedVars, threadVars, boundVars
<1>6. ASSUME NEW t \in Threads, ExtendLeaseTo(t) PROVE Goal'
  BY <1>6 DEF ExtendLeaseTo, Running, Goto, Record, Release, sharedVars, threadVars, boundVars
<1>7. ASSUME NEW t \in Threads, PrepareDecrement(t) PROVE Goal'
  BY <1>7 DEF PrepareDecrement, Locks, Running, Goto, Hold, sharedVars, threadVars, boundVars
<1>8. ASSUME NEW t \in Threads, DecrementLease(t) PROVE Goal'
  BY <1>8 DEF DecrementLease, Running, Goto, Release, UnMergeIfNoLease, sharedVars, threadVars,
     boundVars
<1>9. ASSUME NEW t \in Threads, StartTask(t) PROVE Goal'
  BY <1>9 DEF StartTask, Running, Server, sharedVars, threadVars, boundVars
<1>10. ASSUME NEW t \in Threads, SetUp(t) PROVE Goal'
  BY <1>10 DEF SetUp, Locks, Running, Goto, sharedVars, threadVars, boundVars
<1>11. ASSUME NEW t \in Threads, TearDown(t) PROVE Goal'
  BY <1>11 DEF TearDown, Locks, Running, Goto, sharedVars, threadVars, boundVars
<1>12. ASSUME NEW t \in Threads, PrepareUnMerge(t) PROVE Goal'
  BY <1>12 DEF PrepareUnMerge, Locks, Running, Hold, AfterTearDown, sharedVars, threadVars,
     boundVars
<1>17. ASSUME NEW t \in Threads, AskIsMerged(t) PROVE Goal'
  BY <1>17 DEF AskIsMerged, Locks, Running, Goto, AfterTearDown, sharedVars, threadVars,
     boundVars
<1>13. ASSUME NEW t \in Threads, UnMergeNowIfLastOne(t) PROVE Goal'
  BY <1>13 DEF UnMergeNowIfLastOne, Running, Release, UnMergeIfNoLease, AfterTearDown,
     sharedVars, threadVars, boundVars
<1>14. ASSUME NEW m \in Mergers, Disable(m) PROVE Goal'
  BY <1>14 DEF Disable, Running, sharedVars, threadVars, boundVars
<1>15. CASE PlaceRasterTask
  BY <1>15 DEF PlaceRasterTask, Running, Goto, sharedVars, threadVars, boundVars
<1>16. CASE UNCHANGED mergerVars
  BY <1>16 DEF mergerVars, sharedVars, threadVars, boundVars
<1>. QED
  BY <1>1, <1>2, <1>3, <1>4, <1>5, <1>6, <1>7, <1>8, <1>9, <1>10, <1>11, <1>12, <1>13, <1>14,
     <1>15, <1>16, <1>17 DEF MergerNext, DrawStep, ChangeStep

\* All groups together.
LEMMA TypesStep == MergerTypeOK /\ [MergerNext]_mergerVars => MergerTypeOK'
  BY Types, SharedTypesStep, FlagTypesStep, ThreadTypesStep, BoundTypesStep
     DEF MergerTypeOK, SharedTypes, FlagTypes, ThreadTypes, BoundTypes

-----------------------------------------------------------------------------
(* What the steps of the shared merger do to the leases.                   *)

\* Whether there is a lease depends on the recorded leases only.
LEMMA LeasesUnchanged == UNCHANGED <<callers, lease>> => (Leased' <=> Leased)
  BY DEF Leased

\* Recording a lease for an engine leaves those of the others alone.
LEMMA LeaseRecorded ==
  ASSUME MergerTypeOK, NEW m \in Mergers, Record(m)
  PROVE  Leased' /\ lease'[m] = LeaseTerm /\ \A n \in Mergers \ {m} : lease'[n] = lease[n]
  BY Constants DEF MergerTypeOK, Record, Leased

\* A decrement takes a frame from the lease of its engine only, and ends the last
\* lease only if that has one frame left.
LEMMA LeaseDecremented ==
  ASSUME MergerTypeOK, NEW m \in Mergers, ~(m \in callers /\ lease[m] = 0), UNCHANGED callers,
         lease' = [lease EXCEPT ![m] = IF m \in callers THEN lease[m] - 1 ELSE lease[m]]
  PROVE  /\ Leased' => Leased
         /\ Leased /\ (m \in callers => lease[m] >= 2) => Leased'
         /\ m \in callers => lease'[m] = lease[m] - 1
         /\ \A n \in Mergers \ {m} : lease'[n] = lease[n]
<1>1. /\ m \in callers => lease'[m] = lease[m] - 1
      /\ m \notin callers => lease'[m] = lease[m]
      /\ \A n \in Mergers \ {m} : lease'[n] = lease[n]
  BY DEF MergerTypeOK
<1>2. \A n \in Mergers : lease[n] \in Nat /\ lease[n] >= 0
  BY Constants DEF MergerTypeOK
<1>3. Leased' => Leased
  BY <1>1, <1>2 DEF Leased, MergerTypeOK
<1>4. ASSUME Leased, m \in callers => lease[m] >= 2 PROVE Leased'
  <2>1. PICK n \in callers : lease[n] > 0
    BY <1>4 DEF Leased
  <2>2. lease'[n] > 0
    BY <1>1, <1>2, <1>4, <2>1 DEF MergerTypeOK
  <2>. QED
    BY <2>1, <2>2 DEF Leased
<1>. QED
  BY <1>1, <1>3, <1>4

\* The lease of an engine is given up.
LEMMA LeaseGivenUp ==
  ASSUME NEW m, callers' = callers \ {m}, UNCHANGED lease
  PROVE  Leased' => Leased
  BY DEF Leased

-----------------------------------------------------------------------------
(* The invariant of the merger.                                            *)

\* Nothing is merged and nobody draws at first.
LEMMA InitMergerInv == MergerInit => MergerInv
<1> SUFFICES ASSUME MergerInit PROVE MergerInv
  OBVIOUS
<1>1. MergerTypeOK
  <2>1. <<>> \in Seq([name : {"setup", "teardown"}, engine : Mergers])
    OBVIOUS
  <2>. QED
    <3>1. /\ merged \in BOOLEAN /\ enabled \in BOOLEAN /\ callers \subseteq Mergers
          /\ failed \subseteq {"lease", "unmerge"} /\ rasterTasks = <<>>
          /\ ahead = 0 /\ draws = 0 /\ changes = 0
      BY DEF MergerInit
    <3>2. lease \in [Mergers -> 0..LeaseTerm] /\ mutex \in [Mergers -> Threads \cup {Nobody}]
      BY Constants DEF MergerInit
    <3>3. view \in [Mergers -> BOOLEAN] /\ surface \in [Mergers -> BOOLEAN]
      BY DEF MergerInit
    <3>4. at \in [Threads -> Places] /\ engine \in [Threads -> Mergers]
      BY DEF MergerInit, Places
    <3>. QED
      BY <2>1, <3>1, <3>2, <3>3, <3>4, Constants DEF MergerTypeOK
<1>2. ~Leased
  BY DEF MergerInit, Leased
<1>3. at[Platform] = "idle" /\ at[Raster] = "idle" /\ ~merged /\ ahead = 0
  BY Constants DEF MergerInit
<1>. QED
  BY <1>1, <1>2, <1>3, Constants DEF MergerInv, LeaseInv, LeasesMatchQueues, MergesFromRaster,
     PlatformDrawsMerged, AheadIsCounted, LeaseOutlastsDraw, Drawing, Leaving

\* The queues are merged by the raster thread, and from then on it is leaving.
LEMMA MergeStep ==
  ASSUME MergerInv, NEW t \in Threads, MergeWithLease(t)
  PROVE  LeaseInv'
<1>1. t = Raster /\ at[Raster] = "merging" /\ ~merged /\ ~Leased /\ ahead = 0
  BY DEF MergeWithLease, MergerInv, LeaseInv, MergesFromRaster, Leaving, LeasesMatchQueues,
     AheadIsCounted,
     Drawing, Threads
<1>2. merged' = TRUE /\ Record(engine[Raster]) /\ engine' = engine /\ ahead' = ahead
  BY <1>1 DEF MergeWithLease, Goto, boundVars
<1>3. engine[Raster] \in Mergers /\ at \in [Threads -> Places] /\ MergerTypeOK
  BY Constants DEF MergerInv, LeaseInv, MergerTypeOK
<1>4. at'[Raster] = "decrement" /\ at'[Platform] = at[Platform]
  BY <1>1, <1>3, Constants DEF MergeWithLease, Goto
<1>5. Leased' /\ lease'[engine[Raster]] = LeaseTerm
  BY <1>2, <1>3, LeaseRecorded
<1>6. at[Platform] \notin Drawing
  BY <1>1 DEF MergerInv, LeaseInv, PlatformDrawsMerged
<1>7. LeaseOutlastsDraw'
  BY <1>1, <1>2, <1>4, <1>5, <1>6, Constants DEF LeaseOutlastsDraw, PlatformDraws
<1>. QED
  BY <1>1, <1>2, <1>4, <1>5, <1>6, <1>7, Constants DEF MergerInv, LeaseInv, LeasesMatchQueues,
     MergesFromRaster,
     PlatformDrawsMerged, AheadIsCounted, Drawing, Leaving

\* Only the platform thread extends a lease, and finds one.
LEMMA ExtendStep ==
  ASSUME MergerInv, NEW t \in Threads, ExtendLeaseTo(t)
  PROVE  LeaseInv'
<1>1. t = Platform /\ at[Platform] = "extending" /\ merged
  BY DEF ExtendLeaseTo, MergerInv, LeaseInv, MergesFromRaster, PlatformDrawsMerged, Drawing,
     Threads
<1>2. Record(engine[Platform]) /\ engine' = engine /\ UNCHANGED <<merged, ahead>>
  BY <1>1 DEF ExtendLeaseTo, Goto, boundVars
<1>3. /\ engine[Platform] \in Mergers /\ engine[Raster] \in Mergers
      /\ at \in [Threads -> Places] /\ MergerTypeOK
      /\ lease[engine[Raster]] \in Nat /\ ahead \in Nat
  BY Constants DEF MergerInv, LeaseInv, MergerTypeOK
<1>4. at'[Platform] = "decrement" /\ at'[Raster] = at[Raster]
  BY <1>1, <1>3, Constants DEF ExtendLeaseTo, Goto
<1>5. /\ Leased' /\ lease'[engine[Platform]] = LeaseTerm
      /\ \A n \in Mergers \ {engine[Platform]} : lease'[n] = lease[n]
  BY <1>2, <1>3, LeaseRecorded
<1>6. LeaseOutlastsDraw'
  <2>1. SUFFICES ASSUME at[Raster] \in Leaving, engine[Raster] \in callers'
                 PROVE  lease'[engine[Raster]] + ahead >= LeaseTerm + 1
    BY <1>2, <1>4 DEF LeaseOutlastsDraw, PlatformDraws, Drawing
  <2>2. ahead >= 1
    BY <2>1, <1>1 DEF MergerInv, LeaseInv, AheadIsCounted, Drawing
  <2>3. CASE engine[Raster] = engine[Platform]
    BY <1>3, <1>5, <2>2, <2>3, Constants
  <2>4. CASE engine[Raster] # engine[Platform]
    <3>1. engine[Raster] \in callers /\ PlatformDraws = 1
      BY <1>1, <1>2, <2>1, <2>4 DEF Record, PlatformDraws, Drawing
    <3>. QED
      BY <1>1, <1>3, <1>5, <2>1, <2>4, <3>1 DEF MergerInv, LeaseInv, LeaseOutlastsDraw
  <2>. QED
    BY <2>3, <2>4
<1>. QED
  BY <1>1, <1>2, <1>4, <1>5, <1>6, Constants DEF MergerInv, LeaseInv, LeasesMatchQueues,
     MergesFromRaster,
     PlatformDrawsMerged, AheadIsCounted, Drawing, Leaving

\* Neither thread takes a lease that the other one counts on: the raster thread's
\* own still has two frames, the platform thread ends its Draw with the decrement.
LEMMA DecrementStep ==
  ASSUME MergerInv, NEW t \in Threads, DecrementLease(t)
  PROVE  LeaseInv'
<1> DEFINE m == engine[t]
<1>1. /\ m \in Mergers /\ engine[Raster] \in Mergers
      /\ at \in [Threads -> Places] /\ MergerTypeOK /\ merged \in BOOLEAN
      /\ lease[engine[Raster]] \in Nat /\ ahead \in Nat
  BY Constants DEF MergerInv, MergerTypeOK
<1>2. /\ at[t] = "decrementing" /\ at'[t] = "idle" /\ engine' = engine /\ ahead' = ahead
      /\ \A u \in Threads \ {t} : at'[u] = at[u]
  BY <1>1 DEF DecrementLease, Goto, boundVars
<1>3. CASE m \in callers /\ lease[m] = 0
  <2>1. UNCHANGED sharedVars
    BY <1>3 DEF DecrementLease
  <2>2. Leased' <=> Leased
    BY <2>1, LeasesUnchanged DEF sharedVars
  <2>. QED
    BY <1>1, <1>2, <2>1, <2>2, Constants DEF sharedVars, MergerInv, LeaseInv, LeasesMatchQueues,
       MergesFromRaster, PlatformDrawsMerged, AheadIsCounted, LeaseOutlastsDraw, PlatformDraws,
       Drawing, Leaving, Threads
<1>4. CASE ~(m \in callers /\ lease[m] = 0)
  <2>1. /\ lease' = [lease EXCEPT ![m] = IF m \in callers THEN lease[m] - 1 ELSE lease[m]]
        /\ UNCHANGED callers /\ UnMergeIfNoLease
    BY <1>4 DEF DecrementLease
  <2>2. /\ Leased' => Leased
        /\ Leased /\ (m \in callers => lease[m] >= 2) => Leased'
        /\ m \in callers => lease'[m] = lease[m] - 1
        /\ \A n \in Mergers \ {m} : lease'[n] = lease[n]
    BY <1>1, <1>4, <2>1, LeaseDecremented
  <2>3. /\ Leased' => merged' = merged
        /\ ~Leased' => merged' = FALSE
    BY <2>1 DEF UnMergeIfNoLease
  <2>4. Leased <=> merged
    BY DEF MergerInv, LeaseInv, LeasesMatchQueues
  <2>5. LeasesMatchQueues'
    BY <1>1, <2>2, <2>3, <2>4 DEF LeasesMatchQueues
  <2>6. CASE t = Raster
    <3>1. merged => Leased'
      BY <1>1, <1>2, <2>2, <2>4, <2>6, Constants
         DEF MergerInv, LeaseInv, LeaseOutlastsDraw, AheadIsCounted, PlatformDraws, Leaving
    <3>2. merged' = merged
      BY <1>1, <2>3, <2>4, <2>2, <3>1
    <3>. QED
      BY <1>1, <1>2, <2>5, <2>6, <3>2, Constants
         DEF MergerInv, LeaseInv, MergesFromRaster, PlatformDrawsMerged, AheadIsCounted,
             LeaseOutlastsDraw, Drawing, Leaving, Threads
  <2>7. CASE t = Platform
    <3>1. at'[Raster] = at[Raster] /\ at'[Platform] = "idle" /\ at[Platform] = "decrementing"
      BY <1>2, <2>7, Constants
    <3>2. PlatformDraws' = 0 /\ PlatformDraws = 1
      BY <3>1 DEF PlatformDraws, Drawing
    <3>3. merged' => merged
      BY <2>2, <2>3, <2>4
    <3>4. engine[Raster] \in callers => \/ lease'[engine[Raster]] = lease[engine[Raster]] - 1
                                       \/ lease'[engine[Raster]] = lease[engine[Raster]]
      BY <1>1, <2>2
    <3>5. LeaseOutlastsDraw'
      <4>1. SUFFICES ASSUME merged', at[Raster] \in Leaving, engine[Raster] \in callers
                     PROVE  lease'[engine[Raster]] + ahead >= LeaseTerm
        BY <1>2, <2>1, <3>1, <3>2, Constants DEF LeaseOutlastsDraw
      <4>2. lease[engine[Raster]] + ahead >= LeaseTerm + 1
        BY <3>2, <3>3, <4>1 DEF MergerInv, LeaseInv, LeaseOutlastsDraw
      <4>. QED
        BY <1>1, <3>4, <4>1, <4>2, Constants
    <3>. QED
      BY <1>2, <2>5, <3>1, <3>3, <3>5, Constants
         DEF MergerInv, LeaseInv, MergesFromRaster, PlatformDrawsMerged, AheadIsCounted, Drawing,
             Leaving
  <2>. QED
    BY <2>6, <2>7 DEF Threads
<1>. QED
  BY <1>3, <1>4

\* A Teardown that gives up a lease in merged queues runs on the platform thread,
\* which is not drawing then.
LEMMA UnMergeStep ==
  ASSUME MergerInv, NEW t \in Threads, UnMergeNowIfLastOne(t)
  PROVE  LeaseInv'
<1>1. /\ at \in [Threads -> Places] /\ merged \in BOOLEAN
      /\ at[t] = "unmerging" /\ callers' = callers \ {engine[t]} /\ UNCHANGED lease
      /\ engine' = engine /\ ahead' = ahead /\ UnMergeIfNoLease
  BY DEF UnMergeNowIfLastOne, AfterTearDown, boundVars, MergerInv, MergerTypeOK
<1>2. \A u \in Threads : at'[u] = "idle" \/ (u # t /\ at'[u] = at[u])
  BY <1>1 DEF UnMergeNowIfLastOne, AfterTearDown
<1>3. Leased' => Leased
  BY <1>1, LeaseGivenUp
<1>4. Leased <=> merged
  BY DEF MergerInv, LeaseInv, LeasesMatchQueues
<1>5. /\ Leased' => merged' = merged
      /\ ~Leased' => merged' = FALSE
  BY <1>1 DEF UnMergeIfNoLease
<1>6. LeasesMatchQueues' /\ (merged' => merged)
  BY <1>1, <1>3, <1>4, <1>5 DEF LeasesMatchQueues
<1>7. CASE t = Platform
  <2>1. /\ at'[Platform] = "idle" /\ (at'[Raster] = "idle" \/ at'[Raster] = at[Raster])
        /\ at[Platform] = "unmerging"
    BY <1>1, <1>2, <1>7, Constants
  <2>2. LeaseOutlastsDraw'
    BY <1>1, <1>6, <2>1, Constants
       DEF MergerInv, LeaseInv, LeaseOutlastsDraw, PlatformDraws, Drawing, Leaving
  <2>. QED
    BY <1>1, <1>6, <2>1, <2>2, Constants
       DEF MergerInv, LeaseInv, MergesFromRaster, PlatformDrawsMerged, AheadIsCounted, Drawing,
           Leaving
<1>8. CASE t = Raster
  <2>1. ~merged /\ ~merged'
    BY <1>1, <1>6, <1>8 DEF MergerInv, LeaseInv, MergesFromRaster, Leaving
  <2>2. /\ at'[Raster] = "idle" /\ (at'[Platform] = "idle" \/ at'[Platform] = at[Platform])
        /\ at[Platform] \notin Drawing
    BY <1>2, <1>8, <2>1, Constants DEF MergerInv, LeaseInv, PlatformDrawsMerged
  <2>. QED
    BY <1>1, <1>6, <2>1, <2>2, Constants
       DEF MergerInv, LeaseInv, MergesFromRaster, PlatformDrawsMerged, AheadIsCounted,
           LeaseOutlastsDraw, Drawing, Leaving
<1>. QED
  BY <1>7, <1>8 DEF Threads

\* All other steps leave the leases and the queues alone.
LEMMA OtherStep ==
  ASSUME MergerInv, UNCHANGED sharedVars, [MergerNext]_mergerVars
  PROVE  LeaseInv'
<1>1. (Leased' <=> Leased) /\ LeasesMatchQueues' /\ (Leased <=> merged) /\ merged' = merged
  BY LeasesUnchanged DEF MergerInv, LeaseInv, LeasesMatchQueues, sharedVars
<1> DEFINE Goal == LeaseInv
<1>0. Platform \in Threads /\ Raster \in Threads /\ Platform # Raster /\ LeaseTerm \in Nat
       /\ LeaseTerm >= 2
  BY Constants
<1>. USE <1>0, <1>1 DEF MergerInv, MergerTypeOK, Places, LeaseInv, MergesFromRaster,
   PlatformDrawsMerged,
        AheadIsCounted, LeaseOutlastsDraw, PlatformDraws, Drawing, Leaving, Threads, sharedVars
<1>2. ASSUME NEW t \in Threads, NEW m \in Mergers, StartDraw(t, m) PROVE Goal'
  BY <1>2 DEF StartDraw, Server, boundVars, threadVars
<1>3. ASSUME NEW t \in Threads, PostPrerollAction(t) PROVE Goal'
  BY <1>3 DEF PostPrerollAction, Locks, Running, Goto, boundVars, threadVars
<1>4. ASSUME NEW t \in Threads, PrepareMerge(t) PROVE Goal'
  BY <1>4 DEF PrepareMerge, Locks, Running, Goto, Hold, boundVars, threadVars
<1>5. ASSUME NEW t \in Threads, PrepareExtend(t) PROVE Goal'
  BY <1>5 DEF PrepareExtend, Locks, Running, Goto, Hold, boundVars, threadVars
<1>6. ASSUME NEW t \in Threads, PrepareDecrement(t) PROVE Goal'
  BY <1>6 DEF PrepareDecrement, Locks, Running, Goto, Hold, boundVars, threadVars
<1>7. ASSUME NEW t \in Threads, StartTask(t) PROVE Goal'
  <2>1. Head(rasterTasks).name \in {"setup", "teardown"}
    BY <1>7, TaskNames DEF StartTask
  <2>2. t = (IF merged THEN Platform ELSE Raster) /\ at[t] = "idle" /\ ahead' = ahead
    BY <1>7 DEF StartTask, Server, boundVars
  <2>3. /\ at' = [at EXCEPT ![t] = Head(rasterTasks).name]
        /\ \A u \in Threads \ {t} : engine'[u] = engine[u]
    BY <1>7 DEF StartTask
  <2>4. CASE t = Platform
    BY <2>1, <2>2, <2>3, <2>4
  <2>5. CASE t = Raster
    BY <2>1, <2>2, <2>3, <2>5
  <2>. QED
    BY <2>4, <2>5
<1>8. ASSUME NEW t \in Threads, SetUp(t) PROVE Goal'
  BY <1>8 DEF SetUp, Locks, Running, Goto, boundVars, threadVars
<1>9. ASSUME NEW t \in Threads, TearDown(t) PROVE Goal'
  BY <1>9 DEF TearDown, Locks, Running, Goto, boundVars, threadVars
<1>10. ASSUME NEW t \in Threads, PrepareUnMerge(t) PROVE Goal'
  <2>1. /\ engine' = engine /\ ahead' = ahead /\ at[t] = "unmerge"
        /\ \/ at'[t] = "unmerging"
           \/ at'[t] = "idle"
        /\ \A u \in Threads \ {t} : at'[u] = at[u] \/ (at[u] = "waiting" /\ at'[u] = "idle")
    BY <1>10 DEF PrepareUnMerge, Locks, Goto, AfterTearDown, boundVars
  <2>2. CASE t = Platform
    BY <2>1, <2>2
  <2>3. CASE t = Raster
    BY <2>1, <2>3
  <2>. QED
    BY <2>2, <2>3
<1>15. ASSUME NEW t \in Threads, AskIsMerged(t) PROVE Goal'
  <2>1. /\ engine' = engine /\ ahead' = ahead /\ at[t] = "torn"
        /\ at'[t] \in {"unmerge", "idle"}
        /\ \A u \in Threads \ {t} : at'[u] = at[u] \/ (at[u] = "waiting" /\ at'[u] = "idle")
    BY <1>15 DEF AskIsMerged, Locks, Goto, AfterTearDown, boundVars
  <2>2. CASE t = Platform
    BY <2>1, <2>2
  <2>3. CASE t = Raster
    BY <2>1, <2>3
  <2>. QED
    BY <2>2, <2>3
<1>11. ASSUME NEW m \in Mergers, Disable(m) PROVE Goal'
  BY <1>11 DEF Disable, Running, boundVars, threadVars
<1>12. CASE PlaceRasterTask
  BY <1>12 DEF PlaceRasterTask, Goto, boundVars, threadVars
<1>13. CASE UNCHANGED mergerVars
  BY <1>13 DEF mergerVars, boundVars, threadVars
<1>14. ASSUME NEW t \in Threads, MergeWithLease(t) \/ ExtendLeaseTo(t) \/ DecrementLease(t) \/
   UnMergeNowIfLastOne(t)
      PROVE  Goal'
  BY <1>14, MergeStep, ExtendStep, DecrementStep, UnMergeStep
<1>. QED
  BY <1>2, <1>3, <1>4, <1>5, <1>6, <1>7, <1>8, <1>9, <1>10, <1>11, <1>12, <1>13, <1>14,
     <1>15 DEF MergerNext, DrawStep, ChangeStep

\* All steps together.
LEMMA LeaseInvStep == MergerInv /\ [MergerNext]_mergerVars => LeaseInv'
<1> SUFFICES ASSUME MergerInv, [MergerNext]_mergerVars PROVE LeaseInv'
  OBVIOUS
<1>1. CASE UNCHANGED sharedVars
  BY <1>1, OtherStep
<1>2. ASSUME NEW t \in Threads,
             MergeWithLease(t) \/ ExtendLeaseTo(t) \/ DecrementLease(t) \/ UnMergeNowIfLastOne(t)
      PROVE  LeaseInv'
  BY <1>2, MergeStep, ExtendStep, DecrementStep, UnMergeStep
<1>. QED
  BY <1>1, <1>2 DEF MergerNext, StartDraw, DrawStep, ChangeStep, PostPrerollAction, PrepareMerge,
     PrepareExtend, PrepareDecrement, StartTask, SetUp, TearDown, AskIsMerged,
     PrepareUnMerge, Disable,
     PlaceRasterTask, mergerVars

-----------------------------------------------------------------------------
(* The mutexes of the engines.                                             *)

\* A mutex is taken on the way into the shared merger and kept until the way out.
LEMMA MutexStep == MergerTypeOK /\ MutexIsHeld /\ [MergerNext]_mergerVars => MutexIsHeld'
<1> SUFFICES ASSUME MergerTypeOK, MutexIsHeld, [MergerNext]_mergerVars PROVE MutexIsHeld'
  OBVIOUS
<1> DEFINE Goal == MutexIsHeld
<1>0. Platform \in Threads /\ Raster \in Threads /\ Platform # Raster /\ Nobody \notin Threads
  BY Constants
<1>. USE <1>0 DEF MergerTypeOK, MutexIsHeld, Holding
<1>1. ASSUME NEW t \in Threads, NEW m \in Mergers, StartDraw(t, m) PROVE Goal'
  <2>1. \/ UNCHANGED <<at, engine, mutex>>
        \/ /\ at' = [at EXCEPT ![t] = "preroll"] /\ engine' = [engine EXCEPT ![t] = m]
           /\ mutex' = mutex
    BY <1>1 DEF StartDraw, threadVars
  <2>. QED
    BY <2>1
<1>2. ASSUME NEW t \in Threads, PostPrerollAction(t) PROVE Goal'
  BY <1>2 DEF PostPrerollAction, Locks, Running, Goto, sharedVars, threadVars, boundVars
<1>3. ASSUME NEW t \in Threads, PrepareMerge(t) PROVE Goal'
  <2>1. CASE Goto(t, "merging") /\ Hold(t)
    BY <2>1, <1>3 DEF PrepareMerge, Locks, Goto, Hold
  <2>2. CASE Goto(t, "decrement") /\ UNCHANGED mutex
    BY <2>2 DEF Goto
  <2>. QED
    BY <2>1, <2>2, <1>3 DEF PrepareMerge
<1>4. ASSUME NEW t \in Threads, PrepareExtend(t) PROVE Goal'
  <2>1. CASE Goto(t, "extending") /\ Hold(t)
    BY <2>1, <1>4 DEF PrepareExtend, Locks, Goto, Hold
  <2>2. CASE Goto(t, "decrement") /\ UNCHANGED mutex
    BY <2>2 DEF Goto
  <2>. QED
    BY <2>1, <2>2, <1>4 DEF PrepareExtend
<1>5. ASSUME NEW t \in Threads, MergeWithLease(t) PROVE Goal'
  BY <1>5 DEF MergeWithLease, Running, Goto, Record, Release, sharedVars, threadVars, boundVars
<1>6. ASSUME NEW t \in Threads, ExtendLeaseTo(t) PROVE Goal'
  BY <1>6 DEF ExtendLeaseTo, Running, Goto, Record, Release, sharedVars, threadVars, boundVars
<1>7. ASSUME NEW t \in Threads, PrepareDecrement(t) PROVE Goal'
  <2>1. CASE Goto(t, "decrementing") /\ Hold(t)
    BY <2>1, <1>7 DEF PrepareDecrement, Locks, Goto, Hold
  <2>2. CASE Goto(t, "idle") /\ UNCHANGED mutex
    BY <2>2 DEF Goto
  <2>. QED
    BY <2>1, <2>2, <1>7 DEF PrepareDecrement
<1>8. ASSUME NEW t \in Threads, DecrementLease(t) PROVE Goal'
  BY <1>8 DEF DecrementLease, Running, Goto, Release, UnMergeIfNoLease, sharedVars, threadVars,
     boundVars
<1>9. ASSUME NEW t \in Threads, StartTask(t) PROVE Goal'
  <2>1. Head(rasterTasks).name \in {"setup", "teardown"}
    BY <1>9, TaskNames DEF StartTask
  <2>2. /\ at'[t] = Head(rasterTasks).name /\ mutex' = mutex
        /\ \A u \in Threads \ {t} : at'[u] = at[u] /\ engine'[u] = engine[u]
    BY <1>9 DEF StartTask
  <2>. QED
    BY <2>1, <2>2
<1>10. ASSUME NEW t \in Threads, SetUp(t) PROVE Goal'
  BY <1>10 DEF SetUp, Locks, Running, Goto, sharedVars, threadVars, boundVars
<1>11. ASSUME NEW t \in Threads, TearDown(t) PROVE Goal'
  BY <1>11 DEF TearDown, Locks, Running, Goto, sharedVars, threadVars, boundVars
<1>12. ASSUME NEW t \in Threads, PrepareUnMerge(t) PROVE Goal'
  <2>1. CASE Goto(t, "unmerging") /\ Hold(t)
    BY <2>1, <1>12 DEF PrepareUnMerge, Locks, Goto, Hold
  <2>2. CASE AfterTearDown(t) /\ UNCHANGED mutex
    BY <2>2 DEF AfterTearDown
  <2>. QED
    BY <2>1, <2>2, <1>12 DEF PrepareUnMerge
<1>17. ASSUME NEW t \in Threads, AskIsMerged(t) PROVE Goal'
  BY <1>17 DEF AskIsMerged, Locks, Goto, AfterTearDown
<1>13. ASSUME NEW t \in Threads, UnMergeNowIfLastOne(t) PROVE Goal'
  BY <1>13 DEF UnMergeNowIfLastOne, Running, Release, UnMergeIfNoLease, AfterTearDown,
     sharedVars, threadVars, boundVars
<1>14. ASSUME NEW m \in Mergers, Disable(m) PROVE Goal'
  BY <1>14 DEF Disable, Running, sharedVars, threadVars, boundVars
<1>15. CASE PlaceRasterTask
  BY <1>15 DEF PlaceRasterTask, Running, Goto, sharedVars, threadVars, boundVars
<1>16. CASE UNCHANGED mergerVars
  BY <1>16 DEF mergerVars, sharedVars, threadVars, boundVars
<1>. QED
  BY <1>1, <1>2, <1>3, <1>4, <1>5, <1>6, <1>7, <1>8, <1>9, <1>10, <1>11, <1>12, <1>13, <1>14,
     <1>15, <1>16, <1>17 DEF MergerNext, DrawStep, ChangeStep

\* The merger is disabled under the mutex of the engine whose view is destroyed.
LEMMA StoppedStep ==
  MergerTypeOK /\ MutexIsHeld /\ EngineIsStopped /\ [MergerNext]_mergerVars => EngineIsStopped'
<1> SUFFICES ASSUME MergerTypeOK, MutexIsHeld, EngineIsStopped, [MergerNext]_mergerVars PROVE EngineIsStopped'
  OBVIOUS
<1> DEFINE Goal == EngineIsStopped
<1>0. Platform \in Threads /\ Raster \in Threads /\ Platform # Raster /\ Nobody \notin Threads
      /\ Threads = {Platform, Raster}
  BY Constants DEF Threads
<1>. USE <1>0 DEF MergerTypeOK, Places, MutexIsHeld, EngineIsStopped, Destroying, Holding
<1>1. ASSUME NEW t \in Threads, NEW m \in Mergers, StartDraw(t, m) PROVE Goal'
  BY <1>1 DEF StartDraw, Running, Server, sharedVars, threadVars, boundVars
<1>2. ASSUME NEW t \in Threads, PostPrerollAction(t) PROVE Goal'
  BY <1>2 DEF PostPrerollAction, Locks, Running, Goto, sharedVars, threadVars, boundVars
<1>3. ASSUME NEW t \in Threads, PrepareMerge(t) PROVE Goal'
  BY <1>3 DEF PrepareMerge, Locks, Running, Goto, Hold, sharedVars, threadVars, boundVars
<1>4. ASSUME NEW t \in Threads, PrepareExtend(t) PROVE Goal'
  BY <1>4 DEF PrepareExtend, Locks, Running, Goto, Hold, sharedVars, threadVars, boundVars
<1>5. ASSUME NEW t \in Threads, MergeWithLease(t) PROVE Goal'
  BY <1>5 DEF MergeWithLease, Running, Goto, Record, Release, sharedVars, threadVars, boundVars
<1>6. ASSUME NEW t \in Threads, ExtendLeaseTo(t) PROVE Goal'
  BY <1>6 DEF ExtendLeaseTo, Running, Goto, Record, Release, sharedVars, threadVars, boundVars
<1>7. ASSUME NEW t \in Threads, PrepareDecrement(t) PROVE Goal'
  BY <1>7 DEF PrepareDecrement, Locks, Running, Goto, Hold, sharedVars, threadVars, boundVars
<1>8. ASSUME NEW t \in Threads, DecrementLease(t) PROVE Goal'
  BY <1>8 DEF DecrementLease, Running, Goto, Release, UnMergeIfNoLease, sharedVars, threadVars,
     boundVars
<1>9. ASSUME NEW t \in Threads, StartTask(t) PROVE Goal'
  <2>1. Head(rasterTasks).name \in {"setup", "teardown"}
    BY <1>9, TaskNames DEF StartTask
  <2>2. /\ at'[t] = Head(rasterTasks).name /\ enabled' = enabled /\ at[t] = "idle"
        /\ \A u \in Threads \ {t} : at'[u] = at[u] /\ engine'[u] = engine[u]
    BY <1>9 DEF StartTask
  <2>. QED
    BY <2>1, <2>2
<1>10. ASSUME NEW t \in Threads, SetUp(t) PROVE Goal'
  BY <1>10 DEF SetUp, Locks, Running, Goto, sharedVars, threadVars, boundVars
<1>11. ASSUME NEW t \in Threads, TearDown(t) PROVE Goal'
  BY <1>11 DEF TearDown, Locks, Running, Goto, sharedVars, threadVars, boundVars
<1>12. ASSUME NEW t \in Threads, PrepareUnMerge(t) PROVE Goal'
  BY <1>12 DEF PrepareUnMerge, Locks, Running, Hold, AfterTearDown, sharedVars, threadVars,
     boundVars
<1>17. ASSUME NEW t \in Threads, AskIsMerged(t) PROVE Goal'
  BY <1>17 DEF AskIsMerged, Locks, Running, Goto, AfterTearDown, sharedVars, threadVars,
     boundVars
<1>13. ASSUME NEW t \in Threads, UnMergeNowIfLastOne(t) PROVE Goal'
  BY <1>13 DEF UnMergeNowIfLastOne, Running, Release, UnMergeIfNoLease, AfterTearDown,
     sharedVars, threadVars, boundVars
<1>14. ASSUME NEW m \in Mergers, Disable(m) PROVE Goal'
  BY <1>14 DEF Disable, Running, sharedVars, threadVars, boundVars
<1>15. CASE PlaceRasterTask
  BY <1>15 DEF PlaceRasterTask, Running, Goto, sharedVars, threadVars, boundVars
<1>16. CASE UNCHANGED mergerVars
  BY <1>16 DEF mergerVars, sharedVars, threadVars, boundVars
<1>. QED
  BY <1>1, <1>2, <1>3, <1>4, <1>5, <1>6, <1>7, <1>8, <1>9, <1>10, <1>11, <1>12, <1>13, <1>14,
     <1>15, <1>16, <1>17 DEF MergerNext, DrawStep, ChangeStep

-----------------------------------------------------------------------------
(* Theorems about the merger.                                              *)

\* The leases and the mutexes stay as the two threads count on them.
THEOREM MergerInvariant == MergerSpec => [](MergerInv /\ MutexIsHeld /\ EngineIsStopped)
<1>1. MergerInit => MergerInv /\ MutexIsHeld /\ EngineIsStopped
  BY InitMergerInv DEF MergerInit, MutexIsHeld, EngineIsStopped, Destroying, Holding
<1>2. ASSUME MergerInv, MutexIsHeld, EngineIsStopped, [MergerNext]_mergerVars
      PROVE  (MergerInv /\ MutexIsHeld /\ EngineIsStopped)'
  BY <1>2, TypesStep, LeaseInvStep, MutexStep, StoppedStep DEF MergerInv
<1>. QED
  BY <1>1, <1>2, PTL DEF MergerSpec

\* The variables keep their types; no lease is below zero or above its term.
THEOREM MergerTypeCorrect == MergerSpec => []MergerTypeOK
  BY MergerInvariant, PTL DEF MergerInv

\* Any number of engines that share the merger find in the leases whether the task
\* queues are merged, whatever the interleaving of Draws, teardowns and setups
\* (shared_thread_merger.cc:21-84), as long as a Draw of the raster thread ends
\* before the platform thread has used up the lease.
THEOREM LeasesTellTheTruth == MergerSpec => []LeasesMatchQueues
  BY MergerInvariant, PTL DEF MergerInv, LeaseInv

\* ExtendLeaseTo is called in merged queues only: between the caller's look at the
\* leases and the extension nobody unmerges them
\* (FML_DCHECK(IsMergedUnSafe()), shared_thread_merger.cc:77-84).
LeasesAreExtendedWhileMerged == \A t \in Threads : at[t] = "extending" => Leased

\* Whoever is about to extend a lease still finds one, as ExtendLeaseTo demands.
THEOREM ExtensionsFindALease == MergerSpec => []LeasesAreExtendedWhileMerged
<1>1. MergerInv => LeasesAreExtendedWhileMerged
  BY DEF MergerInv, LeaseInv, MergesFromRaster, PlatformDrawsMerged, LeasesMatchQueues, Drawing,
     LeasesAreExtendedWhileMerged, Threads
<1>. QED
  BY <1>1, MergerInvariant, PTL

\* Once the platform thread has disabled the merger for the destruction of a view,
\* the raster thread neither merges nor unmerges for the same engine
\* (raster_thread_merger.cc:54-75, 123-131).
THEOREM DisableIsEffective == MergerSpec => DisableStopsItsEngine
<1> DEFINE A == /\ at[Platform] \in {"destroying", "waiting"}
                /\ ~enabled
                /\ merged' # merged
                => engine[Raster] # engine[Platform]
<1>1. ASSUME MergerInv, EngineIsStopped, [MergerNext]_mergerVars, at[Platform] \in {"destroying", "waiting"},
             ~enabled, merged' # merged
      PROVE  engine[Raster] # engine[Platform]
  <2>1. \E t \in Threads : at[t] \in Holding /\ at[t] # "extending"
    BY <1>1 DEF MergerNext, StartDraw, DrawStep, ChangeStep, PostPrerollAction, PrepareMerge,
       PrepareExtend,
       MergeWithLease, ExtendLeaseTo, PrepareDecrement, DecrementLease, StartTask, SetUp,
          TearDown,
       AskIsMerged, PrepareUnMerge, UnMergeNowIfLastOne, Disable, PlaceRasterTask, mergerVars, sharedVars, Holding
  <2>2. at[Raster] \in Holding
    BY <1>1, <2>1 DEF Threads, Holding
  <2>. QED
    BY <1>1, <2>2 DEF EngineIsStopped, Destroying
<1>2. MergerInv /\ EngineIsStopped /\ [MergerNext]_mergerVars => [A]_mergerVars
  BY <1>1
<1>. QED
  BY <1>2, MergerInvariant, PTL DEF MergerSpec, DisableStopsItsEngine
=============================================================================
