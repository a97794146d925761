--------------------------- MODULE WorkerPoolProofs ---------------------------
(***************************************************************************)
(* Proofs about WorkerPool for every number of workers, clients and tasks. *)
(* PoolInv counts: while a worker sleeps there are as many workers awake   *)
(* or on the way to be woken as there are tasks, and after the shutdown    *)
(* every worker that is leaving has taken one of the queued tasks with it. *)
(* OnceInv says that a task is in one place at a time, from its post to    *)
(* its execution; DestroyedByTheLast that nobody uses a destroyed loop.    *)
(***************************************************************************)
EXTENDS WorkerPool, FiniteSetTheorems, SequenceTheorems, TLAPS

PostItem == \A t \in Threads : item[t] # NoTask <=> step[t] = "post"

\* The workers that will take no more tasks.
Leavers ==
  {w \in Workers : worker[w] = "done" \/ (worker[w] = "busy" /\ leaving[w])}

\* Every task taken after the shutdown is taken by a worker that leaves then.
QuotaInv ==
  /\ ~shutdown => Leavers = {}
  /\ shutdown /\ tasks # <<>> => Len(tasks) + Cardinality(Leavers) <= backlog

Typing == TypeOK /\ PostItem

PoolInv == Typing /\ SleepersAreNotNeeded /\ QuotaInv

-----------------------------------------------------------------------------
(* Types.                                                                  *)

LEMMA InitTyping == Init => Typing
<1> SUFFICES ASSUME Init PROVE Typing
  OBVIOUS
<1>. USE DEF Init
<1>1. tasks \in Seq(Tasks)
  BY EmptySeq
<1>2. threadTasks \in [Workers -> Seq(Broadcasts)] /\ running \in [Workers -> Seq(Tasks \cup Broadcasts)]
  <2>1. <<>> \in Seq(Broadcasts) /\ <<>> \in Seq(Tasks \cup Broadcasts)
    BY EmptySeq
  <2>. QED
    BY <2>1
<1>3. /\ worker \in [Workers -> WorkerStates] /\ leaving \in [Workers -> BOOLEAN]
      /\ step \in [Threads -> Steps] /\ item \in [Threads -> Tasks \cup {NoTask}]
  BY DEF WorkerStates, Steps
<1>4. executed \in [Tasks -> Nat] /\ heard \in [Broadcasts -> [Workers -> Nat]]
  OBVIOUS
<1>5. posted \in 0..MaxTasks
  BY WorkerPoolAssumption
<1>6. PostItem
  BY DEF PostItem
<1>. QED
  BY <1>1, <1>2, <1>3, <1>4, <1>5, <1>6 DEF Typing, TypeOK

LEMMA CountedOnce ==
  ASSUME executed \in [Tasks -> Nat], NEW k \in Tasks,
         executed' = [executed EXCEPT ![k] = executed[k] + 1]
  PROVE  executed' \in [Tasks -> Nat]
OBVIOUS

LEMMA PostTyping ==
  ASSUME Typing, NEW t \in Threads, PostStep(t) \/ StartPost(t) \/ PostToDeadLoop(t)
  PROVE  Typing'
<1>. /\ TypeOK /\ PostItem /\ MaxTasks \in Nat /\ Tasks = 1..MaxTasks /\ NoTask \notin Tasks
  BY WorkerPoolAssumption, NoTaskAssumption DEF Typing, Tasks
<1>. USE DEF TypeOK, PostItem, Goto, queueVars, workerVars, posterVars, countVars
<1>1. CASE StartPost(t)
  <2>1. posted + 1 \in Tasks /\ posted' \in 0..MaxTasks
    BY <1>1 DEF StartPost, MayPost
  <2>. QED
    BY <1>1, <2>1 DEF StartPost, Steps, Typing
<1>2. CASE PostToDeadLoop(t)
  <2>1. posted + 1 \in Tasks /\ posted' \in 0..MaxTasks
    BY <1>2 DEF PostToDeadLoop, MayPost
  <2>. QED
    BY <1>2, <2>1 DEF PostToDeadLoop, Typing
<1>3. CASE PostTask(t)
  <2>1. item[t] \in Tasks
    BY <1>3 DEF PostTask
  <2>2. Append(tasks, item[t]) \in Seq(Tasks)
    BY <2>1, AppendProperties
  <2>3. tasks' \in Seq(Tasks)
    BY <1>3, <2>2 DEF PostTask
  <2>4. executed' \in [Tasks -> Nat]
    <3>1. \/ executed' = executed
          \/ \E k \in Tasks : executed' = [executed EXCEPT ![k] = executed[k] + 1]
      BY <1>3, <2>1 DEF PostTask
    <3>. QED
      BY <3>1, CountedOnce
  <2>5. step' \in [Threads -> Steps] /\ item' \in [Threads -> Tasks \cup {NoTask}]
    BY <1>3 DEF PostTask, Steps
  <2>6. PostItem'
    BY <1>3 DEF PostTask
  <2>. QED
    BY <1>3, <2>3, <2>4, <2>5, <2>6 DEF PostTask, Typing
<1>4. CASE NotifyOne(t)
  BY <1>4 DEF NotifyOne, Steps, WorkerStates, Asleep, Typing
<1>5. CASE Release(t) \/ Join(t)
  BY <1>5 DEF Release, Join, Steps, Typing
<1>6. CASE Terminate(t)
  <2>1. Len(tasks) \in Nat
    BY LenProperties
  <2>. QED
    BY <1>6, <2>1 DEF Terminate, ShutDown, AllAwake, Steps, WorkerStates, Typing
<1>. QED
  BY <1>1, <1>2, <1>3, <1>4, <1>5, <1>6 DEF PostStep

LEMMA OwnerTyping ==
  ASSUME Typing,
         TerminateEarly \/ ReleaseOwner \/ \E b \in Broadcasts : PostTaskToAllWorkers(b)
  PROVE  Typing'
<1>. /\ TypeOK /\ PostItem /\ Owner \in Threads /\ Len(tasks) \in Nat
  BY WorkerPoolAssumption, LenProperties DEF Typing, TypeOK, Threads
<1>. USE DEF TypeOK, PostItem, Goto, queueVars, workerVars, posterVars, countVars
<1>1. CASE TerminateEarly
  BY <1>1 DEF TerminateEarly, ShutDown, AllAwake, WorkerStates, Typing
<1>2. CASE ReleaseOwner
  BY <1>2 DEF ReleaseOwner, Steps, Typing
<1>3. ASSUME NEW b \in Broadcasts, PostTaskToAllWorkers(b) PROVE Typing'
  <2>1. threadTasks' \in [Workers -> Seq(Broadcasts)]
    <3>1. \A w \in Workers : Append(threadTasks[w], b) \in Seq(Broadcasts)
      BY AppendProperties
    <3>. QED
      BY <1>3, <3>1 DEF PostTaskToAllWorkers
  <2>2. told' \subseteq Broadcasts
    BY <1>3 DEF PostTaskToAllWorkers
  <2>. QED
    BY <1>3, <2>1, <2>2 DEF PostTaskToAllWorkers, AllAwake, WorkerStates, Typing
<1>. QED
  BY <1>1, <1>2, <1>3

LEMMA WorkerTyping ==
  ASSUME Typing, NEW w \in Workers, WorkerStep(w) \/ WakeSpuriously(w)
  PROVE  Typing'
<1>. /\ TypeOK /\ PostItem /\ w \in Threads
  BY DEF Typing, Threads
<1>. USE DEF TypeOK, PostItem, queueVars, workerVars, posterVars, countVars
<1>1. CASE FallAsleep(w) \/ WakeSpuriously(w) \/ EndRound(w)
  BY <1>1 DEF FallAsleep, WakeSpuriously, EndRound, WorkerStates, Typing
<1>2. CASE TakeWork(w)
  <2>. DEFINE first == IF tasks = <<>> THEN <<>> ELSE <<Head(tasks)>>
  <2>1. tasks' \in Seq(Tasks)
    <3>1. tasks # <<>> => Tail(tasks) \in Seq(Tasks)
      BY HeadTailProperties
    <3>. QED
      BY <1>2, <3>1 DEF TakeWork
  <2>2. first \in Seq(Tasks \cup Broadcasts)
    <3>1. tasks # <<>> => Head(tasks) \in Tasks
      BY HeadTailProperties
    <3>2. ASSUME NEW k \in Tasks PROVE <<k>> \in Seq(Tasks \cup Broadcasts)
      OBVIOUS
    <3>3. <<>> \in Seq(Tasks \cup Broadcasts)
      BY EmptySeq
    <3>. QED
      BY <3>1, <3>2, <3>3
  <2>3. threadTasks[w] \in Seq(Tasks \cup Broadcasts)
    <3>1. threadTasks[w] \in Seq(Broadcasts)
      OBVIOUS
    <3>. QED
      BY <3>1, SeqDef
  <2>4. first \o threadTasks[w] \in Seq(Tasks \cup Broadcasts)
    BY <2>2, <2>3, ConcatProperties
  <2>5. running' \in [Workers -> Seq(Tasks \cup Broadcasts)]
    BY <1>2, <2>4 DEF TakeWork
  <2>6. threadTasks' \in [Workers -> Seq(Broadcasts)]
    <3>1. <<>> \in Seq(Broadcasts)
      BY EmptySeq
    <3>. QED
      BY <1>2, <3>1 DEF TakeWork
  <2>7. leaving' \in [Workers -> BOOLEAN] /\ worker' \in [Workers -> WorkerStates]
    BY <1>2 DEF TakeWork, WorkerStates
  <2>. QED
    BY <1>2, <2>1, <2>5, <2>6, <2>7 DEF TakeWork, Typing
<1>3. CASE FinishTask(w)
  <2>1. Head(running[w]) \in Tasks \cup Broadcasts /\ Tail(running[w]) \in Seq(Tasks \cup Broadcasts)
    BY <1>3, HeadTailProperties DEF FinishTask
  <2>2. running' \in [Workers -> Seq(Tasks \cup Broadcasts)]
    BY <1>3, <2>1 DEF FinishTask
  <2>3. executed' \in [Tasks -> Nat]
    <3>1. \/ executed' = executed
          \/ \E k \in Tasks : executed' = [executed EXCEPT ![k] = executed[k] + 1]
      BY <1>3 DEF FinishTask
    <3>. QED
      BY <3>1, CountedOnce
  <2>4. heard' \in [Broadcasts -> [Workers -> Nat]]
    <3>1. \A k \in Broadcasts : heard[k] \in [Workers -> Nat]
      OBVIOUS
    <3>2. \A k \in Broadcasts : [heard[k] EXCEPT ![w] = heard[k][w] + 1] \in [Workers -> Nat]
      BY <3>1
    <3>3. \/ heard' = heard
          \/ \E k \in Broadcasts :
               heard' = [heard EXCEPT ![k] = [heard[k] EXCEPT ![w] = heard[k][w] + 1]]
      BY <1>3 DEF FinishTask
    <3>. QED
      BY <3>2, <3>3
  <2>. QED
    BY <1>3, <2>2, <2>3, <2>4 DEF FinishTask, Typing
<1>. QED
  BY <1>1, <1>2, <1>3 DEF WorkerStep

LEMMA TypingStep == Typing /\ [Next]_vars => Typing'
<1> SUFFICES ASSUME Typing, [Next]_vars PROVE Typing'
  OBVIOUS
<1>1. CASE UNCHANGED vars
  BY <1>1 DEF vars, queueVars, workerVars, posterVars, countVars, Typing, TypeOK, PostItem
<1>. QED
  BY <1>1, PostTyping, OwnerTyping, WorkerTyping DEF Next

(* The variables keep their types, however many threads post, shut down    *)
(* and leave (concurrent_message_loop.cc:29-150).                          *)
THEOREM PoolTypeCorrect == Spec => []TypeOK
<1>1. Typing => TypeOK
  BY DEF Typing
<1>. QED
  BY <1>1, InitTyping, TypingStep, PTL DEF Spec

-----------------------------------------------------------------------------
(* Counting workers and notifications.                                     *)

LEMMA Finite ==
  ASSUME NEW S, S \subseteq Threads
  PROVE  IsFiniteSet(S) /\ Cardinality(S) \in Nat
BY WorkerPoolAssumption, FS_Subset, FS_CardinalityType

LEMMA CountJoin ==
  ASSUME NEW S, NEW T, NEW t, S \subseteq Threads, t \notin S, T = S \cup {t}
  PROVE  Cardinality(T) = Cardinality(S) + 1
BY Finite, FS_AddElement

LEMMA CountLeave ==
  ASSUME NEW S, NEW T, NEW t \in S, S \subseteq Threads, T = S \ {t}
  PROVE  Cardinality(T) = Cardinality(S) - 1
BY Finite, FS_RemoveElement

LEMMA CountMore ==
  ASSUME NEW S, NEW T, S \subseteq T, T \subseteq Threads
  PROVE  Cardinality(S) <= Cardinality(T)
BY Finite, FS_Subset

LEMMA Counts ==
  /\ Awake \subseteq Threads /\ Cardinality(Awake) \in Nat
  /\ Asleep \subseteq Threads
  /\ Notifiers \subseteq Threads /\ Cardinality(Notifiers) \in Nat
  /\ Leavers \subseteq Threads /\ Cardinality(Leavers) \in Nat
BY Finite DEF Awake, Asleep, Notifiers, Leavers, Threads

\* A step that wakes everybody up leaves no sleeper to worry about.
LEMMA NobodySleeps ==
  ASSUME Typing, worker' = AllAwake
  PROVE  Asleep' = {}
BY DEF Typing, TypeOK, AllAwake, Asleep, WorkerStates

LEMMA SleepersInit == Init => SleepersAreNotNeeded
BY DEF Init, SleepersAreNotNeeded, Asleep

LEMMA PostSleepers ==
  ASSUME PoolInv, NEW t \in Threads, PostStep(t) \/ StartPost(t) \/ PostToDeadLoop(t)
  PROVE  SleepersAreNotNeeded'
<1>. /\ TypeOK /\ SleepersAreNotNeeded
  BY DEF PoolInv, Typing
<1>. USE DEF TypeOK, Goto
<1>0. Cardinality(Awake) \in Nat /\ Cardinality(Notifiers) \in Nat /\ Len(tasks) \in Nat
  BY Counts, LenProperties
<1>1. CASE UNCHANGED <<tasks, threadTasks, shutdown, worker>> /\ Notifiers' = Notifiers
  BY <1>1 DEF SleepersAreNotNeeded, Asleep, Awake
<1>2. CASE StartPost(t) \/ PostToDeadLoop(t) \/ Release(t) \/ Join(t)
  <2>1. UNCHANGED <<tasks, threadTasks, shutdown, worker>>
    BY <1>2 DEF StartPost, PostToDeadLoop, Release, Join, queueVars
  <2>2. Notifiers' = Notifiers
    BY <1>2 DEF StartPost, MayPost, PostToDeadLoop, Release, Join, Notifiers
  <2>. QED
    BY <1>1, <2>1, <2>2
<1>3. CASE PostTask(t)
  <2>1. CASE shutdown
    <3>1. UNCHANGED <<tasks, threadTasks, shutdown, worker>> /\ Notifiers' = Notifiers
      BY <1>3, <2>1 DEF PostTask, Notifiers
    <3>. QED
      BY <1>1, <3>1
  <2>2. CASE ~shutdown
    <3>1. /\ UNCHANGED <<threadTasks, shutdown, worker>> /\ tasks' = Append(tasks, item[t])
          /\ Notifiers' = Notifiers \cup {t} /\ t \notin Notifiers
      BY <1>3, <2>2 DEF PostTask, Notifiers
    <3>2. Cardinality(Notifiers') = Cardinality(Notifiers) + 1
      BY <3>1, CountJoin, Counts
    <3>3. Len(tasks') = Len(tasks) + 1
      BY <3>1, AppendProperties
    <3>. QED
      BY <1>0, <3>1, <3>2, <3>3 DEF SleepersAreNotNeeded, Asleep, Awake
  <2>. QED
    BY <2>1, <2>2
<1>4. CASE NotifyOne(t)
  <2>1. UNCHANGED <<tasks, threadTasks, shutdown>> /\ t \in Notifiers /\ Notifiers' = Notifiers \ {t}
    BY <1>4 DEF NotifyOne, queueVars, Notifiers
  <2>2. Cardinality(Notifiers') = Cardinality(Notifiers) - 1
    BY <2>1, CountLeave, Counts
  <2>3. CASE Asleep = {}
    BY <1>4, <2>3 DEF NotifyOne, Asleep, SleepersAreNotNeeded
  <2>4. CASE Asleep # {}
    <3>1. PICK w \in Asleep : worker' = [worker EXCEPT ![w] = "awake"]
      BY <1>4, <2>4 DEF NotifyOne
    <3>2. Awake' = Awake \cup {w} /\ w \notin Awake /\ Asleep' \subseteq Asleep
      BY <3>1 DEF Awake, Asleep
    <3>3. Cardinality(Awake') = Cardinality(Awake) + 1
      BY <3>2, CountJoin, Counts
    <3>. QED
      BY <1>0, <2>1, <2>2, <3>2, <3>3 DEF SleepersAreNotNeeded
  <2>. QED
    BY <2>3, <2>4
<1>5. CASE Terminate(t)
  BY <1>5, NobodySleeps DEF Terminate, ShutDown, SleepersAreNotNeeded, PoolInv
<1>. QED
  BY <1>2, <1>3, <1>4, <1>5 DEF PostStep

LEMMA OwnerSleepers ==
  ASSUME PoolInv,
         TerminateEarly \/ ReleaseOwner \/ \E b \in Broadcasts : PostTaskToAllWorkers(b)
  PROVE  SleepersAreNotNeeded'
<1>1. CASE TerminateEarly \/ \E b \in Broadcasts : PostTaskToAllWorkers(b)
  BY <1>1, NobodySleeps
     DEF TerminateEarly, PostTaskToAllWorkers, ShutDown, SleepersAreNotNeeded, PoolInv
<1>2. CASE ReleaseOwner
  <2>1. UNCHANGED <<tasks, threadTasks, shutdown, worker>>
    BY <1>2 DEF ReleaseOwner, queueVars
  <2>2. Notifiers' = Notifiers
    BY <1>2 DEF ReleaseOwner, Notifiers, Goto, PoolInv, Typing, TypeOK
  <2>. QED
    BY <2>1, <2>2 DEF PoolInv, SleepersAreNotNeeded, Asleep, Awake
<1>. QED
  BY <1>1, <1>2

LEMMA WorkerSleepers ==
  ASSUME PoolInv, NEW w \in Workers, WorkerStep(w) \/ WakeSpuriously(w)
  PROVE  SleepersAreNotNeeded'
<1>. TypeOK /\ SleepersAreNotNeeded
  BY DEF PoolInv, Typing
<1>. USE DEF TypeOK
<1>0. /\ Cardinality(Awake) \in Nat /\ Cardinality(Notifiers) \in Nat /\ Len(tasks) \in Nat
      /\ Cardinality(Awake') \in Nat
  BY Counts, LenProperties, Finite DEF Awake, Threads
<1>1. Notifiers' = Notifiers
  BY DEF WorkerStep, FallAsleep, WakeSpuriously, TakeWork, FinishTask, EndRound, posterVars,
     Notifiers
<1>2. CASE FallAsleep(w)
  <2>1. UNCHANGED <<tasks, threadTasks, shutdown>> /\ tasks = <<>> /\ threadTasks[w] = <<>>
        /\ ~shutdown /\ Asleep' = Asleep \cup {w}
    BY <1>2 DEF FallAsleep, HasWork, queueVars, Asleep
  <2>. QED
    BY <1>0, <1>1, <2>1 DEF SleepersAreNotNeeded
<1>3. CASE TakeWork(w)
  <2>1. /\ UNCHANGED shutdown /\ w \in Awake /\ Awake' = Awake \ {w} /\ Asleep' = Asleep
        /\ w \notin Asleep /\ \A s \in Asleep : threadTasks'[s] = threadTasks[s]
    BY <1>3 DEF TakeWork, Awake, Asleep
  <2>2. Cardinality(Awake') = Cardinality(Awake) - 1
    BY <2>1, CountLeave, Counts
  <2>3. Len(tasks') = 0 \/ Len(tasks') = Len(tasks) - 1
    BY <1>3, HeadTailProperties DEF TakeWork
  <2>. QED
    BY <1>0, <1>1, <2>1, <2>2, <2>3 DEF SleepersAreNotNeeded
<1>4. CASE FinishTask(w) \/ EndRound(w) \/ WakeSpuriously(w)
  <2>1. UNCHANGED <<tasks, threadTasks, shutdown>> /\ Asleep' \subseteq Asleep
        /\ Awake \subseteq Awake'
    BY <1>4 DEF FinishTask, EndRound, WakeSpuriously, queueVars, Asleep, Awake
  <2>2. Cardinality(Awake) <= Cardinality(Awake')
    BY <2>1, CountMore DEF Awake, Threads
  <2>. QED
    BY <1>0, <1>1, <2>1, <2>2 DEF SleepersAreNotNeeded
<1>. QED
  BY <1>2, <1>3, <1>4 DEF WorkerStep

(* No worker sleeps beside a task that nobody has been called for, on its  *)
(* own tasks, or on the shutdown, although a task is announced only after  *)
(* the mutex is released (concurrent_message_loop.cc:61-69).               *)
LEMMA SleepersStep == PoolInv /\ [Next]_vars => SleepersAreNotNeeded'
<1> SUFFICES ASSUME PoolInv, [Next]_vars PROVE SleepersAreNotNeeded'
  OBVIOUS
<1>1. CASE UNCHANGED vars
  BY <1>1 DEF vars, queueVars, posterVars, PoolInv, SleepersAreNotNeeded, Asleep, Awake,
     Notifiers
<1>. QED
  BY <1>1, PostSleepers, OwnerSleepers, WorkerSleepers DEF Next

-----------------------------------------------------------------------------
(* The tasks that survive the shutdown.                                    *)

LEMMA QuotaInit == Init => QuotaInv
BY DEF Init, QuotaInv, Leavers

LEMMA PostQuota ==
  ASSUME PoolInv, NEW t \in Threads, PostStep(t) \/ StartPost(t) \/ PostToDeadLoop(t)
  PROVE  QuotaInv'
<1>. QuotaInv /\ TypeOK
  BY DEF PoolInv, Typing
<1>1. CASE \/ StartPost(t) \/ PostToDeadLoop(t) \/ Release(t) \/ Join(t)
           \/ (PostTask(t) /\ shutdown)
  <2>1. UNCHANGED <<tasks, shutdown, backlog, worker, leaving>>
    BY <1>1 DEF StartPost, PostToDeadLoop, Release, Join, PostTask, queueVars, workerVars
  <2>. QED
    BY <2>1 DEF QuotaInv, Leavers
<1>2. CASE PostTask(t) /\ ~shutdown
  <2>1. UNCHANGED <<shutdown, worker, leaving>>
    BY <1>2 DEF PostTask, workerVars
  <2>. QED
    BY <1>2, <2>1 DEF QuotaInv, Leavers
<1>3. CASE NotifyOne(t)
  <2>1. UNCHANGED <<tasks, shutdown, backlog, leaving>> /\ Leavers' = Leavers
    BY <1>3 DEF NotifyOne, queueVars, workerVars, Leavers, Asleep, TypeOK
  <2>. QED
    BY <2>1 DEF QuotaInv
<1>4. CASE Terminate(t)
  <2>1. UNCHANGED <<tasks, leaving>> /\ shutdown' /\ Leavers' = Leavers
        /\ backlog' = IF shutdown THEN backlog ELSE Len(tasks)
    BY <1>4 DEF Terminate, ShutDown, AllAwake, workerVars, Leavers, TypeOK
  <2>2. ~shutdown => Cardinality(Leavers) = 0
    BY FS_EmptySet DEF QuotaInv
  <2>. QED
    BY <2>1, <2>2, LenProperties DEF QuotaInv, TypeOK
<1>. QED
  BY <1>1, <1>2, <1>3, <1>4 DEF PostStep

LEMMA OwnerQuota ==
  ASSUME PoolInv,
         TerminateEarly \/ ReleaseOwner \/ \E b \in Broadcasts : PostTaskToAllWorkers(b)
  PROVE  QuotaInv'
<1>. QuotaInv /\ TypeOK
  BY DEF PoolInv, Typing
<1>1. UNCHANGED <<tasks, leaving>> /\ Leavers' = Leavers
  BY DEF TerminateEarly, ReleaseOwner, PostTaskToAllWorkers, ShutDown, AllAwake, queueVars,
     workerVars, Leavers, TypeOK
<1>2. CASE TerminateEarly
  <2>1. shutdown' /\ backlog' = Len(tasks) /\ Cardinality(Leavers) = 0
    BY <1>2, FS_EmptySet DEF TerminateEarly, ShutDown, QuotaInv
  <2>. QED
    BY <1>1, <2>1, LenProperties DEF QuotaInv, TypeOK
<1>3. CASE ReleaseOwner \/ \E b \in Broadcasts : PostTaskToAllWorkers(b)
  BY <1>1, <1>3 DEF ReleaseOwner, PostTaskToAllWorkers, queueVars, QuotaInv
<1>. QED
  BY <1>2, <1>3

LEMMA WorkerQuota ==
  ASSUME PoolInv, NEW w \in Workers, WorkerStep(w) \/ WakeSpuriously(w)
  PROVE  QuotaInv'
<1>. /\ QuotaInv /\ TypeOK /\ UNCHANGED <<shutdown, backlog>>
     /\ Cardinality(Leavers) \in Nat /\ Len(tasks) \in Nat /\ backlog \in Nat
  BY Counts, LenProperties
     DEF PoolInv, Typing, TypeOK, WorkerStep, FallAsleep, WakeSpuriously, TakeWork,
         FinishTask, EndRound, queueVars
<1>1. CASE FallAsleep(w) \/ WakeSpuriously(w) \/ FinishTask(w) \/ EndRound(w)
  <2>1. UNCHANGED tasks
    BY <1>1 DEF FallAsleep, WakeSpuriously, FinishTask, EndRound, queueVars
  <2>2. Leavers' = Leavers
    BY <1>1 DEF FallAsleep, WakeSpuriously, FinishTask, EndRound, workerVars, Leavers, TypeOK
  <2>. QED
    BY <2>1, <2>2 DEF QuotaInv
<1>2. CASE TakeWork(w)
  <2>1. CASE ~shutdown
    <3>1. Leavers' = Leavers
      BY <1>2, <2>1 DEF TakeWork, Leavers, TypeOK
    <3>. QED
      BY <2>1, <3>1 DEF QuotaInv
  <2>2. CASE shutdown
    <3>1. Leavers' = Leavers \cup {w} /\ w \notin Leavers
      BY <1>2, <2>2 DEF TakeWork, Leavers, TypeOK
    <3>2. Cardinality(Leavers') = Cardinality(Leavers) + 1
      BY <3>1, CountJoin, Counts
    <3>3. tasks' # <<>> => tasks # <<>> /\ Len(tasks') = Len(tasks) - 1
      BY <1>2, HeadTailProperties DEF TakeWork, TypeOK
    <3>. QED
      BY <2>2, <3>2, <3>3 DEF QuotaInv
  <2>. QED
    BY <2>1, <2>2
<1>. QED
  BY <1>1, <1>2 DEF WorkerStep

LEMMA QuotaStep == PoolInv /\ [Next]_vars => QuotaInv'
<1> SUFFICES ASSUME PoolInv, [Next]_vars PROVE QuotaInv'
  OBVIOUS
<1>1. CASE UNCHANGED vars
  BY <1>1 DEF vars, queueVars, workerVars, PoolInv, QuotaInv, Leavers
<1>. QED
  BY <1>1, PostQuota, OwnerQuota, WorkerQuota DEF Next

LEMMA PoolInvariant == Spec => []PoolInv
<1>1. Init => PoolInv
  BY InitTyping, SleepersInit, QuotaInit DEF PoolInv
<1>2. PoolInv /\ [Next]_vars => PoolInv'
  BY TypingStep, SleepersStep, QuotaStep DEF PoolInv
<1>. QED
  BY <1>1, <1>2, PTL DEF Spec

(* While a worker sleeps there is, for every queued task, a worker that is *)
(* awake or a notification under way: no interleaving of posts, after the  *)
(* mutex is released, with workers that fall asleep loses a wakeup         *)
(* (concurrent_message_loop.cc:50-76, 119-135).                            *)
THEOREM NoWakeupIsLost == Spec => []SleepersAreNotNeeded
<1>1. PoolInv => SleepersAreNotNeeded
  BY DEF PoolInv
<1>. QED
  BY <1>1, PoolInvariant, PTL

(* When all workers have left, no more tasks are dropped than the backlog  *)
(* at the shutdown exceeds the number of workers: every worker takes one   *)
(* task with it (concurrent_message_loop.cc:52-59, 80-114).                *)
THEOREM ShutdownKeepsFewTasks == Spec => []FewTasksSurviveShutdown
<1>1. ASSUME PoolInv PROVE FewTasksSurviveShutdown
  <2> SUFFICES ASSUME Stopped, backlog <= Cardinality(Workers), tasks # <<>> PROVE FALSE
    BY DEF FewTasksSurviveShutdown
  <2>1. Leavers = Workers /\ Leavers # {}
    BY WorkerPoolAssumption DEF Stopped, Leavers
  <2>2. Len(tasks) + Cardinality(Workers) <= backlog
    BY <1>1, <2>1 DEF PoolInv, QuotaInv, Typing, TypeOK
  <2>3. Len(tasks) \in Nat /\ Len(tasks) # 0 /\ backlog \in Nat /\ Cardinality(Workers) \in Nat
    BY <1>1, <2>1, Counts, LenProperties, EmptySeq DEF PoolInv, Typing, TypeOK
  <2>. QED
    BY <2>2, <2>3
<1>. QED
  BY <1>1, PoolInvariant, PTL

-----------------------------------------------------------------------------
(* Every task is executed at most once: it is in one place at a time.      *)

\* Task k is the next one worker w executes.
Runs(w, k) == running[w] # <<>> /\ running[w][1] = k

Queued(k) == \E i \in 1..Len(tasks) : tasks[i] = k

\* Behind its task, a worker has taken its broadcasts only.
OneTaskEach == \A w \in Workers : \A i \in 1..Len(running[w]) : i > 1 => running[w][i] \in Broadcasts

QueuedOnce == \A i, j \in 1..Len(tasks) : tasks[i] = tasks[j] => i = j

\* A task that is executed, or not yet posted, is nowhere; any other is in the
\* hands of one poster or one worker, or in the queue.
InOnePlace(k) ==
  /\ executed[k] <= 1
  /\ k > posted => executed[k] = 0
  /\ executed[k] = 1 \/ k > posted =>
       /\ ~Queued(k)
       /\ \A t \in Threads : item[t] # k
       /\ \A w \in Workers : ~Runs(w, k)
  /\ \A t \in Threads : item[t] = k =>
       /\ ~Queued(k)
       /\ \A u \in Threads \ {t} : item[u] # k
       /\ \A w \in Workers : ~Runs(w, k)
  /\ \A w \in Workers : Runs(w, k) =>
       /\ ~Queued(k)
       /\ \A v \in Workers \ {w} : ~Runs(v, k)

OnceInv == OneTaskEach /\ QueuedOnce /\ \A k \in Tasks : InOnePlace(k)

LEMMA QueueGrows ==
  ASSUME TypeOK, QueuedOnce, NEW x, tasks' = Append(tasks, x), ~Queued(x)
  PROVE  QueuedOnce' /\ \A k \in Tasks : Queued(k)' <=> (Queued(k) \/ k = x)
<1>1. /\ Len(tasks) \in Nat /\ Len(tasks') = Len(tasks) + 1 /\ tasks'[Len(tasks) + 1] = x
      /\ \A i \in 1..Len(tasks) : tasks'[i] = tasks[i]
  BY AppendProperties, LenProperties DEF TypeOK
<1>. QED
  BY <1>1 DEF QueuedOnce, Queued

LEMMA QueueShrinks ==
  ASSUME TypeOK, QueuedOnce, tasks # <<>>, tasks' = Tail(tasks)
  PROVE  /\ QueuedOnce' /\ Queued(Head(tasks))
         /\ \A k \in Tasks : Queued(k)' => Queued(k) /\ k # Head(tasks)
<1>1. /\ Len(tasks) \in Nat /\ Len(tasks) > 0 /\ Len(tasks') = Len(tasks) - 1
      /\ Head(tasks) = tasks[1] /\ \A i \in 1..Len(tasks') : tasks'[i] = tasks[i + 1]
  BY HeadTailProperties, LenProperties, EmptySeq DEF TypeOK
<1>. QED
  BY <1>1 DEF QueuedOnce, Queued

LEMMA OnceInit == Init => OnceInv
<1> SUFFICES ASSUME Init PROVE OnceInv
  OBVIOUS
<1>1. /\ tasks = <<>> /\ posted = 0 /\ \A k \in Tasks : executed[k] = 0
      /\ \A t \in Threads : item[t] = NoTask
      /\ \A w \in Workers : running[w] = <<>>
  BY DEF Init
<1>2. OneTaskEach /\ QueuedOnce
  BY <1>1 DEF OneTaskEach, QueuedOnce
<1>3. ASSUME NEW k \in Tasks PROVE InOnePlace(k)
  BY <1>1, NoTaskAssumption DEF InOnePlace, Queued, Runs
<1>. QED
  BY <1>2, <1>3 DEF OnceInv

\* A step that moves no task.
LEMMA NothingMoves ==
  ASSUME OnceInv, UNCHANGED <<tasks, running, item, posted, executed>>
  PROVE  OnceInv'
BY DEF OnceInv, OneTaskEach, QueuedOnce, InOnePlace, Queued, Runs

LEMMA PostOnce ==
  ASSUME Typing, OnceInv, NEW t \in Threads,
         PostStep(t) \/ StartPost(t) \/ PostToDeadLoop(t)
  PROVE  OnceInv'
<1>. /\ TypeOK /\ PostItem /\ OneTaskEach /\ QueuedOnce /\ \A k \in Tasks : InOnePlace(k)
     /\ MaxTasks \in Nat /\ Tasks = 1..MaxTasks /\ NoTask \notin Tasks
  BY WorkerPoolAssumption, NoTaskAssumption DEF Typing, OnceInv, Tasks
<1>1. CASE NotifyOne(t) \/ Release(t) \/ Join(t) \/ Terminate(t)
  BY <1>1, NothingMoves
     DEF NotifyOne, Release, Join, Terminate, queueVars, workerVars, countVars
<1>2. CASE StartPost(t)
  <2>1. /\ UNCHANGED <<tasks, running, executed>> /\ posted' = posted + 1
        /\ item' = [item EXCEPT ![t] = posted + 1] /\ item[t] = NoTask
    BY <1>2 DEF StartPost, MayPost, queueVars, workerVars, countVars, PostItem
  <2>2. ASSUME NEW k \in Tasks PROVE InOnePlace(k)'
    BY <2>1 DEF InOnePlace, Queued, Runs, TypeOK
  <2>. QED
    BY <2>1, <2>2 DEF OnceInv, OneTaskEach, QueuedOnce
<1>3. CASE PostToDeadLoop(t)
  <2>1. /\ UNCHANGED <<tasks, running, item>> /\ posted' = posted + 1
        /\ executed' = [executed EXCEPT ![posted + 1] = @ + 1]
    BY <1>3 DEF PostToDeadLoop, queueVars, workerVars
  <2>2. ASSUME NEW k \in Tasks PROVE InOnePlace(k)'
    BY <2>1 DEF InOnePlace, Queued, Runs, TypeOK
  <2>. QED
    BY <2>1, <2>2 DEF OnceInv, OneTaskEach, QueuedOnce
<1>4. CASE PostTask(t)
  <2>1. /\ UNCHANGED <<running, posted>> /\ item' = [item EXCEPT ![t] = NoTask]
        /\ item[t] \in Tasks
    BY <1>4 DEF PostTask, workerVars, PostItem, TypeOK
  <2>2. CASE shutdown
    <3>1. UNCHANGED tasks /\ executed' = [executed EXCEPT ![item[t]] = @ + 1]
      BY <1>4, <2>2 DEF PostTask
    <3>2. ASSUME NEW k \in Tasks PROVE InOnePlace(k)'
      BY <2>1, <3>1 DEF InOnePlace, Queued, Runs, TypeOK
    <3>. QED
      BY <2>1, <3>1, <3>2 DEF OnceInv, OneTaskEach, QueuedOnce
  <2>3. CASE ~shutdown
    <3>1. UNCHANGED executed /\ tasks' = Append(tasks, item[t])
      BY <1>4, <2>3 DEF PostTask
    <3>2. QueuedOnce' /\ \A k \in Tasks : Queued(k)' <=> (Queued(k) \/ k = item[t])
      BY <2>1, <3>1, QueueGrows DEF InOnePlace
    <3>3. ASSUME NEW k \in Tasks PROVE InOnePlace(k)'
      BY <2>1, <3>1, <3>2 DEF InOnePlace, Runs, TypeOK
    <3>. QED
      BY <2>1, <3>2, <3>3 DEF OnceInv, OneTaskEach
  <2>. QED
    BY <2>2, <2>3
<1>. QED
  BY <1>1, <1>2, <1>3, <1>4 DEF PostStep

LEMMA WorkerOnce ==
  ASSUME Typing, OnceInv, NEW w \in Workers, WorkerStep(w) \/ WakeSpuriously(w)
  PROVE  OnceInv'
<1>. /\ TypeOK /\ OneTaskEach /\ QueuedOnce /\ \A k \in Tasks : InOnePlace(k)
     /\ Tasks \cap Broadcasts = {}
  BY WorkerPoolAssumption DEF Typing, OnceInv
<1>1. CASE FallAsleep(w) \/ WakeSpuriously(w) \/ EndRound(w)
  BY <1>1, NothingMoves
     DEF FallAsleep, WakeSpuriously, EndRound, queueVars, workerVars, posterVars, countVars
<1>2. CASE TakeWork(w)
  <2>. DEFINE first == IF tasks = <<>> THEN <<>> ELSE <<Head(tasks)>>
  <2>1. /\ UNCHANGED <<item, posted, executed>>
        /\ running' = [running EXCEPT ![w] = first \o threadTasks[w]]
        /\ tasks' = IF tasks = <<>> THEN tasks ELSE Tail(tasks)
    BY <1>2 DEF TakeWork, posterVars, countVars
  <2>2. threadTasks[w] \in Seq(Broadcasts)
    BY DEF TypeOK
  <2>3. /\ \A i \in 1..Len(running'[w]) : i > 1 => running'[w][i] \in Broadcasts
        /\ \A k \in Tasks : Runs(w, k)' => tasks # <<>> /\ k = Head(tasks)
    <3>1. Head(tasks) \in Tasks \/ tasks = <<>>
      BY HeadTailProperties DEF TypeOK
    <3>2. running'[w] = first \o threadTasks[w]
      BY <2>1 DEF TypeOK
    <3>3. CASE tasks = <<>>
      <4>1. running'[w] = threadTasks[w]
        BY <2>2, <3>2, <3>3, ConcatEmptySeq
      <4>2. \A i \in 1..Len(running'[w]) : running'[w][i] \in Broadcasts
        BY <2>2, <4>1, ElementOfSeq
      <4>3. running'[w] # <<>> => 1 \in 1..Len(running'[w])
        BY <2>2, <4>1, EmptySeq, LenProperties
      <4>. QED
        BY <4>2, <4>3 DEF Runs
    <3>4. CASE tasks # <<>>
      <4>1. running'[w] = <<Head(tasks)>> \o threadTasks[w]
        BY <3>2, <3>4
      <4>2. /\ Len(running'[w]) = 1 + Len(threadTasks[w]) /\ running'[w][1] = Head(tasks)
            /\ \A i \in 1..Len(running'[w]) : i > 1 => running'[w][i] = threadTasks[w][i - 1]
        BY <2>2, <4>1, LenProperties
      <4>3. \A i \in 1..Len(running'[w]) : i > 1 => i - 1 \in 1..Len(threadTasks[w])
        BY <2>2, <4>2, LenProperties
      <4>. QED
        BY <2>2, <3>4, <4>2, <4>3, ElementOfSeq DEF Runs
    <3>. QED
      BY <3>3, <3>4
  <2>4. \A v \in Workers \ {w}, k \in Tasks : Runs(v, k)' <=> Runs(v, k)
    BY <2>1 DEF Runs, TypeOK
  <2>5. /\ QueuedOnce'
        /\ \A k \in Tasks : Queued(k)' => Queued(k) /\ (tasks = <<>> \/ k # Head(tasks))
        /\ tasks # <<>> => Queued(Head(tasks))
    <3>1. CASE tasks = <<>>
      BY <2>1, <3>1 DEF QueuedOnce, Queued
    <3>2. CASE tasks # <<>>
      <4>1. Head(tasks) \in Tasks
        BY <3>2, HeadTailProperties DEF TypeOK
      <4>. QED
        BY <2>1, <3>2, <4>1, QueueShrinks
    <3>. QED
      BY <3>1, <3>2
  <2>6. OneTaskEach'
    BY <2>1, <2>3 DEF OneTaskEach, TypeOK
  <2>7. ASSUME NEW k \in Tasks PROVE InOnePlace(k)'
    <3>1. InOnePlace(k) /\ UNCHANGED <<item, posted, executed>>
      BY <2>1
    <3>2. CASE tasks # <<>> /\ k = Head(tasks)
      <4>1. InOnePlace(k) /\ Queued(k) /\ ~Queued(k)'
        BY <2>5, <3>1, <3>2
      <4>. QED
        BY <2>4, <3>1, <4>1 DEF InOnePlace, TypeOK
    <3>3. CASE ~(tasks # <<>> /\ k = Head(tasks))
      <4>1. ~Runs(w, k)' /\ (Queued(k)' => Queued(k))
        BY <2>3, <2>5, <3>3
      <4>. QED
        BY <2>4, <3>1, <4>1 DEF InOnePlace, TypeOK
    <3>. QED
      BY <3>2, <3>3
  <2>. QED
    BY <2>5, <2>6, <2>7 DEF OnceInv
<1>3. CASE FinishTask(w)
  <2>1. /\ UNCHANGED <<tasks, item, posted>> /\ running[w] # <<>>
        /\ running' = [running EXCEPT ![w] = Tail(running[w])]
    BY <1>3 DEF FinishTask, queueVars, posterVars
  <2>2. /\ Len(running[w]) \in Nat /\ Head(running[w]) = running[w][1]
        /\ Len(running'[w]) = Len(running[w]) - 1
        /\ \A i \in 1..Len(running'[w]) : running'[w][i] = running[w][i + 1]
    BY <2>1, HeadTailProperties, LenProperties DEF TypeOK
  <2>3. OneTaskEach'
    BY <2>1, <2>2 DEF OneTaskEach, TypeOK
  <2>4. \A k \in Tasks : ~Runs(w, k)'
    <3>1. running'[w] # <<>> => 1 \in 1..Len(running'[w])
      BY <2>1, <2>2, HeadTailProperties, EmptySeq, LenProperties DEF TypeOK
    <3>2. running'[w] # <<>> => running'[w][1] \in Broadcasts
      BY <2>2, <3>1 DEF OneTaskEach
    <3>. QED
      BY <3>2 DEF Runs
  <2>5. \A v \in Workers \ {w}, k \in Tasks : Runs(v, k)' <=> Runs(v, k)
    BY <2>1 DEF Runs, TypeOK
  <2>6. \A k \in Tasks : executed'[k] = IF Runs(w, k) THEN executed[k] + 1 ELSE executed[k]
    BY <1>3, <2>2 DEF FinishTask, Runs, TypeOK
  <2>7. ASSUME NEW k \in Tasks PROVE InOnePlace(k)'
    <3>1. InOnePlace(k) /\ UNCHANGED <<item, posted>> /\ (Queued(k)' <=> Queued(k))
      BY <2>1 DEF Queued
    <3>2. executed[k] \in Nat /\ executed'[k] = IF Runs(w, k) THEN executed[k] + 1 ELSE executed[k]
      BY <2>6 DEF TypeOK
    <3>3. CASE Runs(w, k)
      <4>1. executed'[k] = 1 /\ ~(k > posted)
        BY <3>1, <3>2, <3>3 DEF InOnePlace
      <4>. QED
        BY <2>4, <2>5, <3>1, <3>3, <4>1 DEF InOnePlace
    <3>4. CASE ~Runs(w, k)
      <4>1. executed'[k] = executed[k]
        BY <3>2, <3>4
      <4>. QED
        BY <2>4, <2>5, <3>1, <4>1 DEF InOnePlace
    <3>. QED
      BY <3>3, <3>4
  <2>. QED
    BY <2>1, <2>3, <2>7 DEF OnceInv, QueuedOnce
<1>. QED
  BY <1>1, <1>2, <1>3 DEF WorkerStep

LEMMA OnceStep == Typing /\ OnceInv /\ [Next]_vars => OnceInv'
<1> SUFFICES ASSUME Typing, OnceInv, [Next]_vars PROVE OnceInv'
  OBVIOUS
<1>1. CASE UNCHANGED vars
  BY <1>1, NothingMoves DEF vars, queueVars, workerVars, posterVars, countVars
<1>2. CASE TerminateEarly \/ ReleaseOwner \/ \E b \in Broadcasts : PostTaskToAllWorkers(b)
  BY <1>2, NothingMoves
     DEF TerminateEarly, ReleaseOwner, PostTaskToAllWorkers, queueVars, workerVars,
         posterVars, countVars
<1>. QED
  BY <1>1, <1>2, PostOnce, WorkerOnce DEF Next

(* No task is executed twice: neither by two workers, nor by a worker and  *)
(* by the thread that posts it when the loop shuts down or is gone         *)
(* (concurrent_message_loop.cc:50-62, 84-106, 156-172).                    *)
NoTaskRunsTwice == \A k \in Tasks : executed[k] <= 1

(* No interleaving of workers, posters and owner executes a task twice.    *)
THEOREM TasksRunOnce == Spec => []NoTaskRunsTwice
<1>1. OnceInv => NoTaskRunsTwice
  BY DEF OnceInv, InOnePlace, NoTaskRunsTwice
<1>. QED
  BY <1>1, InitTyping, OnceInit, TypingStep, OnceStep, PTL DEF Spec

-----------------------------------------------------------------------------
(* The thread that destroys the loop is the last one to use it: it is the  *)
(* only one in the destructor, the owner has given up its reference, and   *)
(* nobody posts or is between a post and its notification                  *)
(* (concurrent_message_loop.cc:29-35, 156-165).                            *)
DestroyedByTheLast ==
  \A t \in Threads : step[t] \in {"terminate", "join"} =>
    ~owned /\ \A u \in Threads \ {t} : step[u] = "idle"

LEMMA LastInit == Init => DestroyedByTheLast
BY DEF Init, DestroyedByTheLast

LEMMA LastStep == Typing /\ DestroyedByTheLast /\ [Next]_vars => DestroyedByTheLast'
<1> SUFFICES ASSUME Typing, DestroyedByTheLast, [Next]_vars PROVE DestroyedByTheLast'
  OBVIOUS
<1>. step \in [Threads -> Steps] /\ Owner \in Threads
  BY WorkerPoolAssumption DEF Typing, TypeOK, Threads
<1>. USE DEF DestroyedByTheLast, Goto
<1>1. CASE UNCHANGED <<step, owned>>
  BY <1>1
<1>2. ASSUME NEW t \in Threads, StartPost(t) PROVE DestroyedByTheLast'
  BY <1>2 DEF StartPost, MayPost, Alive
<1>3. ASSUME NEW t \in Threads, PostTask(t) \/ NotifyOne(t) \/ Terminate(t) \/ Join(t)
      PROVE  DestroyedByTheLast'
  BY <1>3 DEF PostTask, NotifyOne, Terminate, Join
<1>4. ASSUME NEW t \in Threads, Release(t) PROVE DestroyedByTheLast'
  BY <1>4 DEF Release
<1>5. CASE ReleaseOwner
  BY <1>5 DEF ReleaseOwner
<1>6. CASE TerminateEarly \/ \E b \in Broadcasts : PostTaskToAllWorkers(b)
  BY <1>1, <1>6 DEF TerminateEarly, PostTaskToAllWorkers, posterVars
<1>7. ASSUME NEW w \in Workers, WorkerStep(w) \/ WakeSpuriously(w)
      PROVE  UNCHANGED <<step, owned>>
  BY <1>7 DEF WorkerStep, FallAsleep, WakeSpuriously, TakeWork, FinishTask, EndRound, posterVars
<1>8. ASSUME NEW t \in Threads, PostToDeadLoop(t) PROVE UNCHANGED <<step, owned>>
  BY <1>8 DEF PostToDeadLoop
<1>9. UNCHANGED vars => UNCHANGED <<step, owned>>
  BY DEF vars, posterVars
<1>. QED
  BY <1>1, <1>2, <1>3, <1>4, <1>5, <1>6, <1>7, <1>8, <1>9 DEF Next, PostStep

(* Nobody is left inside the loop that a thread destroys.                  *)
THEOREM LoopIsDestroyedByTheLast == Spec => []DestroyedByTheLast
BY InitTyping, LastInit, TypingStep, LastStep, PTL DEF Spec
=============================================================================
