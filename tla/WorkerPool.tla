------------------------------ MODULE WorkerPool ------------------------------
(***************************************************************************)
(* fml::ConcurrentMessageLoop: a pool of worker threads that take tasks    *)
(* from one queue, and tasks that every worker has to run itself from a    *)
(* queue per worker.  The DartVM keeps one for decoding images and loading *)
(* assets, the Vulkan context one for compiling pipelines.                 *)
(*                                                                         *)
(* Tasks are posted through a ConcurrentTaskRunner, which has only a weak  *)
(* reference to the loop and keeps it alive while it posts.  Whoever gives *)
(* up the last reference destroys the loop and joins the workers.  Every   *)
(* critical section of tasks_mutex_ is one step; so are a notification     *)
(* after the mutex is released and the end of a reference.                 *)
(***************************************************************************)
EXTENDS Naturals, Sequences, FiniteSets

CONSTANTS Workers,     \* the threads of the loop
          Clients,     \* other threads that post tasks
          Owner,       \* the client that owns the loop
          Posters,     \* the threads that post tasks, workers as part of a task
          Broadcasts,  \* the tasks that are posted to all workers
          MaxTasks     \* bound: other tasks

Threads == Workers \cup Clients

\* Tasks are numbered in the order in which they are posted.
Tasks == 1..MaxTasks

ASSUME WorkerPoolAssumption ==
  /\ IsFiniteSet(Threads) /\ Workers # {}
  /\ Workers \cap Clients = {}
  /\ Owner \in Clients
  /\ Posters \subseteq Threads
  /\ MaxTasks \in Nat
  /\ Tasks \cap Broadcasts = {}

CONSTANT NoTask
ASSUME NoTaskAssumption == NoTask \notin Tasks \cup Broadcasts

VARIABLES tasks,        \* tasks_
          threadTasks,  \* thread_tasks_
          shutdown,     \* shutdown_
          owned,        \* does the owner still hold its reference?
          worker,       \* what each worker is doing in WorkerMain
          leaving,      \* its local shutdown_now
          running,      \* its local task, followed by thread_tasks
          step,         \* where each thread is in PostTask or the destructor
          item,         \* the task it posts
          posted,       \* the tasks posted so far
          told,         \* the broadcasts posted so far
          executed,     \* how often each task was executed
          heard,        \* how often each worker executed each broadcast
          backlog       \* history: the tasks queued when the loop shut down

queueVars == <<tasks, threadTasks, shutdown, backlog>>
workerVars == <<leaving, running>>
posterVars == <<step, item, posted, told>>
countVars == <<executed, heard>>
vars == <<queueVars, owned, worker, workerVars, posterVars, countVars>>

\* awake: about to look for work, as a worker is that has been woken up.
WorkerStates == {"awake", "asleep", "busy", "done"}

\* A thread in any step but idle holds a reference, or held the last one.
Steps == {"idle", "post", "notify", "release", "terminate", "join"}

Init ==
  /\ tasks = <<>>
  /\ threadTasks = [w \in Workers |-> <<>>]
  /\ shutdown = FALSE
  /\ owned = TRUE
  /\ worker = [w \in Workers |-> "awake"]
  /\ leaving = [w \in Workers |-> FALSE]
  /\ running = [w \in Workers |-> <<>>]
  /\ step = [t \in Threads |-> "idle"]
  /\ item = [t \in Threads |-> NoTask]
  /\ posted = 0
  /\ told = {}
  /\ executed = [k \in Tasks |-> 0]
  /\ heard = [b \in Broadcasts |-> [w \in Workers |-> 0]]
  /\ backlog = 0

Asleep == {w \in Workers : worker[w] = "asleep"}
Awake == {w \in Workers : worker[w] = "awake"}
Notifiers == {t \in Threads : step[t] = "notify"}

\* The loop lives as long as somebody holds a reference to it.
Alive == owned \/ \E t \in Threads : step[t] \in {"post", "notify", "release"}

Goto(t, place) == step' = [step EXCEPT ![t] = place]

\* The states of the workers after notify_all.
AllAwake == [w \in Workers |-> IF worker[w] = "asleep" THEN "awake" ELSE worker[w]]

-----------------------------------------------------------------------------
(* Posting.                                                                *)

\* A thread that may call PostTask: a client, or a worker that runs a task.
MayPost(t) ==
  /\ t \in Posters
  /\ posted < MaxTasks
  /\ step[t] = "idle"
  /\ t \in Workers => worker[t] = "busy" /\ running[t] # <<>>

\* ConcurrentTaskRunner::PostTask takes a reference.
StartPost(t) ==
  /\ MayPost(t)
  /\ Alive
  /\ posted' = posted + 1
  /\ item' = [item EXCEPT ![t] = posted + 1]
  /\ Goto(t, "post")
  /\ UNCHANGED <<queueVars, owned, worker, workerVars, told, countVars>>

\* There is no loop any more: the task is executed on the caller's thread.
PostToDeadLoop(t) ==
  /\ MayPost(t)
  /\ ~Alive
  /\ posted' = posted + 1
  /\ executed' = [executed EXCEPT ![posted + 1] = @ + 1]
  /\ UNCHANGED <<queueVars, owned, worker, workerVars, step, item, told, heard>>

\* ConcurrentMessageLoop::PostTask: after shutdown, too, the task is executed
\* on the caller's thread.
PostTask(t) ==
  /\ step[t] = "post"
  /\ item' = [item EXCEPT ![t] = NoTask]
  /\ \/ /\ ~shutdown
        /\ tasks' = Append(tasks, item[t])
        /\ Goto(t, "notify")
        /\ UNCHANGED executed
     \/ /\ shutdown
        /\ executed' = [executed EXCEPT ![item[t]] = @ + 1]
        /\ Goto(t, "release")
        /\ UNCHANGED tasks
  /\ UNCHANGED <<threadTasks, shutdown, backlog, owned, worker, workerVars, posted,
                 told, heard>>

\* Mutant of NotifyOne: only the task that fills an empty queue is announced.
NotifyIfFirst(t) ==
  /\ step[t] = "notify"
  /\ Goto(t, "release")
  /\ \/ /\ Len(tasks) = 1
        /\ \E w \in Asleep : worker' = [worker EXCEPT ![w] = "awake"]
     \/ /\ Asleep = {} \/ Len(tasks) # 1
        /\ UNCHANGED worker
  /\ UNCHANGED <<queueVars, owned, workerVars, item, posted, told, countVars>>

\* tasks_condition_.notify_one(), with the mutex released.
NotifyOne(t) ==
  /\ step[t] = "notify"
  /\ Goto(t, "release")
  /\ \/ \E w \in Asleep : worker' = [worker EXCEPT ![w] = "awake"]
     \/ /\ Asleep = {}
        /\ UNCHANGED worker
  /\ UNCHANGED <<queueVars, owned, workerVars, item, posted, told, countVars>>

\* Mutant of PostTaskToAllWorkers: the task goes to the queue of all.
PostTaskToAnyWorker(b) ==
  /\ owned
  /\ step[Owner] = "idle"
  /\ b \notin told
  /\ told' = told \cup {b}
  /\ tasks' = Append(tasks, b)
  /\ worker' = AllAwake
  /\ UNCHANGED <<threadTasks, shutdown, backlog, owned, workerVars, step, item, posted,
                 countVars>>

\* PostTaskToAllWorkers notifies while it holds the mutex.
PostTaskToAllWorkers(b) ==
  /\ owned
  /\ step[Owner] = "idle"
  /\ b \notin told
  /\ told' = told \cup {b}
  /\ threadTasks' = [w \in Workers |-> Append(threadTasks[w], b)]
  /\ worker' = AllAwake
  /\ UNCHANGED <<tasks, shutdown, backlog, owned, workerVars, step, item, posted,
                 countVars>>

-----------------------------------------------------------------------------
(* The end of the loop.                                                    *)

\* Terminate: shutdown_ is set and all workers are notified under the mutex.
ShutDown ==
  /\ shutdown' = TRUE
  /\ backlog' = IF shutdown THEN backlog ELSE Len(tasks)
  /\ worker' = AllAwake

\* The owner calls Terminate while it holds its reference (ContextVK::Shutdown).
TerminateEarly ==
  /\ owned
  /\ step[Owner] = "idle"
  /\ ~shutdown
  /\ ShutDown
  /\ UNCHANGED <<tasks, threadTasks, owned, workerVars, posterVars, countVars>>

\* The owner gives up its reference: the DartVM or the context is destroyed.
ReleaseOwner ==
  /\ owned
  /\ step[Owner] = "idle"
  /\ owned' = FALSE
  /\ Goto(Owner, IF \E t \in Threads : step[t] # "idle" THEN "idle" ELSE "terminate")
  /\ UNCHANGED <<queueVars, worker, workerVars, item, posted, told, countVars>>

\* A thread that has posted a task gives up its reference.
Release(t) ==
  /\ step[t] = "release"
  /\ Goto(t, IF owned \/ \E u \in Threads \ {t} : step[u] # "idle"
             THEN "idle" ELSE "terminate")
  /\ UNCHANGED <<queueVars, owned, worker, workerVars, item, posted, told, countVars>>

\* ~ConcurrentMessageLoop
Terminate(t) ==
  /\ step[t] = "terminate"
  /\ ShutDown
  /\ Goto(t, "join")
  /\ UNCHANGED <<tasks, threadTasks, owned, workerVars, item, posted, told, countVars>>

\* Joining returns when all workers have.  A worker that destroys the loop
\* waits for itself.
Join(t) ==
  /\ step[t] = "join"
  /\ \A w \in Workers : worker[w] = "done"
  /\ Goto(t, "idle")
  /\ UNCHANGED <<queueVars, owned, worker, workerVars, item, posted, told, countVars>>

-----------------------------------------------------------------------------
(* WorkerMain.                                                             *)

\* The predicate of the wait on tasks_condition_.
HasWork(w) == tasks # <<>> \/ shutdown \/ threadTasks[w] # <<>>

FallAsleep(w) ==
  /\ worker[w] = "awake"
  /\ ~HasWork(w)
  /\ worker' = [worker EXCEPT ![w] = "asleep"]
  /\ UNCHANGED <<queueVars, owned, workerVars, posterVars, countVars>>

\* A condition variable may wake up without a reason.
WakeSpuriously(w) ==
  /\ worker[w] = "asleep"
  /\ worker' = [worker EXCEPT ![w] = "awake"]
  /\ UNCHANGED <<queueVars, owned, workerVars, posterVars, countVars>>

\* One task and all thread tasks are taken, in one critical section.
TakeWork(w) ==
  /\ worker[w] = "awake"
  /\ HasWork(w)
  /\ leaving' = [leaving EXCEPT ![w] = shutdown]
  /\ running' = [running EXCEPT ![w] =
       (IF tasks = <<>> THEN <<>> ELSE <<Head(tasks)>>) \o threadTasks[w]]
  /\ tasks' = IF tasks = <<>> THEN tasks ELSE Tail(tasks)
  /\ threadTasks' = [threadTasks EXCEPT ![w] = <<>>]
  /\ worker' = [worker EXCEPT ![w] = "busy"]
  /\ UNCHANGED <<shutdown, backlog, owned, posterVars, countVars>>

\* ExecuteTask returns.
FinishTask(w) ==
  /\ worker[w] = "busy"
  /\ step[w] = "idle"
  /\ running[w] # <<>>
  /\ running' = [running EXCEPT ![w] = Tail(@)]
  /\ LET k == Head(running[w]) IN
       \/ /\ k \in Tasks
          /\ executed' = [executed EXCEPT ![k] = @ + 1]
          /\ UNCHANGED heard
       \/ /\ k \in Broadcasts
          /\ heard' = [heard EXCEPT ![k][w] = @ + 1]
          /\ UNCHANGED executed
  /\ UNCHANGED <<queueVars, owned, worker, leaving, posterVars>>

\* Mutant of EndRound: shutdown_ is read again instead of shutdown_now.
EndRoundNow(w) ==
  /\ worker[w] = "busy"
  /\ running[w] = <<>>
  /\ worker' = [worker EXCEPT ![w] = IF shutdown THEN "done" ELSE "awake"]
  /\ UNCHANGED <<queueVars, owned, workerVars, posterVars, countVars>>

\* The end of a round: the worker leaves if it has seen the shutdown before it
\* took its tasks.
EndRound(w) ==
  /\ worker[w] = "busy"
  /\ running[w] = <<>>
  /\ worker' = [worker EXCEPT ![w] = IF leaving[w] THEN "done" ELSE "awake"]
  /\ UNCHANGED <<queueVars, owned, workerVars, posterVars, countVars>>

-----------------------------------------------------------------------------
PostStep(t) ==
  \/ PostTask(t)
  \/ NotifyOne(t)
  \/ Release(t)
  \/ Terminate(t)
  \/ Join(t)

WorkerStep(w) == FallAsleep(w) \/ TakeWork(w) \/ FinishTask(w) \/ EndRound(w)

Next ==
  \/ \E t \in Threads :
       \/ PostStep(t)
       \/ StartPost(t)
       \/ PostToDeadLoop(t)
  \/ \E b \in Broadcasts : PostTaskToAllWorkers(b)
  \/ TerminateEarly
  \/ ReleaseOwner
  \/ \E w \in Workers : WorkerStep(w) \/ WakeSpuriously(w)

Spec == Init /\ [][Next]_vars

\* Threads finish what they have begun and workers keep working; nobody has to
\* post a task or to give the loop up.
Fairness ==
  /\ \A t \in Threads : WF_vars(PostStep(t))
  /\ \A w \in Workers : WF_vars(WorkerStep(w))

FairSpec == Spec /\ Fairness

-----------------------------------------------------------------------------
(* Properties.                                                             *)

\* The variables keep their types.
TypeOK ==
  /\ tasks \in Seq(Tasks)
  /\ threadTasks \in [Workers -> Seq(Broadcasts)]
  /\ shutdown \in BOOLEAN
  /\ owned \in BOOLEAN
  /\ worker \in [Workers -> WorkerStates]
  /\ leaving \in [Workers -> BOOLEAN]
  /\ running \in [Workers -> Seq(Tasks \cup Broadcasts)]
  /\ step \in [Threads -> Steps]
  /\ item \in [Threads -> Tasks \cup {NoTask}]
  /\ posted \in 0..MaxTasks
  /\ told \subseteq Broadcasts
  /\ executed \in [Tasks -> Nat]
  /\ heard \in [Broadcasts -> [Workers -> Nat]]
  /\ backlog \in Nat

\* No worker sleeps beside a task that nobody has been called for: while a
\* worker is asleep there is, for every queued task, a worker that is awake or
\* a notification under way, although a task is announced after the mutex is
\* released.  Nor does a worker sleep on its own tasks, or on the shutdown.
SleepersAreNotNeeded ==
  \A s \in Asleep :
    /\ Len(tasks) <= Cardinality(Awake) + Cardinality(Notifiers)
    /\ threadTasks[s] = <<>>
    /\ ~shutdown

Stopped == \A w \in Workers : worker[w] = "done"

\* "Don't just drop tasks on the floor in case of shutdown": every worker takes
\* one more task before it leaves, so as many tasks as there are workers are
\* still executed; what is queued behind them is dropped.
FewTasksSurviveShutdown ==
  Stopped /\ backlog <= Cardinality(Workers) => tasks = <<>>

JoinsItself == \E w \in Workers : step[w] = "join"

\* Nobody will execute task k, which is queued.
Dropped(k) == Stopped /\ \E i \in 1..Len(tasks) : tasks[i] = k

\* In the end every task has been executed once, unless it is dropped at the
\* shutdown, every broadcast has reached every worker, unless the pool is shut
\* down, and after the shutdown the workers have stopped, so that they can be
\* joined; unless one of them has been left with the last reference.
PoolSettles ==
  <>[](\/ JoinsItself
       \/ /\ \A k \in 1..posted : executed[k] = 1 \/ Dropped(k)
          /\ shutdown \/ \A b \in told, w \in Workers : heard[b][w] = 1
          /\ shutdown => Stopped)
=============================================================================
