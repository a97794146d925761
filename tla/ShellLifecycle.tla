---------------------------- MODULE ShellLifecycle ----------------------------
(***************************************************************************)
(* The life of a Shell: it is created, is given a surface and loses it,    *)
(* draws frames meanwhile and is destroyed.  Its parts live on four task   *)
(* runners, and it is the embedder that decides which of them share a      *)
(* thread.  Each call on the platform thread sends tasks to other runners  *)
(* and waits for them at latches and futures; RunNowOrPostTask runs a task *)
(* at once when its runner belongs to the calling thread, in the middle of *)
(* the caller.                                                             *)
(*                                                                         *)
(* A task is a sequence of statements (Body), and a thread is a queue of   *)
(* tasks with the statements it has still to execute of the tasks it is in *)
(* (todo).  On the platform thread the statements of a call follow         *)
(* (Program).  A step executes one statement.  The merging of queues is    *)
(* the subject of ThreadMerger and TaskQueues.                             *)
(*                                                                         *)
(* A creation fails when the embedder's callbacks yield no view, no vsync  *)
(* waiter or no engine (Abandon).  Its locals go at once, and then ~Shell  *)
(* uses the engine that was never stored: the process ends (Crashed).      *)
(***************************************************************************)
EXTENDS Naturals, Sequences, FiniteSets

CONSTANTS MaxChanges,  \* bound: surfaces given to the shell
          MaxFrames    \* bound: frames built

ASSUME ShellLifecycleAssumption == MaxChanges \in Nat /\ MaxFrames \in Nat

Runners == {"platform", "raster", "ui", "io"}

\* A thread is named after the first of its runners.
Rank == [platform |-> 1, raster |-> 2, ui |-> 3, io |-> 4]
Hosts == {h \in [Runners -> Runners] :
            \A r \in Runners : Rank[h[r]] <= Rank[r] /\ h[h[r]] = h[r]}

VARIABLES host,       \* the thread of each runner
          queue,      \* the tasks posted to each thread
          todo,       \* the statements each thread has still to execute
          signalled,  \* the latches and promises that are set
          alive,      \* the objects of the shell that exist
          misused,    \* history: objects used before or after their life
          call,       \* the call the platform thread is in; "unborn": no shell yet
          place,      \* its next statement, in the program of the call
          changes,    \* surfaces given to the shell so far
          surface,    \* has the rasterizer a surface?
          wantsFrame, \* is a frame scheduled?
          frames,     \* frames built so far
          waiting,    \* waiting_for_first_frame_
          waiter,     \* a thread in WaitForFirstFrame
          missed      \* history: has it been notified before it slept?

threadVars == <<queue, todo, signalled>>
objectVars == <<alive, misused>>
frameVars == <<surface, wantsFrame, frames>>
waitVars == <<waiting, waiter, missed>>
callVars == <<call, place, changes>>
vars == <<host, threadVars, objectVars, callVars, frameVars, waitVars>>

Objects == {"shell", "view", "rasterizer", "engine", "io"}

\* The destructions of a shell that lacks a part, as calls of their own.
Failures == {"noView", "noWaiter", "noEngine"}

\* The promises that CreateShellOnPlatformThread has on its stack.
Promises == {"snapshots", "rasterizerMade", "weakIo", "unrefQueue", "ioMade", "engineMade"}

-----------------------------------------------------------------------------
(* Statements and tasks.                                                   *)

Run(task, r) == [do |-> "run", what |-> task, on |-> r]
Post(task, r) == [do |-> "post", what |-> task, on |-> r]
Wait(latch) == [do |-> "wait", what |-> latch]
Signal(latch) == [do |-> "signal", what |-> latch]
Make(object) == [do |-> "make", what |-> object]
Use(object) == [do |-> "use", what |-> object]
Drop(object) == [do |-> "drop", what |-> object]
Do(effect) == [do |-> "do", what |-> effect]

\* OnPlatformViewCreated: is there a raster thread to post to?
PostsRasterTask == host["raster"] # host["platform"]

\* Mutant of CreateShell: the engine is created before the IO manager.
CreateShellEngineFirst ==
  <<Make("shell"), Run("makeWeakFactory", "raster"), Make("view"),
    Run("makeRasterizer", "raster"), Run("setUpContext", "raster"),
    Run("makeEngine", "ui"), Run("makeIOManager", "io"), Wait("engineMade"),
    Wait("rasterizerMade"), Wait("ioMade"),
    Post("stopRouting", "platform"), Run("setUpFonts", "ui")>>

\* Shell::CreateShellOnPlatformThread and Shell::Setup
CreateShell ==
  <<Make("shell"), Run("makeWeakFactory", "raster"), Make("view"),
    Run("makeRasterizer", "raster"), Run("setUpContext", "raster"),
    Run("makeIOManager", "io"), Run("makeEngine", "ui"), Wait("engineMade"),
    Wait("rasterizerMade"), Wait("ioMade"),
    Post("stopRouting", "platform"), Run("setUpFonts", "ui")>>

\* Shell::OnPlatformViewCreated
CreateSurface ==
  IF PostsRasterTask
  THEN <<Use("rasterizer"), Run("createSurfaceIO", "io"), Wait("surfaceCreated")>>
  ELSE <<Use("rasterizer"), Run("createSurfaceIO", "io"), Wait("surfaceCreated"),
         Do("setUp")>>

\* Mutant of DestroySurface: the platform thread does not wait.
DestroySurfaceLater ==
  <<Use("rasterizer"), Run("tearDown", "raster"), Use("rasterizer")>>

\* Shell::OnPlatformViewDestroyed
DestroySurface ==
  <<Use("rasterizer"), Run("tearDown", "raster"), Wait("surfaceDestroyed"),
    Use("rasterizer")>>

\* Mutant of DestroyShell: the view goes before the IO manager.
DestroyShellViewFirst ==
  <<Run("endIsolates", "platform"), Wait("isolatesEnded"),
    Run("dropEngine", "ui"), Wait("engineDropped"),
    Run("dropRasterizer", "raster"), Wait("rasterizerDropped"),
    Run("dropView", "platform"), Wait("viewDropped"),
    Run("dropIOManager", "io"), Wait("ioDropped"), Drop("shell")>>

\* Shell::~Shell
DestroyShell ==
  <<Run("endIsolates", "platform"), Wait("isolatesEnded"),
    Run("dropEngine", "ui"), Wait("engineDropped"),
    Run("dropRasterizer", "raster"), Wait("rasterizerDropped"),
    Run("dropIOManager", "io"), Wait("ioDropped"),
    Run("dropView", "platform"), Wait("viewDropped"), Drop("shell")>>

\* Shell::Screenshot
TakeScreenshot == <<Run("screenshot", "raster"), Wait("screenshotTaken")>>

\* What a call does on the platform thread.
Program(name) ==
  CASE name = "create" -> CreateShell
    [] name = "createSurface" -> CreateSurface
    [] name = "destroySurface" -> DestroySurface
    [] name = "screenshot" -> TakeScreenshot
    [] name \in {"destroy"} \cup Failures -> DestroyShell
    [] name \in {"unborn", "none"} -> <<>>

\* Mutant of FirstFrame: the waiter is told before the flag is cleared.
FirstFrameNotifyingFirst == <<Do("notify"), Do("clearWaiting")>>

\* Shell::OnAnimatorDraw: what its task does for the first frame.
FirstFrame == <<Do("clearWaiting"), Do("notify")>>

\* The tasks that these calls send to the runners.
Body(task) ==
  CASE task = "makeWeakFactory" -> <<Use("shell")>>
    [] task = "makeRasterizer" ->
         <<Use("shell"), Make("rasterizer"), Signal("snapshots"), Signal("rasterizerMade")>>
    [] task = "setUpContext" -> <<Use("view"), Signal("context")>>
    [] task = "makeIOManager" ->
         <<Make("io"), Signal("weakIo"), Signal("unrefQueue"), Signal("ioMade"),
           Wait("context"), Use("view")>>
    [] task = "makeEngine" ->
         <<Use("shell"), Wait("weakIo"), Wait("unrefQueue"), Wait("snapshots"),
           Make("engine"), Signal("engineMade")>>
    [] task \in {"stopRouting", "setUpFonts"} -> <<>>  \* behind weak pointers
    [] task = "createSurfaceIO" ->
         IF PostsRasterTask
         THEN <<Use("view"), Run("scheduleFrame", "ui"), Run("setUpSurface", "raster"),
                Signal("surfaceCreated")>>
         ELSE <<Use("view"), Run("scheduleFrame", "ui"), Signal("surfaceCreated")>>
    [] task = "setUpSurface" -> <<Do("setUp")>>
    [] task = "scheduleFrame" -> <<Do("scheduleFrame")>>
    [] task = "tearDown" -> <<Do("tearDown"), Run("drainIO", "io")>>
    [] task = "drainIO" -> <<Use("io"), Signal("surfaceDestroyed")>>
    [] task = "screenshot" -> <<Signal("screenshotTaken")>>
    [] task = "draw" -> <<Do("testWaiting")>>
    [] task = "endIsolates" -> <<Use("engine"), Signal("isolatesEnded")>>
    [] task = "dropEngine" -> <<Drop("engine"), Signal("engineDropped")>>
    [] task = "dropRasterizer" ->
         <<Drop("rasterizer"), Use("shell"), Signal("rasterizerDropped")>>
    [] task = "dropIOManager" -> <<Drop("io"), Use("view"), Signal("ioDropped")>>
    [] task = "dropView" -> <<Drop("view"), Signal("viewDropped")>>

Init ==
  /\ host \in Hosts
  /\ queue = [t \in Runners |-> <<>>]
  /\ todo = [t \in Runners |-> <<>>]
  /\ signalled = {}
  /\ alive = {}
  /\ misused = {}
  /\ call = "unborn"
  /\ place = 1
  /\ changes = 0
  /\ surface = FALSE
  /\ wantsFrame = FALSE
  /\ frames = 0
  /\ waiting = TRUE
  /\ waiter = "none"
  /\ missed = FALSE

-----------------------------------------------------------------------------
(* Threads.                                                                *)

\* A thread executes its tasks before it goes on with its call.
CanExecute(t) ==
  todo[t] = <<>> => t = host["platform"] /\ place <= Len(Program(call))
Statement(t) == IF todo[t] # <<>> THEN Head(todo[t]) ELSE Program(call)[place]

\* The statement is done, and others come before the next one.
ContinueWith(t, statements) ==
  IF todo[t] # <<>>
  THEN /\ todo' = [todo EXCEPT ![t] = statements \o Tail(@)]
       /\ UNCHANGED place
  ELSE /\ todo' = [todo EXCEPT ![t] = statements]
       /\ place' = place + 1

Continue(t) == ContinueWith(t, <<>>)

\* Mutant of RunNowOrPostTask: the task goes to the thread the runner is named
\* after, whoever runs its tasks.
RunNowOrPostTaskAlways(t, s) ==
  /\ Continue(t)
  /\ queue' = [queue EXCEPT ![s.on] = Append(@, s.what)]

\* TaskRunner::RunNowOrPostTask
RunNowOrPostTask(t, s) ==
  IF host[s.on] = t
  THEN /\ ContinueWith(t, Body(s.what))
       /\ UNCHANGED queue
  ELSE /\ Continue(t)
       /\ queue' = [queue EXCEPT ![host[s.on]] = Append(@, s.what)]

\* A task that a failed creation has left behind sets one of its promises.
TouchesLocals(s) == s.do = "signal" /\ s.what \in Promises /\ call \in Failures

\* A statement that is about other threads.
Communicate(t) ==
  /\ CanExecute(t)
  /\ LET s == Statement(t) IN
       \/ /\ s.do = "run"
          /\ RunNowOrPostTask(t, s)
          /\ UNCHANGED signalled
       \/ /\ s.do = "post"
          /\ Continue(t)
          /\ queue' = [queue EXCEPT ![host[s.on]] = Append(@, s.what)]
          /\ UNCHANGED signalled
       \/ /\ s.do = "wait"
          /\ s.what \in signalled
          /\ signalled' = signalled \ {s.what}
          /\ Continue(t)
          /\ UNCHANGED queue
       \/ /\ s.do = "signal"
          /\ signalled' = signalled \cup {s.what}
          /\ Continue(t)
          /\ UNCHANGED queue
  /\ misused' = IF TouchesLocals(Statement(t)) THEN misused \cup {"promises"} ELSE misused
  /\ UNCHANGED <<host, alive, call, changes, frameVars, waitVars>>

\* A statement that makes, uses or destroys an object of the shell.
UseObject(t) ==
  /\ CanExecute(t)
  /\ Continue(t)
  /\ LET s == Statement(t) IN
       \/ /\ s.do = "make"
          /\ alive' = alive \cup {s.what}
          /\ UNCHANGED misused
       \/ /\ s.do = "use"
          /\ misused' = misused \cup ({s.what} \ alive)
          /\ UNCHANGED alive
       \/ /\ s.do = "drop"
          /\ alive' = alive \ {s.what}
          /\ misused' = misused \cup ({s.what} \ alive)
  /\ surface' = (surface /\ "rasterizer" \in alive')
  /\ UNCHANGED <<host, queue, signalled, call, changes, wantsFrame, frames, waitVars>>

\* A statement behind `if (rasterizer)` or `if (engine)`, for the most part.
Affect(t) ==
  /\ CanExecute(t)
  /\ Statement(t).do = "do"
  /\ LET effect == Statement(t).what
         rasterizes == "rasterizer" \in alive
     IN /\ ContinueWith(t, IF effect = "testWaiting" /\ rasterizes /\ waiting
                           THEN FirstFrame ELSE <<>>)
        /\ surface' = CASE effect = "setUp" -> surface \/ rasterizes
                        [] effect = "tearDown" -> FALSE
                        [] OTHER -> surface
        /\ wantsFrame' = (wantsFrame \/ (effect = "scheduleFrame" /\ "engine" \in alive))
        /\ waiting' = CASE effect = "setUp" -> TRUE
                        [] effect = "clearWaiting" -> FALSE
                        [] OTHER -> waiting
        /\ misused' = IF effect \in {"setUp", "clearWaiting", "notify"}
                      THEN misused \cup ({"shell"} \ alive) ELSE misused
        /\ waiter' = IF effect = "notify" /\ waiter = "asleep" THEN "check" ELSE waiter
        /\ missed' = (missed \/ (effect = "notify" /\ waiter = "checked"))
  /\ UNCHANGED <<host, queue, signalled, alive, call, changes, frames>>

StartTask(t) ==
  /\ todo[t] = <<>>
  /\ t = host["platform"] => call = "none"
  /\ queue[t] # <<>>
  /\ queue' = [queue EXCEPT ![t] = Tail(@)]
  /\ todo' = [todo EXCEPT ![t] = Body(Head(queue[t]))]
  /\ UNCHANGED <<host, signalled, objectVars, callVars, frameVars, waitVars>>

\* engine_ is null when a creation fails, and using it ends the process; the use
\* of what is no longer there may seem to work.
Crashed == "engine" \in misused

ThreadStep(t) ==
  /\ ~Crashed
  /\ Communicate(t) \/ UseObject(t) \/ Affect(t) \/ StartTask(t)

-----------------------------------------------------------------------------
(* Calls on the platform thread.                                           *)

\* The embedder makes one call after the other, in a legal order.
Begin(name) ==
  /\ call = IF name = "create" THEN "unborn" ELSE "none"
  /\ todo[host["platform"]] = <<>>
  /\ call' = name
  /\ UNCHANGED <<host, threadVars, objectVars, place, frameVars, waitVars>>

\* is_set_up_, while there is a shell
IsSetUp == call \notin {"unborn", "create", "destroy"} /\ "engine" \in alive

Create ==
  /\ Begin("create")
  /\ UNCHANGED changes

\* CreateShellOnPlatformThread returns before it executes this statement.  The
\* parts that are not stored in the shell are its locals, and so are the promises;
\* the shell is the last of the locals.
Abandon(name, statement) ==
  /\ call = "create"
  /\ todo[host["platform"]] = <<>>
  /\ place <= Len(CreateShell) /\ CreateShell[place] = statement
  /\ call' = name
  /\ place' = 1
  /\ alive' = alive \cap {"shell"}
  /\ UNCHANGED <<host, threadVars, misused, changes, frameVars, waitVars>>

\* on_create_platform_view yields nothing.
CreateWithoutView == Abandon("noView", Make("view"))

\* PlatformView::CreateVSyncWaiter yields nothing.
CreateWithoutWaiter == Abandon("noWaiter", Run("makeIOManager", "io"))

\* on_create_engine yields nothing, and Setup refuses; until then it makes no
\* difference whether there is an engine.
CreateWithoutEngine == Abandon("noEngine", Post("stopRouting", "platform"))

OnPlatformViewCreated ==
  /\ IsSetUp /\ changes < MaxChanges /\ changes % 2 = 0
  /\ changes' = changes + 1
  /\ Begin("createSurface")

OnPlatformViewDestroyed ==
  /\ IsSetUp /\ changes % 2 = 1
  /\ changes' = changes + 1
  /\ Begin("destroySurface")

Screenshot ==
  /\ IsSetUp
  /\ Begin("screenshot")
  /\ UNCHANGED changes

\* A thread in WaitForFirstFrame keeps the owner of the shell alive.
Destroy ==
  /\ IsSetUp
  /\ waiter \notin {"check", "checked", "asleep"}
  /\ Begin("destroy")
  /\ UNCHANGED changes

Return ==
  /\ call \notin {"unborn", "none"}
  /\ todo[host["platform"]] = <<>> /\ place > Len(Program(call))
  /\ call' = "none"
  /\ place' = 1
  /\ UNCHANGED <<host, threadVars, objectVars, changes, frameVars, waitVars>>

-----------------------------------------------------------------------------
(* Frames, and a thread that waits for the first of them.                  *)

\* A vsync on the UI thread builds a frame; Shell::OnAnimatorDraw
OnAnimatorDraw ==
  /\ todo[host["ui"]] = <<>>
  /\ host["ui"] = host["platform"] => call = "none"
  /\ wantsFrame /\ "engine" \in alive
  /\ frames < MaxFrames
  /\ frames' = frames + 1
  /\ wantsFrame' \in BOOLEAN  \* the application may ask for another
  /\ todo' = [todo EXCEPT ![host["ui"]] = <<Use("rasterizer"), Post("draw", "raster")>>]
  /\ UNCHANGED <<host, queue, signalled, objectVars, callVars, surface, waitVars>>

\* Shell::WaitForFirstFrame, on a thread that none of the runners uses.
WaitForFirstFrame ==
  /\ waiter = "none"
  /\ IsSetUp
  /\ waiter' = "check"
  /\ UNCHANGED <<host, threadVars, objectVars, callVars, frameVars, waiting,
                 missed>>

\* The predicate is evaluated under a mutex that the notifier does not take.
CheckWaiting ==
  /\ waiter = "check"
  /\ waiter' = IF waiting THEN "checked" ELSE "ok"
  /\ UNCHANGED <<host, threadVars, objectVars, callVars, frameVars, waiting,
                 missed>>

FallAsleep ==
  /\ waiter = "checked"
  /\ waiter' = "asleep"
  /\ UNCHANGED <<host, threadVars, objectVars, callVars, frameVars, waiting,
                 missed>>

\* At the end of the wait the predicate is evaluated once more.
TimeOut ==
  /\ waiter = "asleep"
  /\ waiter' = IF waiting THEN "timeout" ELSE "ok"
  /\ UNCHANGED <<host, threadVars, objectVars, callVars, frameVars, waiting,
                 missed>>

Waiting == CheckWaiting \/ FallAsleep

-----------------------------------------------------------------------------
Next ==
  \/ \E t \in Runners : ThreadStep(t)
  \/ Create
  \/ CreateWithoutView
  \/ CreateWithoutWaiter
  \/ CreateWithoutEngine
  \/ OnPlatformViewCreated
  \/ OnPlatformViewDestroyed
  \/ Screenshot
  \/ Destroy
  \/ Return
  \/ OnAnimatorDraw
  \/ WaitForFirstFrame
  \/ Waiting
  \/ TimeOut

Spec == Init /\ [][Next]_vars

\* Threads run what is posted to them, and calls return when they are through.
Fairness ==
  /\ \A t \in Runners : WF_vars(ThreadStep(t))
  /\ WF_vars(Return)

FairSpec == Spec /\ Fairness

-----------------------------------------------------------------------------
(* Properties.                                                             *)

Calls == {"create", "createSurface", "destroySurface", "screenshot", "destroy"}

\* The variables keep their types, a thread that no runner is on has no tasks,
\* and a call does not run past the end of its program.
TypeOK ==
  /\ host \in Hosts
  /\ \A t \in Runners : host[t] # t => queue[t] = <<>> /\ todo[t] = <<>>
  /\ alive \subseteq Objects /\ misused \subseteq Objects \cup {"promises"}
  /\ call \in Calls \cup Failures \cup {"unborn", "none"}
  /\ place \in 1..Len(Program(call)) + 1
  /\ changes \in 0..MaxChanges + 1 /\ frames \in 0..MaxFrames
  /\ {surface, wantsFrame, waiting, missed} \subseteq BOOLEAN
  /\ waiter \in {"none", "check", "checked", "asleep", "ok", "timeout"}

\* What a creation that fails uses outside its life: ~Shell the engine it does
\* not have, and the tasks left behind the view and the promises.  Setup refuses
\* when all of the promises are kept.
Mishaps(name) ==
  CASE name = "noView" -> {"engine"}
    [] name = "noWaiter" -> {"engine", "view", "promises"}
    [] name = "noEngine" -> {"engine", "view"}
    [] OTHER -> {}

\* No task and no call touches a part of the shell before it is made or after
\* it is destroyed: the raw pointers and references that tasks capture
\* ("we are preventing the platform view from being collected by using a
\* latch") are covered by the latches, for every assignment of the runners.
\* The early returns of CreateShellOnPlatformThread wait for no task, and only
\* after them is anything misused, and nothing but their mishaps.
NothingDeadIsUsed == misused \subseteq Mishaps(call)

\* Between two calls the rasterizer has no surface unless the embedder has
\* given it one that it has not taken back: OnPlatformViewDestroyed "is a
\* synchronous operation", although the surface is set up by a task nobody
\* waits for.
SurfaceGoneAfterDestroy == call = "none" /\ changes % 2 = 0 => ~surface

\* A thread asleep in WaitForFirstFrame when a frame has been drawn is being
\* notified, or has missed the notification, which is given without the mutex.
FirstFrameIsNoticed ==
  waiter = "asleep" /\ ~waiting =>
    missed \/ \E t \in Runners : todo[t] # <<>> /\ Head(todo[t]) = Do("notify")

\* With the IO runner on the platform thread, the raster thread is to be there
\* as well.
DrainsElsewhere == host["io"] = host["platform"] => host["raster"] = host["platform"]

\* Every call of the embedder returns: no thread waits for a task that only it
\* can run, whichever runners share threads, but for the teardown of a surface
\* by a raster thread of its own with the IO runner on the platform thread.  A
\* creation that fails does not hang either: it ends the process.
CallsReturn ==
  DrainsElsewhere => (call \in Calls \cup Failures ~> call = "none" \/ Crashed)

=============================================================================
