# TLA+ models of the Flutter engine and its frame scheduling

This directory specifies, model-checks and proves the part of the repository
that is hardest to test: what happens between threads. It follows a frame from
the framework's request through four threads to the screen, and with it the task
queues that are merged while they run, the shell that is created and destroyed
around them, the pool of workers, the images that wait for the GPU, and a
window that changes its size. Paths without a prefix are relative to
`src/engine/src/flutter/`.

    tlasany M.tla                      parse a module
    tlc -config X.cfg M                model-check a run of the table below
    tlapm M.tla                        check the proofs of a *Proofs module

## 1. The system

The repository is the Flutter monorepo (engine, framework, tools) with a small
Dart application under `src/Users/`. The concurrency is in the engine:

| Component | Source | State | Operations | Talks to |
|---|---|---|---|---|
| Frame pipeline | `shell/common/pipeline.h` | two semaphores, a deque, a counter | Produce, ProduceIfEmpty, Complete, Consume | producer: Animator (UI thread), Rasterizer (retries); consumer: Rasterizer |
| Animator | `shell/common/animator.cc` | request semaphore, two flags, continuation, rendered trees, flow ids | RequestFrame, BeginFrame, Render, EndFrame, DrawLastLayerTrees | VsyncWaiter (callbacks), Shell (delegate), pipeline |
| VsyncWaiter | `shell/common/vsync_waiter.cc` | one callback, keyed secondary callbacks, a mutex | AsyncWaitForVsync, ScheduleSecondaryCallback, FireCallback | platform (AwaitVSync), UI task queue |
| Pointer dispatcher | `shell/common/pointer_data_dispatcher.cc` | pending packet, in-progress flag | DispatchPacket, secondary callback | Engine, VsyncWaiter |
| Rasterizer | `shell/common/rasterizer.cc` | surface, last successful task, merger | Draw, DrawLastLayerTrees, Setup, Teardown | pipeline, embedder, merger, raster task queue |
| External view embedder | `shell/platform/android/external_view_embedder/` | composition order, used flag | BeginFrame, PostPrerollAction, EndFrame | merger |
| Thread merger | `fml/raster_thread_merger.cc`, `fml/shared_thread_merger.cc` | leases by caller, enabled flag, one mutex per engine and one shared | MergeWithLease, ExtendLeaseTo, DecrementLease, UnMergeNowIfLastOne, Enable, Disable | task queues |
| Task queues, message loops | `fml/message_loop_task_queues.cc`, `fml/task_source.cc`, `fml/message_loop_impl.cc` | delayed tasks, pauses, owner_of, subsumed_by, timers | RegisterTask, GetNextTaskToRun, Merge, Unmerge, Pause, Resume | every thread |
| Shell | `shell/common/shell.cc` | its parts on four task runners, latches and futures, `waiting_for_first_frame_` | create, surface created and destroyed, Screenshot, WaitForFirstFrame, destroy | all of the above |
| Concurrent message loop | `fml/concurrent_message_loop.cc` | a task queue, a queue per worker, `shutdown_`, a condition variable, references | PostTask, PostTaskToAllWorkers, Terminate, destructor, WorkerMain | Dart VM, image decoder, Vulkan context |
| GPU switch, tasks that await the GPU | `fml/synchronization/sync_switch.cc`, `impeller/renderer/backend/metal/context_mtl.mm` | a flag under a reader-writer lock, a bounded deque of tasks | Execute, SetSwitch, StoreTaskForGPU, FlushTasksAwaitingGPU | platform thread (sets), raster, IO and worker threads (read) |
| Image requests | `lib/ui/painting/`, `shell/common/snapshot_controller_impeller.cc` | the request in some queue | decode, rasterise, encode | GPU switch, all task runners |
| Windows view | `shell/platform/windows/` | resize status and target, surface, a posted wakeup | OnWindowSizeChanged, OnFrameGenerated, OnFramePresented, PollOnce | platform thread, raster thread |
| Framework scheduler | `src/packages/flutter/lib/src/scheduler/binding.dart` | phase, five flags, callbacks, tasks | scheduleFrame, warm-up frames, endOfFrame, scheduleTask, lockEvents | engine (frames), isolate timers |

What is hard about each of them is the list `hazards` of `PROJECT.json`: every
hazard names its line and the property that covers it, or says why none does.
In short:

- *Pipeline*: a slot is neither lost nor given back twice, although an item and
  its signal are not one step.
- *Frames*: only the first item of an empty queue is announced to the
  rasterizer, so all others depend on a Draw in progress, which may yield, merge,
  unmerge, fail or retry meanwhile; the screen must never go back.
- *Scheduling*: a single token stands for the request of a frame; it passes through
  a semaphore, a posted task, the waiter, a vsync and another posted task.
- *Task queues*: every operation must leave every sleeping loop with a timer that is
  early enough, while queues change hands.
- *Merger*: several engines share one merger that they lock with mutexes of their own.
- *Shell*: which runners share a thread is the embedder's choice; raw pointers and stack
  references are kept alive by latches alone, and latches can wait for themselves.
- *Workers*: tasks are announced after the mutex is released, and a shutdown may come at any time.
- *Images*: a task is stored for a GPU that may become available in the same moment.
- *Resizing*: the platform thread waits with a time-out for a frame that only it,
  running the UI isolate in a nested loop, can build.
- *Framework scheduler*: frames of the engine fall between the halves of a warm-up frame;
  everything may be called in every phase.

## 2. Modules

Every step of a model is one critical section, one semaphore operation or one
access to unprotected shared state of the source; where a thread runs
a whole task without sharing anything, the task is one step. The `map` of
`PROJECT.json` names the source lines of every definition. A definition whose
comment begins "Mutant of" is not part of a specification: it is the operator
of that name with a plausible bug, used to make sure that a property notices it.

| Module | Models | How state and actions correspond |
|---|---|---|
| `BoundedChannel` | what Pipeline promises: a bounded channel whose users reserve a slot, put an item at the end, take from the front, finish | abstract: no semaphores, no signals |
| `Pipeline` | the class template | one variable per member; Produce and ProduceIfEmpty, the two commits, the destructor of a continuation, Signal, and Consume in three steps; any thread may do any of them. `INSTANCE BoundedChannel` with a refinement mapping |
| `FramePipeline` (extends `Pipeline`) | Animator, Shell and Rasterizer around the pipeline, with the raster thread and the platform thread as possible drawers | `at[d]` is the place inside Rasterizer::Draw, `tasks` the raster task queue, `lease` the merger of one engine, `composed` the emptiness of composition_order_. `mishaps` is a history variable |
| `FrameShutdown` (extends `FramePipeline`) | Shell::~Shell as the frame path sees it: the Animator goes, then the Rasterizer | adds `shutdown` and the steps of the destruction; who has a strong reference to the pipeline is read off the tasks |
| `VsyncWaiter` | vsync_waiter.cc | arming is a step after the critical section that decides on it; FireCallback is taken apart into taking the callbacks, pausing, posting |
| `FrameScheduling` (extends `VsyncWaiter`) | Animator, SmoothPointerDataDispatcher on the UI task queue | one variable per member; a UI task is one step up to the point where it arms the platform or calls the waiter again (`calls`) |
| `TaskQueues` | MessageLoopTaskQueues, TaskSource and the flush of a message loop | every method holds queue_mutex_ and is one step; `loop` is what each loop does; the timer is the loop's timerfd |
| `ThreadMerger` | RasterThreadMerger, SharedThreadMerger, the view life cycle of Shell | a method is two steps, the check under its own mutex and the change under the shared one; `mutex` says who holds which |
| `ShellLifecycle` | Shell: creation, surface, frames, destruction, first frame | a task is a sequence of statements (`Body`), a thread a queue of tasks with the statements it has still to execute of the tasks it is in; a call is a sequence of statements too (`Program`), and `place` is the next one; `host` says which runners share a thread and is chosen once; the early returns of a creation that fails are actions (`Abandon`), and `Crashed` is the end of the process |
| `WorkerPool` | ConcurrentMessageLoop and its task runner | `worker` and `step` say where a thread is in WorkerMain, in PostTask or in the destructor; who holds the last reference destroys the loop |
| `SyncSwitch`, `GpuTasks` (extends it) | the switch with its readers and writer; ContextMTL's tasks that await the GPU, and the platform thread that sets the switch and flushes them | `readers` are the threads inside Execute; the flush is a step per task |
| `ImageRequests` (extends `GpuTasks`) | decodes, snapshots and encodes on their way over worker, raster, IO and platform thread; frames with overlay layers | `step` and `request` say what each thread does for which request |
| `WindowResize` | FlutterWindowsView, CompositorOpenGL and the platform's task runner during a resize | a step is a critical section of resize_mutex_ or what lies between two of them; a size without an area is a minimised window |
| `SchedulerBinding` | the framework's scheduler on one isolate | one variable per member; a step is what runs between two points at which the application may call the scheduler |
| `MCFramePipeline`, `MCWindowResize` | instances for TLC | definitions for the constants |
| `*Proofs` | theorems and the inductive invariants they need | section 4 |

The modules divide the system along its interfaces. `FramePipeline` keeps
the merger simple (one engine, always enabled) because its
subject is the frames; `ThreadMerger` has the merger in full and no frames.
`FrameScheduling` sees the pipeline as its free slots; what happens to the frames
is `FramePipeline`'s subject. `SchedulerBinding` takes from the engine what
`RequestsLeadToFrames` of `FrameScheduling` promises: a request leads to one frame,
and requests made before that frame begins are one. `ShellLifecycle` has fixed threads;
merging is the subject of `ThreadMerger` and `TaskQueues`.

## 3. What is checked

| Run | Module | Question |
|---|---|---|
| `frames_merging` | `MCFramePipeline` | With thread merging: do waiting frames always have a Draw coming, do retries yield to newer frames only, is the order on the screen kept, are frames consumed, and is the frame path a bounded channel that conserves its slots? |
| `scheduling` | `FrameScheduling` | Are token, vsync and pauses conserved, do requests become frames, do packets arrive, in order? |
| `task_queues` | `TaskQueues` | Is no wakeup lost, and is every task run? |
| `merger` | `ThreadMerger` | Do leases and queues agree; does a disabled merger stay put for its engine? |
| `images` | `ImageRequests` | Is the GPU left alone in the background, is no stored decode or snapshot stranded, is each answered once? |
| `workers` | `WorkerPool` | Is no wakeup lost, is every accepted task executed once or known to be dropped, do the workers stop? |
| `shell` | `ShellLifecycle` | For each of the 15 ways to share threads: is nothing used outside its life, is the surface gone after its destruction, is the first frame noticed, does every call return? Creations may fail. |
| `resize` | `MCWindowResize` | Does the platform thread wake up, do frames fit their surface, does the window get its frame? |
| `scheduler` | `SchedulerBinding` | Does the framework never wait for a frame nobody has requested; are updates drawn, tasks run, ends of frames announced? |

Three runs expect a violation, because the code does not do what its own text
says (`findings` of `PROJECT.json` quote the lines):

| Run | What the text says | What the run shows |
|---|---|---|
| `merger_lease` | shared_thread_merger.cc:59-61: a lease is positive while merged | with two engines, one whose lease has ended draws while the other one's still runs |
| `image_overlays` | FlutterPlatformViewsController.mm:838-839: the raster thread blocks until the layers are made | it blocks inside SyncSwitch::Execute, and the platform thread may wait to set that switch: neither goes on |
| `null_item` | pipeline.h:49-51: the producer enqueues a resource when it has been prepared | an Animator that is destroyed with a continuation in hand enqueues null, and a Draw that still holds the pipeline dereferences it (rasterizer.cc:260) |

### Found while modelling

The models reach further sequences that are worth knowing. Where a
property would be broken by one, it names the exception (`mishaps`, `Mishaps`, `missed`,
`late`, `JoinsItself`, `DrainsElsewhere`) and so shows that nothing *else* goes wrong.

- A frame pushed behind another one is not announced. If a Draw runs between its push and
  its signal (pipeline.h:224-235), its TryWait fails and it posts nothing;
  the frame, and those behind it, stay until the queue is drawn for another reason
  (animator.cc:149-151 says it will eventually be consumed).
- After a merge in the middle of a Draw the platform thread may begin a frame before the
  raster thread has ended its own (`FML_DCHECK`, rasterizer.cc:647).
- A redraw of the last layer trees leaves frame_scheduled_ set, and the flow ids
  of a trace are kept although nothing is scheduled (animator.cc:308).
- OnPlatformViewCreated does not wait for its raster task, which enables the merger
  (shell.cc:996). When the view is destroyed at once, that task may enable it
  behind the destruction's back, a Draw may merge the queues, and the
  platform thread waits at shell.cc:1105 for a task that only it could run.
- CreateShellOnPlatformThread has three early returns behind the creation of the Shell: no
  platform view (shell.cc:277-279), no vsync waiter (339-341), Setup refuses (437-443). Each destroys a
  shell without an engine, and the destructor calls `engine_->ShutdownPlatformIsolates()`
  (shell.cc:619): a null pointer instead of the `nullptr` the caller is meant to get. At 339-341 the raster
  tasks of lines 294-334 may still be queued, with references to promises on the stack that is being
  left and a raw pointer to the view that is gone; at 437-443 the second of them and
  the end of the IO thread's task (lines 386-391) may use the view, and nobody waits for either. `Mishaps` lists what each return misuses, and `NothingDeadIsUsed`
  says that nothing else ever is. An embedder whose callbacks yield these parts never meets it.
- With the IO runner on the platform thread and a raster thread of its own, OnPlatformViewDestroyed
  waits for a task on its own thread (shell.cc:1098-1107).
- A waiter between its check and its sleep misses the notification of the first frame
  (shell.cc:1415-1418) and goes on only when its time is over.
- A task of the pool may hold the last reference to it: the worker then joins itself.
- At a shutdown of the pool each worker takes one more task; what is queued behind
  is dropped, in spite of concurrent_message_loop.cc:52.
- An encode is stored after the lock of the switch is released
  (image_encoding_impeller.cc:91-98): if the GPU becomes available in between, the
  encode waits for the next time, which may never come. Decodes and snapshots
  are stored under the lock and are safe.
- With a single thread that sets the switch, the branch of FlushTasksAwaitingGPU that queues
  tasks again is never taken.
- Windows: a resize to B that times out, followed by one back to A, is judged by
  the old surface (flutter_windows_view.cc:200-205): the status stays kResizeStarted for
  B and every frame of size A is refused. An empty frame completes a resize
  with height and width swapped (flutter_windows_view.cc:143).
- Windows: a size change that arrives inside the poll of another one begins a resize and has not
  sent its metrics yet when a frame of the earlier resize, or an empty frame, completes it: the
  new size is then shown by a frame built for the old one ("early"). Proving that frames fit
  their surface brought this out; the run had been too small for it.
- With two engines on one merger, the raster thread is about to decrement the lease of an engine
  whose view is torn down meanwhile by the platform thread, which also unmerges.
  DecrementLease finds all leases zero, unmerges queues that are not merged,
  and its FML_CHECK fails (shared_thread_merger.cc:35-42, 69-72; "unmerge" in `failed`).
- `endOfFrame`, asked for by a post-frame callback, does not complete "after the current
  frame" (binding.dart:840-842): it waits for the next one, which it does not schedule.
- A task run by scheduleTask that locks events while other tasks are queued trips
  `assert(!locked)` of the scheduler (binding.dart:495); the model has release behaviour.

### Bounds

- *frames_merging*: three frames, built or built again, over a pipeline of depth 2 as in
  the Animator (it fills up, a frame waits behind another), a lease of 2
  (the code: 10; what matters is that it can end and be extended), one redraw. With a fourth
  frame the run no longer ends in minutes. The proofs lift all of these bounds for
  the safety properties.
- *scheduling*: a pipeline of depth 1, so that it is full in the next frame, and three
  packets (one delivered, one held back, one to push it out).
- *task_queues*: two loops, either of which may own the other; three tasks
  (one to merge, one paused, one frame task); two instants, so that a task
  may be due later than one registered after it. Chains of merges are ruled out by proof.
- *merger*: two engines; seven draws (both can take and use up a lease
  of 3), three changes of a view. It assumes that a Draw of the raster
  thread ends before the platform thread has drawn away the lease (guard on
  `ahead`): IsMerged and ExtendLeaseTo are separate critical sections, and a raster
  thread that sleeps for nine platform frames between the two would record a lease
  for queues that are not merged.
- *images*: one request of each kind, a queue of two tasks that await the GPU (the code: 1024) so that
  it overflows, three changes of the switch (away, back, away again), one frame.
- *workers*: two workers, three tasks (more than workers, so that one is left
  behind at the shutdown) and one broadcast; the owner, another client and one
  of the workers post.
- *shell*: every assignment of four runners to threads, a surface created,
  destroyed, created again, two frames; a creation may fail at each of its early returns.
- *resize*: three sizes, which differ in one dimension or in both and of which one is another one
  swapped, and a minimised window; three size changes, nested up to three deep, since a resize
  can be completed early only inside another one; one EGL failure; one frame of the
  application's own.
- *scheduler*: two tickers, so that one can cancel the other's callback in the middle of a
  frame; two post-frame callbacks. The state is finite otherwise.

CHECK_DEADLOCK is off where the bounds let the model stop, or, in `shell`, the process ends.

### Fairness

No fairness is assumed of what the application, the user or the operating system
may choose to do: requests, packets, size changes, posts, changes of the GPU
switch, failures.

- *FramePipeline*: weak fairness of the two steps that finish a UI handler in progress
  and of each drawing thread: message loops run their tasks and handlers return. None
  on BeginFrame or CompleteFrame: the application need not build frames.
- *FrameScheduling*: weak fairness of the UI thread's current task and queue, of the
  vsync thread, and of the rasterizer consuming a frame. The last one leaves out the
  rare case of a frame that is not announced.
- *TaskQueues*: time passes, each loop runs, a vsync that has paused posts its task.
- *ImageRequests*: each thread goes on with its work and its queue, the GPU completes
  what is submitted. That the application stays in the foreground in the end is a premise of
  `ImagesAreAnswered`.
- *WorkerPool*: threads inside PostTask or the destructor go on, workers that are not asleep run.
- *ShellLifecycle*: each thread executes its statements and its queue; a call whose
  statements are done returns. None on the callbacks of the embedder that fail a creation.
- *WindowResize*: the platform thread goes on through OnWindowSizeChanged, which ends at
  the latest with its time-out; messages are handled, frames built, the raster thread runs.
- *SchedulerBinding*: a frame that has begun goes on; *strong* fairness of the events of the
  isolate (timers of the warm-up frame, frames of the engine, the event loop callback),
  because other events may come between and disable them for a moment, and an event loop
  that serves its queue in order serves each of them all the same.

## 4. What is proved

The proofs hold for every value of the constants that satisfies the named
assumptions of the modules: any number of threads, frames, packets, queues, workers,
requests, engines or sizes, and any depth. The assumptions say what the code
fixes: threads, tasks and requests are different things, sets of threads are finite, a pipeline has a
slot, the list of tasks that await the GPU has a limit. Every safety property of the runs that
expect no violation is the conclusion of a theorem. In
each module the argument is one inductive invariant, which TLC checks on a small
instance as well, or a few that build on one another.

**`PipelineProofs`, the class template.** The invariant `PipelineInv` adds to the type of every
variable the two counting equations, `empty + |Holders| + Len(queue) + |Servers|
= Depth` and `available + |Signallers| + |Poppers| = Len(queue)`; each action moves one thread from
one of the finite sets to another, and the cardinality lemmas say what that does to
the sums. A continuation dropped without Complete is among the actions.
`NeverPopsEmpty` and the refinement `PipelineImplementsChannel` follow:
commits map to Put, the wait of a consumer to a stutter, the pop to Take.

**`PipelineProofs`, the frame path.** Every step of the frame path is a step of the pipeline or
leaves it alone (`FramesUsePipeline`), so slot conservation and the channel refinement carry over;
`FramesAreReal` is the typing needed for that: a frame that is put back is one that was
consumed, and no null item is drawn as long as the Animator lives. `PathInv` goes on from
there. It ties the place of a thread inside Draw to what it holds of the pipeline
(`PlacesInv`), says that the UI thread announces a frame before it builds the
next one (`NotifiesFirst`), and orders the frames from the screen over the one
being drawn and the queue to the last one built (`FramesInOrder`). That order, and that
Draw runs on the thread that rasterizes, hold until a merge in the middle of a
Draw lets two threads draw at once, and the invariant says no more than that.
`WaitingFramesAreDrawn` follows for every depth, with the one exception the
property names; `FramesPresentedInOrder` from the order. `RetriesYield` needs a
pipeline of at least two slots (the Animator's has two): with one, the slot of the frame that is
being drawn may be the only one.

**`FrameSchedulingProofs`.** The invariant `SchedulingInv` is the conjunction of the
safety properties of the run with the places a task can be in. A FIFO of tasks
is handled by lemmas that say what Append and Tail do to the number of
occurrences of a task. `SchedulingTypeCorrect` is more than typing: that no vsync is
armed twice, no slot is given back twice and no pause is resumed twice follows
from the single token.

**`MergingProofs`, the task queues.** For any set of queues and any
clock. A registration wakes the loop that `subsumed_by` names
while that loop looks for tasks by `owner_of`, so `SleepersWakeInTime` needs
`MergesAreFlat` (no chain of merges is ever built); a resume wakes its own queue only, so it needs
`ResumesReachTheLoop` too. That the count of pauses stays a natural number (part of
`TypeOK`) needs `PausesMatchVsyncs`: a queue is paused once for each vsync on its
way, counted as its frame tasks, the one that is running and the one not yet posted.
WakeUp is written as a relation (a time that is a minimum of the pending tasks),
so the proof needs no induction over sets.

**`MergingProofs`, the merger.** For any number of engines on one merger. A Draw looks at the leases
and changes them in different critical sections, so `LeasesTellTheTruth` needs to know who can
interfere in between. `MergerInv` says that only the raster thread merges and that
in merged queues it can merely be leaving the Draw that merged them, with a lease that outlasts
its own decrement (`LeaseOutlastsDraw`: the lease and the draws of the platform thread since then
make up the term); and that a Draw on the platform thread finds the queues merged from start to end.
`ExtensionsFindALease`, an FML_DCHECK of ExtendLeaseTo, follows. `DisableIsEffective` rests on the
mutexes: whoever is inside the shared merger holds its engine's mutex (`MutexIsHeld`),
which Disable had to take. All this is under the promptness assumption described
with the bounds (`ahead`): without it, `LeasesTellTheTruth` is false.

**`WorkerPoolProofs`.** `PoolInv` counts: while a worker sleeps there are as many
workers awake or about to be woken as there are tasks, and after the shutdown each worker that
leaves has taken a task with it, hence the bound of `ShutdownKeepsFewTasks`. `OnceInv` places
every task in one place from its post to its execution (`TasksRunOnce`);
`LoopIsDestroyedByTheLast` follows the references.

**`ImageRequestsProofs`.** `HandlerInv` says that a thread that uses the GPU, or
stores a decode or a snapshot, is inside Execute and so keeps the switch as it is; `StoredInv`
that a stored decode or snapshot has a flush to come. The rest is conservation: tasks that name a request,
counted over every queue, thread, store and answer, are one for each request asked for
(`RequestsAreConserved`), with which an answer is given at most once.

**`SchedulerBindingProofs`.** `Alternation` says which frame is on the stack in which phase, so that
the halves of a warm-up frame and frames of the engine cannot be mixed up;
`ScheduledFramesComeFromTheEngine` is the safety half of "the framework never waits for a frame that
nobody has requested". Further: the completer of endOfFrame is completed once, a warm-up
frame keeps events locked from its beginning to its end, and a task that waits has an event of the
loop (unless the application holds the lock).

**`WindowResizeProofs`.** For any set of sizes that is closed under exchange of width and height,
and any nesting. `EndOfResizeIsNoticed` needs no more than the types. `PresentedFramesFit`
needs `FitInv`: as long as none of the listed mishaps has happened, a resize that has begun
is not completed before its metrics are sent, outside a resize the surface has the
size of the metrics, and a frame that has passed FrameGenerated has the size of its surface.

**`ShellLifecycleProofs`.** For any assignment of the runners to threads and any numbers of
surfaces and frames. Statements are data, so the proof first restates the steps, one for each kind of
statement, and then shows each part of the invariant `Inv` for all of them:

- `Homes` and `Shapes`: a task is on the thread of its runner, and what a thread has to do is the
  end of one task, or one task that RunNowOrPostTask has put in the middle of another.
- `Tokens`: an awaited task is queued, or is on its way to its latch, or has set it, once, and
  this only between the statement of the call that sends it and the one that waits for it.
- `AliveAt` says, with `Effects` (a latch is set behind the object that it announces), which
  objects exist at each statement of each call. The destructor waits for one part after the other,
  and `AliveAt` is that order.
- `Claims`: all that the tasks and statements to come use is there. That a destruction takes
  nothing away from a task that is still to come is where the latches are needed: a task that
  uses the part would have to be in a window that is over.
- Some tasks nobody waits for: the weak factory, the context, and the surface that
  OnPlatformViewCreated has the raster thread set up. They are over because a task that is awaited
  was queued behind them on the same thread (`Barriers` for the destruction, `Surfaces` for
  OnPlatformViewDestroyed, `ViewUse` and `ShellUse` for what is left of them).
- `Frames`: between the clearing of waiting_for_first_frame_ and the notification there is no
  other statement.

A creation that fails waits for none of its tasks, so `Inv` ends there, and `Abandoned` takes over
(`Invariance` is `[](Inv \/ Abandoned)`): the other threads have only tasks of the creation left, which
use the view and the promises at most, and the platform thread is on its way to the missing engine.
`Young`, a conjunct of `Inv`, says what a creation can leave: its own tasks, none of which signals the
promise of the snapshot delegate or of the IO manager without having that of the rasterizer, or of
the IO manager itself, still to come. So where Setup refuses, having waited, no promise is touched any more.

`LatchesProtectTheShell`, `TeardownIsSynchronous` and `FirstFrameNoticed` are conjuncts of these
invariants or follow at once.

`NobodyWaitsInVain` is the safety half of `CallsReturn`: until a call is through, or a failed creation
has ended the process, some thread can
execute a statement or begin a task (`NobodyIsStuck`). It needs a second invariant, `Progress`:

- `Chains`: the latches that tasks of Setup wait for. When a task is about to wait, the task that
  sets its latch is queued or under way, and not behind it on its own thread.
- `Elsewhere`: no task that a call waits for is queued on the platform thread, which is in the call
  (for drainIO this is `DrainsElsewhere`).
- `UnderWay`: between the statement that sends a task and the one that waits for it, the task is
  queued, or is being executed, or has set its latch.

From the latch that the call waits for, these lead to a thread that is ready, in at most four steps: the
engine's task waits for that of the IO manager or of the rasterizer, the IO manager's for that of
the context, and that one for nobody. That a thread that can go on does go on is fairness, and left to TLC.

The proof is long, and tlapm takes some minutes for it, because every statement of every task is a case.

Only model-checked:

- everything about liveness, because the prover has no ENABLED: `FramesAreConsumedUnlessMissed`,
  `RequestsLeadToFrames`, `PacketsAreDelivered`, `TasksAreRun`, `ImagesAreAnswered`, `PoolSettles`,
  `CallsReturn`, `WindowGetsItsFrame`, `NothingWaitsForever`;
- the findings, which are counterexamples.

## 5. What is not modelled

- Painting (flow, display lists, Impeller's renderers, Skia) turns layer trees into GPU
  commands: large, but pure computation with no protocol of its own at this level.
- The Dart VM is not in the repository; its bindings call into it.
- Android, macOS, Linux, Fuchsia and embedder-API glue forwards between an operating
  system and the shell; its vsync sources appear as the contract of AwaitVSync (one
  FireCallback per call), its choice of task runners as `host` of `ShellLifecycle`.
- Widgets, rendering, gestures, tools and the application are sequential Dart; of the
  framework only the scheduler is modelled.
- A rasterizer that on_create_rasterizer does not yield (the raster task uses it unchecked,
  shell.cc:301-302), task runners that are not valid, and what happens after the
  destructor has used an engine that is not there: `ShellLifecycle` stops at that point.
- In the modelled components: trace events and timings; several views in one
  frame (each is retried by the same rules); WaitUntilMerged (called by tests only);
  disposal and termination of message loops; task observers; idle notifications;
  spawned shells, platform messages and the service protocol; multi-frame codecs and the
  Skia and GLES variants of image requests; exceptions thrown by callbacks of the framework.

The map covers a small share of the repository's lines for that reason: it is the
share in which the order of steps matters.

## 6. Plan

Done: Pipeline, FramePipeline, FrameShutdown, VsyncWaiter, FrameScheduling, TaskQueues,
ThreadMerger, then ShellLifecycle, WorkerPool, SyncSwitch, GpuTasks, ImageRequests,
WindowResize, SchedulerBinding. Next:

1. Proofs: that `FrameShutdown` consumes prepared items when Draws no longer run after the Animator
   is gone.
2. Termination of message loops (DoRun, DoTerminate and DisposeTasks against PostTask)
   and the unref queue's delayed drain, as extensions of `TaskQueues`.
3. `ThreadMerger` without the promptness assumption.
4. The gesture arena and the image cache of the framework.
