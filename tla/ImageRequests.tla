---------------------------- MODULE ImageRequests ----------------------------
(***************************************************************************)
(* Who uses the GPU of an iOS application while it moves to the background *)
(* and back: the raster thread draws frames, and the application asks for  *)
(* images to be decoded (on a worker of the concurrent message loop),      *)
(* pictures to be rasterised (on the raster thread) and images to be       *)
(* encoded (the pixels are read back on the raster thread when the image   *)
(* belongs to it, else on the IO thread).  Each asks the SyncSwitch first  *)
(* and, when the GPU is disabled, leaves a task with the Metal context.    *)
(*                                                                         *)
(* Every request is a task of one queue, the work of one thread, or an     *)
(* answer; a step below is one access to the switch or to one queue.       *)
(***************************************************************************)
EXTENDS GpuTasks, FiniteSets, SequencesExt

CONSTANTS Raster, IO, Workers,  \* the other threads that use the switch
          Decodes,        \* requests to decode an image
          Snapshots,      \* requests to rasterise a picture
          RasterEncodes,  \* requests to encode an image of the raster thread
          OtherEncodes,   \* requests to encode any other image
          MaxFrames       \* bound: frames drawn

Encodes == RasterEncodes \cup OtherEncodes
Requests == Decodes \cup Snapshots \cup Encodes

ASSUME ImageRequestsAssumption ==
  /\ IsFiniteSet(Threads)
  /\ Raster \in Threads /\ IO \in Threads /\ Workers \subseteq Threads
  /\ Platform # Raster /\ Platform # IO /\ Raster # IO
  /\ Workers \cap {Platform, Raster, IO} = {}
  /\ Decodes \cap Snapshots = {}
  /\ (Decodes \cup Snapshots) \cap Encodes = {}
  /\ RasterEncodes \cap OtherEncodes = {}
  /\ MaxFrames \in Nat

CONSTANT NoRequest
ASSUME NoRequestAssumption == NoRequest \notin Requests

VARIABLES asked,        \* requests made so far
          workerTasks,  \* tasks_ of the concurrent message loop: decodes
          rasterTasks,  \* the raster task queue: requests and retries
          ioTasks,      \* the IO task queue
          answers,      \* answers to each request posted to the UI thread
          submitted,    \* encodes whose pixels the GPU is copying
          step,         \* what each thread is doing
          request,      \* for which request
          overlays,     \* has the platform thread overlay layers to create?
          frames        \* frames drawn so far

queueVars == <<workerTasks, rasterTasks, ioTasks>>
threadVars == <<step, request>>
frameVars == <<overlays, frames>>
vars == <<switchVars, gpuTaskVars, asked, queueVars, answers, submitted,
          threadVars, frameVars>>

\* A task of the raster or the IO queue: what to do, and for which request.
Task(what, r) == [what |-> what, r |-> r]

\* idle; about to execute on the switch, for the first time or as the retry
\* of an encode; at work on the GPU; about to store a task; and, for the
\* raster thread, drawing, waiting for overlay layers, submitting the frame.
Steps == {"idle", "execute", "retry", "work", "store", "draw", "overlay", "submit"}

\* The steps in which a thread may use the GPU.
GpuSteps == {"work", "draw", "overlay", "submit"}

Init ==
  /\ GpuTasksInit
  /\ asked = {}
  /\ workerTasks = <<>>
  /\ rasterTasks = <<>>
  /\ ioTasks = <<>>
  /\ answers = [r \in Requests |-> 0]
  /\ submitted = {}
  /\ step = [t \in Threads |-> "idle"]
  /\ request = [t \in Threads |-> NoRequest]
  /\ overlays = FALSE
  /\ frames = 0

Goto(t, place, r) ==
  /\ step' = [step EXCEPT ![t] = place]
  /\ request' = [request EXCEPT ![t] = r]

Rest(t) == Goto(t, "idle", NoRequest)

\* The result callback of request r, called on thread t: an encode's result
\* is encoded on the IO thread before it is posted to the UI thread.
Answer(t, r) ==
  IF r \in Encodes /\ t # IO
  THEN /\ ioTasks' = Append(ioTasks, Task("encode", r))
       /\ UNCHANGED answers
  ELSE /\ answers' = [answers EXCEPT ![r] = @ + 1]
       /\ UNCHANGED ioTasks

-----------------------------------------------------------------------------
(* The UI thread.                                                          *)

\* ImageDecoderImpeller::Decode, Picture::DoRasterizeToImage, EncodeImage
Ask(r) ==
  /\ r \notin asked
  /\ asked' = asked \cup {r}
  /\ workerTasks' = IF r \in Decodes THEN Append(workerTasks, r) ELSE workerTasks
  /\ rasterTasks' = IF r \in Snapshots
                    THEN Append(rasterTasks, Task("snapshot", r)) ELSE rasterTasks
  /\ ioTasks' = IF r \in Encodes
                THEN Append(ioTasks, Task("convert", r)) ELSE ioTasks
  /\ UNCHANGED <<switchVars, gpuTaskVars, answers, submitted, threadVars, frameVars>>

-----------------------------------------------------------------------------
(* The threads that serve requests.                                        *)

\* A worker decompresses an image; when that fails it answers at once.
StartDecode(w) ==
  /\ step[w] = "idle"
  /\ workerTasks # <<>>
  /\ workerTasks' = Tail(workerTasks)
  /\ \/ /\ Goto(w, "execute", Head(workerTasks))
        /\ UNCHANGED <<ioTasks, answers>>
     \/ /\ Answer(w, Head(workerTasks))
        /\ UNCHANGED threadVars
  /\ UNCHANGED <<switchVars, gpuTaskVars, asked, rasterTasks, submitted, frameVars>>

StartRasterTask ==
  /\ step[Raster] = "idle"
  /\ rasterTasks # <<>>
  /\ rasterTasks' = Tail(rasterTasks)
  /\ Goto(Raster, IF Head(rasterTasks).what = "retry" THEN "retry" ELSE "execute",
          Head(rasterTasks).r)
  /\ UNCHANGED <<switchVars, gpuTaskVars, asked, workerTasks, ioTasks, answers,
                 submitted, frameVars>>

\* ImageEncodingImpeller::ConvertImageToRaster on the IO thread
StartConversion ==
  /\ step[IO] = "idle"
  /\ ioTasks # <<>>
  /\ Head(ioTasks).what = "convert"
  /\ ioTasks' = Tail(ioTasks)
  /\ LET r == Head(ioTasks).r IN
       \/ /\ r \in RasterEncodes
          /\ rasterTasks' = Append(rasterTasks, Task("convert", r))
          /\ UNCHANGED threadVars
       \/ /\ r \in OtherEncodes
          /\ Goto(IO, "execute", r)
          /\ UNCHANGED rasterTasks
  /\ UNCHANGED <<switchVars, gpuTaskVars, asked, workerTasks, answers, submitted,
                 frameVars>>

\* The encode_task: the pixels become a file, which goes to the UI thread.
EncodePixels ==
  /\ step[IO] = "idle"
  /\ ioTasks # <<>>
  /\ Head(ioTasks).what = "encode"
  /\ ioTasks' = Tail(ioTasks)
  /\ answers' = [answers EXCEPT ![Head(ioTasks).r] = @ + 1]
  /\ UNCHANGED <<switchVars, gpuTaskVars, asked, workerTasks, rasterTasks, submitted,
                 threadVars, frameVars>>

\* Mutant of Execute: no request stores its task inside the handler.
ExecuteThenStore(t) ==
  /\ step[t] = "execute"
  /\ IF disabled THEN UNCHANGED switchVars ELSE EnterHandler(t)
  /\ Goto(t, IF disabled THEN "store" ELSE "work", request[t])
  /\ UNCHANGED <<gpuTaskVars, asked, queueVars, answers, submitted, frameVars>>

\* SyncSwitch::Execute.  An encode that finds the GPU disabled has left the
\* handler before it stores its task; a decode or a snapshot stores it inside.
Execute(t) ==
  /\ step[t] = "execute"
  /\ IF disabled /\ request[t] \in Encodes THEN UNCHANGED switchVars
     ELSE EnterHandler(t)
  /\ Goto(t, IF disabled THEN "store" ELSE "work", request[t])
  /\ UNCHANGED <<gpuTaskVars, asked, queueVars, answers, submitted, frameVars>>

\* Without an AiksContext to store the task with, a snapshot that finds the GPU
\* disabled yields no image.
ExecuteWithoutContext(t) ==
  /\ step[t] = "execute"
  /\ disabled /\ request[t] \in Snapshots
  /\ Answer(t, request[t])
  /\ Rest(t)
  /\ UNCHANGED <<switchVars, gpuTaskVars, asked, workerTasks, rasterTasks, submitted,
                 frameVars>>

\* The retry of an encode: it is not stored again.
Retry(t) ==
  /\ step[t] = "retry"
  /\ \/ /\ ~disabled
        /\ EnterHandler(t)
        /\ Goto(t, "work", request[t])
        /\ UNCHANGED <<ioTasks, answers>>
     \/ /\ disabled
        /\ Answer(t, request[t])
        /\ Rest(t)
        /\ UNCHANGED switchVars
  /\ UNCHANGED <<gpuTaskVars, asked, workerTasks, rasterTasks, submitted,
                 frameVars>>

\* StoreTaskForGPU calls the failure callback of the task it discards.
StoreTask(t) ==
  /\ step[t] = "store"
  /\ StoreTaskForGPU(request[t])
  /\ IF Overflows THEN Answer(t, Failing(request[t])) ELSE UNCHANGED <<ioTasks, answers>>
  /\ LeaveHandler(t)
  /\ Rest(t)
  /\ UNCHANGED <<asked, workerTasks, rasterTasks, submitted, frameVars>>

\* The GPU work of a request is done: a decode and a snapshot have a result,
\* an encode has submitted its commands, or has failed before that.
FinishWork(t) ==
  /\ step[t] = "work"
  /\ LeaveHandler(t)
  /\ Rest(t)
  /\ \/ /\ request[t] \in Encodes
        /\ submitted' = submitted \cup {request[t]}
        /\ UNCHANGED <<ioTasks, answers>>
     \/ /\ Answer(t, request[t])
        /\ UNCHANGED submitted
  /\ UNCHANGED <<gpuTaskVars, asked, workerTasks, rasterTasks, frameVars>>

\* The completion handler of the encode's command buffer.
CompleteCommands(r) ==
  /\ r \in submitted
  /\ submitted' = submitted \ {r}
  /\ ioTasks' = Append(ioTasks, Task("encode", r))
  /\ UNCHANGED <<switchVars, gpuTaskVars, asked, workerTasks, rasterTasks, answers,
                 threadVars, frameVars>>

-----------------------------------------------------------------------------
(* Frames on the raster thread.                                            *)

\* Rasterizer::DrawToSurfaces: with the GPU disabled the frame is dropped.
DrawToSurfaces ==
  /\ step[Raster] = "idle"
  /\ frames < MaxFrames
  /\ frames' = frames + 1
  /\ \/ /\ ~disabled
        /\ EnterHandler(Raster)
        /\ Goto(Raster, "draw", NoRequest)
     \/ /\ disabled
        /\ UNCHANGED <<switchVars, threadVars>>
  /\ UNCHANGED <<gpuTaskVars, asked, queueVars, answers, submitted, overlays>>

\* createMissingOverlays: the frame needs overlay layers, which the platform
\* thread creates; the raster thread waits for it inside the handler.
CreateMissingOverlays ==
  /\ step[Raster] = "draw"
  /\ Goto(Raster, "overlay", NoRequest)
  /\ overlays' = TRUE
  /\ UNCHANGED <<switchVars, gpuTaskVars, asked, queueVars, answers, submitted, frames>>

\* The platform thread runs the task of createMissingOverlays.
CreateLayers ==
  /\ setter = "idle"
  /\ overlays
  /\ overlays' = FALSE
  /\ Goto(Raster, "submit", NoRequest)
  /\ UNCHANGED <<switchVars, gpuTaskVars, asked, queueVars, answers, submitted, frames>>

FinishFrame ==
  /\ step[Raster] \in {"draw", "submit"}
  /\ LeaveHandler(Raster)
  /\ Rest(Raster)
  /\ UNCHANGED <<gpuTaskVars, asked, queueVars, answers, submitted, frameVars>>

-----------------------------------------------------------------------------
(* The platform thread: Shell::SetGpuAvailability.                         *)

Availabilities == {"available", "flushAndMakeUnavailable", "unavailable"}

SetGpuAvailability(availability) ==
  /\ BeginSetGpuAvailability(availability)
  /\ ioTasks' = IF availability = "flushAndMakeUnavailable"
                THEN Append(ioTasks, Task("drain", NoRequest)) ELSE ioTasks
  /\ UNCHANGED <<switchVars, asked, workerTasks, rasterTasks, answers, submitted,
                 threadVars, frameVars>>

\* The IO thread drains the unref queue and signals the latch.
DrainUnrefQueue ==
  /\ step[IO] = "idle"
  /\ ioTasks # <<>>
  /\ Head(ioTasks).what = "drain"
  /\ ioTasks' = Tail(ioTasks)
  /\ Drained
  /\ UNCHANGED <<switchVars, asked, workerTasks, rasterTasks, answers, submitted,
                 threadVars, frameVars>>

FinishSetting ==
  /\ FinishSetSwitch
  /\ UNCHANGED <<asked, queueVars, answers, submitted, threadVars, frameVars>>

Flush ==
  /\ SwapAwaiting \/ FinishFlush
  /\ UNCHANGED <<switchVars, asked, queueVars, answers, submitted, threadVars, frameVars>>

\* A flushed task is executed on the platform thread: it does the work there,
\* except that the retry of an image of the raster thread is posted to it.
FlushTask ==
  /\ step[Platform] = "idle"
  /\ NextFlushed
  /\ LET r == Head(flushing) IN
       IF disabled THEN UNCHANGED <<switchVars, rasterTasks, threadVars>>
       ELSE \/ /\ r \in RasterEncodes
               /\ rasterTasks' = Append(rasterTasks, Task("retry", r))
               /\ UNCHANGED <<switchVars, threadVars>>
            \/ /\ r \notin RasterEncodes
               /\ EnterHandler(Platform)
               /\ Goto(Platform, "work", r)
               /\ UNCHANGED rasterTasks
  /\ UNCHANGED <<asked, workerTasks, ioTasks, answers, submitted, frameVars>>

-----------------------------------------------------------------------------
\* What a thread does next is its own step, as long as it is not idle.
Work(t) ==
  Execute(t) \/ ExecuteWithoutContext(t) \/ Retry(t) \/ StoreTask(t) \/ FinishWork(t)

PlatformStep ==
  \/ Work(Platform)
  \/ FinishSetting
  \/ Flush
  \/ FlushTask
  \/ CreateLayers

RasterStep ==
  \/ Work(Raster)
  \/ StartRasterTask
  \/ FinishFrame

IOStep ==
  \/ Work(IO)
  \/ StartConversion
  \/ EncodePixels
  \/ DrainUnrefQueue

WorkerStep(w) == Work(w) \/ StartDecode(w)

Next ==
  \/ \E r \in Requests : Ask(r) \/ CompleteCommands(r)
  \/ PlatformStep
  \/ RasterStep
  \/ IOStep
  \/ \E w \in Workers : WorkerStep(w)
  \/ DrawToSurfaces
  \/ CreateMissingOverlays
  \/ \E availability \in Availabilities : SetGpuAvailability(availability)

Spec == Init /\ [][Next]_vars

\* The threads keep running what they have begun and what is posted to them;
\* the GPU completes what is submitted.  Requests, frames and changes of the
\* availability come from outside.
Fairness ==
  /\ WF_vars(PlatformStep)
  /\ WF_vars(RasterStep)
  /\ WF_vars(IOStep)
  /\ \A w \in Workers : WF_vars(WorkerStep(w))
  /\ \A r \in Requests : WF_vars(CompleteCommands(r))

FairSpec == Spec /\ Fairness

-----------------------------------------------------------------------------
(* Properties.                                                             *)

\* The variables keep their types.
TypeOK ==
  /\ SwitchTypeOK
  /\ setter \in SetterSteps
  /\ wanted \in BOOLEAN
  /\ switches \in 0..MaxSwitches
  /\ awaiting \in Seq(Requests) /\ Len(awaiting) <= MaxTasksAwaitingGPU
  /\ flushing \in Seq(Requests)
  /\ kept \in Seq(Requests)
  /\ asked \subseteq Requests
  /\ workerTasks \in Seq(Decodes)
  /\ rasterTasks \in Seq([what : {"snapshot", "convert", "retry"}, r : Requests])
  /\ ioTasks \in Seq([what : {"convert", "encode", "drain"}, r : Requests \cup {NoRequest}])
  /\ answers \in [Requests -> Nat]
  /\ submitted \subseteq Encodes
  /\ step \in [Threads -> Steps]
  /\ request \in [Threads -> Requests \cup {NoRequest}]
  /\ overlays \in BOOLEAN
  /\ frames \in 0..MaxFrames

\* No thread uses the GPU once the application has been told that it may not:
\* iOS ends an application that does so in the background.
GpuWorkIsPermitted == \A t \in Threads : step[t] \in GpuSteps => ~disabled

\* A decode or a snapshot that is stored until the GPU is available is not
\* forgotten: either the GPU is disabled still, or a flush is about to come.
StoredImagesAreFlushed ==
  \A r \in Decodes \cup Snapshots :
    r \in ToSet(awaiting) => disabled \/ setter = "notify"

\* The GPU has become available for good and the platform thread knows.
SettlesAvailable == <>[](~disabled /\ setter = "idle")

\* A decode or a snapshot is answered in the end, and once, if the application
\* stays in the foreground, however often it has been in the background and
\* the request has been stored, failed, flushed and retried before.
ImagesAreAnswered ==
  SettlesAvailable =>
    <>[](\A r \in asked \cap (Decodes \cup Snapshots) : answers[r] = 1)

\* A frame that waits for the platform thread to create overlay layers, which
\* is to "block until complete", goes on.
OverlaysAreCreated == step[Raster] = "overlay" ~> step[Raster] = "submit"

=============================================================================
