------------------------- MODULE ImageRequestsProofs -------------------------
(***************************************************************************)
(* Proofs about ImageRequests for every set of requests and workers, every *)
(* limit of stored tasks and any number of moves to the background and     *)
(* back.  The inductive invariant relates the steps of the threads to the  *)
(* handlers they run in: whoever uses the GPU, and whoever stores a decode *)
(* or a snapshot, holds the switch, which cannot change meanwhile.         *)
(***************************************************************************)
EXTENDS ImageRequests, FiniteSetTheorems, FunctionTheorems, SequenceTheorems, TLAPS

RasterTasks == [what : {"snapshot", "convert", "retry"}, r : Requests]
IOTasks == [what : {"convert", "encode", "drain"}, r : Requests \cup {NoRequest}]

\* The steps in which a thread works for a request.
Requesting == {"execute", "retry", "work", "store"}

Typing ==
  /\ TypeOK
  /\ \A t \in Threads : step[t] \in Requesting => request[t] \in Requests
  /\ setter \in {"notify", "flush"} => ~disabled
  /\ kept = <<>>

\* What a thread does with the GPU, or because it has none, it does in a handler,
\* unless it has to store an encode.
HandlerInv ==
  /\ \A t \in Threads : step[t] \in GpuSteps => t \in executing /\ ~disabled
  /\ \A t \in Threads :
       step[t] = "store" /\ request[t] \notin Encodes => t \in executing /\ disabled
  /\ overlays <=> step[Raster] = "overlay"

-----------------------------------------------------------------------------
(* Types.                                                                  *)

LEMMA Parameters ==
  /\ Platform \in Threads /\ Raster \in Threads /\ IO \in Threads /\ Workers \subseteq Threads
  /\ Decodes \subseteq Requests /\ Snapshots \subseteq Requests /\ Encodes \subseteq Requests
  /\ RasterEncodes \subseteq Encodes /\ OtherEncodes \subseteq Encodes
  /\ NoRequest \notin Requests /\ MaxFrames \in Nat /\ MaxSwitches \in Nat
  /\ MaxTasksAwaitingGPU \in Nat /\ MaxTasksAwaitingGPU > 0
BY ImageRequestsAssumption, GpuTasksAssumption, NoRequestAssumption DEF Requests, Encodes

\* The first task of each queue, and the rest.
LEMMA QueueHeads ==
  ASSUME TypeOK
  PROVE  /\ workerTasks # <<>> => Head(workerTasks) \in Decodes /\ Tail(workerTasks) \in Seq(Decodes)
         /\ rasterTasks # <<>> => Head(rasterTasks) \in RasterTasks
                                  /\ Tail(rasterTasks) \in Seq(RasterTasks)
         /\ ioTasks # <<>> => Head(ioTasks) \in IOTasks /\ Tail(ioTasks) \in Seq(IOTasks)
         /\ flushing # <<>> => Head(flushing) \in Requests /\ Tail(flushing) \in Seq(Requests)
BY HeadTailProperties DEF TypeOK, RasterTasks, IOTasks

LEMMA Posting ==
  ASSUME TypeOK, NEW r \in Requests
  PROVE  /\ r \in Decodes => Append(workerTasks, r) \in Seq(Decodes)
         /\ \A what \in {"snapshot", "convert", "retry"} :
              Append(rasterTasks, Task(what, r)) \in Seq(RasterTasks)
         /\ \A what \in {"convert", "encode"} : Append(ioTasks, Task(what, r)) \in Seq(IOTasks)
         /\ Append(awaiting, r) \in Seq(Requests)
BY AppendProperties DEF TypeOK, RasterTasks, IOTasks, Task

LEMMA AnswerTypes ==
  ASSUME TypeOK, NEW r \in Requests, NEW t \in Threads, Answer(t, r)
  PROVE  ioTasks' \in Seq(IOTasks) /\ answers' \in [Requests -> Nat]
<1>1. ioTasks' \in Seq(IOTasks)
  BY Posting DEF Answer, TypeOK, IOTasks
<1>2. answers' \in [Requests -> Nat]
  BY DEF Answer, TypeOK
<1>. QED
  BY <1>1, <1>2

LEMMA InitTyping == Init => Typing
<1> SUFFICES ASSUME Init PROVE Typing
  OBVIOUS
<1>. USE DEF Init, GpuTasksInit, SwitchInit
<1>1. /\ awaiting \in Seq(Requests) /\ flushing \in Seq(Requests) /\ kept \in Seq(Requests)
      /\ workerTasks \in Seq(Decodes) /\ rasterTasks \in Seq(RasterTasks)
      /\ ioTasks \in Seq(IOTasks)
  BY EmptySeq
<1>2. Len(awaiting) <= MaxTasksAwaitingGPU
  BY Parameters
<1>3. SwitchTypeOK /\ switches \in 0..MaxSwitches /\ frames \in 0..MaxFrames
  BY Parameters DEF SwitchTypeOK
<1>4. step \in [Threads -> Steps] /\ request \in [Threads -> Requests \cup {NoRequest}]
  BY DEF Steps
<1>5. answers \in [Requests -> Nat]
  OBVIOUS
<1>. QED
  BY <1>1, <1>2, <1>3, <1>4, <1>5 DEF Typing, TypeOK, RasterTasks, IOTasks, SetterSteps, Requesting

\* The steps of a thread that works for a request.
LEMMA WorkTyping ==
  ASSUME Typing, NEW t \in Threads, Work(t)
  PROVE  Typing'
<1>. TypeOK /\ (step[t] \in Requesting => request[t] \in Requests)
  BY DEF Typing
<1>. USE DEF Requesting
<1>1. CASE Execute(t)
  <2>1. step' \in [Threads -> Steps] /\ request' \in [Threads -> Requests \cup {NoRequest}]
        /\ \A u \in Threads : step'[u] \in Requesting => request'[u] \in Requests
    BY <1>1 DEF Execute, Goto, TypeOK, Steps, Typing
  <2>2. SwitchTypeOK' /\ disabled' = disabled
    BY <1>1 DEF Execute, EnterHandler, SwitchTypeOK, switchVars, TypeOK
  <2>. QED
    BY <1>1, <2>1, <2>2
       DEF Execute, Typing, TypeOK, gpuTaskVars, setterVars, queueVars, frameVars
<1>2. CASE Retry(t)
  <2>1. step' \in [Threads -> Steps] /\ request' \in [Threads -> Requests \cup {NoRequest}]
        /\ \A u \in Threads : step'[u] \in Requesting => request'[u] \in Requests
    BY <1>2 DEF Retry, Goto, Rest, TypeOK, Steps, Typing
  <2>2. SwitchTypeOK' /\ disabled' = disabled
    BY <1>2 DEF Retry, EnterHandler, SwitchTypeOK, switchVars, TypeOK
  <2>3. ioTasks' \in Seq(IOTasks) /\ answers' \in [Requests -> Nat]
    BY <1>2, AnswerTypes DEF Retry, TypeOK, IOTasks
  <2>. QED
    BY <1>2, <2>1, <2>2, <2>3
       DEF Retry, Typing, TypeOK, IOTasks, gpuTaskVars, setterVars, frameVars
<1>3. CASE StoreTask(t)
  <2>0. request[t] \in Requests
    BY <1>3 DEF StoreTask
  <2>1. step' \in [Threads -> Steps] /\ request' \in [Threads -> Requests \cup {NoRequest}]
        /\ \A u \in Threads : step'[u] \in Requesting => request'[u] \in Requests
    BY <1>3 DEF StoreTask, Goto, Rest, TypeOK, Steps, Typing
  <2>2. SwitchTypeOK' /\ disabled' = disabled
    BY <1>3 DEF StoreTask, LeaveHandler, SwitchTypeOK, TypeOK
  <2>3. /\ Append(awaiting, request[t]) \in Seq(Requests)
        /\ Append(awaiting, request[t]) # <<>>
        /\ Len(Append(awaiting, request[t])) = Len(awaiting) + 1
        /\ Len(awaiting) \in Nat /\ Len(awaiting) <= MaxTasksAwaitingGPU
    BY <2>0, AppendProperties, LenProperties DEF TypeOK
  <2>4. /\ Failing(request[t]) \in Requests
        /\ Tail(Append(awaiting, request[t])) \in Seq(Requests)
        /\ Len(Tail(Append(awaiting, request[t]))) = Len(awaiting)
    BY <2>3, HeadTailProperties DEF Failing
  <2>5. awaiting' \in Seq(Requests) /\ Len(awaiting') <= MaxTasksAwaitingGPU
    BY <1>3, <2>3, <2>4, Parameters DEF StoreTask, StoreTaskForGPU, Overflows
  <2>6. ioTasks' \in Seq(IOTasks) /\ answers' \in [Requests -> Nat]
    BY <1>3, <2>4, AnswerTypes DEF StoreTask, TypeOK, IOTasks
  <2>. QED
    BY <1>3, <2>1, <2>2, <2>5, <2>6
       DEF StoreTask, StoreTaskForGPU, Typing, TypeOK, IOTasks, setterVars, frameVars
<1>4. CASE FinishWork(t)
  <2>1. step' \in [Threads -> Steps] /\ request' \in [Threads -> Requests \cup {NoRequest}]
        /\ \A u \in Threads : step'[u] \in Requesting => request'[u] \in Requests
    BY <1>4 DEF FinishWork, Goto, Rest, TypeOK, Steps, Typing
  <2>2. SwitchTypeOK' /\ disabled' = disabled
    BY <1>4 DEF FinishWork, LeaveHandler, SwitchTypeOK, TypeOK
  <2>3. ioTasks' \in Seq(IOTasks) /\ answers' \in [Requests -> Nat]
    BY <1>4, AnswerTypes DEF FinishWork, TypeOK, IOTasks
  <2>4. submitted' \subseteq Encodes
    BY <1>4 DEF FinishWork, TypeOK
  <2>. QED
    BY <1>4, <2>1, <2>2, <2>3, <2>4
       DEF FinishWork, Typing, TypeOK, IOTasks, gpuTaskVars, setterVars, frameVars
<1>5. CASE ExecuteWithoutContext(t)
  <2>1. step' \in [Threads -> Steps] /\ request' \in [Threads -> Requests \cup {NoRequest}]
        /\ \A u \in Threads : step'[u] \in Requesting => request'[u] \in Requests
    BY <1>5 DEF ExecuteWithoutContext, Goto, Rest, TypeOK, Steps, Typing
  <2>2. SwitchTypeOK' /\ disabled' = disabled
    BY <1>5 DEF ExecuteWithoutContext, SwitchTypeOK, switchVars, TypeOK
  <2>3. ioTasks' \in Seq(IOTasks) /\ answers' \in [Requests -> Nat]
    BY <1>5, AnswerTypes DEF ExecuteWithoutContext, TypeOK, IOTasks
  <2>. QED
    BY <1>5, <2>1, <2>2, <2>3
       DEF ExecuteWithoutContext, Typing, TypeOK, IOTasks, gpuTaskVars, setterVars, frameVars
<1>. QED
  BY <1>1, <1>2, <1>3, <1>4, <1>5 DEF Work

\* Requests that are made, started or completed.
LEMMA ServingTyping ==
  ASSUME Typing,
         \/ \E r \in Requests : Ask(r) \/ CompleteCommands(r)
         \/ \E w \in Workers : StartDecode(w)
         \/ StartRasterTask \/ StartConversion \/ EncodePixels
  PROVE  Typing'
<1>. TypeOK
  BY DEF Typing
<1>. USE DEF Requesting
<1>1. ASSUME NEW r \in Requests, Ask(r) PROVE Typing'
  <2>1. /\ workerTasks' \in Seq(Decodes) /\ rasterTasks' \in Seq(RasterTasks)
        /\ ioTasks' \in Seq(IOTasks)
    BY <1>1, Posting DEF Ask, TypeOK, RasterTasks, IOTasks
  <2>2. asked' \subseteq Requests
    BY <1>1 DEF Ask, TypeOK
  <2>. QED
    BY <1>1, <2>1, <2>2
       DEF Ask, Typing, TypeOK, RasterTasks, IOTasks, switchVars, gpuTaskVars, setterVars,
           threadVars, frameVars, SwitchTypeOK
<1>2. ASSUME NEW r \in Requests, CompleteCommands(r) PROVE Typing'
  <2>1. ioTasks' \in Seq(IOTasks) /\ submitted' \subseteq Encodes
    BY <1>2, Posting DEF CompleteCommands, TypeOK
  <2>. QED
    BY <1>2, <2>1
       DEF CompleteCommands, Typing, TypeOK, IOTasks, switchVars, gpuTaskVars, setterVars,
           threadVars, frameVars, SwitchTypeOK
<1>3. ASSUME NEW w \in Workers, StartDecode(w) PROVE Typing'
  <2>1. w \in Threads /\ Head(workerTasks) \in Requests /\ workerTasks' \in Seq(Decodes)
    BY <1>3, QueueHeads, Parameters DEF StartDecode
  <2>2. ioTasks' \in Seq(IOTasks) /\ answers' \in [Requests -> Nat]
    BY <1>3, <2>1, AnswerTypes DEF StartDecode, TypeOK, IOTasks
  <2>3. step' \in [Threads -> Steps] /\ request' \in [Threads -> Requests \cup {NoRequest}]
        /\ \A u \in Threads : step'[u] \in Requesting => request'[u] \in Requests
    BY <1>3, <2>1 DEF StartDecode, Goto, TypeOK, Steps, Typing, threadVars
  <2>. QED
    BY <1>3, <2>1, <2>2, <2>3
       DEF StartDecode, Typing, TypeOK, IOTasks, switchVars, gpuTaskVars, setterVars,
           frameVars, SwitchTypeOK
<1>4. CASE StartRasterTask
  <2>1. rasterTasks' \in Seq(RasterTasks) /\ Head(rasterTasks).r \in Requests
    BY <1>4, QueueHeads DEF StartRasterTask, RasterTasks
  <2>2. step' \in [Threads -> Steps] /\ request' \in [Threads -> Requests \cup {NoRequest}]
        /\ \A u \in Threads : step'[u] \in Requesting => request'[u] \in Requests
    BY <1>4, <2>1 DEF StartRasterTask, Goto, TypeOK, Steps, Typing
  <2>. QED
    BY <1>4, <2>1, <2>2
       DEF StartRasterTask, Typing, TypeOK, RasterTasks, switchVars, gpuTaskVars, setterVars,
           frameVars, SwitchTypeOK
<1>5. CASE StartConversion
  <2>1. ioTasks' \in Seq(IOTasks) /\ (Head(ioTasks).r \in Encodes => Head(ioTasks).r \in Requests)
    BY <1>5, QueueHeads, Parameters DEF StartConversion
  <2>2. rasterTasks' \in Seq(RasterTasks)
    BY <1>5, <2>1, Posting, Parameters DEF StartConversion, TypeOK, RasterTasks
  <2>3. step' \in [Threads -> Steps] /\ request' \in [Threads -> Requests \cup {NoRequest}]
        /\ \A u \in Threads : step'[u] \in Requesting => request'[u] \in Requests
    BY <1>5, <2>1, Parameters DEF StartConversion, Goto, TypeOK, Steps, Typing, threadVars
  <2>. QED
    BY <1>5, <2>1, <2>2, <2>3
       DEF StartConversion, Typing, TypeOK, RasterTasks, IOTasks, switchVars, gpuTaskVars,
           setterVars, frameVars, SwitchTypeOK
<1>6. CASE EncodePixels
  <2>1. ioTasks' \in Seq(IOTasks)
    BY <1>6, QueueHeads DEF EncodePixels
  <2>2. answers' \in [Requests -> Nat]
    <3>1. answers \in [Requests -> Nat] /\ answers' = [answers EXCEPT ![Head(ioTasks).r] = @ + 1]
      BY <1>6 DEF EncodePixels, TypeOK
    <3>2. CASE Head(ioTasks).r \in Requests
      BY <3>1, <3>2
    <3>3. CASE Head(ioTasks).r \notin Requests
      BY <3>1, <3>3
    <3>. QED
      BY <3>2, <3>3
  <2>. QED
    BY <1>6, <2>1, <2>2
       DEF EncodePixels, Typing, TypeOK, IOTasks, switchVars, gpuTaskVars,
           setterVars, threadVars, frameVars, SwitchTypeOK
<1>. QED
  BY <1>1, <1>2, <1>3, <1>4, <1>5, <1>6

LEMMA FrameTyping ==
  ASSUME Typing,
         DrawToSurfaces \/ CreateMissingOverlays \/ CreateLayers \/ FinishFrame
  PROVE  Typing'
<1>. TypeOK /\ Raster \in Threads
  BY Parameters DEF Typing
<1>1. step' \in [Threads -> Steps] /\ request' \in [Threads -> Requests \cup {NoRequest}]
      /\ \A u \in Threads : step'[u] \in Requesting => request'[u] \in Requests
  BY DEF DrawToSurfaces, CreateMissingOverlays, CreateLayers, FinishFrame, Goto, Rest, TypeOK,
     Steps, Typing, threadVars, Requesting
<1>2. SwitchTypeOK' /\ disabled' = disabled
  BY DEF DrawToSurfaces, CreateMissingOverlays, CreateLayers, FinishFrame, EnterHandler,
     LeaveHandler, TypeOK, SwitchTypeOK, switchVars
<1>3. frames' \in 0..MaxFrames /\ overlays' \in BOOLEAN
  <2>1. frames' = frames \/ (frames < MaxFrames /\ frames' = frames + 1)
    BY DEF DrawToSurfaces, CreateMissingOverlays, CreateLayers, FinishFrame, frameVars
  <2>2. overlays' \in {overlays, TRUE, FALSE}
    BY DEF DrawToSurfaces, CreateMissingOverlays, CreateLayers, FinishFrame, frameVars
  <2>3. frames \in 0..MaxFrames /\ overlays \in BOOLEAN
    BY DEF TypeOK
  <2>4. frames' \in 0..MaxFrames
    BY <2>1, <2>3, Parameters
  <2>5. overlays' \in BOOLEAN
    BY <2>2, <2>3
  <2>. QED
    BY <2>4, <2>5
<1>. QED
  BY <1>1, <1>2, <1>3
     DEF DrawToSurfaces, CreateMissingOverlays, CreateLayers, FinishFrame, Typing, TypeOK,
         gpuTaskVars, setterVars, queueVars

LEMMA PlatformTyping ==
  ASSUME Typing,
         \/ \E availability \in Availabilities : SetGpuAvailability(availability)
         \/ DrainUnrefQueue \/ FinishSetting \/ Flush \/ FlushTask
  PROVE  Typing'
<1>. TypeOK /\ Platform \in Threads
  BY Parameters DEF Typing
<1>1. ASSUME NEW availability \in Availabilities, SetGpuAvailability(availability)
      PROVE  Typing'
  <2>1. ioTasks' \in Seq(IOTasks)
    <3>1. Task("drain", NoRequest) \in IOTasks
      BY DEF Task, IOTasks
    <3>2. Append(ioTasks, Task("drain", NoRequest)) \in Seq(IOTasks)
      BY <3>1, AppendProperties DEF TypeOK, IOTasks
    <3>. QED
      BY <1>1, <3>2 DEF SetGpuAvailability, TypeOK, IOTasks
  <2>2. setter' \in {"drain", "lock"} /\ wanted' \in BOOLEAN /\ switches' \in 0..MaxSwitches
    BY <1>1, Parameters DEF SetGpuAvailability, BeginSetGpuAvailability, TypeOK
  <2>. QED
    BY <1>1, <2>1, <2>2
       DEF SetGpuAvailability, BeginSetGpuAvailability, Typing, TypeOK, IOTasks, SetterSteps,
           switchVars, threadVars, frameVars, SwitchTypeOK
<1>2. CASE DrainUnrefQueue
  <2>1. ioTasks' \in Seq(IOTasks)
    BY <1>2, QueueHeads DEF DrainUnrefQueue
  <2>. QED
    BY <1>2, <2>1
       DEF DrainUnrefQueue, Drained, Typing, TypeOK, IOTasks, SetterSteps, switchVars,
           threadVars, frameVars, SwitchTypeOK
<1>3. CASE FinishSetting
  BY <1>3 DEF FinishSetting, FinishSetSwitch, SetSwitch, Typing, TypeOK, SetterSteps,
     queueVars, threadVars, frameVars, SwitchTypeOK
<1>4. CASE Flush
  <2>1. awaiting' \in Seq(Requests) /\ Len(awaiting') <= MaxTasksAwaitingGPU
        /\ flushing' \in Seq(Requests) /\ kept' = <<>>
    <3>1. CASE SwapAwaiting
      BY <3>1, EmptySeq, Parameters DEF SwapAwaiting, TypeOK, Typing
    <3>2. CASE FinishFlush
      <4>1. awaiting' = awaiting \o <<>> /\ kept' = <<>> /\ flushing' = flushing
        BY <3>2 DEF FinishFlush, Typing
      <4>2. awaiting' = awaiting
        BY <4>1, ConcatEmptySeq DEF TypeOK
      <4>. QED
        BY <4>1, <4>2 DEF TypeOK
    <3>. QED
      BY <1>4, <3>1, <3>2 DEF Flush
  <2>2. kept' \in Seq(Requests)
    BY <2>1, EmptySeq
  <2>. QED
    BY <1>4, <2>1, <2>2
       DEF Flush, SwapAwaiting, FinishFlush, Typing, TypeOK, SetterSteps, switchVars,
           queueVars, threadVars, frameVars, SwitchTypeOK
<1>5. CASE FlushTask
  <2>1. /\ ~disabled /\ Head(flushing) \in Requests /\ flushing' \in Seq(Requests)
        /\ kept' = kept
    BY <1>5, QueueHeads DEF FlushTask, NextFlushed, Typing
  <2>2. rasterTasks' \in Seq(RasterTasks)
    BY <1>5, <2>1, Posting DEF FlushTask, TypeOK, RasterTasks
  <2>3. step' \in [Threads -> Steps] /\ request' \in [Threads -> Requests \cup {NoRequest}]
        /\ \A u \in Threads : step'[u] \in Requesting => request'[u] \in Requests
    BY <1>5, <2>1 DEF FlushTask, Goto, TypeOK, Steps, Typing, threadVars, Requesting
  <2>4. SwitchTypeOK' /\ disabled' = disabled
    BY <1>5 DEF FlushTask, EnterHandler, TypeOK, SwitchTypeOK, switchVars
  <2>. QED
    BY <1>5, <2>1, <2>2, <2>3, <2>4
       DEF FlushTask, NextFlushed, Typing, TypeOK, RasterTasks, setterVars, frameVars
<1>. QED
  BY <1>1, <1>2, <1>3, <1>4, <1>5

LEMMA TypingStep == Typing /\ [Next]_vars => Typing'
<1> SUFFICES ASSUME Typing, [Next]_vars PROVE Typing'
  OBVIOUS
<1>1. CASE UNCHANGED vars
  BY <1>1 DEF vars, switchVars, gpuTaskVars, setterVars, queueVars, threadVars, frameVars,
     Typing, TypeOK, SwitchTypeOK
<1>. QED
  BY <1>1, WorkTyping, ServingTyping, FrameTyping, PlatformTyping, Parameters
     DEF Next, PlatformStep, RasterStep, IOStep, WorkerStep

(* The variables keep their types; the number of stored tasks stays within *)
(* kMaxTasksAwaitingGPU (context_mtl.mm:389-410).                          *)
THEOREM RequestsTypeCorrect == Spec => []TypeOK
<1>1. Typing => TypeOK
  BY DEF Typing
<1>. QED
  BY <1>1, InitTyping, TypingStep, PTL DEF Spec

-----------------------------------------------------------------------------
(* Who uses the GPU.                                                       *)

LEMMA HandlerInit == Init => HandlerInv
BY Parameters DEF Init, HandlerInv, GpuSteps

LEMMA HandlerStep ==
  ASSUME Typing, HandlerInv, [Next]_vars
  PROVE  HandlerInv'
<1>. /\ step \in [Threads -> Steps] /\ request \in [Threads -> Requests \cup {NoRequest}]
     /\ Platform \in Threads /\ Raster \in Threads /\ IO \in Threads /\ Workers \subseteq Threads
     /\ Platform # Raster /\ \A w \in Workers : w # Raster /\ w # Platform
  BY Parameters, ImageRequestsAssumption DEF Typing, TypeOK
<1>. USE DEF HandlerInv, GpuSteps, Goto, Rest
<1>1. CASE UNCHANGED <<switchVars, threadVars, overlays>>
  BY <1>1 DEF switchVars, threadVars
<1>2. CASE UNCHANGED vars
  BY <1>1, <1>2 DEF vars, frameVars
<1>3. ASSUME NEW t \in Threads, Work(t) PROVE HandlerInv'
  <2>1. CASE Execute(t)
    BY <1>3, <2>1 DEF Execute, EnterHandler, switchVars, frameVars, Typing, Requesting
  <2>2. CASE Retry(t)
    BY <1>3, <2>2 DEF Retry, EnterHandler, switchVars, frameVars
  <2>3. CASE StoreTask(t)
    BY <1>3, <2>3 DEF StoreTask, LeaveHandler, frameVars
  <2>4. CASE FinishWork(t)
    BY <1>3, <2>4 DEF FinishWork, LeaveHandler, frameVars
  <2>5. CASE ExecuteWithoutContext(t)
    BY <1>3, <2>5 DEF ExecuteWithoutContext, switchVars, frameVars
  <2>. QED
    BY <1>3, <2>1, <2>2, <2>3, <2>4, <2>5 DEF Work
<1>4. ASSUME NEW r \in Requests, Ask(r) \/ CompleteCommands(r) PROVE HandlerInv'
  BY <1>1, <1>4 DEF Ask, CompleteCommands, frameVars
<1>5. ASSUME NEW w \in Workers, StartDecode(w) PROVE HandlerInv'
  BY <1>5 DEF StartDecode, switchVars, threadVars, frameVars
<1>6. CASE StartRasterTask \/ StartConversion \/ EncodePixels \/ DrainUnrefQueue
  BY <1>6 DEF StartRasterTask, StartConversion, EncodePixels, DrainUnrefQueue, switchVars,
     threadVars, frameVars
<1>7. CASE DrawToSurfaces \/ CreateMissingOverlays \/ CreateLayers \/ FinishFrame
  BY <1>7 DEF DrawToSurfaces, CreateMissingOverlays, CreateLayers, FinishFrame, EnterHandler,
     LeaveHandler, switchVars, threadVars, frameVars
<1>8. ASSUME NEW availability \in Availabilities, SetGpuAvailability(availability)
      PROVE  HandlerInv'
  BY <1>1, <1>8 DEF SetGpuAvailability, frameVars
<1>9. CASE FinishSetting
  BY <1>9 DEF FinishSetting, FinishSetSwitch, SetSwitch, threadVars, frameVars
<1>10. CASE Flush
  BY <1>1, <1>10 DEF Flush, frameVars
<1>11. CASE FlushTask
  BY <1>11 DEF FlushTask, EnterHandler, switchVars, threadVars, frameVars
<1>. QED
  BY <1>2, <1>3, <1>4, <1>5, <1>6, <1>7, <1>8, <1>9, <1>10, <1>11
     DEF Next, PlatformStep, RasterStep, IOStep, WorkerStep

LEMMA RequestsInvariant == Spec => [](Typing /\ HandlerInv)
<1>1. Init => Typing /\ HandlerInv
  BY InitTyping, HandlerInit
<1>2. Typing /\ HandlerInv /\ [Next]_vars => Typing' /\ HandlerInv'
  BY TypingStep, HandlerStep
<1>. QED
  BY <1>1, <1>2, PTL DEF Spec

(* No thread uses the GPU once the application has been told that it may   *)
(* not: whoever does runs inside Execute, so the exclusive lock of         *)
(* SetSwitch waits for it (sync_switch.cc:26-43).                          *)
THEOREM GpuIsUsedWithPermission == Spec => []GpuWorkIsPermitted
<1>1. HandlerInv => GpuWorkIsPermitted
  BY DEF HandlerInv, GpuWorkIsPermitted
<1>. QED
  BY <1>1, RequestsInvariant, PTL

-----------------------------------------------------------------------------
(* Stored tasks.                                                           *)

\* StoredImagesAreFlushed, without the set of the stored tasks.
StoredInv ==
  \A i \in 1..Len(awaiting) : awaiting[i] \notin Encodes => disabled \/ setter = "notify"

LEMMA StoredInit == Init => StoredInv
BY DEF Init, GpuTasksInit, StoredInv

LEMMA StoredStep ==
  ASSUME Typing, HandlerInv, StoredInv, [Next]_vars
  PROVE  StoredInv'
<1>. TypeOK /\ awaiting \in Seq(Requests) /\ Len(awaiting) \in Nat
  BY LenProperties DEF Typing, TypeOK
<1>1. CASE UNCHANGED <<awaiting, disabled, setter>>
  BY <1>1 DEF StoredInv
<1>2. ASSUME NEW t \in Threads, Work(t) PROVE StoredInv'
  <2>1. UNCHANGED <<disabled, setter>>
    BY <1>2 DEF Work, Execute, ExecuteWithoutContext, Retry, StoreTask, FinishWork,
       EnterHandler, LeaveHandler,
       StoreTaskForGPU, switchVars, gpuTaskVars, setterVars
  <2>2. CASE StoreTask(t)
    <3>. DEFINE longer == Append(awaiting, request[t])
    <3>1. request[t] \in Requests
      BY <2>2 DEF StoreTask, Typing, Requesting
    <3>2. request[t] \notin Encodes => disabled
      BY <2>2 DEF StoreTask, HandlerInv
    <3>3. /\ longer \in Seq(Requests) /\ longer # <<>> /\ Len(longer) = Len(awaiting) + 1
          /\ \A i \in 1..Len(awaiting) : longer[i] = awaiting[i]
          /\ longer[Len(awaiting) + 1] = request[t]
      BY <3>1, AppendProperties
    <3>4. \A i \in 1..Len(longer) : longer[i] \notin Encodes => disabled \/ setter = "notify"
      BY <3>2, <3>3 DEF StoredInv
    <3>5. /\ Len(Tail(longer)) = Len(longer) - 1
          /\ \A i \in 1..Len(Tail(longer)) : Tail(longer)[i] = longer[i + 1]
      BY <3>3, HeadTailProperties
    <3>6. \A i \in 1..Len(Tail(longer)) :
            Tail(longer)[i] \notin Encodes => disabled \/ setter = "notify"
      BY <3>3, <3>4, <3>5
    <3>7. awaiting' \in {longer, Tail(longer)}
      BY <2>2 DEF StoreTask, StoreTaskForGPU
    <3>. QED
      BY <2>1, <3>4, <3>6, <3>7 DEF StoredInv
  <2>3. CASE ~StoreTask(t)
    <3>1. UNCHANGED awaiting
      BY <1>2, <2>3 DEF Work, Execute, ExecuteWithoutContext, Retry, FinishWork, gpuTaskVars
    <3>. QED
      BY <1>1, <2>1, <3>1
  <2>. QED
    BY <2>2, <2>3
<1>3. ASSUME \/ \E r \in Requests : Ask(r) \/ CompleteCommands(r)
             \/ \E w \in Workers : StartDecode(w)
             \/ StartRasterTask \/ StartConversion \/ EncodePixels
             \/ DrawToSurfaces \/ CreateMissingOverlays \/ CreateLayers \/ FinishFrame
      PROVE  UNCHANGED <<awaiting, disabled, setter>>
  BY <1>3 DEF Ask, CompleteCommands, StartDecode, StartRasterTask, StartConversion,
     EncodePixels, DrawToSurfaces, CreateMissingOverlays, CreateLayers, FinishFrame,
     EnterHandler, LeaveHandler, switchVars, gpuTaskVars, setterVars
<1>4. CASE DrainUnrefQueue \/ \E availability \in Availabilities : SetGpuAvailability(availability)
  BY <1>4 DEF DrainUnrefQueue, Drained, SetGpuAvailability, BeginSetGpuAvailability,
     switchVars, StoredInv
<1>5. CASE FinishSetting
  BY <1>5 DEF FinishSetting, FinishSetSwitch, SetSwitch, StoredInv, Typing, TypeOK
<1>6. CASE Flush
  <2>1. CASE SwapAwaiting
    BY <2>1 DEF SwapAwaiting, StoredInv
  <2>2. CASE FinishFlush
    <3>1. awaiting' = awaiting \o <<>> /\ UNCHANGED disabled
      BY <1>6, <2>2 DEF Flush, FinishFlush, Typing, switchVars
    <3>2. awaiting' = awaiting
      BY <3>1, ConcatEmptySeq
    <3>3. setter = "flush"
      BY <2>2 DEF FinishFlush
    <3>. QED
      BY <3>1, <3>2, <3>3 DEF StoredInv
  <2>. QED
    BY <1>6, <2>1, <2>2 DEF Flush
<1>7. CASE FlushTask
  BY <1>1, <1>7 DEF FlushTask, NextFlushed, EnterHandler, switchVars, setterVars
<1>8. UNCHANGED vars => UNCHANGED <<awaiting, disabled, setter>>
  BY DEF vars, switchVars, gpuTaskVars, setterVars
<1>. QED
  BY <1>1, <1>2, <1>3, <1>4, <1>5, <1>6, <1>7, <1>8, Parameters
     DEF Next, PlatformStep, RasterStep, IOStep, WorkerStep

(* A decode or a snapshot that is stored until the GPU is available waits  *)
(* for it, or for the flush about to come: it is stored inside the handler *)
(* that found the GPU disabled (image_decoder_impeller.cc:582-606).        *)
THEOREM ImagesAreFlushed == Spec => []StoredImagesAreFlushed
<1>1. ASSUME Typing, StoredInv PROVE StoredImagesAreFlushed
  <2> SUFFICES ASSUME NEW r \in Decodes \cup Snapshots, r \in ToSet(awaiting)
               PROVE  disabled \/ setter = "notify"
    BY DEF StoredImagesAreFlushed
  <2>1. r \notin Encodes
    BY ImageRequestsAssumption
  <2>2. PICK i \in 1..Len(awaiting) : awaiting[i] = r
    BY <1>1 DEF ToSet, Typing, TypeOK
  <2>. QED
    BY <1>1, <2>1, <2>2 DEF StoredInv
<1>2. Typing /\ HandlerInv /\ StoredInv /\ [Next]_vars => StoredInv'
  BY StoredStep
<1>. QED
  BY <1>1, <1>2, StoredInit, RequestsInvariant, PTL DEF Spec

-----------------------------------------------------------------------------
(* Counting how often a request occurs.                                    *)

\* 1 for what is counted, 0 for the rest.
Is(a, b) == IF a = b THEN 1 ELSE 0

In(a, S) == IF a \in S THEN 1 ELSE 0

Positions(q, x) == {i \in 1..Len(q) : q[i] = x}

Occurrences(q, x) == Cardinality(Positions(q, x))

LEMMA OccurrencesType ==
  ASSUME NEW S, NEW q \in Seq(S), NEW x
  PROVE  IsFiniteSet(Positions(q, x)) /\ Occurrences(q, x) \in Nat
<1>1. IsFiniteSet(1..Len(q))
  BY FS_Interval, LenProperties
<1>. QED
  BY <1>1, FS_Subset, FS_CardinalityType DEF Positions, Occurrences

LEMMA OccurrencesNone ==
  ASSUME NEW x
  PROVE  Occurrences(<<>>, x) = 0
<1>1. Positions(<<>>, x) = {}
  BY DEF Positions
<1>. QED
  BY <1>1, FS_EmptySet DEF Occurrences

LEMMA OccurrencesAppend ==
  ASSUME NEW S, NEW q \in Seq(S), NEW y \in S, NEW x
  PROVE  Occurrences(Append(q, y), x) = Occurrences(q, x) + Is(y, x)
<1>. DEFINE longer == Append(q, y)
<1>1. /\ Len(q) \in Nat /\ Len(longer) = Len(q) + 1 /\ longer[Len(q) + 1] = y
      /\ \A i \in 1..Len(q) : longer[i] = q[i]
  BY AppendProperties, LenProperties
<1>. HIDE DEF longer
<1>2. CASE y = x
  <2>1. Positions(longer, x) = Positions(q, x) \cup {Len(q) + 1} /\ Len(q) + 1 \notin Positions(q, x)
    BY <1>1, <1>2 DEF Positions
  <2>2. Cardinality(Positions(longer, x)) = Cardinality(Positions(q, x)) + 1
    BY <2>1, OccurrencesType, FS_AddElement
  <2>. QED
    BY <1>2, <2>2 DEF Occurrences, Is, longer
<1>3. CASE y # x
  <2>1. Positions(longer, x) = Positions(q, x)
    BY <1>1, <1>3 DEF Positions
  <2>. QED
    BY <1>3, <2>1, OccurrencesType DEF Occurrences, Is, longer
<1>. QED
  BY <1>2, <1>3

LEMMA OccurrencesTail ==
  ASSUME NEW S, NEW q \in Seq(S), q # <<>>, NEW x
  PROVE  Occurrences(q, x) = Occurrences(Tail(q), x) + Is(Head(q), x)
<1>. DEFINE rest == Tail(q)
            later == Positions(q, x) \ {1}
            shift == [i \in Positions(rest, x) |-> i + 1]
<1>1. /\ Len(q) \in Nat /\ Len(q) > 0 /\ Len(rest) = Len(q) - 1 /\ Head(q) = q[1]
      /\ \A i \in 1..Len(rest) : rest[i] = q[i + 1]
      /\ rest \in Seq(S)
  BY HeadTailProperties, LenProperties, EmptySeq
<1>. HIDE DEF rest
<1>2. Positions(rest, x) \subseteq Nat /\ \A i \in Positions(rest, x) : i + 1 \in later
  BY <1>1 DEF Positions
<1>3. \A j \in later : j - 1 \in Positions(rest, x) /\ shift[j - 1] = j
  BY <1>1 DEF Positions
<1>4. shift \in [Positions(rest, x) -> later]
  BY <1>2
<1>5. \A a, b \in Positions(rest, x) : shift[a] = shift[b] => a = b
  BY <1>2
<1>6. \A j \in later : \E i \in Positions(rest, x) : shift[i] = j
  BY <1>3
<1>7. shift \in Bijection(Positions(rest, x), later)
  BY <1>4, <1>5, <1>6, Fun_IsBij
<1>8. Cardinality(later) = Occurrences(rest, x)
  BY <1>1, <1>7, OccurrencesType, FS_Bijection DEF ExistsBijection, Occurrences
<1>9. CASE Head(q) = x
  <2>1. 1 \in Positions(q, x)
    BY <1>1, <1>9 DEF Positions
  <2>2. Cardinality(later) = Cardinality(Positions(q, x)) - 1
    BY <2>1, OccurrencesType, FS_RemoveElement
  <2>. QED
    BY <1>1, <1>8, <1>9, <2>2, OccurrencesType DEF Occurrences, Is, rest
<1>10. CASE Head(q) # x
  <2>1. later = Positions(q, x)
    BY <1>1, <1>10 DEF Positions
  <2>2. Occurrences(q, x) = Occurrences(rest, x)
    BY <1>8, <2>1 DEF Occurrences
  <2>3. Is(Head(q), x) = 0 /\ Occurrences(rest, x) \in Nat
    BY <1>1, <1>10, OccurrencesType DEF Is
  <2>. QED
    BY <2>2, <2>3 DEF rest
<1>. QED
  BY <1>9, <1>10

\* The requests of a queue of tasks.
RequestsOf(q) == [i \in 1..Len(q) |-> q[i].r]

TasksFor(q, x) == Occurrences(RequestsOf(q), x)

LEMMA RequestsOfType ==
  ASSUME NEW S, NEW q \in Seq(S)
  PROVE  RequestsOf(q) \in Seq({y.r : y \in S}) /\ Len(RequestsOf(q)) = Len(q)
<1>1. Len(q) \in Nat /\ \A i \in 1..Len(q) : q[i].r \in {y.r : y \in S}
  BY LenProperties, ElementOfSeq
<1>. QED
  BY <1>1, SeqDef, LenProperties DEF RequestsOf

LEMMA TasksType ==
  ASSUME NEW S, NEW q \in Seq(S), NEW x
  PROVE  TasksFor(q, x) \in Nat
BY RequestsOfType, OccurrencesType DEF TasksFor

LEMMA TasksAppend ==
  ASSUME NEW S, NEW q \in Seq(S), NEW y \in S, NEW x
  PROVE  TasksFor(Append(q, y), x) = TasksFor(q, x) + Is(y.r, x)
<1>. DEFINE T == {z.r : z \in S}
<1>1. RequestsOf(q) \in Seq(T) /\ y.r \in T
  BY RequestsOfType
<1>2. RequestsOf(Append(q, y)) = Append(RequestsOf(q), y.r)
  <2>1. Append(q, y) \in Seq(S) /\ Len(Append(q, y)) = Len(q) + 1
    BY AppendProperties
  <2>2. RequestsOf(Append(q, y)) \in Seq(T) /\ Len(RequestsOf(Append(q, y))) = Len(q) + 1
    BY <2>1, RequestsOfType
  <2>3. /\ Append(RequestsOf(q), y.r) \in Seq(T) /\ Len(Append(RequestsOf(q), y.r)) = Len(q) + 1
        /\ Append(RequestsOf(q), y.r)[Len(q) + 1] = y.r
        /\ \A i \in 1..Len(q) : Append(RequestsOf(q), y.r)[i] = q[i].r
    BY <1>1, AppendProperties, RequestsOfType DEF RequestsOf
  <2>4. \A i \in 1..Len(q) + 1 : RequestsOf(Append(q, y))[i] = Append(RequestsOf(q), y.r)[i]
    BY <2>1, <2>3, AppendProperties, LenProperties DEF RequestsOf
  <2>. QED
    BY <2>2, <2>3, <2>4, SeqEqual
<1>. QED
  BY <1>1, <1>2, OccurrencesAppend DEF TasksFor

LEMMA TasksTail ==
  ASSUME NEW S, NEW q \in Seq(S), q # <<>>, NEW x
  PROVE  TasksFor(q, x) = TasksFor(Tail(q), x) + Is(Head(q).r, x)
<1>. DEFINE T == {z.r : z \in S}
<1>1. /\ RequestsOf(q) \in Seq(T) /\ Len(RequestsOf(q)) = Len(q) /\ Len(q) \in Nat /\ Len(q) > 0
      /\ Tail(q) \in Seq(S) /\ Len(Tail(q)) = Len(q) - 1
  <2>1. RequestsOf(q) \in Seq(T) /\ Len(RequestsOf(q)) = Len(q)
    BY RequestsOfType
  <2>2. Len(q) \in Nat /\ Len(q) > 0
    BY LenProperties, EmptySeq
  <2>3. Tail(q) \in Seq(S) /\ Len(Tail(q)) = Len(q) - 1
    BY HeadTailProperties
  <2>. QED
    BY <2>1, <2>2, <2>3
<1>2. RequestsOf(q) # <<>>
  BY <1>1
<1>3. Head(RequestsOf(q)) = Head(q).r
  BY <1>1 DEF RequestsOf
<1>4. RequestsOf(Tail(q)) = Tail(RequestsOf(q))
  <2>1. RequestsOf(Tail(q)) \in Seq(T) /\ Len(RequestsOf(Tail(q))) = Len(q) - 1
    BY <1>1, RequestsOfType
  <2>2. Tail(RequestsOf(q)) \in Seq(T) /\ Len(Tail(RequestsOf(q))) = Len(q) - 1
    BY <1>1, <1>2, HeadTailProperties
  <2>3. \A i \in 1..Len(q) - 1 : RequestsOf(Tail(q))[i] = Tail(RequestsOf(q))[i]
    BY <1>1, <1>2, HeadTailProperties DEF RequestsOf
  <2>. QED
    BY <2>1, <2>2, <2>3, SeqEqual
<1>5. Occurrences(RequestsOf(q), x)
        = Occurrences(Tail(RequestsOf(q)), x) + Is(Head(RequestsOf(q)), x)
  BY <1>1, <1>2, OccurrencesTail
<1>. QED
  BY <1>3, <1>4, <1>5 DEF TasksFor

-----------------------------------------------------------------------------
(* The threads that work for a request.                                    *)

HeldBy(r) == {t \in Threads : step[t] \in Requesting /\ request[t] = r}

Held(r) == Cardinality(HeldBy(r))

LEMMA HeldType ==
  ASSUME NEW r
  PROVE  IsFiniteSet(HeldBy(r)) /\ Held(r) \in Nat
BY ImageRequestsAssumption, FS_Subset, FS_CardinalityType DEF HeldBy, Held

LEMMA HeldUnchanged ==
  ASSUME UNCHANGED threadVars, NEW r
  PROVE  Held(r)' = Held(r)
BY DEF threadVars, Held, HeldBy

\* A thread takes up request x, goes on with it, gives it up, or does something
\* that is not for a request.
LEMMA HeldTake ==
  ASSUME TypeOK, NEW t \in Threads, step[t] \notin Requesting, NEW place \in Requesting,
         NEW x \in Requests, Goto(t, place, x), NEW r \in Requests
  PROVE  Held(r)' = Held(r) + Is(x, r)
<1>1. CASE x = r
  <2>1. HeldBy(r)' = HeldBy(r) \cup {t} /\ t \notin HeldBy(r)
    BY <1>1 DEF HeldBy, Goto, TypeOK
  <2>2. Cardinality(HeldBy(r)') = Cardinality(HeldBy(r)) + 1
    BY <2>1, HeldType, FS_AddElement
  <2>. QED
    BY <1>1, <2>2 DEF Held, Is
<1>2. CASE x # r
  <2>1. HeldBy(r)' = HeldBy(r)
    BY <1>2 DEF HeldBy, Goto, TypeOK
  <2>. QED
    BY <1>2, <2>1, HeldType DEF Held, Is
<1>. QED
  BY <1>1, <1>2

LEMMA HeldKeep ==
  ASSUME TypeOK, NEW t \in Threads, step[t] \in Requesting, NEW place \in Requesting,
         Goto(t, place, request[t]), NEW r
  PROVE  Held(r)' = Held(r)
BY DEF HeldBy, Held, Goto, TypeOK

LEMMA HeldDrop ==
  ASSUME TypeOK, NEW t \in Threads, step[t] \in Requesting, Rest(t), NEW r
  PROVE  Held(r) = Held(r)' + Is(request[t], r) /\ Held(r)' \in Nat
<1>. Held(r)' \in Nat
  BY ImageRequestsAssumption, FS_Subset, FS_CardinalityType DEF HeldBy, Held
<1>1. CASE request[t] = r
  <2>1. HeldBy(r)' = HeldBy(r) \ {t} /\ t \in HeldBy(r)
    BY <1>1 DEF HeldBy, Rest, Goto, TypeOK, Requesting
  <2>2. Cardinality(HeldBy(r)') = Cardinality(HeldBy(r)) - 1
    BY <2>1, HeldType, FS_RemoveElement
  <2>. QED
    BY <1>1, <2>2, HeldType DEF Held, Is
<1>2. CASE request[t] # r
  <2>1. HeldBy(r)' = HeldBy(r)
    BY <1>2 DEF HeldBy, Rest, Goto, TypeOK, Requesting
  <2>2. Held(r)' = Held(r) /\ Held(r) \in Nat /\ Is(request[t], r) = 0
    BY <1>2, <2>1, HeldType DEF Held, Is
  <2>. QED
    BY <2>2
<1>. QED
  BY <1>1, <1>2

LEMMA HeldOther ==
  ASSUME TypeOK, NEW t \in Threads, step[t] \notin Requesting, NEW place,
         place \notin Requesting, Goto(t, place, NoRequest), NEW r
  PROVE  Held(r)' = Held(r)
BY DEF HeldBy, Held, Goto, TypeOK

-----------------------------------------------------------------------------
(* Conservation.                                                           *)

Places(r) ==
  Occurrences(workerTasks, r) + TasksFor(rasterTasks, r) + TasksFor(ioTasks, r)
    + Occurrences(awaiting, r) + Occurrences(flushing, r) + Held(r)
    + In(r, submitted) + answers[r]

(* A request that has been made is in one place: in a queue, in the hands  *)
(* of a thread, stored until the GPU is available, submitted to the GPU,   *)
(* or answered.                                                            *)
RequestsConserved == \A r \in Requests : Places(r) = In(r, asked)

\* The tasks of a flush are finished before the next one; only the drains of the
\* IO queue have no request.
FlushInv ==
  /\ setter # "flush" => flushing = <<>>
  /\ \A i \in 1..Len(ioTasks) : ioTasks[i].what = "drain" => ioTasks[i].r = NoRequest

Counted(r) ==
  /\ Occurrences(workerTasks, r) \in Nat /\ TasksFor(rasterTasks, r) \in Nat
  /\ TasksFor(ioTasks, r) \in Nat /\ Occurrences(awaiting, r) \in Nat
  /\ Occurrences(flushing, r) \in Nat /\ Held(r) \in Nat
  /\ In(r, submitted) \in Nat /\ answers[r] \in Nat

LEMMA Numbers ==
  ASSUME TypeOK, NEW r \in Requests
  PROVE  Counted(r)
<1>1. rasterTasks \in Seq(RasterTasks) /\ ioTasks \in Seq(IOTasks)
  BY DEF TypeOK, RasterTasks, IOTasks
<1>3. TasksFor(rasterTasks, r) \in Nat /\ TasksFor(ioTasks, r) \in Nat
  BY <1>1, TasksType
<1>4. /\ Occurrences(workerTasks, r) \in Nat /\ Occurrences(awaiting, r) \in Nat
      /\ Occurrences(flushing, r) \in Nat
  BY OccurrencesType DEF TypeOK
<1>5. In(r, submitted) \in Nat /\ answers[r] \in Nat
  BY DEF In, TypeOK
<1>. QED
  BY <1>3, <1>4, <1>5, HeldType DEF Counted

LEMMA RasterPosted ==
  ASSUME TypeOK, NEW what \in {"snapshot", "convert", "retry"}, NEW x \in Requests,
         rasterTasks' = Append(rasterTasks, Task(what, x)), NEW r
  PROVE  TasksFor(rasterTasks, r)' = TasksFor(rasterTasks, r) + Is(x, r)
<1>1. Task(what, x) \in RasterTasks /\ Task(what, x).r = x
  BY DEF Task, RasterTasks
<1>2. rasterTasks \in Seq(RasterTasks)
  BY DEF TypeOK, RasterTasks
<1>3. TasksFor(Append(rasterTasks, Task(what, x)), r) = TasksFor(rasterTasks, r) + Is(Task(what, x).r, r)
  BY <1>1, <1>2, TasksAppend
<1>. QED
  BY <1>1, <1>3

LEMMA RasterTaken ==
  ASSUME TypeOK, rasterTasks # <<>>, rasterTasks' = Tail(rasterTasks), NEW r
  PROVE  /\ TasksFor(rasterTasks, r) = TasksFor(rasterTasks, r)' + Is(Head(rasterTasks).r, r)
         /\ TasksFor(rasterTasks, r)' \in Nat /\ Is(Head(rasterTasks).r, r) \in Nat
<1>1. rasterTasks \in Seq(RasterTasks) /\ rasterTasks' \in Seq(RasterTasks)
  BY QueueHeads DEF TypeOK, RasterTasks
<1>2. TasksFor(rasterTasks, r)' \in Nat
  BY <1>1, TasksType
<1>. QED
  BY <1>1, <1>2, TasksTail DEF Is

LEMMA IOPosted ==
  ASSUME TypeOK, NEW what \in {"convert", "encode", "drain"}, NEW x \in Requests \cup {NoRequest},
         ioTasks' = Append(ioTasks, Task(what, x)), NEW r
  PROVE  TasksFor(ioTasks, r)' = TasksFor(ioTasks, r) + Is(x, r)
<1>1. /\ Task(what, x) \in IOTasks /\ Task(what, x).r = x
  BY DEF Task, IOTasks
<1>2. ioTasks \in Seq(IOTasks)
  BY DEF TypeOK, IOTasks
<1>3. TasksFor(Append(ioTasks, Task(what, x)), r) = TasksFor(ioTasks, r) + Is(Task(what, x).r, r)
  BY <1>1, <1>2, TasksAppend
<1>. QED
  BY <1>1, <1>3

LEMMA IOTaken ==
  ASSUME TypeOK, ioTasks # <<>>, ioTasks' = Tail(ioTasks), NEW r
  PROVE  /\ TasksFor(ioTasks, r) = TasksFor(ioTasks, r)' + Is(Head(ioTasks).r, r)
         /\ TasksFor(ioTasks, r)' \in Nat /\ Is(Head(ioTasks).r, r) \in Nat
<1>1. ioTasks \in Seq(IOTasks) /\ ioTasks' \in Seq(IOTasks)
  BY QueueHeads DEF TypeOK, IOTasks
<1>2. TasksFor(ioTasks, r)' \in Nat
  BY <1>1, TasksType
<1>. QED
  BY <1>1, <1>2, TasksTail DEF Is

LEMMA Answered ==
  ASSUME TypeOK, NEW x \in Requests, NEW t \in Threads, Answer(t, x), NEW r \in Requests
  PROVE  /\ TasksFor(ioTasks, r)' + answers'[r] = TasksFor(ioTasks, r) + answers[r] + Is(x, r)
         /\ TasksFor(ioTasks, r)' \in Nat /\ answers'[r] \in Nat /\ Is(x, r) \in Nat
<1>. TasksFor(ioTasks, r) \in Nat /\ answers[r] \in Nat /\ Is(x, r) \in Nat
  BY Numbers DEF Counted, Is
<1>1. CASE ioTasks' = Append(ioTasks, Task("encode", x)) /\ UNCHANGED answers
  <2>1. TasksFor(ioTasks, r)' = TasksFor(ioTasks, r) + Is(x, r)
    BY <1>1, IOPosted
  <2>. QED
    BY <1>1, <2>1
<1>2. CASE UNCHANGED ioTasks /\ answers' = [answers EXCEPT ![x] = @ + 1]
  <2>1. answers'[r] = answers[r] + Is(x, r)
    BY <1>2 DEF Is, TypeOK
  <2>. QED
    BY <1>2, <2>1
<1>. QED
  BY <1>1, <1>2 DEF Answer

LEMMA FlushInvInit == Init => FlushInv
BY DEF Init, GpuTasksInit, FlushInv

LEMMA FlushInvStep ==
  ASSUME Typing, FlushInv, [Next]_vars
  PROVE  FlushInv'
<1>. TypeOK /\ ioTasks \in Seq(IOTasks)
  BY DEF Typing, TypeOK, IOTasks
<1>1. setter' # "flush" => flushing' = <<>>
  <2>1. \/ UNCHANGED <<setter, flushing>>
        \/ setter = "idle" /\ setter' \in {"drain", "lock"} /\ flushing' = flushing
        \/ setter = "drain" /\ setter' = "lock" /\ flushing' = flushing
        \/ setter = "lock" /\ flushing' = flushing
        \/ setter' = "flush"
        \/ flushing = <<>> /\ flushing' = flushing
    BY DEF Next, vars, Ask, CompleteCommands, PlatformStep, RasterStep, IOStep, WorkerStep, Work,
       Execute, ExecuteWithoutContext, Retry, StoreTask, StoreTaskForGPU, FinishWork,
       FinishSetting, FinishSetSwitch,
       Flush, SwapAwaiting, FinishFlush, FlushTask, NextFlushed, CreateLayers,
       StartRasterTask, FinishFrame, StartConversion, EncodePixels, DrainUnrefQueue, Drained,
       StartDecode, DrawToSurfaces, CreateMissingOverlays, SetGpuAvailability,
       BeginSetGpuAvailability, gpuTaskVars, setterVars
  <2>. QED
    BY <2>1 DEF FlushInv
<1>. DEFINE Drains(q) == \A i \in 1..Len(q) : q[i].what = "drain" => q[i].r = NoRequest
<1>2. \/ ioTasks' = ioTasks
      \/ ioTasks # <<>> /\ ioTasks' = Tail(ioTasks)
      \/ \E what \in {"convert", "encode"} : \E x : ioTasks' = Append(ioTasks, Task(what, x))
      \/ ioTasks' = Append(ioTasks, Task("drain", NoRequest))
  BY DEF Next, vars, Ask, CompleteCommands, PlatformStep, RasterStep, IOStep, WorkerStep, Work,
     Execute, ExecuteWithoutContext, Retry, StoreTask, FinishWork, FinishSetting, Flush,
     FlushTask, CreateLayers,
     StartRasterTask, FinishFrame, StartConversion, EncodePixels, DrainUnrefQueue,
     StartDecode, DrawToSurfaces, CreateMissingOverlays, SetGpuAvailability, Answer, queueVars
<1>3. ASSUME ioTasks # <<>>, ioTasks' = Tail(ioTasks) PROVE Drains(ioTasks')
  <2>1. \A i \in 1..Len(ioTasks') : i + 1 \in 1..Len(ioTasks) /\ ioTasks'[i] = ioTasks[i + 1]
    BY <1>3, HeadTailProperties, LenProperties
  <2>. QED
    BY <2>1 DEF FlushInv
<1>4. ASSUME NEW y, ioTasks' = Append(ioTasks, y), y.what = "drain" => y.r = NoRequest
      PROVE  Drains(ioTasks')
  <2>1. /\ Len(ioTasks') = Len(ioTasks) + 1 /\ ioTasks'[Len(ioTasks) + 1] = y
        /\ \A i \in 1..Len(ioTasks) : ioTasks'[i] = ioTasks[i]
    BY <1>4
  <2>. QED
    BY <1>4, <2>1, LenProperties DEF FlushInv
<1>5. Drains(ioTasks')
  BY <1>2, <1>3, <1>4 DEF Task, FlushInv
<1>. QED
  BY <1>1, <1>5 DEF FlushInv

LEMMA ConservedInit == Init => RequestsConserved
<1> SUFFICES ASSUME Init, NEW r \in Requests PROVE Places(r) = In(r, asked)
  BY DEF RequestsConserved
<1>1. /\ workerTasks = <<>> /\ rasterTasks = <<>> /\ ioTasks = <<>> /\ awaiting = <<>>
      /\ flushing = <<>> /\ submitted = {} /\ asked = {} /\ answers[r] = 0
  BY DEF Init, GpuTasksInit
<1>2. HeldBy(r) = {}
  BY DEF Init, HeldBy, Requesting
<1>3. Held(r) = 0
  BY <1>2, FS_EmptySet DEF Held
<1>4. RequestsOf(<<>>) = <<>>
  BY DEF RequestsOf
<1>. QED
  BY <1>1, <1>3, <1>4, OccurrencesNone DEF Places, TasksFor, In

\* A step that moves no request.
LEMMA NothingMoves ==
  ASSUME NEW r, Held(r)' = Held(r),
         UNCHANGED <<workerTasks, rasterTasks, ioTasks, awaiting, flushing, submitted, answers>>
  PROVE  Places(r)' = Places(r)
BY DEF Places

\* A new request is in one place; every other step moves requests.
LEMMA AskConserves ==
  ASSUME TypeOK, NEW x \in Requests, Ask(x), NEW r \in Requests
  PROVE  Places(r)' = Places(r) + Is(x, r) /\ In(r, asked') = In(r, asked) + Is(x, r)
<1>. Counted(r) /\ Is(x, r) \in Nat
  BY Numbers DEF Is
<1>1. Held(r)' = Held(r) /\ UNCHANGED <<awaiting, flushing, submitted, answers>>
  BY HeldUnchanged DEF Ask, gpuTaskVars
<1>2. In(r, asked') = In(r, asked) + Is(x, r)
  BY DEF Ask, Is, In
<1>3. CASE x \in Decodes
  <2>1. UNCHANGED <<rasterTasks, ioTasks>>
    BY <1>3, ImageRequestsAssumption DEF Ask
  <2>2. workerTasks' = Append(workerTasks, x)
    BY <1>3, ImageRequestsAssumption DEF Ask
  <2>3. Occurrences(workerTasks, r)' = Occurrences(workerTasks, r) + Is(x, r)
    BY <1>3, <2>2, OccurrencesAppend DEF TypeOK
  <2>4. Places(r)' = Places(r) + Is(x, r)
    BY <1>1, <2>1, <2>3 DEF Places, Counted
  <2>. QED
    BY <1>2, <2>4
<1>4. CASE x \in Snapshots
  <2>1. UNCHANGED <<workerTasks, ioTasks>>
    BY <1>4, ImageRequestsAssumption DEF Ask
  <2>2. rasterTasks' = Append(rasterTasks, Task("snapshot", x))
    BY <1>4, ImageRequestsAssumption DEF Ask
  <2>3. TasksFor(rasterTasks, r)' = TasksFor(rasterTasks, r) + Is(x, r)
    BY <2>2, RasterPosted
  <2>4. Places(r)' = Places(r) + Is(x, r)
    BY <1>1, <2>1, <2>3 DEF Places, Counted
  <2>. QED
    BY <1>2, <2>4
<1>5. CASE x \in Encodes
  <2>1. UNCHANGED <<workerTasks, rasterTasks>>
    BY <1>5, ImageRequestsAssumption DEF Ask
  <2>2. ioTasks' = Append(ioTasks, Task("convert", x))
    BY <1>5, ImageRequestsAssumption DEF Ask
  <2>3. TasksFor(ioTasks, r)' = TasksFor(ioTasks, r) + Is(x, r)
    BY <2>2, IOPosted
  <2>4. Places(r)' = Places(r) + Is(x, r)
    BY <1>1, <2>1, <2>3 DEF Places, Counted
  <2>. QED
    BY <1>2, <2>4
<1>. QED
  BY <1>3, <1>4, <1>5 DEF Requests

LEMMA CompletionMoves ==
  ASSUME TypeOK, NEW x \in Requests, CompleteCommands(x), NEW r \in Requests
  PROVE  Places(r)' = Places(r)
<1>. Counted(r) /\ Is(x, r) \in Nat
  BY Numbers DEF Is
<1>1. Held(r)' = Held(r)
      /\ UNCHANGED <<workerTasks, rasterTasks, awaiting, flushing, answers>>
  BY HeldUnchanged DEF CompleteCommands, gpuTaskVars
<1>2. In(r, submitted) = In(r, submitted') + Is(x, r) /\ In(r, submitted') \in Nat
  BY DEF CompleteCommands, In, Is
<1>3. TasksFor(ioTasks, r)' = TasksFor(ioTasks, r) + Is(x, r)
  BY IOPosted DEF CompleteCommands
<1>. QED
  BY <1>1, <1>2, <1>3 DEF Places, Counted

LEMMA DecodeMoves ==
  ASSUME TypeOK, NEW w \in Workers, StartDecode(w), NEW r \in Requests
  PROVE  Places(r)' = Places(r)
<1>. Counted(r)
  BY Numbers
<1>. DEFINE x == Head(workerTasks)
<1>1. x \in Requests /\ w \in Threads
  BY QueueHeads, Parameters DEF StartDecode
<1>2. UNCHANGED <<rasterTasks, awaiting, flushing, submitted>>
  BY DEF StartDecode, gpuTaskVars
<1>3. Occurrences(workerTasks, r) = Occurrences(workerTasks, r)' + Is(x, r)
  BY OccurrencesTail DEF StartDecode, TypeOK
<1>4. Occurrences(workerTasks, r)' \in Nat /\ Is(x, r) \in Nat
  <2>1. workerTasks' \in Seq(Decodes)
    BY QueueHeads DEF StartDecode
  <2>. QED
    BY <2>1, OccurrencesType DEF Is
<1>5. CASE Goto(w, "execute", x) /\ UNCHANGED <<ioTasks, answers>>
  <2>1. step[w] \notin Requesting
    BY DEF StartDecode, Requesting
  <2>2. Held(r)' = Held(r) + Is(x, r)
    BY <1>1, <1>5, <2>1, HeldTake DEF Requesting
  <2>. QED
    BY <1>2, <1>3, <1>4, <1>5, <2>2 DEF Places, Counted
<1>6. CASE Answer(w, x) /\ UNCHANGED threadVars
  <2>1. Held(r)' = Held(r)
    BY <1>6, HeldUnchanged
  <2>2. /\ TasksFor(ioTasks, r)' + answers'[r] = TasksFor(ioTasks, r) + answers[r] + Is(x, r)
        /\ TasksFor(ioTasks, r)' \in Nat /\ answers'[r] \in Nat
    BY <1>1, <1>6, Answered
  <2>. HIDE DEF x
  <2>. QED
    BY <1>2, <1>3, <1>4, <2>1, <2>2 DEF Places, Counted
<1>. QED
  BY <1>5, <1>6 DEF StartDecode

LEMMA RasterTaskMoves ==
  ASSUME TypeOK, StartRasterTask, NEW r \in Requests
  PROVE  Places(r)' = Places(r)
<1>. Counted(r)
  BY Numbers
<1>. DEFINE x == Head(rasterTasks).r
<1>1. x \in Requests
  BY QueueHeads DEF StartRasterTask, RasterTasks
<1>2. UNCHANGED <<workerTasks, ioTasks, awaiting, flushing, submitted, answers>>
  BY DEF StartRasterTask, gpuTaskVars
<1>3. /\ TasksFor(rasterTasks, r) = TasksFor(rasterTasks, r)' + Is(x, r)
      /\ TasksFor(rasterTasks, r)' \in Nat /\ Is(x, r) \in Nat
  BY RasterTaken DEF StartRasterTask
<1>4. Held(r)' = Held(r) + Is(x, r)
  BY <1>1, HeldTake, Parameters DEF StartRasterTask, Requesting
<1>. QED
  BY <1>2, <1>3, <1>4 DEF Places, Counted


LEMMA ConversionMoves ==
  ASSUME TypeOK, StartConversion, NEW r \in Requests
  PROVE  Places(r)' = Places(r)
<1>. Counted(r)
  BY Numbers
<1>. DEFINE x == Head(ioTasks).r
<1>1. /\ UNCHANGED <<workerTasks, awaiting, flushing, submitted, answers>>
      /\ IO \in Threads /\ step[IO] \notin Requesting
  BY Parameters DEF StartConversion, gpuTaskVars, Requesting
<1>2. /\ TasksFor(ioTasks, r) = TasksFor(ioTasks, r)' + Is(x, r)
      /\ TasksFor(ioTasks, r)' \in Nat /\ Is(x, r) \in Nat
  BY IOTaken DEF StartConversion
<1>3. CASE /\ x \in RasterEncodes /\ rasterTasks' = Append(rasterTasks, Task("convert", x))
           /\ UNCHANGED threadVars
  <2>1. Held(r)' = Held(r)
    BY <1>3, HeldUnchanged
  <2>2. TasksFor(rasterTasks, r)' = TasksFor(rasterTasks, r) + Is(x, r)
    BY <1>3, RasterPosted, Parameters
  <2>. HIDE DEF x
  <2>. QED
    BY <1>1, <1>2, <2>1, <2>2 DEF Places, Counted
<1>4. CASE x \in OtherEncodes /\ Goto(IO, "execute", x) /\ UNCHANGED rasterTasks
  <2>1. x \in Requests
    BY <1>4, Parameters
  <2>2. Held(r)' = Held(r) + Is(x, r)
    BY <1>1, <1>4, <2>1, HeldTake DEF Requesting
  <2>. HIDE DEF x
  <2>. QED
    BY <1>1, <1>2, <1>4, <2>2 DEF Places, Counted
<1>. QED
  BY <1>3, <1>4 DEF StartConversion

LEMMA EncodingMoves ==
  ASSUME TypeOK, EncodePixels, NEW r \in Requests
  PROVE  Places(r)' = Places(r)
<1>. Counted(r)
  BY Numbers
<1>. DEFINE x == Head(ioTasks).r
<1>1. UNCHANGED <<workerTasks, rasterTasks, awaiting, flushing, submitted>> /\ Held(r)' = Held(r)
  BY HeldUnchanged DEF EncodePixels, gpuTaskVars
<1>2. /\ TasksFor(ioTasks, r) = TasksFor(ioTasks, r)' + Is(x, r)
      /\ TasksFor(ioTasks, r)' \in Nat /\ Is(x, r) \in Nat
  BY IOTaken DEF EncodePixels
<1>3. answers'[r] = answers[r] + Is(x, r)
  BY DEF EncodePixels, Is, TypeOK
<1>. HIDE DEF x
<1>. QED
  BY <1>1, <1>2, <1>3 DEF Places, Counted

LEMMA ExecuteMoves ==
  ASSUME TypeOK, NEW t \in Threads, Execute(t), NEW r \in Requests
  PROVE  Places(r)' = Places(r)
<1>1. UNCHANGED <<workerTasks, rasterTasks, ioTasks, awaiting, flushing, submitted, answers>>
  BY DEF Execute, gpuTaskVars, queueVars
<1>2. Held(r)' = Held(r)
  <2>1. /\ step[t] \in Requesting /\ Goto(t, IF disabled THEN "store" ELSE "work", request[t])
        /\ (IF disabled THEN "store" ELSE "work") \in Requesting
    BY DEF Execute, Requesting
  <2>. QED
    BY <2>1, HeldKeep
<1>. QED
  BY <1>1, <1>2, NothingMoves

LEMMA RetryMoves ==
  ASSUME Typing, NEW t \in Threads, Retry(t), NEW r \in Requests
  PROVE  Places(r)' = Places(r)
<1>. DEFINE x == request[t]
<1>1. /\ UNCHANGED <<workerTasks, rasterTasks, awaiting, flushing, submitted>>
      /\ TypeOK /\ step[t] \in Requesting /\ x \in Requests
  BY DEF Retry, gpuTaskVars, Typing, Requesting
<1>. TypeOK /\ Counted(r)
  BY <1>1, Numbers
<1>2. CASE Goto(t, "work", x) /\ UNCHANGED <<ioTasks, answers>>
  <2>1. Held(r)' = Held(r)
    BY <1>1, <1>2, HeldKeep DEF Requesting
  <2>. QED
    BY <1>1, <1>2, <2>1, NothingMoves
<1>3. CASE Answer(t, x) /\ Rest(t)
  <2>1. Held(r) = Held(r)' + Is(x, r) /\ Held(r)' \in Nat
    BY <1>1, <1>3, HeldDrop, HeldType
  <2>2. /\ TasksFor(ioTasks, r)' + answers'[r] = TasksFor(ioTasks, r) + answers[r] + Is(x, r)
        /\ TasksFor(ioTasks, r)' \in Nat /\ answers'[r] \in Nat /\ Is(x, r) \in Nat
    BY <1>1, <1>3, Answered
  <2>. HIDE DEF x
  <2>. QED
    BY <1>1, <2>1, <2>2 DEF Places, Counted
<1>. QED
  BY <1>2, <1>3 DEF Retry

LEMMA RefusalMoves ==
  ASSUME Typing, NEW t \in Threads, ExecuteWithoutContext(t), NEW r \in Requests
  PROVE  Places(r)' = Places(r)
<1>. DEFINE x == request[t]
<1>1. /\ UNCHANGED <<workerTasks, rasterTasks, awaiting, flushing, submitted>>
      /\ TypeOK /\ step[t] \in Requesting /\ x \in Requests
      /\ Answer(t, x) /\ Rest(t)
  BY DEF ExecuteWithoutContext, gpuTaskVars, Typing, Requesting
<1>. TypeOK /\ Counted(r)
  BY <1>1, Numbers
<1>2. Held(r) = Held(r)' + Is(x, r) /\ Held(r)' \in Nat
  BY <1>1, HeldDrop, HeldType
<1>3. /\ TasksFor(ioTasks, r)' + answers'[r] = TasksFor(ioTasks, r) + answers[r] + Is(x, r)
      /\ TasksFor(ioTasks, r)' \in Nat /\ answers'[r] \in Nat /\ Is(x, r) \in Nat
  BY <1>1, Answered
<1>. HIDE DEF x
<1>. QED
  BY <1>1, <1>2, <1>3 DEF Places, Counted

\* The task that is discarded when too many are stored is answered.
LEMMA StoreMoves ==
  ASSUME Typing, NEW t \in Threads, StoreTask(t), NEW r \in Requests
  PROVE  Places(r)' = Places(r)
<1>. DEFINE x == request[t]
            longer == Append(awaiting, x)
            y == Head(longer)
<1>1. /\ UNCHANGED <<workerTasks, rasterTasks, flushing, submitted>>
      /\ TypeOK /\ step[t] \in Requesting /\ x \in Requests
  BY DEF StoreTask, StoreTaskForGPU, Typing, Requesting
<1>. TypeOK /\ Counted(r)
  BY <1>1, Numbers
<1>2. Held(r) = Held(r)' + Is(x, r) /\ Held(r)' \in Nat /\ Is(x, r) \in Nat
  BY <1>1, HeldDrop DEF StoreTask, Is
<1>3. longer \in Seq(Requests) /\ longer # <<>> /\ y \in Requests /\ Tail(longer) \in Seq(Requests)
  <2>1. awaiting \in Seq(Requests)
    BY DEF TypeOK
  <2>2. longer \in Seq(Requests) /\ longer # <<>>
    BY <1>1, <2>1, AppendProperties
  <2>. QED
    BY <2>2, HeadTailProperties
<1>4. Occurrences(longer, r) = Occurrences(awaiting, r) + Is(x, r)
  BY <1>1, OccurrencesAppend DEF TypeOK
<1>5. /\ Occurrences(longer, r) = Occurrences(Tail(longer), r) + Is(y, r)
      /\ Occurrences(Tail(longer), r) \in Nat
  BY <1>3, OccurrencesTail, OccurrencesType
<1>6. CASE Overflows
  <2>1. awaiting' = Tail(longer) /\ Answer(t, y)
    BY <1>6 DEF StoreTask, StoreTaskForGPU, Failing
  <2>2. /\ TasksFor(ioTasks, r)' + answers'[r] = TasksFor(ioTasks, r) + answers[r] + Is(y, r)
        /\ TasksFor(ioTasks, r)' \in Nat /\ answers'[r] \in Nat /\ Is(y, r) \in Nat
    BY <1>3, <2>1, Answered
  <2>3. /\ Occurrences(awaiting, r)' + Is(y, r) = Occurrences(awaiting, r) + Is(x, r)
        /\ Occurrences(awaiting, r)' \in Nat
    BY <1>4, <1>5, <2>1
  <2>. HIDE DEF x, y, longer
  <2>. QED
    BY <1>1, <1>2, <2>2, <2>3 DEF Places, Counted
<1>7. CASE ~Overflows
  <2>1. awaiting' = longer /\ UNCHANGED <<ioTasks, answers>>
    BY <1>7 DEF StoreTask, StoreTaskForGPU
  <2>2. Occurrences(awaiting, r)' = Occurrences(awaiting, r) + Is(x, r)
    BY <1>4, <2>1
  <2>3. UNCHANGED <<ioTasks, answers>>
    BY <2>1
  <2>. HIDE DEF x, longer
  <2>. QED
    BY <1>1, <1>2, <2>2, <2>3 DEF Places, Counted
<1>. QED
  BY <1>6, <1>7

\* An encode whose commands a thread submits is not submitted already: it
\* would be in two places.
LEMMA HeldIsNotSubmitted ==
  ASSUME Typing, RequestsConserved, NEW t \in Threads, step[t] \in Requesting
  PROVE  request[t] \notin submitted
<1>. DEFINE x == request[t]
<1>1. TypeOK /\ x \in Requests
  BY DEF Typing
<1>2. Counted(x) /\ Places(x) = In(x, asked)
  BY <1>1, Numbers DEF RequestsConserved
<1>3. Held(x) > 0
  <2>1. t \in HeldBy(x) /\ IsFiniteSet(HeldBy(x)) /\ Held(x) \in Nat
    BY HeldType DEF HeldBy
  <2>. QED
    BY <2>1, FS_EmptySet DEF Held
<1>4. In(x, asked) <= 1
  BY DEF In
<1>5. In(x, submitted) = 0
  <2>. HIDE DEF x
  <2>. QED
    BY <1>2, <1>3, <1>4 DEF Places, Counted
<1>. QED
  BY <1>5 DEF In

LEMMA FinishMoves ==
  ASSUME Typing, RequestsConserved, NEW t \in Threads, FinishWork(t), NEW r \in Requests
  PROVE  Places(r)' = Places(r)
<1>. DEFINE x == request[t]
<1>1. /\ UNCHANGED <<workerTasks, rasterTasks, awaiting, flushing>>
      /\ TypeOK /\ step[t] \in Requesting /\ x \in Requests
  BY DEF FinishWork, gpuTaskVars, Typing, Requesting
<1>. TypeOK /\ Counted(r)
  BY <1>1, Numbers
<1>2. Held(r) = Held(r)' + Is(x, r) /\ Held(r)' \in Nat /\ Is(x, r) \in Nat
  BY <1>1, HeldDrop DEF FinishWork, Is
<1>3. CASE submitted' = submitted \cup {x} /\ UNCHANGED <<ioTasks, answers>>
  <2>1. x \notin submitted
    BY <1>1, HeldIsNotSubmitted
  <2>2. In(r, submitted') = In(r, submitted) + Is(x, r)
    BY <1>3, <2>1 DEF In, Is
  <2>3. UNCHANGED <<ioTasks, answers>>
    BY <1>3
  <2>. HIDE DEF x
  <2>. QED
    BY <1>1, <1>2, <2>2, <2>3 DEF Places, Counted
<1>4. CASE Answer(t, x) /\ UNCHANGED submitted
  <2>1. /\ TasksFor(ioTasks, r)' + answers'[r] = TasksFor(ioTasks, r) + answers[r] + Is(x, r)
        /\ TasksFor(ioTasks, r)' \in Nat /\ answers'[r] \in Nat /\ Is(x, r) \in Nat
    BY <1>1, <1>4, Answered
  <2>2. UNCHANGED submitted
    BY <1>4
  <2>. HIDE DEF x
  <2>. QED
    BY <1>1, <1>2, <2>1, <2>2 DEF Places, Counted
<1>. QED
  BY <1>3, <1>4 DEF FinishWork

LEMMA FrameMoves ==
  ASSUME TypeOK, HandlerInv, NEW r,
         DrawToSurfaces \/ CreateMissingOverlays \/ CreateLayers \/ FinishFrame
  PROVE  Places(r)' = Places(r)
<1>1. UNCHANGED <<workerTasks, rasterTasks, ioTasks, awaiting, flushing, submitted, answers>>
  BY DEF DrawToSurfaces, CreateMissingOverlays, CreateLayers, FinishFrame, gpuTaskVars, queueVars
<1>2. Raster \in Threads
  BY Parameters
<1>3. step[Raster] \notin Requesting
  BY DEF DrawToSurfaces, CreateMissingOverlays, CreateLayers, FinishFrame, HandlerInv, Requesting
<1>4. \/ UNCHANGED threadVars
      \/ \E place \in {"draw", "overlay", "submit", "idle"} : Goto(Raster, place, NoRequest)
  BY DEF DrawToSurfaces, CreateMissingOverlays, CreateLayers, FinishFrame, Rest
<1>5. Held(r)' = Held(r)
  <2>1. CASE UNCHANGED threadVars
    BY <2>1, HeldUnchanged
  <2>2. ASSUME NEW place \in {"draw", "overlay", "submit", "idle"}, Goto(Raster, place, NoRequest)
        PROVE  Held(r)' = Held(r)
    BY <1>2, <1>3, <2>2, HeldOther DEF Requesting
  <2>. QED
    BY <1>4, <2>1, <2>2
<1>. QED
  BY <1>1, <1>5, NothingMoves

\* The drain of the IO queue is not for a request.
LEMMA DrainMoves ==
  ASSUME TypeOK, FlushInv, NEW r \in Requests,
         DrainUnrefQueue \/ \E availability \in Availabilities : SetGpuAvailability(availability)
  PROVE  Places(r)' = Places(r)
<1>. Counted(r)
  BY Numbers
<1>1. /\ UNCHANGED <<workerTasks, rasterTasks, awaiting, flushing, submitted, answers>>
      /\ UNCHANGED threadVars
  BY DEF DrainUnrefQueue, Drained, SetGpuAvailability, BeginSetGpuAvailability
<1>2. Held(r)' = Held(r)
  BY <1>1, HeldUnchanged
<1>3. Is(NoRequest, r) = 0
  BY Parameters DEF Is
<1>4. TasksFor(ioTasks, r)' = TasksFor(ioTasks, r)
  <2>1. CASE ioTasks' = Append(ioTasks, Task("drain", NoRequest))
    <3>1. TasksFor(ioTasks, r)' = TasksFor(ioTasks, r) + Is(NoRequest, r)
      BY <2>1, IOPosted
    <3>. QED
      BY <1>3, <3>1 DEF Counted
  <2>2. CASE ioTasks # <<>> /\ Head(ioTasks).what = "drain" /\ ioTasks' = Tail(ioTasks)
    <3>1. ioTasks \in Seq(IOTasks)
      BY DEF TypeOK, IOTasks
    <3>2. 1 \in 1..Len(ioTasks) /\ Head(ioTasks) = ioTasks[1]
      BY <2>2, <3>1, LenProperties, EmptySeq
    <3>3. Head(ioTasks).r = NoRequest
      BY <2>2, <3>2 DEF FlushInv
    <3>4. /\ TasksFor(ioTasks, r) = TasksFor(ioTasks, r)' + Is(NoRequest, r)
          /\ TasksFor(ioTasks, r)' \in Nat
      BY <2>2, <3>3, IOTaken
    <3>. QED
      BY <1>3, <3>4
  <2>3. CASE UNCHANGED ioTasks
    BY <2>3
  <2>. QED
    BY <2>1, <2>2, <2>3 DEF DrainUnrefQueue, SetGpuAvailability
<1>. QED
  BY <1>1, <1>2, <1>4 DEF Places, Counted

LEMMA FlushMoves ==
  ASSUME Typing, FlushInv, Flush \/ FinishSetting, NEW r \in Requests
  PROVE  Places(r)' = Places(r)
<1>. TypeOK /\ Counted(r)
  BY Numbers DEF Typing
<1>1. UNCHANGED <<workerTasks, rasterTasks, ioTasks, submitted, answers>> /\ Held(r)' = Held(r)
  BY HeldUnchanged DEF Flush, FinishSetting, queueVars
<1>2. CASE SwapAwaiting
  <2>1. flushing = <<>> /\ flushing' = awaiting /\ awaiting' = <<>>
    BY <1>2 DEF SwapAwaiting, FlushInv
  <2>2. /\ Occurrences(flushing, r) = 0 /\ Occurrences(awaiting, r)' = 0
        /\ Occurrences(flushing, r)' = Occurrences(awaiting, r)
    BY <2>1, OccurrencesNone
  <2>. QED
    BY <1>1, <2>2 DEF Places, Counted
<1>3. CASE FinishFlush \/ FinishSetSwitch
  <2>1. awaiting \o <<>> = awaiting
    BY ConcatEmptySeq DEF TypeOK
  <2>2. UNCHANGED <<awaiting, flushing>>
    BY <1>3, <2>1 DEF FinishFlush, FinishSetSwitch, Typing
  <2>. QED
    BY <1>1, <2>2, NothingMoves
<1>. QED
  BY <1>2, <1>3 DEF Flush, FinishSetting

LEMMA FlushTaskMoves ==
  ASSUME Typing, FlushTask, NEW r \in Requests
  PROVE  Places(r)' = Places(r)
<1>. DEFINE x == Head(flushing)
<1>. TypeOK /\ Counted(r)
  BY Numbers DEF Typing
<1>1. /\ UNCHANGED <<workerTasks, ioTasks, awaiting, submitted, answers>>
      /\ ~disabled /\ Platform \in Threads /\ step[Platform] \notin Requesting
      /\ flushing # <<>> /\ flushing' = Tail(flushing)
  BY Parameters DEF FlushTask, NextFlushed, Typing, Requesting
<1>2. x \in Requests /\ flushing' \in Seq(Requests) /\ flushing \in Seq(Requests)
  BY <1>1, QueueHeads DEF TypeOK
<1>3. /\ Occurrences(flushing, r) = Occurrences(flushing, r)' + Is(x, r)
      /\ Occurrences(flushing, r)' \in Nat /\ Is(x, r) \in Nat
  BY <1>1, <1>2, OccurrencesTail, OccurrencesType DEF Is
<1>4. CASE rasterTasks' = Append(rasterTasks, Task("retry", x)) /\ UNCHANGED threadVars
  <2>1. Held(r)' = Held(r)
    BY <1>4, HeldUnchanged
  <2>2. TasksFor(rasterTasks, r)' = TasksFor(rasterTasks, r) + Is(x, r)
    BY <1>2, <1>4, RasterPosted
  <2>3. UNCHANGED <<workerTasks, ioTasks, awaiting, submitted, answers>>
    BY <1>1
  <2>. HIDE DEF x
  <2>. QED
    BY <1>3, <2>1, <2>2, <2>3 DEF Places, Counted
<1>5. CASE Goto(Platform, "work", x) /\ UNCHANGED rasterTasks
  <2>1. Held(r)' = Held(r) + Is(x, r)
    BY <1>1, <1>2, <1>5, HeldTake DEF Requesting
  <2>2. UNCHANGED <<workerTasks, rasterTasks, ioTasks, awaiting, submitted, answers>>
    BY <1>1, <1>5
  <2>. HIDE DEF x
  <2>. QED
    BY <1>3, <2>1, <2>2 DEF Places, Counted
<1>. QED
  BY <1>1, <1>4, <1>5 DEF FlushTask

LEMMA ConservedStep ==
  ASSUME Typing, HandlerInv, FlushInv, RequestsConserved, [Next]_vars
  PROVE  RequestsConserved'
<1> SUFFICES ASSUME NEW r \in Requests PROVE Places(r)' = In(r, asked')
  BY DEF RequestsConserved
<1>. TypeOK /\ Places(r) = In(r, asked)
  BY DEF Typing, RequestsConserved
<1>1. ASSUME NEW x \in Requests, Ask(x) PROVE Places(r)' = In(r, asked')
  BY <1>1, AskConserves
<1>2. CASE UNCHANGED vars
  <2>1. Held(r)' = Held(r) /\ UNCHANGED asked
        /\ UNCHANGED <<workerTasks, rasterTasks, ioTasks, awaiting, flushing, submitted, answers>>
    BY <1>2, HeldUnchanged DEF vars, gpuTaskVars, queueVars
  <2>. QED
    BY <2>1, NothingMoves
<1>. DEFINE Moves == Places(r)' = Places(r) /\ UNCHANGED asked
<1>3. ASSUME NEW t \in Threads, Work(t) PROVE Moves
  BY <1>3, ExecuteMoves, RefusalMoves, RetryMoves, StoreMoves, FinishMoves
     DEF Work, Execute, ExecuteWithoutContext, Retry, StoreTask, FinishWork
<1>4. ASSUME NEW x \in Requests, CompleteCommands(x) PROVE Moves
  BY <1>4, CompletionMoves DEF CompleteCommands
<1>5. ASSUME NEW w \in Workers, StartDecode(w) PROVE Moves
  BY <1>5, DecodeMoves DEF StartDecode
<1>6. ASSUME StartRasterTask \/ StartConversion \/ EncodePixels PROVE Moves
  BY <1>6, RasterTaskMoves, ConversionMoves, EncodingMoves
     DEF StartRasterTask, StartConversion, EncodePixels
<1>7. ASSUME DrawToSurfaces \/ CreateMissingOverlays \/ CreateLayers \/ FinishFrame PROVE Moves
  BY <1>7, FrameMoves DEF DrawToSurfaces, CreateMissingOverlays, CreateLayers, FinishFrame
<1>8. ASSUME DrainUnrefQueue \/ \E availability \in Availabilities : SetGpuAvailability(availability)
      PROVE  Moves
  BY <1>8, DrainMoves DEF DrainUnrefQueue, SetGpuAvailability
<1>9. ASSUME Flush \/ FinishSetting PROVE Moves
  BY <1>9, FlushMoves DEF Flush, FinishSetting
<1>10. ASSUME FlushTask PROVE Moves
  BY <1>10, FlushTaskMoves DEF FlushTask
<1>11. Moves => Places(r)' = In(r, asked')
  OBVIOUS
<1>. HIDE DEF Moves
<1>12. Work(Platform) \/ Work(Raster) \/ Work(IO) => Moves
  BY <1>3, Parameters
<1>13. \A w \in Workers : Work(w) => Moves
  BY <1>3, Parameters
<1>. QED
  BY <1>1, <1>2, <1>4, <1>5, <1>6, <1>7, <1>8, <1>9, <1>10, <1>11, <1>12, <1>13
     DEF Next, PlatformStep, RasterStep, IOStep, WorkerStep

\* Every request that the application has made is in exactly one place, and no
\* other request is anywhere: whatever the interleaving of the threads and the
\* moves to the background, with tasks discarded, flushed and retried, none is
\* lost and none is duplicated (image_decoder_impeller.cc, snapshot_controller.cc,
\* image_encoding_impeller.cc, context_mtl.mm).
THEOREM RequestsAreConserved == Spec => []RequestsConserved
<1>1. Typing /\ HandlerInv /\ FlushInv /\ RequestsConserved /\ [Next]_vars
        => FlushInv' /\ RequestsConserved'
  BY FlushInvStep, ConservedStep
<1>2. Init => FlushInv /\ RequestsConserved
  BY FlushInvInit, ConservedInit
<1>. QED
  BY <1>1, <1>2, RequestsInvariant, PTL DEF Spec

\* The result callback of a decode or a snapshot and the answer to an encode are
\* called at most once.
AnsweredOnce == \A r \in Requests : answers[r] <= 1

\* No request is answered twice, although an answer comes from a worker, a retry,
\* a task discarded on overflow, the completion handler or the IO thread.
THEOREM RequestsAreAnsweredOnce == Spec => []AnsweredOnce
<1>1. Typing /\ RequestsConserved => AnsweredOnce
  <2> SUFFICES ASSUME Typing, RequestsConserved, NEW r \in Requests PROVE answers[r] <= 1
    BY DEF AnsweredOnce
  <2>1. Counted(r) /\ Places(r) = In(r, asked) /\ In(r, asked) \in {0, 1}
    BY Numbers DEF Typing, RequestsConserved, In
  <2>. QED
    BY <2>1 DEF Places, Counted
<1>. QED
  BY <1>1, RequestsInvariant, RequestsAreConserved, PTL
=============================================================================
