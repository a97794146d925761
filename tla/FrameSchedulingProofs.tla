------------------------ MODULE FrameSchedulingProofs ------------------------
(***************************************************************************)
(* Proofs about FrameScheduling, for every depth of the pipeline and any   *)
(* number of pointer packets.  The heart of the inductive invariant        *)
(* SchedulingInv is the single request token: whoever runs a frame task    *)
(* knows from it that no other request is under way.                       *)
(***************************************************************************)
EXTENDS FrameScheduling, FiniteSetTheorems, SequenceTheorems, FunctionTheorems, TLAPS

-----------------------------------------------------------------------------
(* Counting the tasks of a queue.                                          *)

LEMMA PlacesFinite ==
  ASSUME NEW S, NEW q \in Seq(S), NEW x
  PROVE  IsFiniteSet(Places(q, x)) /\ Cardinality(Places(q, x)) \in Nat
<1>1. Len(q) \in Nat
  BY LenProperties
<1>2. IsFiniteSet(1..Len(q))
  BY <1>1, FS_Interval
<1>3. Places(q, x) \subseteq 1..Len(q)
  BY DEF Places
<1>. QED
  BY <1>2, <1>3, FS_Subset, FS_CardinalityType

LEMMA PlacesAppend ==
  ASSUME NEW S, NEW q \in Seq(S), NEW e \in S, NEW x
  PROVE  Cardinality(Places(Append(q, e), x))
           = Cardinality(Places(q, x)) + One(e = x)
<1>1. /\ Len(q) \in Nat
      /\ Len(Append(q, e)) = Len(q) + 1
      /\ \A i \in 1..Len(q) : Append(q, e)[i] = q[i]
      /\ Append(q, e)[Len(q) + 1] = e
  BY AppendProperties, LenProperties
<1>2. CASE e = x
  <2>1. Places(Append(q, e), x) = Places(q, x) \cup {Len(q) + 1}
    BY <1>1, <1>2 DEF Places
  <2>2. Len(q) + 1 \notin Places(q, x)
    BY <1>1 DEF Places
  <2>3. IsFiniteSet(Places(q, x))
    BY PlacesFinite
  <2>4. Cardinality(Places(q, x) \cup {Len(q) + 1}) = Cardinality(Places(q, x)) + 1
    BY <2>2, <2>3, FS_AddElement
  <2>. QED
    BY <1>2, <2>1, <2>4 DEF One
<1>3. CASE e # x
  <2>1. Places(Append(q, e), x) = Places(q, x)
    BY <1>1, <1>3 DEF Places
  <2>2. Cardinality(Places(q, x)) \in Nat
    BY PlacesFinite
  <2>. QED
    BY <1>3, <2>1, <2>2 DEF One
<1>. QED
  BY <1>2, <1>3

LEMMA PlacesTail ==
  ASSUME NEW S, NEW q \in Seq(S), q # <<>>, NEW x
  PROVE  Cardinality(Places(q, x))
           = Cardinality(Places(Tail(q), x)) + One(Head(q) = x)
<1> DEFINE Rest == Places(q, x) \ {1}
           shift == [i \in Places(Tail(q), x) |-> i + 1]
<1>1. /\ Len(q) \in Nat \ {0}
      /\ Len(Tail(q)) = Len(q) - 1
      /\ \A i \in 1..Len(Tail(q)) : Tail(q)[i] = q[i + 1]
      /\ Head(q) = q[1]
      /\ Tail(q) \in Seq(S)
  BY HeadTailProperties, LenProperties, EmptySeq
<1>2. shift \in Bijection(Places(Tail(q), x), Rest)
  <2>1. shift \in [Places(Tail(q), x) -> Rest]
    BY <1>1 DEF Places
  <2>2. \A i, j \in Places(Tail(q), x) : shift[i] = shift[j] => i = j
    BY <1>1 DEF Places
  <2>3. \A k \in Rest : \E i \in Places(Tail(q), x) : shift[i] = k
    <3>1. TAKE k \in Rest
    <3>2. k - 1 \in Places(Tail(q), x)
      BY <1>1 DEF Places
    <3>3. shift[k - 1] = k
      BY <1>1, <3>2 DEF Places
    <3>. QED
      BY <3>2, <3>3
  <2>. QED
    BY <2>1, <2>2, <2>3, Fun_IsBij
<1>3. IsFiniteSet(Places(q, x)) /\ IsFiniteSet(Places(Tail(q), x))
  BY <1>1, PlacesFinite
<1>4. Cardinality(Rest) = Cardinality(Places(Tail(q), x))
  <2>1. ExistsBijection(Places(Tail(q), x), Rest)
    BY <1>2 DEF ExistsBijection
  <2>. QED
    BY <1>3, <2>1, FS_Bijection
<1>5. Cardinality(Places(q, x)) \in Nat /\ Cardinality(Places(Tail(q), x)) \in Nat
  BY <1>1, PlacesFinite
<1>6. CASE Head(q) = x
  <2>1. 1 \in Places(q, x)
    BY <1>1, <1>6 DEF Places
  <2>2. Cardinality(Rest) = Cardinality(Places(q, x)) - 1
    BY <1>3, <2>1, FS_RemoveElement
  <2>3. Cardinality(Places(q, x)) = Cardinality(Places(Tail(q), x)) + 1
    <3>. HIDE DEF Rest
    <3>. QED
      BY <1>4, <1>5, <2>2
  <2>. QED
    BY <1>6, <2>3 DEF One
<1>7. CASE Head(q) # x
  <2>1. Rest = Places(q, x)
    BY <1>1, <1>7 DEF Places
  <2>2. Cardinality(Places(q, x)) = Cardinality(Places(Tail(q), x))
    BY <1>4, <2>1
  <2>. QED
    BY <1>5, <1>7, <2>2 DEF One
<1>. QED
  BY <1>6, <1>7

-----------------------------------------------------------------------------
(* The inductive invariant.                                                *)

\* The part of TypeOK that needs no counting.
Typing ==
  /\ callback \in BOOLEAN
  /\ secondary \subseteq SecondaryIds
  /\ firing \in [callback : BOOLEAN, paused : BOOLEAN, ids : SUBSET SecondaryIds]
  /\ uiTasks \in Seq(Tasks)
  /\ calls \in Seq(SecondaryIds)
  /\ armed \in Nat
  /\ pauses \in Int
  /\ semaphore \in Nat
  /\ sent \in Nat /\ pending \in Nat /\ delivered \in Nat

\* A taken token means that a frame is scheduled, whoever took it.
TokenTakenIsScheduled == semaphore = 0 => scheduled

SchedulingInv ==
  /\ Typing
  /\ OneVsyncAwaited
  /\ OneRequestToken
  /\ TokenTakenIsScheduled
  /\ RegenerationIsUnderWay
  /\ PausesMatchFrames
  /\ PacketsInOrder

LEMMA TaskTypes ==
  /\ "await" \in Tasks /\ "frame" \in Tasks
  /\ SecondaryIds \subseteq Tasks
  /\ "await" \notin SecondaryIds /\ "frame" \notin SecondaryIds
  /\ "flows" \in SecondaryIds /\ "pointer" \in SecondaryIds
BY VsyncWaiterAssumption, FrameSchedulingAssumption DEF Tasks

LEMMA CountType ==
  ASSUME Typing, NEW x
  PROVE  Count(x) \in Nat
BY PlacesFinite DEF Typing, Count

LEMMA CountPop ==
  ASSUME Typing, uiTasks # <<>>, NEW x
  PROVE  /\ Tail(uiTasks) \in Seq(Tasks)
         /\ Count(x) = Cardinality(Places(Tail(uiTasks), x)) + One(Head(uiTasks) = x)
         /\ Cardinality(Places(Tail(uiTasks), x)) \in Nat
<1>1. Tail(uiTasks) \in Seq(Tasks)
  BY HeadTailProperties DEF Typing
<1>2. Cardinality(Places(Tail(uiTasks), x)) \in Nat
  BY <1>1, PlacesFinite
<1>. QED
  BY <1>1, <1>2, PlacesTail DEF Typing, Count

LEMMA SchedulingInitInv == Init => SchedulingInv
<1> SUFFICES ASSUME Init PROVE SchedulingInv
  OBVIOUS
<1>1. Typing
  <2>1. firing \in [callback : BOOLEAN, paused : BOOLEAN, ids : SUBSET SecondaryIds]
    BY DEF Init, WaiterInit, NotFiring
  <2>2. uiTasks \in Seq(Tasks) /\ calls \in Seq(SecondaryIds)
    BY EmptySeq DEF Init, WaiterInit
  <2>3. callback \in BOOLEAN /\ secondary \subseteq SecondaryIds
    BY Zenon DEF Init, WaiterInit
  <2>4. /\ armed \in Nat /\ pauses \in Int /\ semaphore \in Nat
        /\ sent \in Nat /\ pending \in Nat /\ delivered \in Nat
    BY DEF Init, WaiterInit
  <2>. QED
    BY <2>1, <2>2, <2>3, <2>4 DEF Typing
<1>2. OneVsyncAwaited
  BY DEF Init, WaiterInit, OneVsyncAwaited, Awaited
<1>3. \A x : Count(x) = 0
  <2>1. \A x : Places(uiTasks, x) = {}
    BY DEF Init, WaiterInit, Places
  <2>. QED
    BY <2>1, FS_EmptySet DEF Count
<1>4. OneRequestToken /\ PausesMatchFrames
  <2>1. /\ Count("await") = 0 /\ Count("frame") = 0
        /\ One(callback) = 0 /\ One(firing.callback) = 0
        /\ One(firing.paused) = 0 /\ One(inFrame) = 0
        /\ semaphore = 1 /\ pauses = 0
    BY <1>3 DEF Init, WaiterInit, NotFiring, One
  <2>. QED
    BY <2>1 DEF OneRequestToken, PausesMatchFrames
<1>5. TokenTakenIsScheduled /\ RegenerationIsUnderWay /\ PacketsInOrder
  BY DEF Init, TokenTakenIsScheduled, RegenerationIsUnderWay, PacketsInOrder
<1>. QED
  BY <1>1, <1>2, <1>4, <1>5 DEF SchedulingInv

-----------------------------------------------------------------------------
(* The waiter is armed exactly while somebody waits.                       *)

\* A registration arms the platform unless it is armed already.
LEMMA RegisterArmsOnce ==
  ASSUME Typing, OneVsyncAwaited, ~arming, Awaited', arming' = ~Awaited,
         armed' = armed
  PROVE  OneVsyncAwaited'
<1>1. CASE Awaited
  <2>1. armed = 1
    BY <1>1 DEF Typing, OneVsyncAwaited
  <2>. QED
    BY <1>1, <2>1 DEF OneVsyncAwaited
<1>2. CASE ~Awaited
  <2>1. armed = 0
    BY <1>2 DEF Typing, OneVsyncAwaited
  <2>2. arming' = TRUE
    BY <1>2
  <2>3. armed' + (IF arming' THEN 1 ELSE 0) = 1
    BY <2>1, <2>2
  <2>. QED
    BY <2>3 DEF OneVsyncAwaited
<1>. QED
  BY <1>1, <1>2

LEMMA WaiterUnchanged ==
  ASSUME OneVsyncAwaited, UNCHANGED <<callback, secondary, arming, armed>>
  PROVE  OneVsyncAwaited'
BY DEF OneVsyncAwaited, Awaited

LEMMA OneVsyncAwaitedStep ==
  ASSUME Typing, OneVsyncAwaited, [Next]_vars
  PROVE  OneVsyncAwaited'
<1>1. ASSUME AsyncWaitForVsync PROVE OneVsyncAwaited'
  BY <1>1, RegisterArmsOnce DEF AsyncWaitForVsync, Awaited
<1>2. ASSUME NEW id, ScheduleSecondaryCallback(id) PROVE OneVsyncAwaited'
  BY <1>2, RegisterArmsOnce DEF ScheduleSecondaryCallback, Awaited
<1>3. ASSUME AwaitVSync PROVE OneVsyncAwaited'
  BY <1>3 DEF AwaitVSync, OneVsyncAwaited, Awaited, Typing
<1>4. ASSUME FireCallback PROVE OneVsyncAwaited'
  <2>1. armed = 1 /\ ~arming
    BY <1>4 DEF FireCallback, OneVsyncAwaited, Typing
  <2>2. ~Awaited'
    BY <1>4 DEF FireCallback, Awaited
  <2>. QED
    BY <1>4, <2>1, <2>2 DEF FireCallback, OneVsyncAwaited
<1>5. ASSUME VsyncStep PROVE OneVsyncAwaited'
  BY <1>4, <1>5, WaiterUnchanged
     DEF VsyncStep, PauseDartEventLoopTasks, PostFrameCallback, PostSecondaryCallback
<1>6. ASSUME AppStep PROVE OneVsyncAwaited'
  BY <1>6, WaiterUnchanged
     DEF AppStep, RequestFrame, Render, OnAllViewsRendered, DispatchPacket, waiterVars
<1>7. ASSUME UiStep PROVE OneVsyncAwaited'
  BY <1>1, <1>2, <1>3, <1>7, WaiterUnchanged
     DEF UiStep, Arm, ScheduleNextCallback, EndFrameTask, RunAwaitVSync, RunFrameTask,
         RunPointerCallback, RunFlowsCallback
<1>8. ASSUME ConsumeFrame \/ UNCHANGED vars PROVE OneVsyncAwaited'
  BY <1>8, WaiterUnchanged DEF ConsumeFrame, vars, waiterVars
<1>. QED
  BY <1>5, <1>6, <1>7, <1>8 DEF Next, Vsync

-----------------------------------------------------------------------------
(* The request token and the pauses of the Dart event loop.                *)

LEMMA OneType == \A c : One(c) \in {0, 1}
BY DEF One

LEMMA CountAppend ==
  ASSUME Typing, NEW e \in Tasks, uiTasks' = Append(uiTasks, e), NEW x
  PROVE  Count(x)' = Count(x) + One(e = x)
BY PlacesAppend DEF Typing, Count

LEMMA CountTake ==
  ASSUME Typing, NEW e, Takes(e), uiTasks' = Tail(uiTasks), NEW x
  PROVE  Count(x)' \in Nat /\ Count(x) = Count(x)' + One(e = x)
BY CountPop DEF Takes, Count

LEMMA CountSwap ==
  ASSUME Typing, NEW e, NEW f \in Tasks, Takes(e),
         uiTasks' = Append(Tail(uiTasks), f), NEW x
  PROVE  Count(x)' = Count(x) - One(e = x) + One(f = x)
<1>1. /\ Tail(uiTasks) \in Seq(Tasks)
      /\ Count(x) = Cardinality(Places(Tail(uiTasks), x)) + One(e = x)
      /\ Cardinality(Places(Tail(uiTasks), x)) \in Nat
  BY CountPop DEF Takes
<1>2. Cardinality(Places(Append(Tail(uiTasks), f), x))
        = Cardinality(Places(Tail(uiTasks), x)) + One(f = x)
  <2>1. \A q \in Seq(Tasks) :
          Cardinality(Places(Append(q, f), x)) = Cardinality(Places(q, x)) + One(f = x)
    BY PlacesAppend
  <2>. QED
    BY <1>1, <2>1
<1>3. One(e = x) \in {0, 1} /\ One(f = x) \in {0, 1}
  BY DEF One
<1>4. Count(x)' = Cardinality(Places(Append(Tail(uiTasks), f), x))
  BY DEF Count
<1>. QED
  BY <1>1, <1>2, <1>3, <1>4

LEMMA CountSame ==
  ASSUME uiTasks' = uiTasks, NEW x
  PROVE  Count(x)' = Count(x)
BY DEF Count

\* The numbers that the token and the pauses are about.
LEMMA TokenNumbers ==
  ASSUME Typing, OneRequestToken, PausesMatchFrames
  PROVE  /\ semaphore \in Nat /\ pauses \in Int
         /\ Count("await") \in Nat /\ Count("frame") \in Nat
         /\ One(callback) \in {0, 1} /\ One(firing.callback) \in {0, 1}
         /\ One(firing.paused) \in {0, 1} /\ One(inFrame) \in {0, 1}
         /\ semaphore + Count("await") + One(callback) + One(firing.callback)
              + Count("frame") = 1
         /\ pauses = One(firing.paused) + Count("frame") + One(inFrame)
BY CountType, OneType DEF Typing, OneRequestToken, PausesMatchFrames

\* A request that takes the token.
LEMMA TakeTokenToken ==
  ASSUME Typing, OneRequestToken, PausesMatchFrames, semaphore > 0,
         semaphore' = semaphore - 1, uiTasks' = Append(uiTasks, "await"),
         UNCHANGED <<callback, firing, pauses, inFrame>>
  PROVE  OneRequestToken' /\ PausesMatchFrames'
<1>1. Count("await")' = Count("await") + 1 /\ Count("frame")' = Count("frame")
  BY CountAppend, CountType, TaskTypes DEF One
<1>2. OneRequestToken'
  BY <1>1, TokenNumbers DEF OneRequestToken
<1>3. PausesMatchFrames'
  BY <1>1, TokenNumbers DEF PausesMatchFrames
<1>. QED
  BY <1>2, <1>3

LEMMA RunAwaitVSyncToken ==
  ASSUME Typing, OneRequestToken, PausesMatchFrames, RunAwaitVSync
  PROVE  OneRequestToken' /\ PausesMatchFrames'
<1>1. /\ Count("await") = Count("await")' + 1 /\ Count("await")' \in Nat
      /\ Count("frame") = Count("frame")'
  BY CountTake, CountType DEF RunAwaitVSync, One
<1>2. /\ callback' = TRUE /\ One(callback') = 1
      /\ UNCHANGED <<semaphore, firing, pauses, inFrame>>
  BY DEF RunAwaitVSync, AsyncWaitForVsync, animatorVars, One
<1>3. Count("await")' = 0 /\ semaphore = 0 /\ Count("frame") = 0
      /\ One(callback) = 0 /\ One(firing.callback) = 0
  BY <1>1, TokenNumbers
<1>4. OneRequestToken'
  BY <1>1, <1>2, <1>3 DEF OneRequestToken
<1>5. PausesMatchFrames'
  BY <1>1, <1>2, TokenNumbers DEF PausesMatchFrames
<1>. QED
  BY <1>4, <1>5

\* A frame task finds the token in its own hands.
LEMMA FrameTaskHasToken ==
  ASSUME Typing, OneRequestToken, PausesMatchFrames, Takes("frame")
  PROVE  /\ semaphore = 0 /\ Count("frame") = 1 /\ Count("await") = 0
         /\ ~callback /\ ~firing.callback /\ ~inFrame
<1>1. Count("frame") >= 1
  <2>1. /\ Count("frame") = Cardinality(Places(Tail(uiTasks), "frame")) + 1
        /\ Cardinality(Places(Tail(uiTasks), "frame")) \in Nat
    BY CountPop DEF Takes, One
  <2>. QED
    BY <2>1
<1>2. /\ semaphore = 0 /\ Count("frame") = 1 /\ Count("await") = 0
      /\ One(callback) = 0 /\ One(firing.callback) = 0
  BY <1>1, TokenNumbers
<1>. QED
  BY <1>2 DEF Takes, UiIdle, One

LEMMA RunFrameTaskToken ==
  ASSUME Typing, OneRequestToken, PausesMatchFrames, RunFrameTask
  PROVE  OneRequestToken' /\ PausesMatchFrames'
<1>1. /\ semaphore = 0 /\ Count("frame") = 1 /\ Count("await") = 0
      /\ One(callback) = 0 /\ One(firing.callback) = 0 /\ One(inFrame) = 0
  BY FrameTaskHasToken DEF RunFrameTask, One
<1>2. UNCHANGED <<callback, firing>>
  BY DEF RunFrameTask
<1>3. CASE BeginFrame
  <2>1. Count("frame")' = 0 /\ Count("await")' = 0
    BY <1>1, <1>3, CountTake DEF RunFrameTask, BeginFrame, One
  <2>2. semaphore' = 1 /\ One(inFrame') = 1 /\ pauses' = pauses
    BY <1>1, <1>3 DEF BeginFrame, One
  <2>3. OneRequestToken'
    BY <1>1, <1>2, <2>1, <2>2 DEF OneRequestToken
  <2>4. PausesMatchFrames'
    BY <1>1, <1>2, <2>1, <2>2, TokenNumbers DEF PausesMatchFrames
  <2>. QED
    BY <2>3, <2>4
<1>4. CASE PipelineFull
  <2>1. Count("frame")' = 0 /\ Count("await")' = 1
    BY <1>1, <1>4, CountSwap, TaskTypes DEF RunFrameTask, PipelineFull, One
  <2>2. semaphore' = 0 /\ inFrame' = inFrame /\ pauses' = pauses - 1
    BY <1>1, <1>4 DEF PipelineFull
  <2>3. OneRequestToken'
    BY <1>1, <1>2, <2>1, <2>2 DEF OneRequestToken
  <2>4. PausesMatchFrames'
    BY <1>1, <1>2, <2>1, <2>2, TokenNumbers DEF PausesMatchFrames
  <2>. QED
    BY <2>3, <2>4
<1>5. CASE DrawLastLayerTrees
  <2>1. Count("frame")' = 0 /\ Count("await")' = 0
    BY <1>1, <1>5, CountTake DEF RunFrameTask, DrawLastLayerTrees, One
  <2>2. semaphore' = 1 /\ inFrame' = inFrame /\ pauses' = pauses - 1
    BY <1>1, <1>5 DEF DrawLastLayerTrees
  <2>3. OneRequestToken'
    BY <1>1, <1>2, <2>1, <2>2 DEF OneRequestToken
  <2>4. PausesMatchFrames'
    BY <1>1, <1>2, <2>1, <2>2, TokenNumbers DEF PausesMatchFrames
  <2>. QED
    BY <2>3, <2>4
<1>. QED
  BY <1>3, <1>4, <1>5 DEF RunFrameTask

LEMMA EndFrameTaskToken ==
  ASSUME Typing, OneRequestToken, PausesMatchFrames, EndFrameTask
  PROVE  OneRequestToken' /\ PausesMatchFrames'
<1>1. Count("frame")' = Count("frame") /\ Count("await")' = Count("await")
  BY CountSame DEF EndFrameTask
<1>2. /\ One(inFrame) = 1 /\ One(inFrame') = 0 /\ pauses' = pauses - 1
      /\ UNCHANGED <<semaphore, callback, firing>>
  BY DEF EndFrameTask, One
<1>3. OneRequestToken'
  BY <1>1, <1>2, TokenNumbers DEF OneRequestToken
<1>4. PausesMatchFrames'
  BY <1>1, <1>2, TokenNumbers DEF PausesMatchFrames
<1>. QED
  BY <1>3, <1>4

\* A secondary callback is posted, or taken from the queue.
LEMMA SecondaryTaskToken ==
  ASSUME Typing, OneRequestToken, PausesMatchFrames, NEW id \in SecondaryIds,
         \/ uiTasks' = Append(uiTasks, id)
         \/ Takes(id) /\ uiTasks' = Tail(uiTasks),
         UNCHANGED <<semaphore, callback, pauses, inFrame>>,
         firing'.callback = firing.callback, firing'.paused = firing.paused
  PROVE  OneRequestToken' /\ PausesMatchFrames'
<1>1. Count("await")' = Count("await") /\ Count("frame")' = Count("frame")
  <2>1. id # "await" /\ id # "frame" /\ id \in Tasks
    BY TaskTypes
  <2>2. CASE uiTasks' = Append(uiTasks, id)
    BY <2>1, <2>2, CountAppend, CountType DEF One
  <2>3. CASE Takes(id) /\ uiTasks' = Tail(uiTasks)
    BY <2>1, <2>3, CountTake DEF One
  <2>. QED
    BY <2>2, <2>3
<1>2. OneRequestToken'
  BY <1>1, TokenNumbers DEF OneRequestToken
<1>3. PausesMatchFrames'
  BY <1>1, TokenNumbers DEF PausesMatchFrames
<1>. QED
  BY <1>2, <1>3

LEMMA TokenUnchanged ==
  ASSUME OneRequestToken, PausesMatchFrames,
         UNCHANGED <<semaphore, uiTasks, callback, firing, pauses, inFrame>>
  PROVE  OneRequestToken' /\ PausesMatchFrames'
BY DEF OneRequestToken, PausesMatchFrames, Count

LEMMA FireCallbackToken ==
  ASSUME Typing, OneRequestToken, PausesMatchFrames, FireCallback,
         UNCHANGED <<semaphore, inFrame>>
  PROVE  OneRequestToken' /\ PausesMatchFrames'
<1>1. Count("await")' = Count("await") /\ Count("frame")' = Count("frame")
  BY CountSame DEF FireCallback
<1>2. /\ callback' = FALSE /\ firing'.callback = callback /\ firing.callback = FALSE
      /\ firing'.paused = FALSE /\ firing.paused = FALSE /\ pauses' = pauses
  BY DEF FireCallback, NotFiring
<1>3. /\ One(callback') = 0 /\ One(firing'.callback) = One(callback)
      /\ One(firing.callback) = 0 /\ One(firing'.paused) = One(firing.paused)
  BY <1>2 DEF One
<1>4. OneRequestToken'
  BY <1>1, <1>3, TokenNumbers DEF OneRequestToken
<1>5. PausesMatchFrames'
  BY <1>1, <1>2, <1>3, TokenNumbers DEF PausesMatchFrames
<1>. QED
  BY <1>4, <1>5

LEMMA PauseToken ==
  ASSUME Typing, OneRequestToken, PausesMatchFrames, PauseDartEventLoopTasks,
         UNCHANGED <<semaphore, inFrame>>
  PROVE  OneRequestToken' /\ PausesMatchFrames'
<1>1. Count("await")' = Count("await") /\ Count("frame")' = Count("frame")
  BY CountSame DEF PauseDartEventLoopTasks
<1>2. /\ firing'.callback = firing.callback /\ ~firing.paused /\ firing'.paused
      /\ pauses' = pauses + 1 /\ callback' = callback
  BY DEF PauseDartEventLoopTasks, Typing
<1>3. /\ One(firing.paused) = 0 /\ One(firing'.paused) = 1 /\ pauses' = pauses + 1
      /\ One(callback') = One(callback) /\ One(firing'.callback) = One(firing.callback)
  BY <1>2 DEF One
<1>4. OneRequestToken'
  BY <1>1, <1>3, TokenNumbers DEF OneRequestToken
<1>5. PausesMatchFrames'
  BY <1>1, <1>3, TokenNumbers DEF PausesMatchFrames
<1>. QED
  BY <1>4, <1>5

LEMMA PostFrameToken ==
  ASSUME Typing, OneRequestToken, PausesMatchFrames, PostFrameCallback,
         UNCHANGED <<semaphore, inFrame>>
  PROVE  OneRequestToken' /\ PausesMatchFrames'
<1>1. Count("await")' = Count("await") /\ Count("frame")' = Count("frame") + 1
  BY CountAppend, CountType, TaskTypes DEF PostFrameCallback, One
<1>2. /\ firing.callback /\ firing'.callback = FALSE /\ firing.paused
      /\ firing'.paused = FALSE /\ pauses' = pauses /\ callback' = callback
  BY DEF PostFrameCallback, Typing
<1>3. /\ One(firing.callback) = 1 /\ One(firing'.callback) = 0
      /\ One(firing.paused) = 1 /\ One(firing'.paused) = 0
      /\ One(callback') = One(callback) /\ pauses' = pauses
  BY <1>2 DEF One
<1>4. OneRequestToken'
  BY <1>1, <1>3, TokenNumbers DEF OneRequestToken
<1>5. PausesMatchFrames'
  BY <1>1, <1>3, TokenNumbers DEF PausesMatchFrames
<1>. QED
  BY <1>4, <1>5

LEMMA TokenStep ==
  ASSUME Typing, OneRequestToken, PausesMatchFrames, [Next]_vars
  PROVE  OneRequestToken' /\ PausesMatchFrames'
<1>1. CASE UiStep
  <2>1. CASE Arm \/ ScheduleNextCallback
    BY <2>1, TokenUnchanged
       DEF Arm, AwaitVSync, ScheduleNextCallback, ScheduleSecondaryCallback, animatorVars
  <2>2. CASE RunPointerCallback
    BY <2>2, SecondaryTaskToken, TaskTypes DEF RunPointerCallback, animatorVars
  <2>3. CASE RunFlowsCallback
    BY <2>3, SecondaryTaskToken, TaskTypes DEF RunFlowsCallback, animatorVars
  <2>. QED
    BY <1>1, <2>1, <2>2, <2>3, EndFrameTaskToken, RunAwaitVSyncToken, RunFrameTaskToken
       DEF UiStep
<1>2. CASE AppStep
  <2>1. ASSUME NEW regenerateLayerTrees \in BOOLEAN, RequestFrame(regenerateLayerTrees)
        PROVE  OneRequestToken' /\ PausesMatchFrames'
    BY <2>1, TakeTokenToken, TokenUnchanged DEF RequestFrame
  <2>2. CASE Render \/ OnAllViewsRendered \/ DispatchPacket
    BY <2>2, TokenUnchanged
       DEF Render, OnAllViewsRendered, DispatchPacket, waiterVars, animatorVars
  <2>. QED
    BY <1>2, <2>1, <2>2 DEF AppStep
<1>3. CASE Vsync
  <2>1. UNCHANGED <<semaphore, inFrame>>
    BY <1>3 DEF Vsync, animatorVars
  <2>2. ASSUME NEW id \in SecondaryIds, PostSecondaryCallback(id)
        PROVE  OneRequestToken' /\ PausesMatchFrames'
    <3>1. firing'.callback = firing.callback /\ firing'.paused = firing.paused
      BY <2>2 DEF PostSecondaryCallback, Typing
    <3>. QED
      BY <2>1, <2>2, <3>1, SecondaryTaskToken DEF PostSecondaryCallback
  <2>. QED
    BY <1>3, <2>1, <2>2, FireCallbackToken, PauseToken, PostFrameToken
       DEF Vsync, VsyncStep
<1>4. CASE ConsumeFrame \/ UNCHANGED vars
  BY <1>4, TokenUnchanged DEF ConsumeFrame, vars, waiterVars, animatorVars
<1>. QED
  BY <1>1, <1>2, <1>3, <1>4 DEF Next

-----------------------------------------------------------------------------
(* Requests, packets and types.                                            *)

LEMMA RequestStep ==
  ASSUME Typing, OneRequestToken, PausesMatchFrames, TokenTakenIsScheduled,
         RegenerationIsUnderWay, [Next]_vars
  PROVE  TokenTakenIsScheduled' /\ RegenerationIsUnderWay'
<1>1. ASSUME UNCHANGED <<semaphore, scheduled, regenerate>>
      PROVE  TokenTakenIsScheduled' /\ RegenerationIsUnderWay'
  BY <1>1 DEF TokenTakenIsScheduled, RegenerationIsUnderWay
<1>2. ASSUME NEW regenerateLayerTrees \in BOOLEAN, RequestFrame(regenerateLayerTrees)
      PROVE  TokenTakenIsScheduled' /\ RegenerationIsUnderWay'
  <2>1. semaphore > 0 => semaphore = 1
    BY TokenNumbers
  <2>. QED
    BY <1>2, <2>1 DEF RequestFrame, TokenTakenIsScheduled, RegenerationIsUnderWay
<1>3. ASSUME RunFrameTask
      PROVE  TokenTakenIsScheduled' /\ RegenerationIsUnderWay'
  <2>1. semaphore = 0
    BY <1>3, FrameTaskHasToken DEF RunFrameTask
  <2>2. CASE BeginFrame
    BY <2>1, <2>2 DEF BeginFrame, TokenTakenIsScheduled, RegenerationIsUnderWay
  <2>3. CASE PipelineFull
    BY <2>1, <2>3 DEF PipelineFull, TokenTakenIsScheduled, RegenerationIsUnderWay
  <2>4. CASE ~regenerate /\ DrawLastLayerTrees
    BY <2>1, <2>4 DEF DrawLastLayerTrees, TokenTakenIsScheduled, RegenerationIsUnderWay
  <2>. QED
    BY <1>3, <2>2, <2>3, <2>4 DEF RunFrameTask
<1>4. CASE UiStep
  BY <1>1, <1>3, <1>4 DEF UiStep, Arm, ScheduleNextCallback, EndFrameTask,
     RunAwaitVSync, RunPointerCallback, RunFlowsCallback, animatorVars
<1>5. CASE AppStep
  BY <1>1, <1>2, <1>5
     DEF AppStep, Render, OnAllViewsRendered, DispatchPacket, animatorVars
<1>6. CASE Vsync \/ ConsumeFrame \/ UNCHANGED vars
  BY <1>1, <1>6 DEF Vsync, ConsumeFrame, vars, animatorVars
<1>. QED
  BY <1>4, <1>5, <1>6 DEF Next

LEMMA PacketStep ==
  ASSUME Typing, PacketsInOrder, [Next]_vars
  PROVE  PacketsInOrder'
<1>1. ASSUME UNCHANGED pointerVars PROVE PacketsInOrder'
  BY <1>1 DEF PacketsInOrder, pointerVars
<1>2. ASSUME DispatchPacket PROVE PacketsInOrder'
  BY <1>2 DEF DispatchPacket, DoDispatchPacket, PacketsInOrder, Typing
<1>3. ASSUME RunPointerCallback PROVE PacketsInOrder'
  BY <1>3 DEF RunPointerCallback, DoDispatchPacket, PacketsInOrder, Typing
<1>4. CASE UiStep
  BY <1>1, <1>3, <1>4 DEF UiStep, Arm, ScheduleNextCallback, EndFrameTask,
     RunAwaitVSync, RunFrameTask, RunFlowsCallback
<1>5. CASE AppStep
  BY <1>1, <1>2, <1>5 DEF AppStep, RequestFrame, Render, OnAllViewsRendered
<1>6. CASE Vsync \/ ConsumeFrame \/ UNCHANGED vars
  BY <1>1, <1>6 DEF Vsync, ConsumeFrame, vars
<1>. QED
  BY <1>4, <1>5, <1>6 DEF Next

LEMMA CallbackTypeStep ==
  ASSUME Typing, [Next]_vars
  PROVE  /\ callback' \in BOOLEAN
         /\ secondary' \subseteq SecondaryIds
         /\ firing' \in [callback : BOOLEAN, paused : BOOLEAN, ids : SUBSET SecondaryIds]
<1> DEFINE Goal == /\ callback \in BOOLEAN
                   /\ secondary \subseteq SecondaryIds
                   /\ firing \in [callback : BOOLEAN, paused : BOOLEAN,
                                  ids : SUBSET SecondaryIds]
<1>1. ASSUME UNCHANGED <<callback, secondary, firing>> PROVE Goal'
  BY <1>1 DEF Typing
<1>2. ASSUME RunAwaitVSync PROVE Goal'
  BY <1>2 DEF RunAwaitVSync, AsyncWaitForVsync, Typing
<1>3. ASSUME ScheduleNextCallback PROVE Goal'
  <2>1. Head(calls) \in SecondaryIds
    BY <1>3, HeadTailProperties DEF ScheduleNextCallback, Typing
  <2>. QED
    BY <1>3, <2>1 DEF ScheduleNextCallback, ScheduleSecondaryCallback, Typing
<1>4. ASSUME FireCallback PROVE Goal'
  BY <1>4 DEF FireCallback, Typing
<1>5. ASSUME PauseDartEventLoopTasks PROVE Goal'
  BY <1>5 DEF PauseDartEventLoopTasks, Typing
<1>6. ASSUME PostFrameCallback PROVE Goal'
  BY <1>6 DEF PostFrameCallback, Typing
<1>7. ASSUME NEW id \in SecondaryIds, PostSecondaryCallback(id) PROVE Goal'
  <2>1. firing' = [firing EXCEPT !.ids = firing.ids \ {id}]
    BY <1>7 DEF PostSecondaryCallback
  <2>. QED
    BY <1>7, <2>1 DEF PostSecondaryCallback, Typing
<1>8. CASE UiStep
  BY <1>1, <1>2, <1>3, <1>8 DEF UiStep, Arm, AwaitVSync, EndFrameTask, RunFrameTask,
     RunPointerCallback, RunFlowsCallback
<1>9. CASE AppStep
  BY <1>1, <1>9 DEF AppStep, RequestFrame, Render, OnAllViewsRendered, DispatchPacket,
     waiterVars
<1>10. CASE Vsync
  BY <1>4, <1>5, <1>6, <1>7, <1>10 DEF Vsync, VsyncStep
<1>11. CASE ConsumeFrame \/ UNCHANGED vars
  BY <1>1, <1>11 DEF ConsumeFrame, vars, waiterVars
<1>. QED
  BY <1>8, <1>9, <1>10, <1>11 DEF Next

LEMMA QueueTypeStep ==
  ASSUME Typing, [Next]_vars
  PROVE  uiTasks' \in Seq(Tasks) /\ calls' \in Seq(SecondaryIds)
<1> DEFINE Goal == uiTasks \in Seq(Tasks) /\ calls \in Seq(SecondaryIds)
<1>1. ASSUME UNCHANGED <<uiTasks, calls>> PROVE Goal'
  BY <1>1 DEF Typing
<1>2. ASSUME NEW task \in Tasks, uiTasks' = Append(uiTasks, task), calls' = calls
      PROVE  Goal'
  BY <1>2, AppendProperties DEF Typing
<1>3. ASSUME uiTasks # <<>>, uiTasks' = Tail(uiTasks), calls' = calls PROVE Goal'
  BY <1>3, HeadTailProperties DEF Typing
<1>4. ASSUME RunFrameTask PROVE Goal'
  <2>1. Tail(uiTasks) \in Seq(Tasks) /\ calls' = calls
    BY <1>4, HeadTailProperties DEF RunFrameTask, Takes, Typing
  <2>2. Append(Tail(uiTasks), "await") \in Seq(Tasks)
    BY <2>1, AppendProperties, TaskTypes
  <2>. QED
    BY <1>4, <2>1, <2>2
       DEF RunFrameTask, BeginFrame, PipelineFull, DrawLastLayerTrees, Typing
<1>5. ASSUME RunPointerCallback PROVE Goal'
  <2>1. Tail(uiTasks) \in Seq(Tasks)
    BY <1>5, HeadTailProperties DEF RunPointerCallback, Takes, Typing
  <2>2. <<"flows", "pointer">> \in Seq(SecondaryIds)
    BY TaskTypes
  <2>. QED
    BY <1>5, <2>1, <2>2 DEF RunPointerCallback, Typing
<1>6. ASSUME ScheduleNextCallback PROVE Goal'
  BY <1>6, HeadTailProperties DEF ScheduleNextCallback, ScheduleSecondaryCallback, Typing
<1>7. ASSUME DispatchPacket PROVE Goal'
  <2>1. /\ <<"flows", "pointer", "pointer">> \in Seq(SecondaryIds)
        /\ <<"pointer">> \in Seq(SecondaryIds)
        /\ <<"flows", "pointer">> \in Seq(SecondaryIds)
    BY TaskTypes
  <2>. QED
    BY <1>7, <2>1 DEF DispatchPacket, waiterVars, Typing
<1>8. ASSUME NEW regenerateLayerTrees \in BOOLEAN, RequestFrame(regenerateLayerTrees)
      PROVE  Goal'
  BY <1>1, <1>2, <1>8, TaskTypes DEF RequestFrame
<1>9. CASE UiStep
  BY <1>1, <1>3, <1>4, <1>5, <1>6, <1>9 DEF UiStep, Arm, AwaitVSync, EndFrameTask,
     RunAwaitVSync, RunFlowsCallback, Takes
<1>10. CASE AppStep
  BY <1>1, <1>7, <1>8, <1>10 DEF AppStep, Render, OnAllViewsRendered, waiterVars
<1>11. CASE Vsync
  BY <1>1, <1>2, <1>11, TaskTypes DEF Vsync, VsyncStep, FireCallback,
     PauseDartEventLoopTasks, PostFrameCallback, PostSecondaryCallback
<1>12. CASE ConsumeFrame \/ UNCHANGED vars
  BY <1>1, <1>12 DEF ConsumeFrame, vars, waiterVars
<1>. QED
  BY <1>9, <1>10, <1>11, <1>12 DEF Next

LEMMA NumberTypeStep ==
  ASSUME Typing, [Next]_vars
  PROVE  /\ armed' \in Nat /\ pauses' \in Int /\ semaphore' \in Nat
         /\ sent' \in Nat /\ pending' \in Nat /\ delivered' \in Nat
<1> DEFINE Goal == /\ armed \in Nat /\ pauses \in Int /\ semaphore \in Nat
                   /\ sent \in Nat /\ pending \in Nat /\ delivered \in Nat
<1>1. ASSUME UNCHANGED <<armed, pauses, semaphore, pointerVars>> PROVE Goal'
  BY <1>1 DEF Typing, pointerVars
<1>2. ASSUME RunFrameTask PROVE Goal'
  BY <1>2 DEF RunFrameTask, BeginFrame, PipelineFull, DrawLastLayerTrees, Typing,
     pointerVars
<1>3. ASSUME EndFrameTask PROVE Goal'
  BY <1>3 DEF EndFrameTask, Typing, pointerVars
<1>4. ASSUME RunPointerCallback PROVE Goal'
  BY <1>4 DEF RunPointerCallback, DoDispatchPacket, Typing, animatorVars
<1>5. ASSUME DispatchPacket PROVE Goal'
  BY <1>5 DEF DispatchPacket, DoDispatchPacket, Typing, waiterVars, animatorVars
<1>6. ASSUME NEW regenerateLayerTrees \in BOOLEAN, RequestFrame(regenerateLayerTrees)
      PROVE  Goal'
  BY <1>6 DEF RequestFrame, Typing, pointerVars
<1>7. CASE UiStep
  <2>1. ASSUME Arm PROVE Goal'
    BY <2>1 DEF Arm, AwaitVSync, Typing, animatorVars, pointerVars
  <2>. QED
    BY <1>1, <1>2, <1>3, <1>4, <1>7, <2>1 DEF UiStep, RunAwaitVSync, AsyncWaitForVsync,
       RunFlowsCallback, ScheduleNextCallback, ScheduleSecondaryCallback, animatorVars
<1>8. CASE AppStep
  BY <1>1, <1>5, <1>6, <1>8 DEF AppStep, Render, OnAllViewsRendered, waiterVars
<1>9. CASE Vsync
  BY <1>9 DEF Vsync, VsyncStep, FireCallback, PauseDartEventLoopTasks,
     PostFrameCallback, PostSecondaryCallback, Typing, animatorVars, pointerVars
<1>10. CASE ConsumeFrame \/ UNCHANGED vars
  BY <1>1, <1>10 DEF ConsumeFrame, vars, waiterVars, animatorVars
<1>. QED
  BY <1>7, <1>8, <1>9, <1>10 DEF Next

LEMMA TypingStep ==
  ASSUME Typing, [Next]_vars
  PROVE  Typing'
BY CallbackTypeStep, QueueTypeStep, NumberTypeStep DEF Typing

-----------------------------------------------------------------------------
(* The inductive invariant of the frame scheduling holds throughout.       *)
THEOREM SchedulingInvariant == Spec => []SchedulingInv
<1>1. Init => SchedulingInv
  BY SchedulingInitInv
<1>2. SchedulingInv /\ [Next]_vars => SchedulingInv'
  BY TypingStep, OneVsyncAwaitedStep, TokenStep, RequestStep, PacketStep
     DEF SchedulingInv
<1>. QED
  BY <1>1, <1>2, PTL DEF Spec

(* A vsync is owed exactly while somebody waits for one, and never two     *)
(* (vsync_waiter.cc:27-85).                                                *)
THEOREM OneVsyncIsAwaited == Spec => []OneVsyncAwaited
<1>1. SchedulingInv => OneVsyncAwaited
  BY DEF SchedulingInv
<1>. QED
  BY <1>1, SchedulingInvariant, PTL

(* The token of pending_frame_semaphore_ is neither lost nor doubled       *)
(* (animator.cc:92, 228, 251).                                             *)
THEOREM RequestTokenIsConserved == Spec => []OneRequestToken
<1>1. SchedulingInv => OneRequestToken
  BY DEF SchedulingInv
<1>. QED
  BY <1>1, SchedulingInvariant, PTL

(* A recorded request to regenerate the layer trees always has a vsync     *)
(* request under way that will serve it (animator.cc:239-271).             *)
THEOREM RegenerationsAreUnderWay == Spec => []RegenerationIsUnderWay
<1>1. SchedulingInv => RegenerationIsUnderWay
  BY DEF SchedulingInv
<1>. QED
  BY <1>1, SchedulingInvariant, PTL

(* The Dart event loop is paused once per frame callback and resumed after *)
(* each of them (vsync_waiter.cc:117-145).                                 *)
THEOREM PausesAreBalanced == Spec => []PausesMatchFrames
<1>1. SchedulingInv => PausesMatchFrames
  BY DEF SchedulingInv
<1>. QED
  BY <1>1, SchedulingInvariant, PTL

(* No pointer packet is dropped, repeated or overtaken                     *)
(* (pointer_data_dispatcher.cc:28-74).                                     *)
THEOREM PacketsStayInOrder == Spec => []PacketsInOrder
<1>1. SchedulingInv => PacketsInOrder
  BY DEF SchedulingInv
<1>. QED
  BY <1>1, SchedulingInvariant, PTL

-----------------------------------------------------------------------------
(* The rest of the types: flags, slots of the pipeline and trace flows.    *)

Flags ==
  /\ arming \in BOOLEAN
  /\ regenerate \in BOOLEAN
  /\ scheduled \in BOOLEAN
  /\ continuation \in BOOLEAN
  /\ recorder \in BOOLEAN
  /\ rendered \in BOOLEAN
  /\ inFrame \in BOOLEAN
  /\ inProgress \in BOOLEAN

\* A continuation holds one of the slots: what it commits finds room.
SlotsSuffice == queued \in Nat /\ queued + One(continuation) <= Depth

\* There is at most one trace flow for each packet delivered.
FlowsArePackets == sent <= MaxPackets /\ flows \in Nat /\ flows <= delivered

LEMMA FlagsStep ==
  ASSUME Flags, [Next]_vars
  PROVE  Flags'
<1> USE DEF Flags
<1>1. CASE UiStep
  <2>1. CASE Arm \/ ScheduleNextCallback
    BY <2>1 DEF Arm, AwaitVSync, ScheduleNextCallback, ScheduleSecondaryCallback, animatorVars,
       pointerVars, Awaited
  <2>2. CASE EndFrameTask
    BY <2>2 DEF EndFrameTask, EndFrame, pointerVars
  <2>3. CASE RunAwaitVSync
    BY <2>3 DEF RunAwaitVSync, AsyncWaitForVsync, Awaited, animatorVars, pointerVars
  <2>4. CASE RunFrameTask
    BY <2>4 DEF RunFrameTask, PipelineFull, BeginFrame, DrawLastLayerTrees, pointerVars
  <2>5. CASE RunPointerCallback \/ RunFlowsCallback
    BY <2>5 DEF RunPointerCallback, RunFlowsCallback, animatorVars, pointerVars
  <2>. QED
    BY <1>1, <2>1, <2>2, <2>3, <2>4, <2>5 DEF UiStep
<1>2. CASE AppStep
  <2>1. ASSUME NEW regenerateLayerTrees \in BOOLEAN, RequestFrame(regenerateLayerTrees)
        PROVE  Flags'
    BY <2>1 DEF RequestFrame, pointerVars
  <2>2. CASE Render
    BY <2>2 DEF Render, waiterVars, pointerVars
  <2>3. CASE OnAllViewsRendered
    BY <2>3 DEF OnAllViewsRendered, EndFrame, waiterVars, pointerVars
  <2>4. CASE DispatchPacket
    BY <2>4 DEF DispatchPacket, waiterVars, animatorVars
  <2>. QED
    BY <1>2, <2>1, <2>2, <2>3, <2>4 DEF AppStep
<1>3. CASE Vsync
  BY <1>3 DEF Vsync, VsyncStep, FireCallback, PauseDartEventLoopTasks, PostFrameCallback,
     PostSecondaryCallback, animatorVars, pointerVars
<1>4. CASE ConsumeFrame \/ UNCHANGED vars
  BY <1>4 DEF ConsumeFrame, vars, waiterVars, animatorVars, pointerVars
<1>. QED
  BY <1>1, <1>2, <1>3, <1>4 DEF Next

\* EndFrame hands the continuation's slot over to the frame.
LEMMA EndFrameSlots ==
  ASSUME Flags, SlotsSuffice, EndFrame
  PROVE  SlotsSuffice'
<1>1. Depth \in Nat
  BY FrameSchedulingAssumption
<1>2. CASE recorder /\ rendered /\ continuation
  <2>1. ~continuation' /\ queued' = queued + 1
    BY <1>2 DEF EndFrame
  <2>. QED
    BY <1>1, <1>2, <2>1 DEF SlotsSuffice, One
<1>3. CASE ~(recorder /\ rendered /\ continuation)
  <2>1. (continuation' <=> continuation) /\ queued' = queued
    BY <1>3 DEF EndFrame
  <2>. QED
    BY <1>1, <2>1 DEF SlotsSuffice, One
<1>. QED
  BY <1>2, <1>3

LEMMA SlotsStep ==
  ASSUME Flags, SlotsSuffice, [Next]_vars
  PROVE  SlotsSuffice'
<1>1. ASSUME UNCHANGED <<continuation, queued>> PROVE SlotsSuffice'
  BY <1>1 DEF SlotsSuffice
<1>2. Depth \in Nat
  BY FrameSchedulingAssumption
<1>3. ASSUME BeginFrame PROVE SlotsSuffice'
  BY <1>2, <1>3 DEF BeginFrame, SlotsSuffice, One
<1>4. ASSUME ConsumeFrame PROVE SlotsSuffice'
  BY <1>2, <1>4 DEF ConsumeFrame, SlotsSuffice, One
<1>5. CASE UiStep
  BY <1>1, <1>3, <1>5, EndFrameSlots
     DEF UiStep, Arm, ScheduleNextCallback, EndFrameTask, RunAwaitVSync, RunFrameTask,
         PipelineFull, DrawLastLayerTrees, RunPointerCallback, RunFlowsCallback, animatorVars
<1>6. CASE AppStep
  BY <1>1, <1>6, EndFrameSlots
     DEF AppStep, RequestFrame, Render, OnAllViewsRendered, DispatchPacket, animatorVars
<1>7. CASE Vsync \/ UNCHANGED vars
  BY <1>1, <1>7 DEF Vsync, vars, animatorVars
<1>. QED
  BY <1>4, <1>5, <1>6, <1>7 DEF Next

LEMMA FlowsStep ==
  ASSUME Typing, PacketsInOrder, FlowsArePackets, [Next]_vars
  PROVE  FlowsArePackets'
<1>1. MaxPackets \in Nat
  BY FrameSchedulingAssumption
<1>2. ASSUME UNCHANGED <<sent, delivered>>, flows' \in {flows, 0} PROVE FlowsArePackets'
  BY <1>1, <1>2 DEF FlowsArePackets, Typing
<1>3. ASSUME DispatchPacket PROVE FlowsArePackets'
  BY <1>1, <1>3 DEF DispatchPacket, DoDispatchPacket, PacketsInOrder, FlowsArePackets, Typing
<1>4. ASSUME RunPointerCallback PROVE FlowsArePackets'
  BY <1>1, <1>4 DEF RunPointerCallback, DoDispatchPacket, PacketsInOrder, FlowsArePackets, Typing
<1>5. CASE UiStep
  BY <1>2, <1>4, <1>5
     DEF UiStep, Arm, ScheduleNextCallback, EndFrameTask, RunAwaitVSync, RunFrameTask,
         DrawLastLayerTrees, RunFlowsCallback, pointerVars
<1>6. CASE AppStep
  BY <1>2, <1>3, <1>6 DEF AppStep, RequestFrame, Render, OnAllViewsRendered, pointerVars
<1>7. CASE Vsync \/ ConsumeFrame \/ UNCHANGED vars
  BY <1>2, <1>7 DEF Vsync, ConsumeFrame, vars, pointerVars
<1>. QED
  BY <1>3, <1>5, <1>6, <1>7 DEF Next

(* The variables keep their types for any depth and any number of packets: *)
(* the pipeline never holds more frames than it has slots, pauses of the   *)
(* Dart event loop are never taken back twice, and the platform owes one   *)
(* vsync at most (animator.cc:95-145, 212-232, vsync_waiter.cc:27-145).    *)
THEOREM SchedulingTypeCorrect == Spec => []TypeOK
<1>1. Init => Flags /\ SlotsSuffice /\ FlowsArePackets
  <2> SUFFICES ASSUME Init PROVE Flags /\ SlotsSuffice /\ FlowsArePackets
    OBVIOUS
  <2>1. Flags
    BY DEF Init, WaiterInit, Flags
  <2>2. SlotsSuffice /\ FlowsArePackets
    BY FrameSchedulingAssumption DEF Init, SlotsSuffice, FlowsArePackets, One
  <2>. QED
    BY <2>1, <2>2
<1>2. ASSUME SchedulingInv, Flags, SlotsSuffice, FlowsArePackets, [Next]_vars
      PROVE  (Flags /\ SlotsSuffice /\ FlowsArePackets)'
  BY <1>2, FlagsStep, SlotsStep, FlowsStep DEF SchedulingInv
<1>3. ASSUME SchedulingInv, Flags, SlotsSuffice, FlowsArePackets PROVE TypeOK
  <2>1. Depth \in Nat /\ MaxPackets \in Nat
    BY FrameSchedulingAssumption
  <2>2. armed \in 0..1
    BY <1>3 DEF SchedulingInv, OneVsyncAwaited, Typing
  <2>3. semaphore \in 0..1 /\ pauses \in Nat
    <3>1. Count("await") \in Nat /\ Count("frame") \in Nat
      BY <1>3, CountType DEF SchedulingInv
    <3>2. /\ One(callback) \in {0, 1} /\ One(firing.callback) \in {0, 1}
          /\ One(firing.paused) \in {0, 1} /\ One(inFrame) \in {0, 1}
      BY OneType
    <3>3. semaphore \in Nat /\ OneRequestToken /\ PausesMatchFrames
      BY <1>3 DEF SchedulingInv, Typing
    <3>. QED
      BY <3>1, <3>2, <3>3 DEF OneRequestToken, PausesMatchFrames
  <2>4. queued \in 0..Depth
    BY <1>3, <2>1, OneType DEF SlotsSuffice
  <2>5. sent \in 0..MaxPackets /\ pending \in 0..MaxPackets /\ delivered \in 0..MaxPackets
    BY <1>3, <2>1 DEF SchedulingInv, PacketsInOrder, FlowsArePackets, Typing
  <2>6. flows \in 0..MaxPackets
    BY <1>3, <2>1, <2>5 DEF FlowsArePackets
  <2>. QED
    BY <1>3, <2>2, <2>3, <2>4, <2>5, <2>6
       DEF SchedulingInv, Typing, Flags, TypeOK, WaiterTypeOK
<1>. QED
  BY <1>1, <1>2, <1>3, SchedulingInvariant, PTL DEF Spec
=============================================================================
