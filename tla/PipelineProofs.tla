--------------------------- MODULE PipelineProofs ---------------------------
(***************************************************************************)
(* Proofs about the pipeline, for every set of threads, every set of       *)
(* resources and every depth, and about the frame path that uses it, for   *)
(* every number of frames, redraws and lease terms, with and without the   *)
(* merging of threads.                                                     *)
(*                                                                         *)
(* Pipeline: the inductive invariant is PipelineInv.  The typing alone is  *)
(* not inductive, since nothing in it bounds the semaphores or keeps a pop *)
(* from an empty deque; the two counting equations are.                    *)
(*                                                                         *)
(* FramePipeline: the Animator and the Rasterizer use the pipeline as      *)
(* Pipeline allows (FramesUsePipeline), so everything shown of the         *)
(* pipeline holds of the frame path; what has to be shown for this is that *)
(* only real frames are put into it, which is the invariant FrameInv.      *)
(* PathInv ties the place of a thread in Draw to what it holds of the      *)
(* pipeline and, until two threads work on frames at once, orders the      *)
(* frames from the screen over the one being drawn and the queue to the    *)
(* last one built.                                                         *)
(***************************************************************************)
EXTENDS FramePipeline, FiniteSetTheorems, SequenceTheorems, TLAPS

-----------------------------------------------------------------------------
(* The class template Pipeline.                                            *)

\* The part of PipelineTypeOK that needs no counting.
Typing ==
  /\ empty \in Nat
  /\ available \in Nat
  /\ inflight \in Int
  /\ queue \in Seq(Resources)
  /\ continuation \in [Threads -> Continuations]
  /\ stage \in [Threads -> Stages]
  /\ taken \in [Threads -> Resources \cup {NoItem}]

PipelineInv ==
  /\ Typing
  /\ SlotConservation
  /\ SignalsMatchItems
  /\ InflightNeverUndercounts
  /\ TakenWhileServing

-----------------------------------------------------------------------------
(* Counting a set of threads that one thread joins or leaves.              *)

LEMMA CountJoin ==
  ASSUME NEW S, NEW T, NEW t \in Threads, S \subseteq Threads, t \notin S,
         T = S \cup {t}
  PROVE  Cardinality(S) \in Nat /\ Cardinality(T) = Cardinality(S) + 1
BY PipelineAssumption, FS_Subset, FS_AddElement, FS_CardinalityType

LEMMA CountLeave ==
  ASSUME NEW S, NEW T, S \subseteq Threads, NEW t \in S, T = S \ {t}
  PROVE  Cardinality(S) \in Nat /\ Cardinality(S) >= 1
         /\ Cardinality(T) = Cardinality(S) - 1
<1>1. IsFiniteSet(S)
  BY PipelineAssumption, FS_Subset
<1>2. Cardinality(S) \in Nat /\ Cardinality(T) \in Nat
  BY <1>1, FS_CardinalityType, FS_RemoveElement
<1>3. Cardinality(T) = Cardinality(S) - 1
  BY <1>1, FS_RemoveElement
<1>. QED
  BY <1>2, <1>3

LEMMA CountType ==
  ASSUME NEW S, S \subseteq Threads
  PROVE  Cardinality(S) \in Nat
BY PipelineAssumption, FS_Subset, FS_CardinalityType

\* The four counts the invariant is about.
LEMMA Counts ==
  /\ Holders \subseteq Threads /\ Cardinality(Holders) \in Nat
  /\ Signallers \subseteq Threads /\ Cardinality(Signallers) \in Nat
  /\ Poppers \subseteq Threads /\ Cardinality(Poppers) \in Nat
  /\ Servers \subseteq Threads /\ Cardinality(Servers) \in Nat
BY CountType DEF Holders, Signallers, Poppers, Servers

\* What a step may use of the numbers of the invariant, equation by equation.
LEMMA SlotNumbers ==
  ASSUME PipelineInv
  PROVE  /\ Depth \in Nat /\ empty \in Nat /\ Cardinality(Holders) \in Nat
         /\ Len(queue) \in Nat /\ Cardinality(Servers) \in Nat
         /\ empty + Cardinality(Holders) + Len(queue) + Cardinality(Servers) = Depth
BY PipelineAssumption, Counts, LenProperties DEF PipelineInv, Typing, SlotConservation

LEMMA SignalNumbers ==
  ASSUME PipelineInv
  PROVE  /\ available \in Nat /\ Cardinality(Signallers) \in Nat
         /\ Cardinality(Poppers) \in Nat /\ Len(queue) \in Nat
         /\ available + Cardinality(Signallers) + Cardinality(Poppers) = Len(queue)
BY Counts, LenProperties DEF PipelineInv, Typing, SignalsMatchItems

LEMMA InflightNumbers ==
  ASSUME PipelineInv
  PROVE  /\ inflight \in Int /\ Cardinality(Holders) \in Nat
         /\ Len(queue) \in Nat /\ Cardinality(Servers) \in Nat
         /\ inflight >= Cardinality(Holders) + Len(queue) + Cardinality(Servers)
BY Counts, LenProperties DEF PipelineInv, Typing, InflightNeverUndercounts

-----------------------------------------------------------------------------
LEMMA PipelineInitInv == PipelineInit => PipelineInv
<1> SUFFICES ASSUME PipelineInit PROVE PipelineInv
  OBVIOUS
<1>1. Holders = {} /\ Signallers = {} /\ Poppers = {} /\ Servers = {}
  BY DEF PipelineInit, Holders, Signallers, Poppers, Servers
<1>2. Cardinality({}) = 0
  BY FS_EmptySet
<1>3. Typing
  BY PipelineAssumption DEF PipelineInit, Typing, Continuations, Stages
<1>4. Len(queue) = 0
  BY DEF PipelineInit
<1>5. SlotConservation /\ SignalsMatchItems /\ InflightNeverUndercounts
  BY <1>1, <1>2, <1>4, PipelineAssumption
     DEF PipelineInit, SlotConservation, SignalsMatchItems, InflightNeverUndercounts
<1>6. TakenWhileServing
  BY <1>1 DEF PipelineInit, TakenWhileServing
<1>. QED
  BY <1>3, <1>5, <1>6 DEF PipelineInv

LEMMA ProduceInv ==
  ASSUME PipelineInv, NEW t \in Threads, NEW kind \in {"append", "ifEmpty"},
         Produce(t, kind)
  PROVE  PipelineInv'
<1>1. Holders' = Holders \cup {t} /\ t \notin Holders
  BY DEF PipelineInv, Typing, Produce, Holders
<1>2. Signallers' = Signallers /\ Poppers' = Poppers /\ Servers' = Servers
  BY DEF Produce, Signallers, Poppers, Servers
<1>3. Cardinality(Holders') = Cardinality(Holders) + 1
  BY <1>1, Counts, CountJoin
<1>4. Typing'
  BY DEF PipelineInv, Typing, Produce, Continuations
<1>5. /\ empty' = empty - 1 /\ available' = available
      /\ inflight' = inflight + 1 /\ queue' = queue
  BY DEF Produce
<1>6a. SlotConservation'
  BY <1>2, <1>3, <1>5, SlotNumbers DEF SlotConservation
<1>6b. SignalsMatchItems'
  BY <1>2, <1>3, <1>5, SignalNumbers DEF SignalsMatchItems
<1>6c. InflightNeverUndercounts'
  BY <1>2, <1>3, <1>5, InflightNumbers DEF InflightNeverUndercounts
<1>7. TakenWhileServing'
  BY <1>2 DEF PipelineInv, TakenWhileServing, Produce
<1>. QED
  BY <1>4, <1>6a, <1>6b, <1>6c, <1>7 DEF PipelineInv

\* A push that uses up the continuation of t, as both commits do.
LEMMA PushInv ==
  ASSUME PipelineInv, NEW t \in Threads, NEW x \in Resources, t \in Holders,
         stage[t] = "idle", continuation' = [continuation EXCEPT ![t] = "none"],
         Push(t, x)
  PROVE  PipelineInv'
<1>1. Holders' = Holders \ {t}
  BY DEF PipelineInv, Typing, Holders
<1>2. Signallers' = Signallers \cup {t} /\ t \notin Signallers
  BY DEF PipelineInv, Typing, Push, Signallers
<1>3. Poppers' = Poppers /\ Servers' = Servers
  BY DEF PipelineInv, Typing, Push, Poppers, Servers
<1>4. Cardinality(Holders') = Cardinality(Holders) - 1
  BY <1>1, Counts, CountLeave
<1>5. Cardinality(Signallers') = Cardinality(Signallers) + 1
  BY <1>2, Counts, CountJoin
<1>6. Typing'
  BY AppendProperties DEF PipelineInv, Typing, Push, Continuations, Stages
<1>7. Len(queue') = Len(queue) + 1
  BY AppendProperties DEF PipelineInv, Typing, Push
<1>8. empty' = empty /\ available' = available /\ inflight' = inflight
  BY DEF Push
<1>9a. SlotConservation'
  BY <1>3, <1>4, <1>7, <1>8, SlotNumbers DEF SlotConservation
<1>9b. SignalsMatchItems'
  BY <1>3, <1>5, <1>7, <1>8, SignalNumbers DEF SignalsMatchItems
<1>9c. InflightNeverUndercounts'
  BY <1>3, <1>4, <1>7, <1>8, InflightNumbers DEF InflightNeverUndercounts
<1>10. TakenWhileServing'
  BY <1>3 DEF PipelineInv, TakenWhileServing, Push
<1>. QED
  BY <1>6, <1>9a, <1>9b, <1>9c, <1>10 DEF PipelineInv

LEMMA ProducerCommitInv ==
  ASSUME PipelineInv, NEW t \in Threads, NEW x \in Resources, ProducerCommit(t, x)
  PROVE  PipelineInv'
BY PushInv DEF ProducerCommit, Holders

LEMMA ProducerCommitIfEmptyInv ==
  ASSUME PipelineInv, NEW t \in Threads, NEW x \in Resources,
         ProducerCommitIfEmpty(t, x)
  PROVE  PipelineInv'
<1>1. CASE Push(t, x)
  BY <1>1, PushInv DEF ProducerCommitIfEmpty, Holders
<1>2. CASE /\ empty' = empty + 1
           /\ UNCHANGED <<available, inflight, queue, stage, taken>>
  <2>1. Holders' = Holders \ {t} /\ t \in Holders
    BY DEF PipelineInv, Typing, ProducerCommitIfEmpty, Holders
  <2>2. Signallers' = Signallers /\ Poppers' = Poppers /\ Servers' = Servers
    BY <1>2 DEF Signallers, Poppers, Servers
  <2>3. Cardinality(Holders') = Cardinality(Holders) - 1
    BY <2>1, Counts, CountLeave
  <2>4. Typing'
    BY <1>2 DEF PipelineInv, Typing, ProducerCommitIfEmpty, Continuations
  <2>5. /\ empty' = empty + 1 /\ available' = available
        /\ inflight' = inflight /\ queue' = queue
    BY <1>2
  <2>6a. SlotConservation'
    BY <2>2, <2>3, <2>5, SlotNumbers DEF SlotConservation
  <2>6b. SignalsMatchItems'
    BY <2>2, <2>3, <2>5, SignalNumbers DEF SignalsMatchItems
  <2>6c. InflightNeverUndercounts'
    BY <2>2, <2>3, <2>5, InflightNumbers DEF InflightNeverUndercounts
  <2>7. TakenWhileServing'
    BY <1>2, <2>2 DEF PipelineInv, TakenWhileServing
  <2>. QED
    BY <2>4, <2>6a, <2>6b, <2>6c, <2>7 DEF PipelineInv
<1>. QED
  BY <1>1, <1>2 DEF ProducerCommitIfEmpty

LEMMA SignalInv ==
  ASSUME PipelineInv, NEW t \in Threads, Signal(t)
  PROVE  PipelineInv'
<1>1. Signallers' = Signallers \ {t} /\ t \in Signallers
  BY DEF PipelineInv, Typing, Signal, Signallers
<1>2. Holders' = Holders /\ Poppers' = Poppers /\ Servers' = Servers
  BY DEF PipelineInv, Typing, Signal, Signallers, Holders, Poppers, Servers
<1>3. Cardinality(Signallers') = Cardinality(Signallers) - 1
  BY <1>1, Counts, CountLeave
<1>4. Typing'
  BY DEF PipelineInv, Typing, Signal, Stages
<1>5. /\ empty' = empty /\ available' = available + 1
      /\ inflight' = inflight /\ queue' = queue
  BY DEF Signal
<1>6a. SlotConservation'
  BY <1>2, <1>3, <1>5, SlotNumbers DEF SlotConservation
<1>6b. SignalsMatchItems'
  BY <1>2, <1>3, <1>5, SignalNumbers DEF SignalsMatchItems
<1>6c. InflightNeverUndercounts'
  BY <1>2, <1>3, <1>5, InflightNumbers DEF InflightNeverUndercounts
<1>7. TakenWhileServing'
  BY <1>2 DEF PipelineInv, TakenWhileServing, Signal
<1>. QED
  BY <1>4, <1>6a, <1>6b, <1>6c, <1>7 DEF PipelineInv

LEMMA ConsumeTryWaitInv ==
  ASSUME PipelineInv, NEW t \in Threads, ConsumeTryWait(t)
  PROVE  PipelineInv'
<1>1. Poppers' = Poppers \cup {t} /\ t \notin Poppers
  BY DEF PipelineInv, Typing, ConsumeTryWait, Poppers
<1>2. Holders' = Holders /\ Signallers' = Signallers /\ Servers' = Servers
  BY DEF PipelineInv, Typing, ConsumeTryWait, Holders, Signallers, Servers
<1>3. Cardinality(Poppers') = Cardinality(Poppers) + 1
  BY <1>1, Counts, CountJoin
<1>4. Typing'
  BY DEF PipelineInv, Typing, ConsumeTryWait, Stages
<1>5. /\ empty' = empty /\ available' = available - 1
      /\ inflight' = inflight /\ queue' = queue
  BY DEF ConsumeTryWait
<1>6a. SlotConservation'
  BY <1>2, <1>3, <1>5, SlotNumbers DEF SlotConservation
<1>6b. SignalsMatchItems'
  BY <1>2, <1>3, <1>5, SignalNumbers DEF SignalsMatchItems
<1>6c. InflightNeverUndercounts'
  BY <1>2, <1>3, <1>5, InflightNumbers DEF InflightNeverUndercounts
<1>7. TakenWhileServing'
  BY <1>2 DEF PipelineInv, TakenWhileServing, ConsumeTryWait
<1>. QED
  BY <1>4, <1>6a, <1>6b, <1>6c, <1>7 DEF PipelineInv

LEMMA ConsumePopInv ==
  ASSUME PipelineInv, NEW t \in Threads, ConsumePop(t)
  PROVE  PipelineInv'
<1>1. Poppers' = Poppers \ {t} /\ t \in Poppers
  BY DEF PipelineInv, Typing, ConsumePop, Poppers
<1>2. Servers' = Servers \cup {t} /\ t \notin Servers
  BY DEF PipelineInv, Typing, ConsumePop, Servers
<1>3. Holders' = Holders /\ Signallers' = Signallers
  BY DEF PipelineInv, Typing, ConsumePop, Holders, Signallers
<1>4. Cardinality(Poppers') = Cardinality(Poppers) - 1
  BY <1>1, Counts, CountLeave
<1>5. Cardinality(Servers') = Cardinality(Servers) + 1
  BY <1>2, Counts, CountJoin
<1>6. /\ Head(queue) \in Resources /\ Tail(queue) \in Seq(Resources)
      /\ Len(Tail(queue)) = Len(queue) - 1
  BY HeadTailProperties DEF PipelineInv, Typing, ConsumePop
<1>7. Typing'
  BY <1>6 DEF PipelineInv, Typing, ConsumePop, Stages
<1>8. /\ empty' = empty /\ available' = available
      /\ inflight' = inflight /\ Len(queue') = Len(queue) - 1
  BY <1>6 DEF ConsumePop
<1>9a. SlotConservation'
  BY <1>3, <1>5, <1>8, SlotNumbers DEF SlotConservation
<1>9b. SignalsMatchItems'
  BY <1>3, <1>4, <1>8, SignalNumbers DEF SignalsMatchItems
<1>9c. InflightNeverUndercounts'
  BY <1>3, <1>5, <1>8, InflightNumbers DEF InflightNeverUndercounts
<1>10. Head(queue) # NoItem
  BY <1>6, PipelineAssumption DEF Resources
<1>11. TakenWhileServing'
  BY <1>2, <1>10 DEF PipelineInv, Typing, TakenWhileServing, ConsumePop
<1>. QED
  BY <1>7, <1>9a, <1>9b, <1>9c, <1>11 DEF PipelineInv

LEMMA ConsumeEndInv ==
  ASSUME PipelineInv, NEW t \in Threads, ConsumeEnd(t)
  PROVE  PipelineInv'
<1>1. Servers' = Servers \ {t} /\ t \in Servers
  BY DEF PipelineInv, Typing, ConsumeEnd, Servers
<1>2. Holders' = Holders /\ Signallers' = Signallers /\ Poppers' = Poppers
  BY DEF PipelineInv, Typing, ConsumeEnd, Servers, Holders, Signallers, Poppers
<1>3. Cardinality(Servers') = Cardinality(Servers) - 1
  BY <1>1, Counts, CountLeave
<1>4. Typing'
  BY DEF PipelineInv, Typing, ConsumeEnd, Stages
<1>5. /\ empty' = empty + 1 /\ available' = available
      /\ inflight' = inflight - 1 /\ queue' = queue
  BY DEF ConsumeEnd
<1>6a. SlotConservation'
  <2>1. /\ empty \in Nat /\ Cardinality(Holders) \in Nat
        /\ Len(queue) \in Nat /\ Cardinality(Servers) \in Nat
    BY SlotNumbers
  <2>2. empty + Cardinality(Holders) + Len(queue) + Cardinality(Servers) = Depth
    BY SlotNumbers
  <2>3. (empty + 1) + Cardinality(Holders) + Len(queue)
          + (Cardinality(Servers) - 1) = Depth
    BY <2>1, <2>2
  <2>. QED
    BY <1>2, <1>3, <1>5, <2>3 DEF SlotConservation
<1>6b. SignalsMatchItems'
  BY <1>2, <1>5, SignalNumbers DEF SignalsMatchItems
<1>6c. InflightNeverUndercounts'
  BY <1>2, <1>3, <1>5, InflightNumbers DEF InflightNeverUndercounts
<1>7. TakenWhileServing'
  BY <1>1 DEF PipelineInv, Typing, TakenWhileServing, ConsumeEnd
<1>. QED
  BY <1>4, <1>6a, <1>6b, <1>6c, <1>7 DEF PipelineInv

LEMMA PipelineNextInv ==
  ASSUME PipelineInv, [PipelineNext]_pipelineVars
  PROVE  PipelineInv'
<1>1. CASE UNCHANGED pipelineVars
  BY <1>1 DEF PipelineInv, Typing, SlotConservation, SignalsMatchItems,
     InflightNeverUndercounts, TakenWhileServing, Holders, Signallers, Poppers,
     Servers, pipelineVars
<1>2. ASSUME NEW t \in Threads, DropContinuation(t)
      PROVE  PipelineInv'
  <2>1. Null \in Resources
    BY DEF Resources
  <2>. QED
    BY <1>2, <2>1, ProducerCommitInv, ProducerCommitIfEmptyInv DEF DropContinuation
<1>3. Items \subseteq Resources
  BY DEF Resources
<1>. QED
  BY <1>1, <1>2, <1>3, ProduceInv, ProducerCommitInv, ProducerCommitIfEmptyInv,
     SignalInv, ConsumeTryWaitInv, ConsumePopInv, ConsumeEndInv DEF PipelineNext

-----------------------------------------------------------------------------
(* The inductive invariant holds throughout: in every reachable state each *)
(* slot is accounted for, the count of available_ matches the queue up to  *)
(* the operations in progress, and a resource is held exactly while it is  *)
(* consumed (pipeline.h:143-253).                                          *)
THEOREM PipelineInvariant == PipelineSpec => []PipelineInv
<1>1. PipelineInit => PipelineInv
  BY PipelineInitInv
<1>2. PipelineInv /\ [PipelineNext]_pipelineVars => PipelineInv'
  BY PipelineNextInv
<1>. QED
  BY <1>1, <1>2, PTL DEF PipelineSpec

(* No path of Produce, commit, bail-out and Consume leaks a slot of the    *)
(* pipeline or frees one twice, for any number of threads and any depth.   *)
THEOREM SlotsConserved == PipelineSpec => []SlotConservation
<1>1. PipelineInv => SlotConservation
  BY DEF PipelineInv
<1>. QED
  BY <1>1, PipelineInvariant, PTL

(* The count of available_ matches the queue up to the operations in       *)
(* progress, so a thread that passed TryWait finds an item to pop.         *)
THEOREM SignalsMatch == PipelineSpec => []SignalsMatchItems
<1>1. PipelineInv => SignalsMatchItems
  BY DEF PipelineInv
<1>. QED
  BY <1>1, PipelineInvariant, PTL

(* queue_.front() is never taken of an empty deque (pipeline.h:198).       *)
THEOREM NeverPopsEmpty ==
  PipelineSpec => [](\A t \in Threads : stage[t] = "pop" => queue # <<>>)
<1>1. ASSUME PipelineInv, NEW t \in Threads, stage[t] = "pop"
      PROVE  queue # <<>>
  <2>1. t \in Poppers
    BY <1>1 DEF Poppers
  <2>2. Cardinality(Poppers) >= 1
    BY <2>1, Counts, CountLeave
  <2>3. Len(queue) >= 1
    BY <1>1, <2>2, SignalNumbers
  <2>. QED
    BY <2>3
<1>2. PipelineInv => \A t \in Threads : stage[t] = "pop" => queue # <<>>
  BY <1>1
<1>. QED
  BY <1>2, PipelineInvariant, PTL

(* Type correctness; that both semaphore counts stay within the depth      *)
(* follows from the two counting equations.                                *)
THEOREM PipelineTypeCorrect == PipelineSpec => []PipelineTypeOK
<1>1. ASSUME PipelineInv PROVE PipelineTypeOK
  <2>1. empty \in 0..Depth
    BY <1>1, SlotNumbers
  <2>2. available \in 0..Depth
    <3>1. Len(queue) <= Depth /\ available <= Len(queue)
      BY <1>1, SlotNumbers, SignalNumbers
    <3>. QED
      BY <1>1, <3>1, SlotNumbers, SignalNumbers
  <2>3. inflight \in Nat
    BY <1>1, InflightNumbers
  <2>. QED
    BY <1>1, <2>1, <2>2, <2>3 DEF PipelineInv, Typing, PipelineTypeOK
<1>. QED
  BY <1>1, PipelineInvariant, PTL

-----------------------------------------------------------------------------
(* Refinement of the bounded channel.                                      *)

\* The threads that serve an item in the channel are the Servers here.
LEMMA BusyServers ==
  ASSUME PipelineInv
  PROVE  Channel!Busy = Servers
BY DEF PipelineInv, TakenWhileServing, Channel!Busy, Servers

\* A free slot is a slot that the channel may reserve.
LEMMA FreeSlot ==
  ASSUME PipelineInv, empty > 0
  PROVE  Channel!SlotsInUse < Depth
<1>1. Channel!SlotsInUse = Cardinality(Holders) + Len(queue) + Cardinality(Servers)
  BY BusyServers DEF Channel!SlotsInUse, Channel!Cardinality, Cardinality
<1>2. empty + Cardinality(Holders) + Len(queue) + Cardinality(Servers) = Depth
  BY SlotNumbers
<1>3. /\ empty \in Nat /\ Cardinality(Holders) \in Nat
      /\ Len(queue) \in Nat /\ Cardinality(Servers) \in Nat
  BY SlotNumbers
<1>4. Cardinality(Holders) + Len(queue) + Cardinality(Servers) < Depth
  BY <1>2, <1>3
<1>. QED
  BY <1>1, <1>4

LEMMA ProduceReserves ==
  ASSUME PipelineInv, NEW t \in Threads, NEW kind \in {"append", "ifEmpty"},
         Produce(t, kind)
  PROVE  Channel!Reserve(t)
<1>1. Holders' = Holders \cup {t} /\ t \notin Holders
  BY DEF PipelineInv, Typing, Produce, Holders
<1>2. Channel!SlotsInUse < Depth
  BY FreeSlot DEF Produce
<1>. QED
  BY <1>1, <1>2 DEF Channel!Reserve, Produce

LEMMA PushPuts ==
  ASSUME PipelineInv, NEW t \in Threads, NEW x \in Resources, t \in Holders,
         continuation' = [continuation EXCEPT ![t] = "none"], Push(t, x)
  PROVE  Channel!Put(t, x)
<1>1. Holders' = Holders \ {t}
  BY DEF PipelineInv, Typing, Holders
<1>. QED
  BY <1>1 DEF Channel!Put, Push

LEMMA CommitPuts ==
  ASSUME PipelineInv, NEW t \in Threads, NEW x \in Resources, ProducerCommit(t, x)
  PROVE  Channel!Put(t, x)
BY PushPuts DEF ProducerCommit, Holders

LEMMA CommitIfEmptyPutsOrWithdraws ==
  ASSUME PipelineInv, NEW t \in Threads, NEW x \in Resources,
         ProducerCommitIfEmpty(t, x)
  PROVE  Channel!Put(t, x) \/ Channel!Withdraw(t)
<1>1. t \in Holders
  BY DEF ProducerCommitIfEmpty, Holders
<1>2. CASE Push(t, x)
  BY <1>1, <1>2, PushPuts DEF ProducerCommitIfEmpty
<1>3. CASE queue # <<>> /\ UNCHANGED <<queue, taken>>
  <2>1. Holders' = Holders \ {t}
    BY DEF PipelineInv, Typing, ProducerCommitIfEmpty, Holders
  <2>. QED
    BY <1>1, <1>3, <2>1 DEF Channel!Withdraw
<1>. QED
  BY <1>2, <1>3 DEF ProducerCommitIfEmpty

LEMMA PopTakes ==
  ASSUME PipelineInv, NEW t \in Threads, ConsumePop(t)
  PROVE  Channel!Take(t)
<1>1. taken[t] = NoItem
  BY DEF PipelineInv, TakenWhileServing, ConsumePop, Servers
<1>2. Holders' = Holders
  BY DEF ConsumePop, Holders
<1>. QED
  BY <1>1, <1>2 DEF Channel!Take, ConsumePop

LEMMA EndFinishes ==
  ASSUME PipelineInv, NEW t \in Threads, ConsumeEnd(t)
  PROVE  Channel!Finish(t)
<1>1. taken[t] # NoItem
  BY DEF PipelineInv, TakenWhileServing, ConsumeEnd
<1>2. Holders' = Holders
  BY DEF ConsumeEnd, Holders
<1>. QED
  BY <1>1, <1>2 DEF Channel!Finish, ConsumeEnd

\* The operations on the semaphores alone are invisible in the channel.
LEMMA SemaphoresInvisible ==
  ASSUME NEW t \in Threads, Signal(t) \/ ConsumeTryWait(t)
  PROVE  UNCHANGED Channel!channelVars
BY DEF Signal, ConsumeTryWait, Channel!channelVars, Holders

LEMMA StepRefines ==
  ASSUME PipelineInv, [PipelineNext]_pipelineVars
  PROVE  [Channel!ChannelNext]_(Channel!channelVars)
<1>1. CASE UNCHANGED pipelineVars
  BY <1>1 DEF pipelineVars, Channel!channelVars, Holders
<1>2. ASSUME NEW t \in Threads, NEW x \in Resources, Channel!Put(t, x)
      PROVE  Channel!ChannelNext
  BY <1>2 DEF Channel!ChannelNext
<1>3. ASSUME NEW t \in Threads, Channel!Withdraw(t)
      PROVE  Channel!ChannelNext
  BY <1>3 DEF Channel!ChannelNext
<1>4. ASSUME NEW t \in Threads, NEW kind \in {"append", "ifEmpty"}, Produce(t, kind)
      PROVE  Channel!ChannelNext
  BY <1>4, ProduceReserves DEF Channel!ChannelNext
<1>5. ASSUME NEW t \in Threads, NEW x \in Resources, ProducerCommit(t, x)
      PROVE  Channel!ChannelNext
  BY <1>2, <1>5, CommitPuts
<1>6. ASSUME NEW t \in Threads, NEW x \in Resources, ProducerCommitIfEmpty(t, x)
      PROVE  Channel!ChannelNext
  BY <1>2, <1>3, <1>6, CommitIfEmptyPutsOrWithdraws
<1>7. ASSUME NEW t \in Threads, DropContinuation(t)
      PROVE  Channel!ChannelNext
  BY <1>5, <1>6, <1>7 DEF DropContinuation, Resources
<1>8. ASSUME NEW t \in Threads, ConsumePop(t)
      PROVE  Channel!ChannelNext
  BY <1>8, PopTakes DEF Channel!ChannelNext
<1>9. ASSUME NEW t \in Threads, ConsumeEnd(t)
      PROVE  Channel!ChannelNext
  BY <1>9, EndFinishes DEF Channel!ChannelNext
<1>10. Items \subseteq Resources
  BY DEF Resources
<1>. QED
  BY <1>1, <1>4, <1>5, <1>6, <1>7, <1>8, <1>9, <1>10, SemaphoresInvisible
     DEF PipelineNext

(* The pipeline implements the bounded first-in first-out channel: slots   *)
(* are reserved only below the depth and every committed resource is       *)
(* consumed once, in commit order (pipeline.h:39-62, 143-253).             *)
THEOREM PipelineImplementsChannel == PipelineSpec => ImplementsChannel
<1>1. PipelineInit => Channel!ChannelInit
  BY DEF PipelineInit, Channel!ChannelInit, Holders
<1>2. PipelineInv /\ [PipelineNext]_pipelineVars
        => [Channel!ChannelNext]_(Channel!channelVars)
  BY StepRefines
<1>. QED
  BY <1>1, <1>2, PipelineInvariant, PTL
     DEF PipelineSpec, ImplementsChannel, Channel!ChannelSpec

-----------------------------------------------------------------------------
(* The frame path: Animator and Rasterizer around the pipeline.            *)

\* The places of Draw at which a thread works on a frame.
Working == {"doDraw", "raster", "lease", "release", "resubmit", "commit"}

FrameTyping ==
  /\ built \in 0..MaxFrames
  /\ reuses \in Nat
  /\ queue \in Seq(Items)
  /\ at \in [Drawers -> Places]
  /\ frame \in [Drawers -> Items \cup {NoItem}]
  /\ last \in Items \cup {NoItem}

FrameInv ==
  /\ FrameTyping
  /\ \A d \in Drawers : at[d] \in Working => frame[d] \in Items

LEMMA ThreadTypes ==
  /\ UI \in Threads /\ Drawers \subseteq Threads
  /\ Items = Frames /\ NoItem \notin Items /\ MaxFrames \in Nat
BY FramePipelineAssumption, PipelineAssumption DEF Drawers

LEMMA NewFrame ==
  ASSUME FrameTyping, built + reuses < MaxFrames, NEW views \in BOOLEAN
  PROVE  [n |-> built + 1, platformViews |-> views] \in Items
BY ThreadTypes DEF FrameTyping, Frames

LEMMA FrameInitInv == Init => FrameInv
<1> SUFFICES ASSUME Init PROVE FrameInv
  OBVIOUS
<1>1. built \in 0..MaxFrames /\ reuses \in Nat
  BY ThreadTypes DEF Init
<1>2. queue \in Seq(Items)
  BY EmptySeq DEF Init, PipelineInit
<1>3. at \in [Drawers -> Places] /\ frame \in [Drawers -> Items \cup {NoItem}]
  BY DEF Init, Places
<1>4. \A d \in Drawers : at[d] \notin Working
  BY DEF Init, Working
<1>. QED
  BY <1>1, <1>2, <1>3, <1>4 DEF Init, FrameInv, FrameTyping

-----------------------------------------------------------------------------
(* Every step of the frame path is a step of the pipeline or leaves the    *)
(* pipeline alone.                                                         *)

LEMMA UiRefines ==
  ASSUME FrameInv,
         \/ BeginFrame \/ CompleteFrame \/ SignalFrame \/ OnAnimatorDraw
         \/ OnAnimatorDrawLastLayerTrees
  PROVE  [PipelineNext]_pipelineVars
<1>1. ASSUME BeginFrame PROVE PipelineNext
  BY <1>1, ThreadTypes DEF BeginFrame, PipelineNext
<1>2. ASSUME CompleteFrame PROVE PipelineNext
  BY <1>2, ThreadTypes, NewFrame DEF CompleteFrame, FrameInv, PipelineNext
<1>3. ASSUME SignalFrame PROVE PipelineNext
  BY <1>3, ThreadTypes DEF SignalFrame, PipelineNext
<1>4. ASSUME OnAnimatorDraw \/ OnAnimatorDrawLastLayerTrees
      PROVE  UNCHANGED pipelineVars
  BY <1>4 DEF OnAnimatorDraw, OnAnimatorDrawLastLayerTrees
<1>. QED
  BY <1>1, <1>2, <1>3, <1>4

LEMMA DrawRefines ==
  ASSUME FrameInv, NEW d \in Drawers, DrawStep(d)
  PROVE  [PipelineNext]_pipelineVars
<1>. d \in Threads
  BY ThreadTypes
<1>1. ASSUME Consume(d) PROVE [PipelineNext]_pipelineVars
  BY <1>1 DEF Consume, PipelineNext
<1>2. ASSUME PopFrame(d) PROVE PipelineNext
  BY <1>2 DEF PopFrame, PipelineNext
<1>3. ASSUME ReleaseFrame(d) PROVE PipelineNext
  BY <1>3 DEF ReleaseFrame, PipelineNext
<1>4. ASSUME ResubmitFrame(d) PROVE [PipelineNext]_pipelineVars
  BY <1>4 DEF ResubmitFrame, PipelineNext
<1>5. ASSUME CommitResubmitted(d) PROVE PipelineNext
  <2>1. frame[d] \in Items
    BY <1>5 DEF CommitResubmitted, FrameInv, Working
  <2>. QED
    BY <1>5, <2>1 DEF CommitResubmitted, PipelineNext
<1>6. ASSUME SignalResubmitted(d) PROVE PipelineNext
  BY <1>6 DEF SignalResubmitted, PipelineNext
<1>7. CASE \/ StartTask(d) \/ CheckThread(d) \/ AbandonDraw(d) \/ DiscardLayerTree(d)
           \/ BeginEmbedderFrame(d) \/ FailDraw(d) \/ MergeAndRetry(d)
           \/ SwitchSurfaceAndRetry(d) \/ PresentFrame(d) \/ DecrementLease(d)
           \/ FinishDraw(d)
  BY <1>7 DEF StartTask, CheckThread, AbandonDraw, DiscardLayerTree, BeginEmbedderFrame,
     FailDraw, MergeAndRetry, SwitchSurfaceAndRetry, PresentFrame, DecrementLease,
     FinishDraw
<1>. QED
  BY <1>1, <1>2, <1>3, <1>4, <1>5, <1>6, <1>7 DEF DrawStep

LEMMA StepUsesPipeline ==
  ASSUME FrameInv, [Next]_vars
  PROVE  [PipelineNext]_pipelineVars
<1>1. CASE UNCHANGED vars
  BY <1>1 DEF vars
<1>. QED
  BY <1>1, UiRefines, DrawRefines DEF Next

-----------------------------------------------------------------------------
(* Only real frames are in the pipeline and in the hands of a Draw.        *)

LEMMA UiFrameInv ==
  ASSUME FrameInv,
         \/ BeginFrame \/ CompleteFrame \/ SignalFrame \/ OnAnimatorDraw
         \/ OnAnimatorDrawLastLayerTrees
  PROVE  FrameInv'
<1>1. UNCHANGED <<at, frame, last>> /\ reuses' \in Nat
  BY DEF BeginFrame, CompleteFrame, SignalFrame, OnAnimatorDraw,
     OnAnimatorDrawLastLayerTrees, drawVars, screenVars, uiVars, FrameInv, FrameTyping
<1>2. CASE CompleteFrame
  <2>1. PICK views \in BOOLEAN :
          ProducerCommit(UI, [n |-> built + 1, platformViews |-> views])
    BY <1>2 DEF CompleteFrame
  <2>2. queue' \in Seq(Items)
    BY <1>2, <2>1, NewFrame, AppendProperties
       DEF CompleteFrame, ProducerCommit, Push, FrameInv, FrameTyping
  <2>3. built' \in 0..MaxFrames
    BY <1>2, ThreadTypes DEF CompleteFrame, FrameInv, FrameTyping
  <2>. QED
    BY <1>1, <2>2, <2>3 DEF FrameInv, FrameTyping
<1>3. CASE ~CompleteFrame
  <2>1. UNCHANGED <<queue, built>>
    BY <1>3 DEF BeginFrame, SignalFrame, OnAnimatorDraw, OnAnimatorDrawLastLayerTrees,
       Produce, Signal, pipelineVars, uiVars
  <2>. QED
    BY <1>1, <2>1 DEF FrameInv, FrameTyping
<1>. QED
  BY <1>2, <1>3

\* A thread that goes from one place to the next with its frame.
LEMMA GotoInv ==
  ASSUME FrameInv, NEW d \in Drawers, NEW place \in Places, Goto(d, place),
         place \in Working => at[d] \in Working,
         queue' \in Seq(Items), built' = built, reuses' = reuses, frame' = frame,
         last' \in Items \cup {NoItem}
  PROVE  FrameInv'
<1>1. at' \in [Drawers -> Places]
  BY DEF FrameInv, FrameTyping, Goto
<1>2. ASSUME NEW e \in Drawers, at'[e] \in Working PROVE at[e] \in Working
  BY <1>2 DEF FrameInv, FrameTyping, Goto
<1>. QED
  BY <1>1, <1>2 DEF FrameInv, FrameTyping

LEMMA DrawFrameInv ==
  ASSUME FrameInv, NEW d \in Drawers, DrawStep(d)
  PROVE  FrameInv'
<1>. USE DEF Places, Working
<1>0. queue \in Seq(Items) /\ last \in Items \cup {NoItem}
  BY DEF FrameInv, FrameTyping
<1>1. CASE StartTask(d)
  <2>1. CASE frame' = frame
    BY <1>0, <1>1, <2>1, GotoInv
       DEF StartTask, FrameInv, FrameTyping, pipelineVars, uiVars, Goto
  <2>2. CASE /\ last # NoItem /\ last' = NoItem /\ Goto(d, "doDraw")
             /\ frame' = [frame EXCEPT ![d] = last]
    <3>1. last \in Items
      BY <1>0, <2>2
    <3>2. UNCHANGED <<queue, built, reuses>>
      BY <1>1 DEF StartTask, pipelineVars, uiVars
    <3>3. at' \in [Drawers -> Places] /\ frame' \in [Drawers -> Items \cup {NoItem}]
      BY <2>2, <3>1 DEF FrameInv, FrameTyping, Goto
    <3>4. \A e \in Drawers : at'[e] \in Working => frame'[e] \in Items
      BY <2>2, <3>1 DEF FrameInv, FrameTyping, Goto
    <3>. QED
      BY <2>2, <3>2, <3>3, <3>4 DEF FrameInv, FrameTyping
  <2>. QED
    BY <1>1, <2>1, <2>2 DEF StartTask
<1>2. CASE CheckThread(d)
  BY <1>0, <1>2, GotoInv DEF CheckThread, pipelineVars, uiVars, screenVars
<1>3. CASE Consume(d)
  <2>1. queue' = queue
    BY <1>3 DEF Consume, ConsumeTryWait, pipelineVars
  <2>. QED
    BY <1>0, <1>3, <2>1, GotoInv DEF Consume, uiVars, screenVars
<1>4. CASE PopFrame(d)
  <2>1. Head(queue) \in Items /\ queue' \in Seq(Items)
    BY <1>0, <1>4, HeadTailProperties DEF PopFrame, ConsumePop
  <2>2. at' \in [Drawers -> Places] /\ frame' \in [Drawers -> Items \cup {NoItem}]
    BY <1>4, <2>1 DEF PopFrame, FrameInv, FrameTyping, Goto
  <2>3. \A e \in Drawers : at'[e] \in Working => frame'[e] \in Items
    BY <1>4, <2>1 DEF PopFrame, FrameInv, FrameTyping, Goto
  <2>4. built' = built /\ reuses' = reuses /\ last' = last
    BY <1>4 DEF PopFrame, uiVars, screenVars
  <2>. QED
    BY <2>1, <2>2, <2>3, <2>4 DEF FrameInv, FrameTyping
<1>5. CASE AbandonDraw(d) \/ DiscardLayerTree(d) \/ BeginEmbedderFrame(d)
  BY <1>0, <1>5, GotoInv DEF AbandonDraw, DiscardLayerTree, BeginEmbedderFrame,
     AfterSurfaces, pipelineVars, uiVars, screenVars
<1>6. CASE FailDraw(d) \/ MergeAndRetry(d) \/ SwitchSurfaceAndRetry(d)
  BY <1>0, <1>6, GotoInv DEF FailDraw, MergeAndRetry, SwitchSurfaceAndRetry,
     AfterSurfaces, pipelineVars, uiVars, screenVars
<1>7. CASE PresentFrame(d)
  <2>1. last' \in Items
    BY <1>7 DEF PresentFrame, FrameInv
  <2>. QED
    BY <1>0, <1>7, <2>1, GotoInv DEF PresentFrame, AfterSurfaces, pipelineVars, uiVars
<1>8. CASE DecrementLease(d)
  BY <1>0, <1>8, GotoInv DEF DecrementLease, pipelineVars, uiVars, screenVars
<1>9. CASE ReleaseFrame(d)
  BY <1>0, <1>9, GotoInv DEF ReleaseFrame, ConsumeEnd, uiVars, screenVars
<1>10. CASE ResubmitFrame(d)
  <2>1. queue' = queue
    BY <1>10 DEF ResubmitFrame, Produce, pipelineVars
  <2>. QED
    BY <1>0, <1>10, <2>1, GotoInv DEF ResubmitFrame, uiVars, screenVars
<1>11. CASE CommitResubmitted(d)
  <2>1. queue' \in Seq(Items)
    BY <1>0, <1>11, AppendProperties
       DEF CommitResubmitted, ProducerCommitIfEmpty, Push, FrameInv
  <2>. QED
    BY <1>0, <1>11, <2>1, GotoInv DEF CommitResubmitted, uiVars, screenVars
<1>12. CASE SignalResubmitted(d)
  BY <1>0, <1>12, GotoInv DEF SignalResubmitted, Signal, uiVars, screenVars
<1>13. CASE FinishDraw(d)
  <2>1. at' \in [Drawers -> Places] /\ frame' \in [Drawers -> Items \cup {NoItem}]
    BY <1>13 DEF FinishDraw, FrameInv, FrameTyping, Goto
  <2>2. \A e \in Drawers : at'[e] \in Working => frame'[e] \in Items
    BY <1>13 DEF FinishDraw, FrameInv, FrameTyping, Goto
  <2>3. UNCHANGED <<queue, built, reuses, last>>
    BY <1>13 DEF FinishDraw, pipelineVars, uiVars, screenVars
  <2>. QED
    BY <2>1, <2>2, <2>3 DEF FrameInv, FrameTyping
<1>. QED
  BY <1>1, <1>2, <1>3, <1>4, <1>5, <1>6, <1>7, <1>8, <1>9, <1>10, <1>11, <1>12, <1>13
     DEF DrawStep

LEMMA FrameNextInv ==
  ASSUME FrameInv, [Next]_vars
  PROVE  FrameInv'
<1>1. CASE UNCHANGED vars
  BY <1>1 DEF FrameInv, FrameTyping, vars, pipelineVars, uiVars, drawVars, screenVars
<1>. QED
  BY <1>1, UiFrameInv, DrawFrameInv DEF Next

-----------------------------------------------------------------------------
(* The queue holds frames only, and a Draw that is past its Consume and    *)
(* has not finished has a frame (rasterizer.cc:258-283).                   *)
THEOREM FramesAreReal == Spec => []FrameInv
<1>1. Init => FrameInv
  BY FrameInitInv
<1>2. FrameInv /\ [Next]_vars => FrameInv'
  BY FrameNextInv
<1>. QED
  BY <1>1, <1>2, PTL DEF Spec

(* The Animator and the Rasterizer use the pipeline as the class allows:   *)
(* the frame path implements Pipeline's specification.                     *)
THEOREM FramesUsePipeline == Spec => PipelineSpec
<1>1. Init => PipelineInit
  BY DEF Init
<1>2. FrameInv /\ [Next]_vars => [PipelineNext]_pipelineVars
  BY StepUsesPipeline
<1>. QED
  BY <1>1, <1>2, FramesAreReal, PTL DEF Spec, PipelineSpec

(* Hence the slots of the pipeline are conserved however the two drawing   *)
(* threads interleave, merge, unmerge and put frames back.                 *)
THEOREM FrameSlotsConserved == Spec => []SlotConservation
BY FramesUsePipeline, SlotsConserved, PTL

(* Hence frames pass through a bounded first-in first-out channel, of      *)
(* which the resubmission of a frame is an ordinary use.                   *)
THEOREM FramesImplementChannel == Spec => ImplementsChannel
BY FramesUsePipeline, PipelineImplementsChannel, PTL

-----------------------------------------------------------------------------
(* The invariant about the drawing threads.  Everything but the places of  *)
(* the threads holds as long as no thread has taken up a frame while the   *)
(* other one worked on one.                                                *)

Alone == "overlap" \notin mishaps

OverlapIsNoted ==
  \A d, e \in Drawers : d # e /\ Drawing(d) /\ Drawing(e) => ~Alone

\* Where a thread is in Draw tells where it is in the pipeline, and whether it
\* has a frame, and whether it may be going to put it back.
StageMatchesPlace(d) ==
  /\ stage[d] = "pop" <=> at[d] = "pop"
  /\ FromPipeline(d) => at[d] \in {"doDraw", "raster", "lease", "release"}
  /\ at[d] \in {"lease", "release"} => FromPipeline(d)
  /\ d \in Signallers <=> at[d] = "signal"
  /\ continuation[d] = IF at[d] = "commit" THEN "ifEmpty" ELSE "none"
  /\ Drawing(d) <=> at[d] \in Working \cup {"signal", "finish"}
  /\ at[d] \in {"resubmit", "commit"} => resubmit[d]
  /\ resubmit[d] => at[d] \in {"lease", "release", "resubmit", "commit", "signal", "finish"}

PlacesInv == OverlapIsNoted /\ \A d \in Drawers : StageMatchesPlace(d)

\* The places of Draw before the lease is used up.
Early == {"check", "consume", "pop", "doDraw", "raster"}

\* A thread that has started a Draw is the rasterizing thread as long as that
\* matters: nobody but itself changes the lease under its feet.
RightThread ==
  /\ at[Raster] \in Early => lease = 0
  /\ at[Raster] = "lease" => lease \in {0, LeaseTerm}
  /\ at[Platform] \in Early \cup {"lease"} => lease > 0

\* A frame that is not on the screen yet, and may get there.
Trying(d) ==
  \/ at[d] \in {"doDraw", "raster"} /\ FromPipeline(d)
  \/ at[d] \in {"lease", "release", "resubmit", "commit"} /\ resubmit[d]

QueueInOrder ==
  /\ \A i \in 1..Len(queue) : queue[i].n > presented /\ queue[i].n <= built
  /\ \A i, j \in 1..Len(queue) : i < j => queue[i].n < queue[j].n

\* The numbers of frames grow from the screen over the frame being drawn and the
\* queue to the last frame built.
FrameInOrder(d) ==
  /\ Trying(d) =>
       /\ frame[d].n > presented /\ frame[d].n <= built
       /\ \A i \in 1..Len(queue) : frame[d].n < queue[i].n
  /\ at[d] \in {"doDraw", "raster"} /\ ~FromPipeline(d) => frame[d].n = presented

FramesInOrder ==
  /\ presented \in Nat /\ presented <= built
  /\ QueueInOrder
  /\ last # NoItem => last.n = presented
  /\ \A d \in Drawers : FrameInOrder(d)

PathTyping ==
  /\ reuses \in 0..MaxReuses
  /\ notify \in BOOLEAN
  /\ tasks \in Seq(DrawTasks \cup {"DrawLast"})
  /\ resubmit \in [Drawers -> BOOLEAN]
  /\ more \in [Drawers -> BOOLEAN]
  /\ lease \in 0..LeaseTerm
  /\ composed \in BOOLEAN
  /\ presented \in 0..MaxFrames
  /\ mishaps \in SUBSET {"missed", "overlap"}

\* The UI thread has posted the Draw of a frame before it begins the next one,
\* and never consumes.
NotifiesFirst ==
  /\ stage[UI] \in {"idle", "signalFirst", "signalBehind"}
  /\ notify => stage[UI] = "idle"
  /\ notify \/ UI \in Signallers => continuation[UI] = "none"

PathInv ==
  /\ PathTyping
  /\ PlacesInv
  /\ NotifiesFirst
  /\ Alone => RightThread /\ FramesInOrder
  /\ WaitingFramesHaveADraw

-----------------------------------------------------------------------------
\* Everything that is known of a state before a step.
Known == PipelineInv /\ FrameInv /\ PathInv

\* What a step may do to the variables that few actions change.
LEMMA Effects ==
  ASSUME [Next]_vars
  PROVE  /\ \/ tasks' = tasks
            \/ tasks # <<>> /\ tasks' = Tail(tasks)
            \/ \E x \in DrawTasks \cup {"DrawLast"} : tasks' = Append(tasks, x)
         /\ \/ resubmit' = resubmit
            \/ \E d \in Drawers, b \in BOOLEAN : resubmit' = [resubmit EXCEPT ![d] = b]
         /\ \/ more' = more
            \/ \E d \in Drawers, b \in BOOLEAN : more' = [more EXCEPT ![d] = b]
         /\ \/ lease' \in {lease, LeaseTerm}
            \/ lease > 0 /\ lease' = lease - 1
         /\ \/ presented' = presented
            \/ \E d \in Drawers : at[d] = "raster" /\ presented' = frame[d].n
         /\ \/ UNCHANGED reuses
            \/ reuses < MaxReuses /\ reuses' = reuses + 1
         /\ notify' \in {notify, TRUE, FALSE} /\ composed' \in {composed, TRUE, FALSE}
         /\ mishaps \subseteq mishaps' /\ mishaps' \subseteq mishaps \cup {"missed", "overlap"}
<1>. USE DEF Next, vars, uiVars, drawVars, embedderVars, screenVars, BeginFrame,
       CompleteFrame, SignalFrame, OnAnimatorDraw, OnAnimatorDrawLastLayerTrees, DrawStep,
       StartTask, CheckThread, Consume, PopFrame, AbandonDraw, DiscardLayerTree,
       BeginEmbedderFrame, FailDraw, MergeAndRetry, SwitchSurfaceAndRetry, PresentFrame,
       DecrementLease, ReleaseFrame, ResubmitFrame, CommitResubmitted, SignalResubmitted,
       FinishDraw
<1>1. \/ tasks' = tasks
      \/ tasks # <<>> /\ tasks' = Tail(tasks)
      \/ \E x \in DrawTasks \cup {"DrawLast"} : tasks' = Append(tasks, x)
  BY DEF DrawTasks
<1>2. \/ resubmit' = resubmit
      \/ \E d \in Drawers, b \in BOOLEAN : resubmit' = [resubmit EXCEPT ![d] = b]
  <2>1. \A d \in Drawers : FromPipeline(d) \in BOOLEAN
    BY DEF FromPipeline
  <2>. QED
    BY <2>1
<1>3. \/ more' = more
      \/ \E d \in Drawers, b \in BOOLEAN : more' = [more EXCEPT ![d] = b]
  OBVIOUS
<1>4. \/ lease' \in {lease, LeaseTerm}
      \/ lease > 0 /\ lease' = lease - 1
  BY DEF Merged
<1>5. \/ presented' = presented
      \/ \E d \in Drawers : at[d] = "raster" /\ presented' = frame[d].n
  OBVIOUS
<1>6. UNCHANGED reuses \/ (reuses < MaxReuses /\ reuses' = reuses + 1)
  OBVIOUS
<1>7. notify' \in {notify, TRUE, FALSE} /\ composed' \in {composed, TRUE, FALSE}
  OBVIOUS
<1>8. mishaps \subseteq mishaps' /\ mishaps' \subseteq mishaps \cup {"missed", "overlap"}
  BY DEF NoteOverlap
<1>. QED
  BY <1>1, <1>2, <1>3, <1>4, <1>5, <1>6, <1>7, <1>8

LEMMA PathTypingStep ==
  ASSUME Known, [Next]_vars
  PROVE  PathTyping'
<1>0. /\ LeaseTerm \in Nat /\ MaxReuses \in Nat /\ MaxFrames \in Nat
      /\ lease \in 0..LeaseTerm /\ PathTyping /\ FrameInv
  BY FramePipelineAssumption DEF Known, PathInv, PathTyping
<1>1. reuses' \in 0..MaxReuses /\ lease' \in 0..LeaseTerm
  <2>1. UNCHANGED reuses \/ (reuses < MaxReuses /\ reuses' = reuses + 1)
    BY Effects
  <2>2. lease' \in {lease, LeaseTerm} \/ (lease > 0 /\ lease' = lease - 1)
    BY Effects
  <2>. QED
    BY <1>0, <2>1, <2>2 DEF PathTyping
<1>2. notify' \in BOOLEAN /\ composed' \in BOOLEAN
  BY <1>0, Effects DEF PathTyping
<1>3. tasks' \in Seq(DrawTasks \cup {"DrawLast"})
  <2>. DEFINE S == DrawTasks \cup {"DrawLast"}
  <2>1. tasks \in Seq(S)
    BY <1>0 DEF PathTyping
  <2>2. tasks # <<>> => Tail(tasks) \in Seq(S)
    BY <2>1, HeadTailProperties
  <2>3. \A x \in S : Append(tasks, x) \in Seq(S)
    BY <2>1, AppendProperties
  <2>. QED
    BY <2>1, <2>2, <2>3, Effects
<1>4. resubmit' \in [Drawers -> BOOLEAN] /\ more' \in [Drawers -> BOOLEAN]
  BY <1>0, Effects DEF PathTyping
<1>5. presented' \in 0..MaxFrames
  <2>1. ASSUME NEW d \in Drawers, at[d] = "raster" PROVE frame[d].n \in 1..MaxFrames
    BY <1>0, <2>1, ThreadTypes DEF FrameInv, Working, Frames
  <2>2. presented' = presented \/ \E d \in Drawers : at[d] = "raster" /\ presented' = frame[d].n
    BY Effects
  <2>. QED
    BY <1>0, <2>1, <2>2 DEF PathTyping
<1>6. mishaps' \in SUBSET {"missed", "overlap"}
  BY <1>0, Effects DEF PathTyping
<1>. QED
  BY <1>1, <1>2, <1>3, <1>4, <1>5, <1>6 DEF PathTyping

-----------------------------------------------------------------------------
(* The places of the threads.                                              *)

LEMMA UiLeavesDrawers ==
  ASSUME Known, \/ BeginFrame \/ CompleteFrame \/ SignalFrame \/ OnAnimatorDraw
                \/ OnAnimatorDrawLastLayerTrees
  PROVE  /\ \A d \in Drawers : stage'[d] = stage[d] /\ continuation'[d] = continuation[d]
         /\ UNCHANGED <<at, frame, resubmit, more, lease, composed, last, presented, mishaps>>
BY FramePipelineAssumption DEF BeginFrame, CompleteFrame, SignalFrame, OnAnimatorDraw,
     OnAnimatorDrawLastLayerTrees, Produce, ProducerCommit, Push, Signal, Known, PipelineInv,
     Typing, Drawers, pipelineVars, drawVars, embedderVars, screenVars, uiVars

\* The types that a step of a drawing thread needs.
LEMMA DrawTypes ==
  ASSUME Known
  PROVE  /\ Drawers \subseteq Threads
         /\ stage \in [Threads -> Stages] /\ continuation \in [Threads -> Continuations]
         /\ queue \in Seq(Items) /\ NoItem \notin Items
         /\ at \in [Drawers -> Places] /\ frame \in [Drawers -> Items \cup {NoItem}]
         /\ resubmit \in [Drawers -> BOOLEAN] /\ more \in [Drawers -> BOOLEAN]
         /\ \A d \in Drawers : at[d] \in Working => frame[d] \in Items
         /\ \A d \in Drawers : StageMatchesPlace(d)
         /\ OverlapIsNoted
BY ThreadTypes DEF Known, PipelineInv, Typing, FrameInv, FrameTyping, PathInv, PathTyping,
   PlacesInv

\* A thread changes nobody's place but its own.
LEMMA DrawIsLocal ==
  ASSUME Known, NEW d \in Drawers, DrawStep(d), NEW e \in Drawers, e # d
  PROVE  /\ at'[e] = at[e] /\ frame'[e] = frame[e]
         /\ resubmit'[e] = resubmit[e] /\ more'[e] = more[e]
         /\ stage'[e] = stage[e] /\ continuation'[e] = continuation[e]
BY DrawTypes DEF DrawStep, StartTask, CheckThread, Consume, PopFrame, AbandonDraw, DiscardLayerTree,
   BeginEmbedderFrame, FailDraw, MergeAndRetry, SwitchSurfaceAndRetry, PresentFrame,
   DecrementLease, ReleaseFrame, ResubmitFrame, CommitResubmitted, SignalResubmitted,
   FinishDraw, Goto, ConsumeTryWait, ConsumePop, ConsumeEnd, Produce, ProducerCommitIfEmpty,
   Push, Signal, pipelineVars, drawVars

LEMMA DrawPlaces ==
  ASSUME Known, NEW d \in Drawers, DrawStep(d)
  PROVE  StageMatchesPlace(d)'
<1>. USE DrawTypes DEF StageMatchesPlace, FromPipeline, Drawing, Working, Servers, Signallers,
       Goto, Places, Stages, pipelineVars, drawVars
<1>1. CASE StartTask(d)
  BY <1>1 DEF StartTask
<1>2. CASE CheckThread(d)
  BY <1>2 DEF CheckThread
<1>3. CASE Consume(d)
  BY <1>3 DEF Consume, ConsumeTryWait
<1>4. CASE PopFrame(d)
  BY <1>4, HeadTailProperties DEF PopFrame, ConsumePop
<1>5. CASE AbandonDraw(d) \/ DiscardLayerTree(d) \/ BeginEmbedderFrame(d)
  BY <1>5 DEF AbandonDraw, DiscardLayerTree, BeginEmbedderFrame, AfterSurfaces
<1>6. CASE FailDraw(d) \/ MergeAndRetry(d) \/ SwitchSurfaceAndRetry(d)
  BY <1>6 DEF FailDraw, MergeAndRetry, SwitchSurfaceAndRetry, AfterSurfaces
<1>7. CASE PresentFrame(d) \/ DecrementLease(d)
  BY <1>7 DEF PresentFrame, DecrementLease, AfterSurfaces
<1>8. CASE ReleaseFrame(d)
  BY <1>8 DEF ReleaseFrame, ConsumeEnd
<1>9. CASE ResubmitFrame(d)
  BY <1>9 DEF ResubmitFrame, Produce
<1>10. CASE CommitResubmitted(d)
  BY <1>10 DEF CommitResubmitted, ProducerCommitIfEmpty, Push
<1>11. CASE SignalResubmitted(d)
  BY <1>11 DEF SignalResubmitted, Signal
<1>12. CASE FinishDraw(d)
  BY <1>12 DEF FinishDraw
<1>. QED
  BY <1>1, <1>2, <1>3, <1>4, <1>5, <1>6, <1>7, <1>8, <1>9, <1>10, <1>11, <1>12 DEF DrawStep

LEMMA StepOverlap ==
  ASSUME Known, [Next]_vars
  PROVE  OverlapIsNoted' /\ (Alone' => Alone)
<1>1. Alone' => Alone
  BY Effects DEF Alone
<1>2. ASSUME NEW d \in Drawers, DrawStep(d) PROVE OverlapIsNoted'
  <2>1. \/ Drawing(d)' => Drawing(d)
        \/ NoteOverlap(d)
    BY <1>2, DrawTypes
       DEF Drawing, DrawStep, StartTask, CheckThread, Consume, PopFrame, AbandonDraw,
       DiscardLayerTree, BeginEmbedderFrame, FailDraw, MergeAndRetry, SwitchSurfaceAndRetry,
       PresentFrame, DecrementLease, ReleaseFrame, ResubmitFrame, CommitResubmitted,
       SignalResubmitted, FinishDraw
  <2>2. \A e \in Drawers \ {d} : Drawing(e)' <=> Drawing(e)
    BY <1>2, DrawIsLocal DEF Drawing
  <2>. QED
    BY <1>1, <2>1, <2>2, DrawTypes DEF OverlapIsNoted, NoteOverlap, Alone
<1>3. CASE UNCHANGED <<frame, mishaps>>
  BY <1>3, DrawTypes DEF OverlapIsNoted, Drawing, Alone
<1>4. UNCHANGED <<frame, mishaps>> \/ \E d \in Drawers : DrawStep(d)
  <2>1. CASE UNCHANGED vars
    BY <2>1 DEF vars, drawVars
  <2>. QED
    BY <2>1, UiLeavesDrawers DEF Next
<1>. QED
  BY <1>1, <1>2, <1>3, <1>4

LEMMA PlacesStep ==
  ASSUME Known, [Next]_vars
  PROVE  PlacesInv'
<1>1. ASSUME NEW d \in Drawers, DrawStep(d), NEW e \in Drawers
      PROVE  StageMatchesPlace(e)'
  <2>1. CASE e = d
    BY <1>1, <2>1, DrawPlaces
  <2>2. CASE e # d
    BY <1>1, <2>2, DrawIsLocal, DrawTypes
       DEF StageMatchesPlace, FromPipeline, Drawing, Servers, Signallers
  <2>. QED
    BY <2>1, <2>2
<1>2. ASSUME NEW e \in Drawers, stage'[e] = stage[e], continuation'[e] = continuation[e],
             UNCHANGED <<at, frame, resubmit>>
      PROVE  StageMatchesPlace(e)'
  BY <1>2, DrawTypes DEF StageMatchesPlace, FromPipeline, Drawing, Servers, Signallers
<1>3. CASE UNCHANGED vars
  <2>1. stage' = stage /\ continuation' = continuation /\ UNCHANGED <<at, frame, resubmit>>
    BY <1>3 DEF vars, drawVars, pipelineVars
  <2>. QED
    BY <1>2, <2>1, StepOverlap DEF PlacesInv
<1>. QED
  BY <1>1, <1>2, <1>3, UiLeavesDrawers, StepOverlap DEF Next, PlacesInv

-----------------------------------------------------------------------------
(* Draws run on the rasterizing thread.                                    *)

LEMMA RightThreadStep ==
  ASSUME Known, [Next]_vars, Alone'
  PROVE  RightThread'
<1>. RightThread /\ Alone
  BY StepOverlap DEF Known, PathInv
<1>. /\ lease \in Nat /\ LeaseTerm \in Nat /\ LeaseTerm > 1
     /\ Drawers = {Raster, Platform} /\ Raster # Platform
  BY FramePipelineAssumption DEF Known, PathInv, PathTyping, Drawers
<1>1. ASSUME NEW d \in Drawers, DrawStep(d) PROVE RightThread'
  <2>. USE DrawTypes DEF RightThread, Early, Goto, Merged, Places
  <2>1. CASE StartTask(d)
    BY <1>1, <2>1 DEF StartTask, RasterizingThread, embedderVars
  <2>2. CASE CheckThread(d) \/ Consume(d) \/ PopFrame(d)
    BY <1>1, <2>2 DEF CheckThread, Consume, PopFrame, embedderVars
  <2>3. CASE AbandonDraw(d) \/ DiscardLayerTree(d) \/ BeginEmbedderFrame(d) \/ FailDraw(d)
    BY <1>1, <2>3 DEF AbandonDraw, DiscardLayerTree, BeginEmbedderFrame, FailDraw,
       AfterSurfaces, embedderVars
  <2>4. CASE MergeAndRetry(d) \/ SwitchSurfaceAndRetry(d) \/ PresentFrame(d)
    BY <1>1, <2>4 DEF MergeAndRetry, SwitchSurfaceAndRetry, PresentFrame, AfterSurfaces
  <2>5. CASE DecrementLease(d)
    <3>1. ASSUME NEW e \in Drawers, e # d PROVE at[e] # "lease"
      BY <3>1, <2>5 DEF DecrementLease, OverlapIsNoted, Drawing, Working
    <3>. QED
      BY <1>1, <2>5, <3>1 DEF DecrementLease
  <2>6. CASE ReleaseFrame(d) \/ ResubmitFrame(d) \/ CommitResubmitted(d)
             \/ SignalResubmitted(d) \/ FinishDraw(d)
    BY <1>1, <2>6 DEF ReleaseFrame, ResubmitFrame, CommitResubmitted, SignalResubmitted,
       FinishDraw, embedderVars
  <2>. QED
    BY <1>1, <2>1, <2>2, <2>3, <2>4, <2>5, <2>6 DEF DrawStep
<1>2. CASE UNCHANGED <<at, lease>>
  BY <1>2 DEF RightThread
<1>3. CASE UNCHANGED vars
  BY <1>2, <1>3 DEF vars, drawVars, embedderVars
<1>. QED
  BY <1>1, <1>2, <1>3, UiLeavesDrawers DEF Next

-----------------------------------------------------------------------------
(* Frames stay in order.                                                   *)

LEMMA FrameNumbers ==
  ASSUME Known
  PROVE  /\ \A x \in Items : x.n \in Nat \ {0}
         /\ built \in Nat
         /\ Len(queue) \in Nat
         /\ \A i \in 1..Len(queue) : queue[i] \in Items
         /\ queue # <<>> => 1 \in 1..Len(queue) /\ queue[1] = Head(queue)
         /\ last \in Items \cup {NoItem}
<1>1. \A x \in Items : x.n \in Nat \ {0}
  BY ThreadTypes DEF Frames
<1>2. queue \in Seq(Items) /\ built \in Nat /\ last \in Items \cup {NoItem}
  BY ThreadTypes DEF Known, FrameInv, FrameTyping
<1>. QED
  BY <1>1, <1>2, ElementOfSeq, LenProperties, HeadTailProperties, EmptySeq

\* A frame that is newer than all others is put into the pipeline.
LEMMA PushInOrder ==
  ASSUME Known, FramesInOrder, NEW x \in Items,
         queue' = Append(queue, x), x.n <= built', built' \in Nat, built <= built', presented' = presented,
         x.n > presented, \A i \in 1..Len(queue) : queue[i].n < x.n
  PROVE  QueueInOrder'
<1>1. /\ Len(queue') = Len(queue) + 1
      /\ \A i \in 1..Len(queue) : queue'[i] = queue[i]
      /\ queue'[Len(queue) + 1] = x
  BY AppendProperties, DrawTypes
<1>2. /\ \A i \in 1..Len(queue) : queue[i].n \in Nat
      /\ x.n \in Nat /\ presented \in Nat /\ built \in Nat /\ built' \in Nat /\ Len(queue) \in Nat
  BY FrameNumbers DEF FramesInOrder
<1>. QED
  BY <1>1, <1>2 DEF FramesInOrder, QueueInOrder

LEMMA UiFramesInOrder ==
  ASSUME Known, FramesInOrder,
         \/ BeginFrame \/ CompleteFrame \/ SignalFrame \/ OnAnimatorDraw
         \/ OnAnimatorDrawLastLayerTrees
  PROVE  FramesInOrder'
<1>1. /\ UNCHANGED <<at, frame, resubmit, last, presented>>
      /\ \A d \in Drawers : stage'[d] = stage[d]
  BY UiLeavesDrawers
<1>2. \A d \in Drawers : (FromPipeline(d)' <=> FromPipeline(d)) /\ (Trying(d)' <=> Trying(d))
  BY <1>1, DrawTypes DEF FromPipeline, Trying, Servers
<1>3. CASE CompleteFrame
  <2>1. PICK views \in BOOLEAN :
          ProducerCommit(UI, [n |-> built + 1, platformViews |-> views])
    BY <1>3 DEF CompleteFrame
  <2>. DEFINE x == [n |-> built + 1, platformViews |-> views]
  <2>2. x \in Items /\ x.n = built + 1 /\ built' = built + 1 /\ built \in Nat
    BY <1>3, NewFrame, FrameNumbers DEF CompleteFrame, Known, FrameInv
  <2>3. queue' = Append(queue, x)
    BY <2>1 DEF ProducerCommit, Push
  <2>4. \A i \in 1..Len(queue) : queue[i].n < x.n
    BY <2>2, FrameNumbers DEF FramesInOrder, QueueInOrder
  <2>5. QueueInOrder'
    BY <1>1, <2>2, <2>3, <2>4, PushInOrder DEF FramesInOrder
  <2>6. ASSUME NEW d \in Drawers PROVE FrameInOrder(d)'
    <3>1. FrameInOrder(d)
      BY DEF FramesInOrder
    <3>2. /\ Len(queue') = Len(queue) + 1
          /\ \A i \in 1..Len(queue) : queue'[i] = queue[i]
          /\ queue'[Len(queue) + 1] = x
      BY <2>2, <2>3, AppendProperties, DrawTypes
    <3>3. Trying(d) => frame[d].n \in Nat
      BY DrawTypes, FrameNumbers DEF Trying, Working
    <3>. QED
      BY <1>1, <1>2, <2>2, <3>1, <3>2, <3>3, FrameNumbers DEF FrameInOrder
  <2>. QED
    BY <1>1, <2>2, <2>5, <2>6 DEF FramesInOrder
<1>4. CASE UNCHANGED <<queue, built>>
  BY <1>1, <1>2, <1>4 DEF FramesInOrder, FrameInOrder, QueueInOrder
<1>5. CompleteFrame \/ UNCHANGED <<queue, built>>
  BY DEF BeginFrame, SignalFrame, OnAnimatorDraw, OnAnimatorDrawLastLayerTrees, Produce,
     Signal, pipelineVars, uiVars
<1>. QED
  BY <1>3, <1>4, <1>5

\* If thread d works on a frame and the threads have not overlapped, the other
\* thread has none, so that only d's frame has to be looked at.
LEMMA OnlyOneFrame ==
  ASSUME Known, Alone, Alone', NEW d \in Drawers, DrawStep(d), Drawing(d) \/ Drawing(d)',
         NEW e \in Drawers, e # d
  PROVE  FrameInOrder(e)'
<1>1. OverlapIsNoted'
  BY StepOverlap DEF Next
<1>2. Drawing(e)' <=> Drawing(e)
  BY DrawIsLocal DEF Drawing
<1>3. ~Drawing(e)
  BY <1>1, <1>2, DrawTypes DEF OverlapIsNoted
<1>4. at'[e] \notin Working
  BY <1>3, DrawTypes, DrawIsLocal DEF StageMatchesPlace
<1>. QED
  BY <1>4 DEF FrameInOrder, Trying, Working

\* A step that changes no frame and takes no new one up.
LEMMA QuietStep ==
  ASSUME Known, FramesInOrder, NEW d \in Drawers, DrawStep(d),
         UNCHANGED <<queue, built, presented, last>>,
         Trying(d)' => Trying(d) /\ frame'[d] = frame[d],
         at'[d] \in {"doDraw", "raster"} /\ ~FromPipeline(d)' =>
           /\ at[d] \in {"doDraw", "raster"} /\ ~FromPipeline(d)
           /\ frame'[d] = frame[d]
  PROVE  FramesInOrder'
<1>1. ASSUME NEW e \in Drawers PROVE FrameInOrder(e)'
  <2>1. FrameInOrder(e)
    BY DEF FramesInOrder
  <2>2. CASE e = d
    BY <2>1, <2>2 DEF FrameInOrder
  <2>3. CASE e # d
    <3>1. /\ at'[e] = at[e] /\ frame'[e] = frame[e] /\ resubmit'[e] = resubmit[e]
          /\ stage'[e] = stage[e]
      BY <2>3, DrawIsLocal
    <3>. QED
      BY <2>1, <3>1 DEF FrameInOrder, Trying, FromPipeline, Servers
  <2>. QED
    BY <2>2, <2>3
<1>. QED
  BY <1>1 DEF FramesInOrder, QueueInOrder

LEMMA DrawFramesInOrder ==
  ASSUME Known, Alone, Alone', FramesInOrder, NEW d \in Drawers, DrawStep(d)
  PROVE  FramesInOrder'
<1>0. /\ d \in Threads /\ stage \in [Threads -> Stages] /\ at \in [Drawers -> Places]
      /\ frame \in [Drawers -> Items \cup {NoItem}] /\ resubmit \in [Drawers -> BOOLEAN]
      /\ StageMatchesPlace(d) /\ FrameInOrder(d)
      /\ at[d] \in Working => frame[d] \in Items
  BY DrawTypes DEF FramesInOrder
<1>1. CASE \/ CheckThread(d) \/ Consume(d) \/ AbandonDraw(d) \/ DiscardLayerTree(d)
           \/ BeginEmbedderFrame(d) \/ FailDraw(d) \/ MergeAndRetry(d)
           \/ SwitchSurfaceAndRetry(d) \/ DecrementLease(d) \/ ReleaseFrame(d)
           \/ ResubmitFrame(d) \/ SignalResubmitted(d) \/ FinishDraw(d)
  <2>1. UNCHANGED <<queue, built, presented, last>>
    BY <1>1 DEF CheckThread, Consume, AbandonDraw, DiscardLayerTree, BeginEmbedderFrame,
       FailDraw, MergeAndRetry, SwitchSurfaceAndRetry, DecrementLease, ReleaseFrame,
       ResubmitFrame, SignalResubmitted, FinishDraw, ConsumeTryWait, ConsumeEnd, Produce, Signal,
       pipelineVars, uiVars, screenVars
  <2>2. Trying(d)' => Trying(d) /\ frame'[d] = frame[d]
    BY <1>0, <1>1 DEF CheckThread, Consume, AbandonDraw, DiscardLayerTree, BeginEmbedderFrame,
       FailDraw, MergeAndRetry, SwitchSurfaceAndRetry, DecrementLease, ReleaseFrame,
       ResubmitFrame, SignalResubmitted, FinishDraw, ConsumeTryWait, ConsumeEnd, Produce, Signal,
       pipelineVars, Goto, Trying, StageMatchesPlace, FromPipeline, Servers, AfterSurfaces
  <2>3. at'[d] \in {"doDraw", "raster"} /\ ~FromPipeline(d)' =>
           /\ at[d] \in {"doDraw", "raster"} /\ ~FromPipeline(d)
           /\ frame'[d] = frame[d]
    BY <1>0, <1>1 DEF CheckThread, Consume, AbandonDraw, DiscardLayerTree, BeginEmbedderFrame,
       FailDraw, MergeAndRetry, SwitchSurfaceAndRetry, DecrementLease, ReleaseFrame,
       ResubmitFrame, SignalResubmitted, FinishDraw, pipelineVars, Goto, FromPipeline, Servers,
       AfterSurfaces
  <2>. QED
    BY <2>1, <2>2, <2>3, QuietStep
<1>2. CASE StartTask(d)
  <2>1. UNCHANGED <<queue, built, presented, stage>>
    BY <1>2 DEF StartTask, pipelineVars, uiVars
  <2>2. CASE UNCHANGED last
    <3>1. at'[d] \in {"idle", "check"}
      BY <1>0, <1>2, <2>2 DEF StartTask, Goto
    <3>. QED
      BY <2>1, <2>2, <3>1, QuietStep DEF Trying
  <2>3. CASE /\ last # NoItem /\ last' = NoItem /\ Goto(d, "doDraw")
             /\ frame' = [frame EXCEPT ![d] = last]
    <3>1. frame'[d] = last /\ at'[d] = "doDraw" /\ ~FromPipeline(d)'
      BY <1>0, <1>2, <2>1, <2>3 DEF StartTask, Goto, StageMatchesPlace, FromPipeline, Servers
    <3>2. FrameInOrder(d)' /\ Drawing(d)'
      BY <2>1, <2>3, <3>1 DEF FrameInOrder, Trying, FramesInOrder, Drawing
    <3>3. \A e \in Drawers : FrameInOrder(e)'
      BY <3>2, OnlyOneFrame
    <3>. QED
      BY <2>1, <2>3, <3>3 DEF FramesInOrder, QueueInOrder
  <2>. QED
    BY <1>2, <2>2, <2>3 DEF StartTask
<1>3. CASE PopFrame(d)
  <2>1. /\ queue # <<>> /\ queue' = Tail(queue) /\ frame'[d] = Head(queue) /\ at'[d] = "doDraw"
        /\ UNCHANGED <<built, presented, last>> /\ FromPipeline(d)'
    BY <1>0, <1>3 DEF PopFrame, ConsumePop, Goto, uiVars, screenVars, FromPipeline, Servers
  <2>2. /\ Len(queue') = Len(queue) - 1
        /\ \A i \in 1..Len(queue') : i + 1 \in 1..Len(queue) /\ queue'[i] = queue[i + 1]
        /\ 1 \in 1..Len(queue) /\ frame'[d] = queue[1] /\ Len(queue) \in Nat
    BY <2>1, HeadTailProperties, DrawTypes, FrameNumbers
  <2>3. QueueInOrder'
    BY <2>1, <2>2 DEF FramesInOrder, QueueInOrder
  <2>4. FrameInOrder(d)' /\ Drawing(d)'
    BY <2>1, <2>2, FrameNumbers, DrawTypes
       DEF FramesInOrder, QueueInOrder, FrameInOrder, Trying, Drawing
  <2>5. \A e \in Drawers : FrameInOrder(e)'
    BY <2>4, OnlyOneFrame
  <2>. QED
    BY <2>1, <2>3, <2>5 DEF FramesInOrder
<1>4. CASE PresentFrame(d)
  <2>1. /\ UNCHANGED <<queue, built>> /\ last' = frame[d] /\ presented' = frame[d].n
        /\ at[d] = "raster" /\ at'[d] \in {"lease", "finish"} /\ ~resubmit'[d]
        /\ frame[d] \in Items /\ Drawing(d)
    BY <1>0, <1>4 DEF PresentFrame, pipelineVars, uiVars, Goto, AfterSurfaces,
       StageMatchesPlace, Working
  <2>2. /\ presented' \in Nat /\ presented' <= built
        /\ \A i \in 1..Len(queue) : queue[i].n > presented'
    BY <1>0, <2>1, FrameNumbers DEF FrameInOrder, Trying, FramesInOrder, QueueInOrder
  <2>3. \A e \in Drawers : FrameInOrder(e)'
    BY <2>1, OnlyOneFrame DEF FrameInOrder, Trying
  <2>. QED
    BY <2>1, <2>2, <2>3 DEF FramesInOrder, QueueInOrder
<1>5. CASE CommitResubmitted(d)
  <2>1. /\ at[d] = "commit" /\ at'[d] \in {"signal", "finish"} /\ frame' = frame
        /\ UNCHANGED <<built, presented, last>> /\ frame[d] \in Items /\ Trying(d) /\ Drawing(d)
    BY <1>0, <1>5 DEF CommitResubmitted, Goto, uiVars, screenVars, StageMatchesPlace, Working,
       Trying
  <2>2. CASE UNCHANGED queue
    BY <2>1, <2>2, QuietStep DEF Trying
  <2>3. CASE queue = <<>> /\ queue' = Append(queue, frame[d])
    <3>1. frame[d].n > presented /\ frame[d].n <= built'
      BY <1>0, <2>1 DEF FrameInOrder
    <3>2. QueueInOrder'
      BY <2>1, <2>3, <3>1, PushInOrder, FrameNumbers
    <3>3. \A e \in Drawers : FrameInOrder(e)'
      BY <2>1, OnlyOneFrame DEF FrameInOrder, Trying
    <3>. QED
      BY <2>1, <3>2, <3>3 DEF FramesInOrder
  <2>. QED
    BY <1>5, <2>2, <2>3 DEF CommitResubmitted, ProducerCommitIfEmpty, Push
<1>. QED
  BY <1>1, <1>2, <1>3, <1>4, <1>5 DEF DrawStep

LEMMA FramesInOrderStep ==
  ASSUME Known, [Next]_vars, Alone'
  PROVE  FramesInOrder'
<1>1. Alone /\ FramesInOrder
  BY StepOverlap DEF Known, PathInv
<1>2. CASE UNCHANGED vars
  <2>1. UNCHANGED <<queue, stage, built, at, frame, resubmit, last, presented>>
    BY <1>2 DEF vars, pipelineVars, uiVars, drawVars, screenVars
  <2>. QED
    BY <1>1, <2>1 DEF FramesInOrder, QueueInOrder, FrameInOrder, Trying, FromPipeline, Servers
<1>. QED
  BY <1>1, <1>2, UiFramesInOrder, DrawFramesInOrder DEF Next

-----------------------------------------------------------------------------
(* A Draw is coming while frames wait.                                     *)

\* A task of the raster queue that is a Draw.
LEMMA DrawTaskAppended ==
  ASSUME Known, NEW x \in DrawTasks \cup {"DrawLast"}, tasks' = Append(tasks, x)
  PROVE  /\ x \in DrawTasks => \E i \in 1..Len(tasks') : tasks'[i] \in DrawTasks
         /\ (\E i \in 1..Len(tasks) : tasks[i] \in DrawTasks)
              => \E i \in 1..Len(tasks') : tasks'[i] \in DrawTasks
<1>1. tasks \in Seq(DrawTasks \cup {"DrawLast"})
  BY DEF Known, PathInv, PathTyping
<1>2. /\ Len(tasks) \in Nat /\ Len(tasks') = Len(tasks) + 1
      /\ \A i \in 1..Len(tasks) : tasks'[i] = tasks[i]
      /\ tasks'[Len(tasks) + 1] = x
  BY <1>1, AppendProperties, LenProperties
<1>. QED
  BY <1>2

LEMMA DrawTaskRemoved ==
  ASSUME Known, tasks # <<>>, tasks' = Tail(tasks), Head(tasks) \notin DrawTasks,
         NEW i \in 1..Len(tasks), tasks[i] \in DrawTasks
  PROVE  \E j \in 1..Len(tasks') : tasks'[j] \in DrawTasks
<1>1. tasks \in Seq(DrawTasks \cup {"DrawLast"})
  BY DEF Known, PathInv, PathTyping
<1>2. /\ Len(tasks) \in Nat /\ Len(tasks') = Len(tasks) - 1 /\ Head(tasks) = tasks[1]
      /\ \A j \in 1..Len(tasks') : tasks'[j] = tasks[j + 1]
  BY <1>1, HeadTailProperties, LenProperties
<1>3. i - 1 \in 1..Len(tasks') /\ tasks'[i - 1] = tasks[i]
  BY <1>2
<1>. QED
  BY <1>3

LEMMA DrawLeavesUi ==
  ASSUME Known, NEW d \in Drawers, DrawStep(d)
  PROVE  UNCHANGED <<notify, built>> /\ stage'[UI] = stage[UI] /\ continuation'[UI] = continuation[UI]
<1>. UI \in Threads /\ UI # d /\ d \in Threads
  BY ThreadTypes, FramePipelineAssumption DEF Drawers
<1>. QED
  BY DrawTypes DEF DrawStep, StartTask, CheckThread, Consume, PopFrame, AbandonDraw,
     DiscardLayerTree, BeginEmbedderFrame, FailDraw, MergeAndRetry, SwitchSurfaceAndRetry,
     PresentFrame, DecrementLease, ReleaseFrame, ResubmitFrame, CommitResubmitted,
     SignalResubmitted, FinishDraw, ConsumeTryWait, ConsumePop, ConsumeEnd, Produce,
     ProducerCommitIfEmpty, Push, Signal, pipelineVars, uiVars

LEMMA NotifiesFirstStep ==
  ASSUME Known, [Next]_vars
  PROVE  NotifiesFirst'
<1>. /\ NotifiesFirst /\ UI \in Threads /\ notify \in BOOLEAN
     /\ stage \in [Threads -> Stages] /\ continuation \in [Threads -> Continuations]
  BY DrawTypes, ThreadTypes DEF Known, PathInv, PathTyping
<1>. USE DEF NotifiesFirst, Signallers
<1>1. CASE UNCHANGED vars
  BY <1>1 DEF vars, pipelineVars, uiVars
<1>2. CASE BeginFrame
  BY <1>2 DEF BeginFrame, Produce, uiVars
<1>3. CASE CompleteFrame
  BY <1>3 DEF CompleteFrame, ProducerCommit, Push
<1>4. CASE SignalFrame
  BY <1>4 DEF SignalFrame, Signal
<1>5. CASE OnAnimatorDraw \/ OnAnimatorDrawLastLayerTrees
  BY <1>5 DEF OnAnimatorDraw, OnAnimatorDrawLastLayerTrees, pipelineVars
<1>6. ASSUME NEW d \in Drawers, DrawStep(d) PROVE NotifiesFirst'
  BY <1>6, DrawLeavesUi
<1>. QED
  BY <1>1, <1>2, <1>3, <1>4, <1>5, <1>6 DEF Next

LEMMA UiWaiting ==
  ASSUME Known, queue' # <<>>, queue # <<>> => DrawIsComing,
         \/ BeginFrame \/ CompleteFrame \/ SignalFrame \/ OnAnimatorDraw
         \/ OnAnimatorDrawLastLayerTrees
  PROVE  DrawIsComing'
<1>0. /\ UNCHANGED <<at, more>> /\ \A d \in Drawers : stage'[d] = stage[d]
      /\ UI \in Threads /\ stage \in [Threads -> Stages]
  BY UiLeavesDrawers, DrawTypes, ThreadTypes
<1>1. CASE BeginFrame
  BY <1>0, <1>1 DEF BeginFrame, Produce, uiVars, DrawIsComing
<1>2. CASE CompleteFrame
  <2>1. /\ stage[UI] = "idle" /\ UNCHANGED <<notify, tasks>>
        /\ stage'[UI] = IF queue = <<>> THEN "signalFirst" ELSE "signalBehind"
    BY <1>0, <1>2 DEF CompleteFrame, ProducerCommit, Push
  <2>. QED
    BY <1>0, <2>1 DEF DrawIsComing
<1>3. CASE SignalFrame
  BY <1>0, <1>3 DEF SignalFrame, Signal, DrawIsComing, Known, PathInv, NotifiesFirst, Signallers
<1>4. CASE OnAnimatorDraw
  BY <1>4, DrawTaskAppended DEF OnAnimatorDraw, DrawIsComing, DrawTasks
<1>5. CASE OnAnimatorDrawLastLayerTrees
  <2>1. UNCHANGED <<notify, stage, queue>>
    BY <1>5 DEF OnAnimatorDrawLastLayerTrees, pipelineVars
  <2>2. tasks' = Append(tasks, "DrawLast")
    BY <1>5 DEF OnAnimatorDrawLastLayerTrees
  <2>. QED
    BY <1>0, <2>1, <2>2, DrawTaskAppended DEF DrawIsComing
<1>. QED
  BY <1>1, <1>2, <1>3, <1>4, <1>5

LEMMA DrawWaiting ==
  ASSUME Known, Alone, "missed" \notin mishaps', RightThread,
         queue' # <<>>, queue # <<>> => DrawIsComing, NEW d \in Drawers, DrawStep(d)
  PROVE  DrawIsComing'
<1>0. /\ stage'[UI] = stage[UI] /\ notify' = notify
      /\ at \in [Drawers -> Places] /\ more \in [Drawers -> BOOLEAN]
      /\ stage \in [Threads -> Stages] /\ d \in Threads /\ StageMatchesPlace(d)
  BY DrawLeavesUi, DrawTypes
<1>. USE DEF Goto
\* It suffices to look at what thread d was to do for those that wait.
<1>1. ASSUME queue # <<>>,
             tasks' = tasks \/ (tasks # <<>> /\ tasks' = Tail(tasks) /\ Head(tasks) \notin DrawTasks)
               \/ \E x \in DrawTasks \cup {"DrawLast"} : tasks' = Append(tasks, x),
             (\/ at[d] \in {"check", "consume", "pop", "signal"}
              \/ stage[d] = "serveMore"
              \/ more[d] /\ at[d] \in {"resubmit", "commit", "finish"})
             => \/ at'[d] \in {"check", "consume", "pop", "signal"}
                \/ stage'[d] = "serveMore"
                \/ more'[d] /\ at'[d] \in {"resubmit", "commit", "finish"}
                \/ \E x \in DrawTasks : tasks' = Append(tasks, x)
      PROVE  DrawIsComing'
  <2>1. \A e \in Drawers \ {d} :
          at'[e] = at[e] /\ more'[e] = more[e] /\ stage'[e] = stage[e]
    BY DrawIsLocal
  <2>2. (\E i \in 1..Len(tasks) : tasks[i] \in DrawTasks)
           => \E i \in 1..Len(tasks') : tasks'[i] \in DrawTasks
    BY <1>1, DrawTaskAppended, DrawTaskRemoved
  <2>3. ASSUME NEW x \in DrawTasks, tasks' = Append(tasks, x)
        PROVE  \E i \in 1..Len(tasks') : tasks'[i] \in DrawTasks
    BY <2>3, DrawTaskAppended
  <2>. QED
    BY <1>0, <1>1, <2>1, <2>2, <2>3 DEF DrawIsComing
<1>2. CASE StartTask(d)
  <2>1. UNCHANGED <<queue, stage>> /\ at[d] = "idle" /\ tasks # <<>> /\ tasks' = Tail(tasks)
    BY <1>2 DEF StartTask, pipelineVars
  <2>2. CASE Head(tasks) \in DrawTasks
    <3>1. at'[d] = "check"
      BY <1>0, <1>2, <2>2 DEF StartTask, DrawTasks
    <3>. QED
      BY <3>1 DEF DrawIsComing
  <2>3. CASE Head(tasks) \notin DrawTasks
    BY <1>0, <1>1, <2>1, <2>3
  <2>. QED
    BY <2>2, <2>3
<1>3. CASE CheckThread(d)
  <2>1. d = RasterizingThread
    BY <1>3, FramePipelineAssumption
       DEF CheckThread, RightThread, Early, RasterizingThread, Merged, Drawers, Known, PathInv,
       PathTyping
  <2>2. at'[d] = "consume"
    BY <1>0, <1>3, <2>1 DEF CheckThread
  <2>. QED
    BY <2>2 DEF DrawIsComing
<1>4. CASE Consume(d)
  <2>1. CASE at'[d] = "pop"
    BY <2>1 DEF DrawIsComing
  <2>2. CASE at'[d] = "idle" /\ queue' = queue /\ mishaps' = IF queue = <<>> THEN mishaps ELSE mishaps \cup {"missed"}
    BY <2>2
  <2>. QED
    BY <1>0, <1>4, <2>1, <2>2 DEF Consume, pipelineVars
<1>5. CASE PopFrame(d)
  <2>1. Len(queue) > 1
    BY <1>5, DrawTypes, HeadTailProperties, EmptySeq, LenProperties DEF PopFrame, ConsumePop
  <2>2. stage'[d] = "serveMore"
    BY <1>0, <1>5, <2>1 DEF PopFrame, ConsumePop
  <2>. QED
    BY <2>2 DEF DrawIsComing
<1>6. CASE \/ AbandonDraw(d) \/ DiscardLayerTree(d) \/ BeginEmbedderFrame(d) \/ FailDraw(d)
           \/ MergeAndRetry(d) \/ SwitchSurfaceAndRetry(d) \/ PresentFrame(d)
           \/ DecrementLease(d)
  <2>1. UNCHANGED <<queue, stage, tasks>> /\ at[d] \in {"doDraw", "raster", "lease"}
    BY <1>6 DEF AbandonDraw, DiscardLayerTree, BeginEmbedderFrame, FailDraw, MergeAndRetry,
       SwitchSurfaceAndRetry, PresentFrame, DecrementLease, pipelineVars
  <2>. QED
    BY <1>1, <2>1
<1>7. CASE ReleaseFrame(d)
  <2>1. UNCHANGED <<queue, tasks>> /\ at[d] = "release" /\ at'[d] \in {"resubmit", "finish"}
        /\ (stage[d] = "serveMore" => more'[d])
    BY <1>0, <1>7 DEF ReleaseFrame, ConsumeEnd
  <2>. QED
    BY <1>1, <2>1
<1>8. CASE ResubmitFrame(d)
  <2>1. UNCHANGED <<queue, tasks, more, stage>> /\ at[d] = "resubmit" /\ at'[d] \in {"commit", "finish"}
    BY <1>0, <1>8 DEF ResubmitFrame, Produce, pipelineVars
  <2>. QED
    BY <1>1, <2>1
<1>9. CASE CommitResubmitted(d)
  <2>1. CASE queue = <<>>
    BY <1>0, <1>9, <2>1 DEF CommitResubmitted, DrawIsComing
  <2>2. CASE queue # <<>>
    <3>1. UNCHANGED <<queue, tasks, more, stage>> /\ at[d] = "commit" /\ at'[d] = "finish"
      BY <1>0, <1>9, <2>2 DEF CommitResubmitted, ProducerCommitIfEmpty, Push
    <3>. QED
      BY <1>1, <3>1
  <2>. QED
    BY <2>1, <2>2
<1>10. CASE SignalResubmitted(d)
  <2>1. at'[d] = "finish" /\ more'[d]
    BY <1>0, <1>10 DEF SignalResubmitted
  <2>. QED
    BY <2>1 DEF DrawIsComing
<1>11. CASE FinishDraw(d)
  <2>1. UNCHANGED <<queue, stage>> /\ at[d] = "finish"
        /\ tasks' = IF more[d] THEN Append(tasks, "DrawMore") ELSE tasks
    BY <1>11 DEF FinishDraw, pipelineVars
  <2>. QED
    BY <1>1, <2>1 DEF DrawTasks
<1>. QED
  BY <1>2, <1>3, <1>4, <1>5, <1>6, <1>7, <1>8, <1>9, <1>10, <1>11 DEF DrawStep

LEMMA WaitingStep ==
  ASSUME Known, [Next]_vars
  PROVE  WaitingFramesHaveADraw'
<1> SUFFICES ASSUME queue' # <<>>, Alone', "missed" \notin mishaps'
             PROVE  DrawIsComing'
  BY DEF WaitingFramesHaveADraw, Alone
<1>1. Alone /\ RightThread /\ "missed" \notin mishaps
  BY StepOverlap, Effects DEF Known, PathInv
<1>2. queue # <<>> => DrawIsComing
  BY <1>1 DEF Known, PathInv, WaitingFramesHaveADraw, Alone
<1>3. CASE UNCHANGED vars
  <2>1. UNCHANGED <<queue, stage, notify, tasks, at, more>>
    BY <1>3 DEF vars, pipelineVars, uiVars, drawVars
  <2>. QED
    BY <1>2, <2>1 DEF DrawIsComing
<1>. QED
  BY <1>1, <1>2, <1>3, UiWaiting, DrawWaiting DEF Next

-----------------------------------------------------------------------------
LEMMA PathInit == Init => PathInv
<1> SUFFICES ASSUME Init PROVE PathInv
  OBVIOUS
<1>. USE DEF Init, PipelineInit
<1>1. PathTyping
  <2>1. tasks \in Seq(DrawTasks \cup {"DrawLast"})
    BY EmptySeq
  <2>2. LeaseTerm \in Nat /\ MaxReuses \in Nat /\ MaxFrames \in Nat
    BY FramePipelineAssumption
  <2>3. resubmit \in [Drawers -> BOOLEAN] /\ more \in [Drawers -> BOOLEAN]
    OBVIOUS
  <2>4. presented \in 0..MaxFrames /\ lease \in 0..LeaseTerm /\ reuses \in 0..MaxReuses
    BY <2>2
  <2>. QED
    BY <2>1, <2>3, <2>4 DEF PathTyping
<1>2. PlacesInv
  BY ThreadTypes DEF PlacesInv, OverlapIsNoted, StageMatchesPlace, FromPipeline, Servers,
     Signallers, Drawing, Working
<1>3. NotifiesFirst
  BY ThreadTypes DEF NotifiesFirst, Signallers
<1>4. RightThread
  BY FramePipelineAssumption DEF RightThread, Early, Drawers
<1>5. FramesInOrder
  BY DEF FramesInOrder, QueueInOrder, FrameInOrder, Trying
<1>6. WaitingFramesHaveADraw
  BY DEF WaitingFramesHaveADraw
<1>. QED
  BY <1>1, <1>2, <1>3, <1>4, <1>5, <1>6 DEF PathInv

LEMMA PathStep == Known /\ [Next]_vars => PathInv'
<1> SUFFICES ASSUME Known, [Next]_vars PROVE PathInv'
  OBVIOUS
<1>1. PathTyping' /\ PlacesInv' /\ NotifiesFirst' /\ WaitingFramesHaveADraw'
  BY PathTypingStep, PlacesStep, NotifiesFirstStep, WaitingStep
<1>2. Alone' => RightThread' /\ FramesInOrder'
  BY RightThreadStep, FramesInOrderStep
<1>. QED
  BY <1>1, <1>2 DEF PathInv

(* The invariant of the drawing threads holds of every behaviour: where a  *)
(* thread is in Draw determines what it holds of the pipeline, and until   *)
(* two threads work on frames at once, Draw runs on the rasterizing thread *)
(* and the frame numbers grow from the screen to the last frame built.     *)
THEOREM PathInvariant == Spec => []PathInv
<1>1. Init => PathInv
  BY PathInit
<1>2. PipelineInv /\ FrameInv /\ PathInv /\ [Next]_vars => PathInv'
  BY PathStep DEF Known
<1>3. Spec => []PipelineInv
  BY FramesUsePipeline, PipelineInvariant, PTL
<1>. QED
  BY <1>1, <1>2, <1>3, FramesAreReal, PTL DEF Spec
(* The frame path is type correct.                                         *)
THEOREM FrameTypeCorrect == Spec => []TypeOK
<1>1. Spec => []PipelineTypeOK
  BY FramesUsePipeline, PipelineTypeCorrect, PTL
<1>2. PipelineTypeOK /\ FrameInv /\ PathInv => TypeOK
  BY DEF FrameInv, FrameTyping, PathInv, PathTyping, TypeOK
<1>. QED
  BY <1>1, <1>2, FramesAreReal, PathInvariant, PTL

(* Whenever frames wait in the pipeline, a Draw that can consume them is   *)
(* coming, unless a Draw found the queue filled and not yet signalled or   *)
(* two threads drew at once (animator.cc:146-154, rasterizer.cc:271-305).  *)
THEOREM WaitingFramesAreDrawn == Spec => []WaitingFramesHaveADraw
<1>1. PathInv => WaitingFramesHaveADraw
  BY DEF PathInv
<1>. QED
  BY <1>1, PathInvariant, PTL

(* Until two threads draw at once, Draw runs on the rasterizing thread:    *)
(* the check at its beginning never makes it yield (rasterizer.cc:250).    *)
DrawsOnRasterizingThread ==
  \A d \in Drawers : at[d] \in Early => d = RasterizingThread \/ "overlap" \in mishaps

(* The check that Draw runs on the right thread never fails before that.   *)
THEOREM DrawsAreOnTheRightThread == Spec => []DrawsOnRasterizingThread
<1>1. PathInv => DrawsOnRasterizingThread
  BY FramePipelineAssumption
     DEF PathInv, Alone, RightThread, DrawsOnRasterizingThread, RasterizingThread, Merged,
         Drawers
<1>. QED
  BY <1>1, PathInvariant, PTL

-----------------------------------------------------------------------------
LEMMA PresentStep ==
  ASSUME Known, [Next]_vars
  PROVE  presented' >= presented \/ "overlap" \in mishaps'
<1> SUFFICES ASSUME Alone' PROVE presented' >= presented
  BY DEF Alone
<1>1. Alone /\ FramesInOrder /\ presented \in Nat
  BY StepOverlap DEF Known, PathInv, FramesInOrder
<1>2. \/ presented' = presented
      \/ \E d \in Drawers : at[d] = "raster" /\ presented' = frame[d].n
  BY Effects
<1>3. ASSUME NEW d \in Drawers, at[d] = "raster" PROVE frame[d].n >= presented
  <2>1. frame[d].n \in Nat
    BY <1>3, ThreadTypes DEF Known, FrameInv, Working, Frames
  <2>2. FrameInOrder(d)
    BY <1>1 DEF FramesInOrder
  <2>. QED
    BY <1>1, <1>3, <2>1, <2>2 DEF FrameInOrder, Trying
<1>. QED
  BY <1>1, <1>2, <1>3

(* Until two threads draw at once, the screen never goes back to an older  *)
(* frame (rasterizer.cc:271-305, 188-218).                                 *)
THEOREM FramesPresentedInOrder == Spec => PresentsInOrder
<1>1. PipelineInv /\ FrameInv /\ PathInv /\ [Next]_vars
        => [presented' >= presented \/ "overlap" \in mishaps']_vars
  BY PresentStep DEF Known
<1>2. Spec => []PipelineInv
  BY FramesUsePipeline, PipelineInvariant, PTL
<1>. QED
  BY <1>1, <1>2, FramesAreReal, PathInvariant, PTL DEF Spec, PresentsInOrder

-----------------------------------------------------------------------------
\* A thread that is to put its frame back finds no free slot only when the UI
\* thread holds one and the other slots are queued.
LEMMA FullPipelineHasAQueue ==
  ASSUME Known, Alone, Depth >= 2, NEW d \in Drawers, at[d] = "resubmit", empty = 0
  PROVE  queue # <<>>
<1>1. \A e \in Drawers : e # d => ~Drawing(e)
  BY <1>1 DEF Known, PathInv, PlacesInv, OverlapIsNoted, StageMatchesPlace, Working
<1>2. Holders \subseteq {UI}
  BY <1>1, ThreadTypes, FramePipelineAssumption
     DEF Holders, Known, PathInv, PlacesInv, StageMatchesPlace, Working, Drawers
<1>3. Servers = {}
  <2>1. \A e \in Drawers : e \notin Servers
    BY <1>1 DEF Known, PathInv, PlacesInv, StageMatchesPlace, FromPipeline, Working
  <2>2. UI \notin Servers
    BY DEF Known, PathInv, NotifiesFirst, Servers
  <2>. QED
    BY <2>1, <2>2, FramePipelineAssumption DEF Servers, Drawers
<1>4. Cardinality(Servers) = 0 /\ Cardinality(Holders) <= 1
  <2>1. IsFiniteSet({UI}) /\ Cardinality({UI}) = 1
    BY FS_Singleton
  <2>. QED
    BY <1>2, <1>3, <2>1, FS_Subset, FS_EmptySet
<1>5. Len(queue) >= 1
  BY <1>4, SlotNumbers DEF Known
<1>. QED
  BY <1>5

LEMMA YieldStep ==
  ASSUME Depth >= 2, Known, [Next]_vars, NEW d \in Drawers,
         at[d] \in {"resubmit", "commit"}, at'[d] = "finish"
  PROVE  built > frame[d].n \/ "overlap" \in mishaps
<1> SUFFICES ASSUME Alone PROVE built > frame[d].n
  BY DEF Alone
<1>1. at'[d] # at[d]
  OBVIOUS
<1>2. DrawStep(d)
  <2>1. CASE UNCHANGED vars
    BY <1>1, <2>1 DEF vars, drawVars
  <2>2. ASSUME NEW e \in Drawers, DrawStep(e) PROVE DrawStep(d)
    BY <1>1, <2>2, DrawIsLocal
  <2>. QED
    BY <1>1, <2>1, <2>2, UiLeavesDrawers DEF Next
<1>3. queue # <<>>
  <2>1. CASE at[d] = "resubmit"
    <3>1. empty = 0
      BY <1>2, <2>1, DrawTypes DEF DrawStep, StartTask, CheckThread, Consume, PopFrame,
         AbandonDraw, DiscardLayerTree, BeginEmbedderFrame, FailDraw, MergeAndRetry,
         SwitchSurfaceAndRetry, PresentFrame, DecrementLease, ReleaseFrame, ResubmitFrame,
         CommitResubmitted, SignalResubmitted, FinishDraw, Goto
    <3>. QED
      BY <2>1, <3>1, FullPipelineHasAQueue
  <2>2. CASE at[d] = "commit"
    BY <1>2, <2>2, DrawTypes DEF DrawStep, StartTask, CheckThread, Consume, PopFrame,
       AbandonDraw, DiscardLayerTree, BeginEmbedderFrame, FailDraw, MergeAndRetry,
       SwitchSurfaceAndRetry, PresentFrame, DecrementLease, ReleaseFrame, ResubmitFrame,
       CommitResubmitted, SignalResubmitted, FinishDraw, Goto
  <2>. QED
    BY <2>1, <2>2
<1>4. 1 \in 1..Len(queue) /\ Head(queue) \in Items
  BY <1>3, DrawTypes, LenProperties, EmptySeq
<1>5. QueueInOrder /\ FrameInOrder(d)
  BY DEF Known, PathInv, FramesInOrder
<1>6. frame[d].n < queue[1].n
  BY <1>4, <1>5, DrawTypes DEF FrameInOrder, Trying, StageMatchesPlace
<1>7. queue[1].n <= built
  BY <1>4, <1>5 DEF QueueInOrder
<1>8. built \in Nat /\ frame[d].n \in Nat /\ queue[1].n \in Nat
  BY <1>4, DrawTypes, ThreadTypes DEF Known, FrameInv, FrameTyping, Frames, Working
<1>. QED
  BY <1>6, <1>7, <1>8

(* With a pipeline of at least two slots, a frame that Draw should retry   *)
(* is given up only when a newer frame is committed already.  With one     *)
(* slot this would be wrong: the UI thread may hold it for a frame that it *)
(* never renders (rasterizer.cc:271-279); the Animator asks for one slot   *)
(* only where the raster thread is the platform thread, with which no      *)
(* merger exists that could ask for a retry (animator.cc:37-41).           *)
THEOREM RetriesYield == Depth >= 2 => (Spec => RetryYieldsToNewerFrame)
<1> SUFFICES ASSUME Depth >= 2 PROVE Spec => RetryYieldsToNewerFrame
  OBVIOUS
<1>. DEFINE Yields ==
       \A d \in Drawers :
         at[d] \in {"resubmit", "commit"} /\ at'[d] = "finish"
           => built > frame[d].n \/ "overlap" \in mishaps
<1>1. PipelineInv /\ FrameInv /\ PathInv /\ [Next]_vars => [Yields]_vars
  BY YieldStep DEF Known
<1>2. Spec => []PipelineInv
  BY FramesUsePipeline, PipelineInvariant, PTL
<1>. QED
  BY <1>1, <1>2, FramesAreReal, PathInvariant, PTL DEF Spec, RetryYieldsToNewerFrame
=============================================================================
