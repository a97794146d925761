------------------------------ MODULE Pipeline ------------------------------
(***************************************************************************)
(* The class template Pipeline of shell/common/pipeline.h: the queue of    *)
(* frames between the thread that builds them and the thread that draws    *)
(* them.  Two counting semaphores guard a deque: `empty` counts the free   *)
(* slots and `available` the items that a consumer may pop.  Every         *)
(* semaphore operation and every critical section of queue_mutex_ is an    *)
(* atomic step of its own, so any number of threads may interleave between *)
(* a push and its signal, or between a wait and its pop.  inflight_ only   *)
(* feeds traces: its updates are taken with the semaphore operation beside *)
(* them.                                                                   *)
(*                                                                         *)
(* The module fixes no use of the class: any thread may reserve a slot,    *)
(* commit, drop its continuation or consume.  FramePipeline restricts it   *)
(* to what the Animator and the Rasterizer do.                             *)
(***************************************************************************)
EXTENDS Integers, Sequences, FiniteSets

CONSTANTS Threads,  \* the threads that use the pipeline
          Items,    \* the resources that can be committed
          Depth,    \* the depth the pipeline is built with
          Null,     \* the null resource of a continuation that is dropped
          NoItem    \* what a thread that consumes nothing has taken

ASSUME PipelineAssumption ==
  /\ Depth \in Nat \ {0}
  /\ IsFiniteSet(Threads)
  /\ Null \notin Items
  /\ NoItem \notin Items \cup {Null}

VARIABLES empty,         \* empty_: the count of a semaphore
          available,     \* available_: the count of a semaphore
          inflight,      \* inflight_: an atomic counter
          queue,         \* queue_: the deque of resources
          continuation,  \* the ProducerContinuation each thread holds
          stage,         \* where each thread is inside a pipeline operation
          taken          \* the resource each thread's consumer is running on

pipelineVars ==
  <<empty, available, inflight, queue, continuation, stage, taken>>

Resources == Items \cup {Null}

\* "append" comes from Produce, "ifEmpty" from ProduceIfEmpty.
Continuations == {"none", "append", "ifEmpty"}

\* is_first_item and items_count > 0 are locals of the operation in progress:
\* they distinguish the two stages of a signal and of a consumption.
Stages == {"idle", "signalFirst", "signalBehind", "pop", "serveLast", "serveMore"}

Holders == {t \in Threads : continuation[t] # "none"}
Signallers == {t \in Threads : stage[t] \in {"signalFirst", "signalBehind"}}
Poppers == {t \in Threads : stage[t] = "pop"}
Servers == {t \in Threads : stage[t] \in {"serveLast", "serveMore"}}

PipelineInit ==
  /\ empty = Depth
  /\ available = 0
  /\ inflight = 0
  /\ queue = <<>>
  /\ continuation = [t \in Threads |-> "none"]
  /\ stage = [t \in Threads |-> "idle"]
  /\ taken = [t \in Threads |-> NoItem]

-----------------------------------------------------------------------------
(* Producing: Produce and ProduceIfEmpty differ in the continuation only.  *)

Produce(t, kind) ==
  /\ stage[t] = "idle"
  /\ continuation[t] = "none"
  /\ empty > 0
  /\ empty' = empty - 1
  /\ inflight' = inflight + 1
  /\ continuation' = [continuation EXCEPT ![t] = kind]
  /\ UNCHANGED <<available, queue, stage, taken>>

\* The critical section that pushes x, with the continuation used up.
Push(t, x) ==
  /\ queue' = Append(queue, x)
  /\ stage' = [stage EXCEPT ![t] =
                 IF queue = <<>> THEN "signalFirst" ELSE "signalBehind"]
  /\ UNCHANGED <<empty, available, inflight, taken>>

ProducerCommit(t, x) ==
  /\ stage[t] = "idle"
  /\ continuation[t] = "append"
  /\ continuation' = [continuation EXCEPT ![t] = "none"]
  /\ Push(t, x)

\* Mutant of ProducerCommitIfEmpty: bailing out keeps the slot.
ProducerCommitIfEmptyLeaking(t, x) ==
  /\ stage[t] = "idle"
  /\ continuation[t] = "ifEmpty"
  /\ continuation' = [continuation EXCEPT ![t] = "none"]
  /\ \/ /\ queue = <<>>
        /\ Push(t, x)
     \/ /\ queue # <<>>
        /\ UNCHANGED <<empty, available, inflight, queue, stage, taken>>

\* Bailing out gives the slot back but leaves inflight_ as Produce set it.
ProducerCommitIfEmpty(t, x) ==
  /\ stage[t] = "idle"
  /\ continuation[t] = "ifEmpty"
  /\ continuation' = [continuation EXCEPT ![t] = "none"]
  /\ \/ /\ queue = <<>>
        /\ Push(t, x)
     \/ /\ queue # <<>>
        /\ empty' = empty + 1
        /\ UNCHANGED <<available, inflight, queue, stage, taken>>

\* ~ProducerContinuation commits a null resource for a continuation that was
\* never completed.
DropContinuation(t) ==
  \/ ProducerCommit(t, Null)
  \/ ProducerCommitIfEmpty(t, Null)

\* available_.Signal(), after queue_mutex_ is released.
Signal(t) ==
  /\ t \in Signallers
  /\ available' = available + 1
  /\ stage' = [stage EXCEPT ![t] = "idle"]
  /\ UNCHANGED <<empty, inflight, queue, continuation, taken>>

-----------------------------------------------------------------------------
(* Consuming.                                                              *)

ConsumeTryWait(t) ==
  /\ stage[t] = "idle"
  /\ available > 0
  /\ available' = available - 1
  /\ stage' = [stage EXCEPT ![t] = "pop"]
  /\ UNCHANGED <<empty, inflight, queue, continuation, taken>>

\* Mutant of ConsumePop: the newest resource is taken.
ConsumePopNewest(t) ==
  /\ stage[t] = "pop"
  /\ queue # <<>>
  /\ taken' = [taken EXCEPT ![t] = queue[Len(queue)]]
  /\ queue' = SubSeq(queue, 1, Len(queue) - 1)
  /\ stage' = [stage EXCEPT ![t] =
                 IF Len(queue) > 1 THEN "serveMore" ELSE "serveLast"]
  /\ UNCHANGED <<empty, available, inflight, continuation>>

\* queue_.front() of an empty deque is undefined behaviour: SignalsMatchItems
\* implies that no thread gets here with an empty queue.
ConsumePop(t) ==
  /\ stage[t] = "pop"
  /\ queue # <<>>
  /\ taken' = [taken EXCEPT ![t] = Head(queue)]
  /\ queue' = Tail(queue)
  /\ stage' = [stage EXCEPT ![t] =
                 IF Len(queue) > 1 THEN "serveMore" ELSE "serveLast"]
  /\ UNCHANGED <<empty, available, inflight, continuation>>

\* The consumer has returned: the slot is free again.
ConsumeEnd(t) ==
  /\ t \in Servers
  /\ empty' = empty + 1
  /\ inflight' = inflight - 1
  /\ taken' = [taken EXCEPT ![t] = NoItem]
  /\ stage' = [stage EXCEPT ![t] = "idle"]
  /\ UNCHANGED <<available, queue, continuation>>

PipelineNext ==
  \E t \in Threads :
    \/ \E kind \in {"append", "ifEmpty"} : Produce(t, kind)
    \/ \E x \in Items : ProducerCommit(t, x)
    \/ \E x \in Items : ProducerCommitIfEmpty(t, x)
    \/ DropContinuation(t)
    \/ Signal(t)
    \/ ConsumeTryWait(t)
    \/ ConsumePop(t)
    \/ ConsumeEnd(t)

PipelineSpec == PipelineInit /\ [][PipelineNext]_pipelineVars

-----------------------------------------------------------------------------
(* Type correctness of Pipeline's members and of the locals of its         *)
(* operations (pipeline.h:216-220).                                        *)
PipelineTypeOK ==
  /\ empty \in 0..Depth
  /\ available \in 0..Depth
  /\ inflight \in Nat
  /\ queue \in Seq(Resources)
  /\ continuation \in [Threads -> Continuations]
  /\ stage \in [Threads -> Stages]
  /\ taken \in [Threads -> Resources \cup {NoItem}]

(* Every slot of the pipeline is free, reserved by a continuation, filled  *)
(* in the queue, or being consumed: the count of empty_ and the state of   *)
(* all threads always add up to the depth, so no path of Produce, commit,  *)
(* bail-out and Consume leaks a slot or frees one twice.                   *)
SlotConservation ==
  empty + Cardinality(Holders) + Len(queue) + Cardinality(Servers) = Depth

(* available_ lags the queue by exactly the pushes not yet signalled and   *)
(* the waits not yet followed by their pop; hence a thread that passed     *)
(* TryWait never meets an empty deque (pipeline.h:198), whichever thread's *)
(* item it pops.                                                           *)
SignalsMatchItems ==
  available + Cardinality(Signallers) + Cardinality(Poppers) = Len(queue)

(* A thread has taken a resource exactly while its consumer runs.          *)
TakenWhileServing ==
  \A t \in Threads : taken[t] # NoItem <=> t \in Servers

(* inflight_ may drift (a bail-out of ProducerCommitIfEmpty does not       *)
(* decrement it) but only upwards: it never reports fewer frames in flight *)
(* than there are.                                                         *)
InflightNeverUndercounts ==
  inflight >= Cardinality(Holders) + Len(queue) + Cardinality(Servers)

(* The semaphores and the deque implement a bounded first-in first-out     *)
(* channel: slots are reserved only below the depth, and every committed   *)
(* resource is consumed once, in commit order.                             *)
Channel == INSTANCE BoundedChannel
             WITH Users <- Threads, Payloads <- Resources, Capacity <- Depth,
                  Nothing <- NoItem, reserved <- Holders,
                  channel <- queue, serving <- taken

ImplementsChannel == Channel!ChannelSpec
=============================================================================
