------------------------------- MODULE GpuTasks -------------------------------
(***************************************************************************)
(* The tasks that a Metal context keeps until the GPU is available again   *)
(* (ContextMTL), and Shell::SetGpuAvailability, which the platform thread  *)
(* calls when the application moves to the background and back.  When the  *)
(* switch is set to "available" the context, an observer of the switch,    *)
(* runs the tasks it keeps, one after the other, on the platform thread.   *)
(*                                                                         *)
(* Only the platform thread sets the switch, so the switch cannot change   *)
(* while it flushes: the branch of FlushTasksAwaitingGPU that keeps a task *)
(* back is part of FlushTask but no behaviour takes it.                    *)
(***************************************************************************)
EXTENDS SyncSwitch, Naturals, Sequences

CONSTANTS Platform,             \* the platform thread
          MaxTasksAwaitingGPU,  \* kMaxTasksAwaitingGPU
          MaxSwitches           \* bound: calls of SetGpuAvailability

ASSUME GpuTasksAssumption ==
  /\ Platform \in Threads
  /\ MaxTasksAwaitingGPU \in Nat \ {0}
  /\ MaxSwitches \in Nat

VARIABLES setter,    \* where the platform thread is in SetGpuAvailability
          wanted,    \* the value it assigns to the switch
          switches,  \* calls of SetGpuAvailability so far
          awaiting,  \* tasks_awaiting_gpu_
          flushing,  \* the tasks FlushTasksAwaitingGPU has still to run
          kept       \* tasks_to_queue

setterVars == <<setter, wanted, switches>>
gpuTaskVars == <<setterVars, awaiting, flushing, kept>>

SetterSteps == {"idle", "drain", "lock", "notify", "flush"}

GpuTasksInit ==
  /\ SwitchInit
  /\ setter = "idle"
  /\ wanted = disabled
  /\ switches = 0
  /\ awaiting = <<>>
  /\ flushing = <<>>
  /\ kept = <<>>

\* Shell::SetGpuAvailability.  kFlushAndMakeUnavailable first has the IO
\* thread drain the unref queue and waits for it ("drain").
BeginSetGpuAvailability(availability) ==
  /\ setter = "idle"
  /\ switches < MaxSwitches
  /\ switches' = switches + 1
  /\ wanted' = (availability # "available")
  /\ setter' = IF availability = "flushAndMakeUnavailable" THEN "drain" ELSE "lock"
  /\ UNCHANGED <<awaiting, flushing, kept>>

\* The latch of kFlushAndMakeUnavailable is signalled.
Drained ==
  /\ setter = "drain"
  /\ setter' = "lock"
  /\ UNCHANGED <<wanted, switches, awaiting, flushing, kept>>

\* Mutant of FinishSetSwitch: the observers are not told.
FinishSetSwitchQuietly ==
  /\ setter = "lock"
  /\ SetSwitch(wanted)
  /\ setter' = "idle"
  /\ UNCHANGED <<wanted, switches, awaiting, flushing, kept>>

\* The switch is set; its observer flushes when the GPU has become available.
FinishSetSwitch ==
  /\ setter = "lock"
  /\ SetSwitch(wanted)
  /\ setter' = IF wanted THEN "idle" ELSE "notify"
  /\ UNCHANGED <<wanted, switches, awaiting, flushing, kept>>

\* FlushTasksAwaitingGPU swaps the queue with an empty one.
SwapAwaiting ==
  /\ setter = "notify"
  /\ setter' = "flush"
  /\ flushing' = awaiting
  /\ awaiting' = <<>>
  /\ UNCHANGED <<wanted, switches, kept>>

\* The next task of a flush is executed, or kept if the GPU is gone again.
NextFlushed ==
  /\ setter = "flush"
  /\ flushing # <<>>
  /\ flushing' = Tail(flushing)
  /\ kept' = IF disabled THEN Append(kept, Head(flushing)) ELSE kept
  /\ UNCHANGED <<setterVars, awaiting>>

\* All are executed; those kept are queued behind what has come since.
FinishFlush ==
  /\ setter = "flush"
  /\ flushing = <<>>
  /\ setter' = "idle"
  /\ awaiting' = awaiting \o kept
  /\ kept' = <<>>
  /\ UNCHANGED <<wanted, switches, flushing>>

\* Mutant of Overflows: one task too many is kept.
OverflowsLate == Len(awaiting) > MaxTasksAwaitingGPU

\* StoreTaskForGPU: the oldest task gives way when there are too many.
Overflows == Len(awaiting) >= MaxTasksAwaitingGPU

\* The task whose failure callback StoreTaskForGPU(task) calls, if it overflows.
Failing(task) == Head(Append(awaiting, task))

StoreTaskForGPU(task) ==
  /\ awaiting' = IF Overflows THEN Tail(Append(awaiting, task))
                              ELSE Append(awaiting, task)
  /\ UNCHANGED <<setterVars, flushing, kept>>
=============================================================================
