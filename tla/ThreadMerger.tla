---------------------------- MODULE ThreadMerger ----------------------------
(***************************************************************************)
(* RasterThreadMerger and SharedThreadMerger (fml/), as the Rasterizers of *)
(* one or several engines use them on Android.  A frame with platform      *)
(* views merges the raster task queue into the platform queue for a lease  *)
(* of some frames; every Draw uses up one frame of its engine's lease, and *)
(* the last lease to end unmerges the queues.                              *)
(*                                                                         *)
(* Every RasterThreadMerger has a mutex of its own, and all of them share  *)
(* one SharedThreadMerger: its leases are changed under another mutex, but *)
(* are read, like enabled_, without it.  A method is therefore two steps:  *)
(* it looks at the shared state and takes its own mutex, then it changes   *)
(* the shared state and releases the mutex.                                *)
(*                                                                         *)
(* While a view is created or destroyed the platform thread disables the   *)
(* merger, finds out who runs the raster queue and, if it is another       *)
(* thread, posts to it and (when a view is destroyed) waits.  Frames are   *)
(* represented by the calls their Draws make to the merger; FramePipeline  *)
(* has the frames themselves, for one engine.                              *)
(***************************************************************************)
EXTENDS Integers, Sequences, FiniteSets

CONSTANTS Mergers,     \* the RasterThreadMergers that share the merger
          Platform, Raster, Nobody,  \* the threads; no thread
          LeaseTerm,   \* kDefaultMergedLeaseDuration
          MaxDraws,    \* bound: draws of all engines
          MaxChanges   \* bound: views created and destroyed

Threads == {Platform, Raster}

ASSUME ThreadMergerAssumption ==
  /\ Platform # Raster
  /\ Nobody \notin Threads
  /\ LeaseTerm \in Nat \ {0, 1}
  /\ MaxDraws \in Nat
  /\ MaxChanges \in Nat

VARIABLES merged,   \* is the raster queue merged into the platform queue?
          callers,  \* the keys of lease_term_by_caller_
          lease,    \* its values
          enabled,  \* enabled_
          mutex,    \* who holds the mutex_ of each RasterThreadMerger
          view,     \* does the platform view of each engine exist?
          surface,  \* has its Rasterizer a surface_?
          rasterTasks,  \* the Setup and Teardown tasks of the raster queue
          at,       \* where each thread is
          engine,   \* the engine it is working for
          ahead,    \* draws of the platform thread during one of the raster thread
          draws,    \* number of draws so far
          changes,  \* number of views created and destroyed so far
          failed    \* the FML_CHECKs that have failed

sharedVars == <<merged, callers, lease>>
threadVars == <<at, engine>>
boundVars == <<ahead, draws, changes>>
mergerVars ==
  <<sharedVars, enabled, mutex, view, surface, rasterTasks, threadVars, boundVars, failed>>

MergerInit ==
  /\ merged = FALSE
  /\ callers = {}
  /\ lease = [m \in Mergers |-> 0]
  /\ enabled = TRUE
  /\ mutex = [m \in Mergers |-> Nobody]
  /\ view = [m \in Mergers |-> TRUE]
  /\ surface = [m \in Mergers |-> TRUE]
  /\ rasterTasks = <<>>
  /\ at = [t \in Threads |-> "idle"]
  /\ engine \in [Threads -> Mergers]
  /\ ahead = 0
  /\ draws = 0
  /\ changes = 0
  /\ failed = {}

\* IsMergedUnSafe, read off the leases
Leased == \E m \in callers : lease[m] > 0

\* The thread whose message loop runs the tasks of the raster queue.
Server == IF merged THEN Platform ELSE Raster

\* Thread t goes on to another place on behalf of the same engine.
Goto(t, place) == at' = [at EXCEPT ![t] = place] /\ UNCHANGED engine

\* A failed FML_CHECK ends the process.
Running == failed = {}

\* Thread t, which is at `place`, gets its engine's mutex for a moment.
Locks(t, place) == Running /\ at[t] = place /\ mutex[engine[t]] = Nobody

Hold(t) == mutex' = [mutex EXCEPT ![engine[t]] = t]
Release(t) == mutex' = [mutex EXCEPT ![engine[t]] = Nobody]

-----------------------------------------------------------------------------
(* Rasterizer::Draw                                                        *)

\* IsOnRasterizingThread: Draw goes on or yields.  The raster thread is assumed
\* to finish a Draw before the platform thread has used up the lease: `ahead`
\* counts (LeaseTerm is 10 in the code).
StartDraw(t, m) ==
  /\ Running
  /\ at[t] = "idle"
  /\ t = Server
  /\ mutex[m] = Nobody
  /\ surface[m]
  /\ draws < MaxDraws
  /\ draws' = draws + 1
  /\ IF t = Platform /\ at[Raster] # "idle"
     THEN ahead < LeaseTerm - 2 /\ ahead' = ahead + 1
     ELSE ahead' = 0
  /\ IF Leased <=> t = Platform
     THEN /\ at' = [at EXCEPT ![t] = "preroll"]
          /\ engine' = [engine EXCEPT ![t] = m]
     ELSE UNCHANGED threadVars
  /\ UNCHANGED <<sharedVars, enabled, mutex, view, surface, rasterTasks, changes, failed>>

\* PostPrerollAction: without platform views nothing happens; else IsMerged
\* decides.
PostPrerollAction(t) ==
  /\ Locks(t, "preroll")
  /\ \/ Goto(t, "decrement")
     \/ Goto(t, IF Leased THEN "extend" ELSE "merge")
  /\ UNCHANGED <<sharedVars, enabled, mutex, view, surface, rasterTasks, boundVars, failed>>

\* MergeWithLease and ExtendLeaseTo look at enabled_, the former at the leases.
PrepareMerge(t) ==
  /\ Locks(t, "merge")
  /\ IF enabled /\ ~Leased
     THEN Goto(t, "merging") /\ Hold(t)
     ELSE Goto(t, "decrement") /\ UNCHANGED mutex
  /\ UNCHANGED <<sharedVars, enabled, view, surface, rasterTasks, boundVars, failed>>

PrepareExtend(t) ==
  /\ Locks(t, "extend")
  /\ IF enabled
     THEN Goto(t, "extending") /\ Hold(t)
     ELSE Goto(t, "decrement") /\ UNCHANGED mutex
  /\ UNCHANGED <<sharedVars, enabled, view, surface, rasterTasks, boundVars, failed>>

Record(m) ==
  /\ callers' = callers \cup {m}
  /\ lease' = [lease EXCEPT ![m] = LeaseTerm]

\* SharedThreadMerger::MergeWithLease: no lease is recorded if another engine
\* has merged the queues meanwhile.
MergeWithLease(t) ==
  /\ Running
  /\ at[t] = "merging"
  /\ IF Leased
     THEN UNCHANGED sharedVars
     ELSE merged' = TRUE /\ Record(engine[t])
  /\ Goto(t, "decrement")
  /\ Release(t)
  /\ UNCHANGED <<enabled, view, surface, rasterTasks, boundVars, failed>>

ExtendLeaseTo(t) ==
  /\ Running
  /\ at[t] = "extending"
  /\ Record(engine[t])
  /\ Goto(t, "decrement")
  /\ Release(t)
  /\ UNCHANGED <<merged, enabled, view, surface, rasterTasks, boundVars, failed>>

\* RasterThreadMerger::DecrementLease up to the call of the shared merger.
PrepareDecrement(t) ==
  /\ Locks(t, "decrement")
  /\ IF Leased /\ enabled
     THEN Goto(t, "decrementing") /\ Hold(t)
     ELSE Goto(t, "idle") /\ UNCHANGED mutex
  /\ UNCHANGED <<sharedVars, enabled, view, surface, rasterTasks, boundVars, failed>>

\* UnMergeNowUnSafe, if the leases after this step are all zero: a pair of
\* queues that is not merged cannot be unmerged.
UnMergeIfNoLease ==
  IF Leased' THEN UNCHANGED <<merged, failed>>
  ELSE /\ merged' = FALSE
       /\ failed' = IF merged THEN failed ELSE failed \cup {"unmerge"}

\* Mutant of DecrementLease: without the FML_CHECK.
DecrementLeaseUnchecked(t) ==
  /\ Running
  /\ at[t] = "decrementing"
  /\ lease' = [lease EXCEPT ![engine[t]] = IF engine[t] \in callers THEN @ - 1 ELSE @]
  /\ UNCHANGED callers
  /\ UnMergeIfNoLease
  /\ Goto(t, "idle")
  /\ Release(t)
  /\ UNCHANGED <<enabled, view, surface, rasterTasks, boundVars>>

\* SharedThreadMerger::DecrementLease: the lease of a caller must not be used
\* up; a caller that has none is ignored.
DecrementLease(t) ==
  /\ Running
  /\ at[t] = "decrementing"
  /\ LET m == engine[t]
     IN  IF m \in callers /\ lease[m] = 0
         THEN failed' = failed \cup {"lease"} /\ UNCHANGED sharedVars
         ELSE /\ lease' = [lease EXCEPT ![m] = IF m \in callers THEN @ - 1 ELSE @]
              /\ UNCHANGED callers
              /\ UnMergeIfNoLease
  /\ Goto(t, "idle")
  /\ Release(t)
  /\ UNCHANGED <<enabled, view, surface, rasterTasks, boundVars>>

DrawStep(t) ==
  \/ PostPrerollAction(t)
  \/ PrepareMerge(t)
  \/ PrepareExtend(t)
  \/ MergeWithLease(t)
  \/ ExtendLeaseTo(t)
  \/ PrepareDecrement(t)
  \/ DecrementLease(t)

-----------------------------------------------------------------------------
(* Shell::OnPlatformViewCreated and OnPlatformViewDestroyed.               *)

\* Mutant of Disable: enabled_ is cleared without the mutex.
DisableUnlocked(m) ==
  /\ Running
  /\ at[Platform] = "idle"
  /\ changes < MaxChanges
  /\ changes' = changes + 1
  /\ enabled' = FALSE
  /\ at' = [at EXCEPT ![Platform] = IF view[m] THEN "destroying" ELSE "creating"]
  /\ engine' = [engine EXCEPT ![Platform] = m]
  /\ view' = [view EXCEPT ![m] = ~@]
  /\ UNCHANGED <<sharedVars, mutex, surface, rasterTasks, ahead, draws, failed>>

\* Both disable the merger first.
Disable(m) ==
  /\ Running
  /\ at[Platform] = "idle"
  /\ mutex[m] = Nobody
  /\ changes < MaxChanges
  /\ changes' = changes + 1
  /\ enabled' = FALSE
  /\ at' = [at EXCEPT ![Platform] = IF view[m] THEN "destroying" ELSE "creating"]
  /\ engine' = [engine EXCEPT ![Platform] = m]
  /\ view' = [view EXCEPT ![m] = ~@]
  /\ UNCHANGED <<sharedVars, mutex, surface, rasterTasks, ahead, draws, failed>>

\* RunsTasksOnCurrentThread: the platform thread runs the raster task itself,
\* or posts it.  It waits for a Teardown only.
PlaceRasterTask ==
  /\ Running
  /\ LET m == engine[Platform]
     IN  \/ /\ at[Platform] = "creating"
            /\ IF merged
               THEN Goto(Platform, "setup") /\ UNCHANGED rasterTasks
               ELSE /\ Goto(Platform, "idle")
                    /\ rasterTasks' = Append(rasterTasks, [name |-> "setup", engine |-> m])
         \/ /\ at[Platform] = "destroying"
            /\ IF merged
               THEN Goto(Platform, "teardown") /\ UNCHANGED rasterTasks
               ELSE /\ Goto(Platform, "waiting")
                    /\ rasterTasks' = Append(rasterTasks, [name |-> "teardown", engine |-> m])
  /\ UNCHANGED <<sharedVars, enabled, mutex, view, surface, boundVars, failed>>

\* The loop that serves the raster queue takes the task.
StartTask(t) ==
  /\ Running
  /\ at[t] = "idle"
  /\ t = Server
  /\ rasterTasks # <<>>
  /\ rasterTasks' = Tail(rasterTasks)
  /\ at' = [at EXCEPT ![t] = Head(rasterTasks).name]
  /\ engine' = [engine EXCEPT ![t] = Head(rasterTasks).engine]
  /\ UNCHANGED <<sharedVars, enabled, mutex, view, surface, boundVars, failed>>

\* The task of OnPlatformViewCreated: Enable, then Rasterizer::Setup
SetUp(t) ==
  /\ Locks(t, "setup")
  /\ enabled' = TRUE
  /\ surface' = [surface EXCEPT ![engine[t]] = TRUE]
  /\ Goto(t, "idle")
  /\ UNCHANGED <<sharedVars, mutex, view, rasterTasks, boundVars, failed>>

\* The task of OnPlatformViewDestroyed: Enable, then Rasterizer::Teardown
TearDown(t) ==
  /\ Locks(t, "teardown")
  /\ enabled' = TRUE
  /\ surface' = [surface EXCEPT ![engine[t]] = FALSE]
  /\ Goto(t, "torn")
  /\ UNCHANGED <<sharedVars, mutex, view, rasterTasks, boundVars, failed>>

\* Where the threads are after a Teardown on t: the platform thread waits no
\* longer.
AfterTearDown(t) ==
  /\ at' = [u \in Threads |->
              IF u = t \/ at[u] = "waiting" THEN "idle" ELSE at[u]]
  /\ UNCHANGED engine

\* Teardown calls UnMergeNowIfLastOne if IsMerged.
AskIsMerged(t) ==
  /\ Locks(t, "torn")
  /\ IF Leased THEN Goto(t, "unmerge") ELSE AfterTearDown(t)
  /\ UNCHANGED <<sharedVars, enabled, mutex, view, surface, rasterTasks, boundVars, failed>>

\* RasterThreadMerger::UnMergeNowIfLastOne looks at enabled_ only.
PrepareUnMerge(t) ==
  /\ Locks(t, "unmerge")
  /\ IF enabled
     THEN Goto(t, "unmerging") /\ Hold(t)
     ELSE AfterTearDown(t) /\ UNCHANGED mutex
  /\ UNCHANGED <<sharedVars, enabled, view, surface, rasterTasks, boundVars, failed>>

\* Mutant of UnMergeNowIfLastOne: the leases of other engines are not looked at.
UnMergeNow(t) ==
  /\ Running
  /\ at[t] = "unmerging"
  /\ callers' = callers \ {engine[t]}
  /\ UNCHANGED <<lease, failed>>
  /\ merged' = FALSE
  /\ AfterTearDown(t)
  /\ Release(t)
  /\ UNCHANGED <<enabled, view, surface, rasterTasks, boundVars>>

\* The engine gives up its lease; the queues are unmerged if no lease is left.
UnMergeNowIfLastOne(t) ==
  /\ Running
  /\ at[t] = "unmerging"
  /\ callers' = callers \ {engine[t]}
  /\ UNCHANGED lease
  /\ UnMergeIfNoLease
  /\ AfterTearDown(t)
  /\ Release(t)
  /\ UNCHANGED <<enabled, view, surface, rasterTasks, boundVars>>

ChangeStep(t) ==
  \/ StartTask(t)
  \/ SetUp(t)
  \/ TearDown(t)
  \/ AskIsMerged(t)
  \/ PrepareUnMerge(t)
  \/ UnMergeNowIfLastOne(t)

MergerNext ==
  \/ \E t \in Threads :
       \/ \E m \in Mergers : StartDraw(t, m)
       \/ DrawStep(t)
       \/ ChangeStep(t)
  \/ \E m \in Mergers : Disable(m)
  \/ PlaceRasterTask

MergerSpec == MergerInit /\ [][MergerNext]_mergerVars

-----------------------------------------------------------------------------
Places == {"idle", "preroll", "merge", "merging", "extend", "extending", "decrement",
           "decrementing", "creating", "destroying", "waiting", "setup", "teardown",
           "torn", "unmerge", "unmerging"}

MergerTypeOK ==
  /\ merged \in BOOLEAN
  /\ callers \subseteq Mergers
  /\ lease \in [Mergers -> 0..LeaseTerm]
  /\ enabled \in BOOLEAN
  /\ mutex \in [Mergers -> Threads \cup {Nobody}]
  /\ view \in [Mergers -> BOOLEAN]
  /\ surface \in [Mergers -> BOOLEAN]
  /\ rasterTasks \in Seq([name : {"setup", "teardown"}, engine : Mergers])
  /\ at \in [Threads -> Places]
  /\ engine \in [Threads -> Mergers]
  /\ ahead \in Nat
  /\ draws \in 0..MaxDraws
  /\ changes \in 0..MaxChanges
  /\ failed \subseteq {"lease", "unmerge"}

(* The leases, which every Draw consults to find out whether it is on the  *)
(* right thread, tell the truth about the task queues.  If they did not,   *)
(* all further Draws would yield (rasterizer.cc:248-252), and the unmerge  *)
(* at the end of the last lease would end the process                      *)
(* (shared_thread_merger.cc:35-42).                                        *)
LeasesMatchQueues == Leased <=> merged

(* Once the platform thread has disabled the merger to destroy a view, the *)
(* raster thread neither merges nor unmerges the queues on behalf of the   *)
(* same engine, even if it was on its way into the merger                  *)
(* (raster_thread_merger.cc:54-75, 123-131).                               *)
DisableStopsItsEngine ==
  [][ /\ at[Platform] \in {"destroying", "waiting"}
      /\ ~enabled
      /\ merged' # merged
      => engine[Raster] # engine[Platform] ]_mergerVars

(* FML_CHECK(lease_term_ref > 0): "lease_term should always be positive    *)
(* when merged" (shared_thread_merger.cc:59-61).                           *)
LeasesArePositive == "lease" \notin failed
=============================================================================
