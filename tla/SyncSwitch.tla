------------------------------ MODULE SyncSwitch ------------------------------
(***************************************************************************)
(* fml::SyncSwitch: a flag behind a shared mutex.  Execute runs a handler  *)
(* that depends on the flag while it holds the mutex shared, so several    *)
(* threads may execute at once; SetSwitch holds it exclusively while it    *)
(* assigns the flag.  The observers are told after the mutex is released.  *)
(*                                                                         *)
(* A thread that is inside Execute may enter again (a stored task executes *)
(* on the same switch): the inner lock_shared does not block, because the  *)
(* only thread that ever waits for the exclusive lock is the one that      *)
(* nests.                                                                  *)
(***************************************************************************)
CONSTANT Threads

VARIABLES disabled,   \* value_: is the GPU disabled?
          executing   \* the threads that hold mutex_ shared

switchVars == <<disabled, executing>>

SwitchTypeOK ==
  /\ disabled \in BOOLEAN
  /\ executing \subseteq Threads

\* The Shell passes the value its embedder asks for at launch.
SwitchInit ==
  /\ disabled \in BOOLEAN
  /\ executing = {}

\* Execute takes the shared lock and reads the flag.
EnterHandler(t) ==
  /\ executing' = executing \cup {t}
  /\ UNCHANGED disabled

\* The handler returns and the lock is released.
LeaveHandler(t) ==
  /\ executing' = executing \ {t}
  /\ UNCHANGED disabled

\* Mutant of SetSwitch: the flag is assigned without the exclusive lock.
SetSwitchUnlocked(value) ==
  /\ disabled' = value
  /\ UNCHANGED executing

\* SetSwitch waits until no handler runs.
SetSwitch(value) ==
  /\ executing = {}
  /\ disabled' = value
  /\ UNCHANGED executing
=============================================================================
