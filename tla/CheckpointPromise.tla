-------------------------- MODULE CheckpointPromise --------------------------
(***************************************************************************)
(* What the native host promises about checkpoints, whatever its threads   *)
(* do and wherever it crashes: a checkpoint keeps the files it captured,   *)
(* is answered once, and reads rolled_back only over restored files; while *)
(* a rollback is unresolved only the rollback itself touches the files.    *)
(***************************************************************************)
EXTENDS CheckpointTable

CONSTANTS Contents, Mixed    \* file contents; the mark of a half-done restore

VARIABLES status, captured, files

promiseVars == <<status, captured, files>>

PromiseInit ==
  /\ status = EmptyTable
  /\ files \in Contents
  /\ captured = [c \in CheckpointIds |-> files]

Becomes(c, from, to) == status[c] = from /\ status' = [status EXCEPT ![c] = to]

Capture(c) ==
  /\ IsNextCheckpoint(status, c)
  /\ Becomes(c, "absent", "ready")
  /\ captured' = [captured EXCEPT ![c] = files]
  /\ UNCHANGED files

\* A command works on the files, and never while a rollback is unresolved.
Work ==
  /\ RollingBack(status) = {}
  /\ files' \in Contents
  /\ UNCHANGED <<status, captured>>

Answer(c) ==
  /\ \/ Becomes(c, "ready", "accepted")
     \/ RollingBack(status) = {} /\ Becomes(c, "ready", "rolling_back")
  /\ UNCHANGED <<captured, files>>

Restore(c) ==
  /\ status[c] = "rolling_back"
  /\ files' \in {captured[c], Mixed}
  /\ UNCHANGED <<status, captured>>

Settle(c) ==
  /\ \/ files = captured[c] /\ Becomes(c, "rolling_back", "rolled_back")
     \/ Becomes(c, "rolling_back", "rollback_failed")
     \/ Becomes(c, "rolling_back", "invalid")
  /\ UNCHANGED <<captured, files>>

PromiseNext ==
  \/ Work
  \/ \E c \in CheckpointIds :
       Capture(c) \/ Answer(c) \/ Restore(c) \/ Settle(c)

PromiseSpec == PromiseInit /\ [][PromiseNext]_promiseVars

=============================================================================
