--------------------------- MODULE CheckpointTable ---------------------------
(***************************************************************************)
(* The checkpoints table of storage.py, with the status machine of         *)
(* checkpoint.py.  A table maps each checkpoint id, numbered in the order  *)
(* of created_at, to its status; "absent" says there is no such row.       *)
(***************************************************************************)
EXTENDS Naturals, FiniteSets

CONSTANT MaxCheckpoints      \* bound: rows the table may ever hold

ASSUME MaxCheckpointsAssumption == MaxCheckpoints \in Nat

CheckpointIds == 1 .. MaxCheckpoints
NoCheckpoint  == 0

CHECKPOINT_STATUSES ==
  {"ready", "accepted", "rolling_back", "rolled_back", "rollback_failed",
   "invalid"}

CHECKPOINT_TRANSITIONS ==
  [s \in CHECKPOINT_STATUSES |->
     CASE s = "ready"        -> {"accepted", "rolling_back", "invalid"}
       [] s = "rolling_back" -> {"rolled_back", "rollback_failed", "invalid"}
       [] OTHER              -> {}]

TerminalStatuses == {"accepted", "rolled_back", "rollback_failed", "invalid"}

CheckpointTables ==
  [CheckpointIds -> CHECKPOINT_STATUSES \union {"absent"}]

EmptyTable == [c \in CheckpointIds |-> "absent"]

\* transition_checkpoint_status succeeds only on the expected status
\* (the guarded UPDATE); the caller sees False otherwise.
CanTransition(table, c, expected, new) ==
  /\ table[c] = expected
  /\ new \in CHECKPOINT_TRANSITIONS[expected]

Transitioned(table, c, expected, new) ==
  IF CanTransition(table, c, expected, new)
    THEN [table EXCEPT ![c] = new]
    ELSE table

\* put_checkpoint: INSERT ... ON CONFLICT DO UPDATE, whatever the old status.
PutCheckpoint(table, c, status) == [table EXCEPT ![c] = status]

\* The id the next checkpoint row gets: ids follow creation order.
IsNextCheckpoint(table, c) ==
  /\ c \in CheckpointIds
  /\ table[c] = "absent"
  /\ \A d \in CheckpointIds : d < c => table[d] # "absent"

RollingBack(table) == {c \in CheckpointIds : table[c] = "rolling_back"}

\* list_checkpoints(status = "rolling_back", limit = 1): the newest one.
IsLatestRollingBack(table, c) ==
  \/ RollingBack(table) = {} /\ c = NoCheckpoint
  \/ /\ c \in RollingBack(table)
     /\ \A d \in RollingBack(table) : d <= c

=============================================================================
