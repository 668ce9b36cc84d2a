SPECIFICATION Spec
CONSTANTS
  Workers = {w1}
  Messages = {"assistant_response", "approval_decision", "pause", "resume",
              "checkpoint_accept", "checkpoint_rollback", "recovery"}
  Replies = {"contract"}
  Contents = {before, after}
  Mixed = Mixed
  NoRow = NoRow
  MaxTurns = 0
  MaxCommands = 2
  MaxCheckpoints = 2
  MaxApprovals = 2
  MaxTimers = 0
  TelegramEnabled = FALSE
  AutoRunLowRisk = TRUE
  StoreFaults = FALSE
  FileFaults = FALSE
  OtherProviders = FALSE
SYMMETRY Symmetric
INVARIANTS
  TypeOK
  ProtectedRunsBehindCheckpoint
  HalfRestoredIsOnRecord
  OneApprovalPerCheckpoint
PROPERTIES
  RollbackRestores
  CheckpointPromiseKept
