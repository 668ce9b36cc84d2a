SPECIFICATION Spec
CONSTANTS
  Workers = {w1}
  Messages = {"assistant_response", "pause", "checkpoint_rollback"}
  Replies = {"contract"}
  Contents = {before, after}
  Mixed = Mixed
  NoRow = NoRow
  MaxTurns = 0
  MaxCommands = 1
  MaxCheckpoints = 2
  MaxApprovals = 2
  MaxTimers = 0
  TelegramEnabled = TRUE
  AutoRunLowRisk = TRUE
  StoreFaults = FALSE
  FileFaults = FALSE
  OtherProviders = FALSE
SYMMETRY Symmetric
PROPERTIES
  NoActionDuringReview
