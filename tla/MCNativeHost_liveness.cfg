SPECIFICATION FairSpec
CONSTANTS
  Workers = {w1}
  Messages = {"assistant_response", "approval_decision", "change_course",
              "checkpoint_rollback", "recovery"}
  Replies = {"contract", "review"}
  Contents = {files}
  Mixed = Mixed
  NoRow = NoRow
  MaxTurns = 1
  MaxCommands = 1
  MaxCheckpoints = 1
  MaxApprovals = 1
  MaxTimers = 0
  TelegramEnabled = TRUE
  AutoRunLowRisk = TRUE
  StoreFaults = FALSE
  FileFaults = TRUE
  OtherProviders = FALSE
PROPERTIES
  DecisionsAreFinal
  LockIsReleased
  MainIsServed
