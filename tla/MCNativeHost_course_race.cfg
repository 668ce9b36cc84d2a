SPECIFICATION Spec
CONSTANTS
  Workers = {w1}
  Messages = {"assistant_response", "change_course", "approval_decision"}
  Replies = {"review"}
  Contents = {files}
  Mixed = Mixed
  NoRow = NoRow
  MaxTurns = 1
  MaxCommands = 1
  MaxCheckpoints = 0
  MaxApprovals = 1
  MaxTimers = 0
  TelegramEnabled = TRUE
  AutoRunLowRisk = TRUE
  StoreFaults = FALSE
  FileFaults = FALSE
  OtherProviders = FALSE
SYMMETRY Symmetric
INVARIANTS
  RejectedCourseIsNotApplied
