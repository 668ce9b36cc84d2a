SPECIFICATION Spec
CONSTANTS
  Workers = {w1}
  Messages = {"assistant_response", "approval_decision", "pause",
              "build_controller_prompt", "change_course", "checkpoint_rollback",
              "recovery"}
  Replies = {"contract", "review", "decision"}
  Contents = {before, after}
  Mixed = Mixed
  NoRow = NoRow
  MaxTurns = 1
  MaxCommands = 1
  MaxCheckpoints = 1
  MaxApprovals = 1
  MaxTimers = 1
  TelegramEnabled = FALSE
  AutoRunLowRisk = TRUE
  StoreFaults = TRUE
  FileFaults = FALSE
  OtherProviders = TRUE
SYMMETRY Symmetric
INVARIANTS
  ReviewSurvivesCrash
  HalfRestoredIsOnRecord
  RejectedCourseIsNotApplied
PROPERTIES
  RollbackRestores
  ReviewIsExplicit
  NoActionDuringReview
  PausedSendsNothing
  HoldEnds
