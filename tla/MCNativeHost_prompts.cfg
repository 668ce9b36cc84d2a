SPECIFICATION Spec
CONSTANTS
  Workers = {w1}
  Messages = {"assistant_response", "build_start_prompt",
              "build_controller_prompt", "finish_project", "pause",
              "reset_session", "provider_safety_signal", "chat_send_ack",
              "inform", "set_config"}
  Replies = {"plan", "done", "stop", "none"}
  Contents = {files}
  Mixed = Mixed
  NoRow = NoRow
  MaxTurns = 1
  MaxCommands = 1
  MaxCheckpoints = 0
  MaxApprovals = 0
  MaxTimers = 1
  TelegramEnabled = FALSE
  AutoRunLowRisk = TRUE
  StoreFaults = FALSE
  FileFaults = TRUE
  OtherProviders = TRUE
SYMMETRY Symmetric
INVARIANTS
  TurnsWithinBudget
PROPERTIES
  PausedSendsNothing
