--------------------------- MODULE RuntimeRecovery ---------------------------
(***************************************************************************)
(* The restart classification of recovery.py: which persisted runtime      *)
(* snapshots describe work that was in flight.  Lifecycles and statuses    *)
(* keep the strings the native host stores.                                *)
(***************************************************************************)

RECOVERY_LIFECYCLES ==
  {"planning", "running", "change_review", "finishing", "recovering",
   "recovery_required"}

PassiveLifecycles ==
  {"setup", "ready_to_arm", "paused", "idle", "complete",
   "budget_exhausted", "protocol_blocked"}

Lifecycles == RECOVERY_LIFECYCLES \union PassiveLifecycles

RECOVERY_STATUSES ==
  {"arming", "running", "validating", "reporting", "waiting_llm",
   "waiting_chatgpt", "waiting_approval", "change_review", "finishing",
   "recovering", "recovery_required", "cooldown"}

PassiveStatuses ==
  {"idle", "planning", "planning_error", "ready_to_arm", "paused",
   "provider_guard", "budget_exhausted", "protocol_blocked", "failed",
   "blocked", "error", "checkpointing", "complete", "project_state_error"}

Statuses == RECOVERY_STATUSES \union PassiveStatuses

\* requires_recovery(snapshot): the lifecycle or the status was in flight.
RequiresRecovery(snapshot) ==
  \/ snapshot.lifecycle \in RECOVERY_LIFECYCLES
  \/ snapshot.status \in RECOVERY_STATUSES

\* Statuses in which a reply without a valid protocol block is answered by
\* a recovery prompt (ResponseMixin._recover_protocol_failure).
RecoverableStatuses ==
  {"waiting_llm", "waiting_chatgpt", "reporting", "recovering", "arming",
   "finishing"}

=============================================================================
