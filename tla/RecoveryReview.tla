---------------------------- MODULE RecoveryReview ----------------------------
(***************************************************************************)
(* CoreMixin: what a restarted host makes of the persisted row and of the  *)
(* checkpoints table, and the human's review of an interrupted workflow.   *)
(***************************************************************************)
EXTENDS HostState

\* _checkpoint_recovery_from_store: the newest interrupted rollback.
StoreContext == CHOOSE c \in CheckpointIds \union {NoCheckpoint} :
                  IsLatestRollingBack(ckpt, c)

\* Without a row, an interrupted rollback stands in for one.
Snapshot ==
  IF disk # NoRow THEN disk
  ELSE IF StoreContext = NoCheckpoint THEN InitRun
  ELSE [InitRun EXCEPT !.lifecycle = "recovering", !.status = "recovering",
                       !.paused = TRUE, !.ctx = StoreContext]

RestoredContext ==
  IF StoreContext # NoCheckpoint THEN StoreContext ELSE Snapshot.ctx

\* Would a host started on this disk ask for a recovery review?
NeedsReview == RequiresRecovery(Snapshot) \/ RestoredContext # NoCheckpoint

\* A budget of another provider than the restored active_provider is reset
\* (budget.set_provider after restore_state).
OwnBudget == IF Snapshot.foreign THEN Fresh(Snapshot) ELSE Snapshot

\* _restore_runtime_state.  A restored guard blocks the budget again.
RestoredRun ==
  LET kept == [OwnBudget EXCEPT !.ctx = RestoredContext,
                                !.blocked = @ \/ Snapshot.guard]
  IN IF NeedsReview
       THEN [kept EXCEPT !.paused = TRUE, !.lifecycle = "recovery_required",
                         !.status = "recovery_required"]
     ELSE IF kept.guard
       THEN [kept EXCEPT !.paused = TRUE, !.lifecycle = "paused",
                         !.status = "provider_guard"]
     ELSE kept

\* The host dies at any point and is started again: no lock holder, no
\* continuation, no waiting thread and no timer survives.
Restart ==
  /\ run' = RestoredRun /\ recoveries' = 0
  /\ pending' = [a \in ApprovalIds |-> NoPending]
  /\ owner' = "none" /\ step' = "none" /\ job' = NoJob
  /\ want' = [t \in Callers |-> Nothing]
  /\ worker' = [w \in Workers |-> IdleWorker]
  /\ timers' = 0
  /\ UNCHANGED <<disk, durable>>

-----------------------------------------------------------------------------
\* recovery_prepare or recovery_discard arrives: whether a review is open is
\* only asked under the lock.
AnswerReview(decision) ==
  /\ "recovery" \in Messages
  /\ owner # "main" /\ want["main"] = Nothing
  /\ want' = [want EXCEPT !["main"] = Answering(decision)]
  /\ UNCHANGED <<run, recoveries, disk, durable, pending, worker, timers>>
  /\ KeepLock

NothingToReview(decision) ==
  /\ want["main"] = Answering(decision)
  /\ LockFree /\ run.lifecycle # "recovery_required"
  /\ Publish(run)
  /\ want' = [want EXCEPT !["main"] = Nothing]
  /\ UNCHANGED <<recoveries, durable, pending, worker, timers>>
  /\ KeepLock

\* Under the lock: an interrupted rollback becomes invalid, if no other
\* durable outcome has won.
ResolveRecovery(decision) ==
  /\ want["main"] = Answering(decision)
  /\ run.lifecycle = "recovery_required"
  /\ want' = [want EXCEPT !["main"] = Nothing]
  /\ Take("main", "expire", [NoJob EXCEPT !.decision = decision])
  /\ ckpt' = IF run.ctx = NoCheckpoint THEN ckpt
             ELSE Transitioned(ckpt, run.ctx, "rolling_back", "invalid")
  /\ UNCHANGED <<run, recoveries, disk, image, ws, approvals, pending,
                 project, worker, timers>>

ExpireApprovals ==
  /\ step = "expire"
  /\ approvals' = [a \in ApprovalIds |->
                     IF approvals[a] = "pending" THEN "expired"
                                                 ELSE approvals[a]]
  /\ GoTo("resolved")
  /\ UNCHANGED <<run, recoveries, disk, ckpt, image, ws, pending, project,
                 want, worker, timers>>

Reviewed(r, decision) ==
  LET cleared == [r EXCEPT !.ctx = NoCheckpoint]
  IN IF decision = "prepare" /\ ~r.guard
       THEN [cleared EXCEPT !.paused = FALSE, !.lifecycle = "idle",
                            !.status = "idle"]
       ELSE [cleared EXCEPT !.paused = TRUE, !.lifecycle = "paused",
               !.status = IF r.guard THEN "provider_guard" ELSE "paused"]

FinishReview ==
  /\ step = "resolved"
  /\ pending' = [a \in ApprovalIds |-> NoPending]
  /\ recoveries' = 0
  /\ Publish(Reviewed(run, job.decision))
  /\ Release
  /\ UNCHANGED <<durable, want, timers>>

RecoveryStep ==
  \/ Restart
  \/ \E decision \in {"prepare", "discard"} :
       \/ AnswerReview(decision) \/ NothingToReview(decision)
       \/ ResolveRecovery(decision)
  \/ ExpireApprovals
  \/ FinishReview

=============================================================================
