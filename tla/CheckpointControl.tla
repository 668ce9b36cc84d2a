-------------------------- MODULE CheckpointControl --------------------------
(***************************************************************************)
(* CheckpointControlMixin: accepting a checkpoint and rolling the          *)
(* workspace back to it.  Both run on the main thread, which holds the     *)
(* lock from the first step to the last; the host can crash between any    *)
(* two steps.                                                              *)
(***************************************************************************)
EXTENDS HostState

\* The message passes the recovery gate and the checks made before the lock.
\* A refusal here only publishes an error: MessageHandlers!Inform.
RequestCheckpoint(type, c) ==
  /\ type \in Messages /\ ckpt[c] # "absent"
  /\ owner # "main" /\ want["main"] = Nothing
  /\ run.lifecycle # "recovery_required"
  /\ ~CommandExecutionActive
  /\ type = "checkpoint_rollback" => run.paused
  /\ want' = [want EXCEPT !["main"] = ForCheckpoint(type, c)]
  /\ UNCHANGED <<run, recoveries, disk, durable, pending, worker, timers>>
  /\ KeepLock

\* The main thread gets the lock, and checks everything again.
Requested(type, c) ==
  /\ want["main"] = ForCheckpoint(type, c)
  /\ LockFree /\ ~CommandExecutionActive
  /\ want' = [want EXCEPT !["main"] = Nothing]

RefuseCheckpoint(type, c) ==
  /\ Requested(type, c)
  /\ ckpt[c] # "ready" \/ (type = "checkpoint_rollback" /\ ~run.paused)
  /\ Publish(run)
  /\ UNCHANGED <<recoveries, durable, pending, worker, timers>>
  /\ KeepLock

\* Slip: the row is written whatever its status.
AcceptAnyCheckpoint(c) ==
  /\ Requested("checkpoint_accept", c)
  /\ ckpt[c] # "absent"
  /\ ckpt' = PutCheckpoint(ckpt, c, "accepted")
  /\ Publish(run)
  /\ UNCHANGED <<recoveries, image, ws, approvals, pending, project, worker,
                 timers>>
  /\ KeepLock

AcceptCheckpoint(c) ==
  /\ Requested("checkpoint_accept", c)
  /\ CanTransition(ckpt, c, "ready", "accepted")
  /\ ckpt' = Transitioned(ckpt, c, "ready", "accepted")
  /\ Publish(run)
  /\ UNCHANGED <<recoveries, image, ws, approvals, pending, project, worker,
                 timers>>
  /\ KeepLock

\* Slip: the first crash boundary is not persisted.
BeginRollbackInMemory(c) ==
  /\ Requested("checkpoint_rollback", c)
  /\ run.paused
  /\ ckpt[c] = "ready"
  /\ Remember([run EXCEPT !.paused = TRUE, !.lifecycle = "recovering",
                          !.status = "recovering"])
  /\ Take("main", "claim", [NoJob EXCEPT !.ckpt = c])
  /\ UNCHANGED <<recoveries, durable, pending, worker, timers>>

\* First crash boundary: "recovering" is persisted before the claim.
BeginRollback(c) ==
  /\ Requested("checkpoint_rollback", c)
  /\ run.paused
  /\ ckpt[c] = "ready"
  /\ Publish([run EXCEPT !.paused = TRUE, !.lifecycle = "recovering",
                         !.status = "recovering"])
  /\ Take("main", "claim", [NoJob EXCEPT !.ckpt = c])
  /\ UNCHANGED <<recoveries, durable, pending, worker, timers>>

RollingBackAt(s) ==
  /\ step = s
  /\ UNCHANGED <<recoveries, approvals, pending, project, want, timers>>

Moves(from, to) ==
  /\ CanTransition(ckpt, job.ckpt, from, to)
  /\ ckpt' = Transitioned(ckpt, job.ckpt, from, to)

ClaimCheckpoint ==
  /\ RollingBackAt("claim")
  /\ Moves("ready", "rolling_back")
  /\ GoTo("context")
  /\ UNCHANGED <<run, disk, image, ws, worker>>

\* Second crash boundary: the checkpoint's identity is in the runtime row.
PersistRollbackContext ==
  /\ RollingBackAt("context")
  /\ Publish([run EXCEPT !.ctx = job.ckpt])
  /\ GoTo("restore")
  /\ UNCHANGED <<ckpt, image, ws, worker>>

\* restore_workspace_snapshot: entries are removed and written one by one.
BeginRestore ==
  /\ RollingBackAt("restore")
  /\ ws' = Mixed
  /\ GoTo("restoring")
  /\ UNCHANGED <<run, disk, ckpt, image, worker>>

EndRestore ==
  /\ RollingBackAt("restoring")
  /\ ws' = image[job.ckpt]
  /\ GoTo("record")
  /\ UNCHANGED <<run, disk, ckpt, image, worker>>

\* The Git evidence is stored with an upsert that rewrites the status.
RecordGitReview ==
  /\ RollingBackAt("record")
  /\ ckpt' = PutCheckpoint(ckpt, job.ckpt, "rolling_back")
  /\ GoTo("complete")
  /\ UNCHANGED <<run, disk, image, ws, worker>>

CompleteRollback ==
  /\ RollingBackAt("complete")
  /\ Moves("rolling_back", "rolled_back")
  /\ GoTo("finish")
  /\ UNCHANGED <<run, disk, image, ws, worker>>

FinishRollback ==
  /\ RollingBackAt("finish")
  /\ Publish([run EXCEPT !.ctx = NoCheckpoint, !.paused = TRUE,
                         !.lifecycle = "paused", !.status = "paused"])
  /\ Release
  /\ UNCHANGED <<ckpt, image, ws>>

\* Slip: the restore's exception is swallowed.
RestoreErrorIgnored ==
  /\ step \in {"restore", "restoring"} \/ (StoreFaults /\ step = "record")
  /\ RollingBackAt(step)
  /\ GoTo(IF step = "record" THEN "complete" ELSE "record")
  /\ UNCHANGED <<run, disk, ckpt, image, ws, worker>>

\* The archive is rejected before the first change, an entry cannot be
\* written, or the store refuses: the except branch.
RestoreRaises ==
  /\ step \in {"restore", "restoring"} \/ (StoreFaults /\ step = "record")
  /\ RollingBackAt(step)
  /\ GoTo("fail")
  /\ UNCHANGED <<run, disk, ckpt, image, ws, worker>>

\* Slip: the checkpoint is made ready again for another attempt.
FailRollbackForRetry ==
  /\ RollingBackAt("fail")
  /\ ckpt' = PutCheckpoint(ckpt, job.ckpt, "ready")
  /\ GoTo("failed")
  /\ UNCHANGED <<run, disk, image, ws, worker>>

\* The failure is recorded, unless the store raises here too (except: pass).
FailRollback ==
  /\ RollingBackAt("fail")
  /\ \/ Moves("rolling_back", "rollback_failed")
     \/ StoreFaults /\ UNCHANGED ckpt
  /\ GoTo("failed")
  /\ UNCHANGED <<run, disk, image, ws, worker>>

\* Slip: the status the failure is first given is what gets published.
RequireReviewUnsettled ==
  /\ RollingBackAt("failed")
  /\ Publish([run EXCEPT !.ctx = job.ckpt, !.paused = TRUE,
                         !.lifecycle = "recovery_required",
                         !.status = "rollback_failed"])
  /\ Release
  /\ UNCHANGED <<ckpt, image, ws>>

RequireReview ==
  /\ RollingBackAt("failed")
  /\ Publish([run EXCEPT !.ctx = job.ckpt, !.paused = TRUE,
                         !.lifecycle = "recovery_required",
                         !.status = "recovery_required"])
  /\ Release
  /\ UNCHANGED <<ckpt, image, ws>>

\* SQLite raises while the claim or the context is being written: outside
\* the try block, so the exception leaves the lock and reaches main's loop.
RollbackRaises ==
  /\ StoreFaults
  /\ \/ step = "claim" /\ UNCHANGED run
     \/ step = "context" /\ run' = [run EXCEPT !.ctx = job.ckpt]
  /\ RollingBackAt(step)
  /\ Release
  /\ UNCHANGED <<disk, ckpt, image, ws>>

CheckpointStep ==
  \/ \E c \in CheckpointIds :
       \/ \E type \in {"checkpoint_accept", "checkpoint_rollback"} :
            RequestCheckpoint(type, c) \/ RefuseCheckpoint(type, c)
       \/ AcceptCheckpoint(c) \/ BeginRollback(c)
  \/ ClaimCheckpoint \/ PersistRollbackContext \/ BeginRestore \/ EndRestore
  \/ RecordGitReview \/ CompleteRollback \/ FinishRollback
  \/ RestoreRaises \/ FailRollback \/ RequireReview \/ RollbackRaises

=============================================================================
