------------------------------ MODULE NativeHost ------------------------------
(***************************************************************************)
(* The native host: every thread's steps put together, the specification,  *)
(* and what must hold of it.                                               *)
(***************************************************************************)
EXTENDS MessageHandlers, ResponseWorker, ApprovalDecisions, CommandExecution,
        CheckpointControl, RecoveryReview

Next == \/ MainStep \/ ResponseStep \/ DecisionStep
        \/ CommandStep \/ CheckpointStep \/ RecoveryStep

Spec == Init /\ [][Next]_vars

\* The steps of the thread that holds self.lock.
HolderStep ==
  \/ DownloadFails \/ Acknowledge \/ CommandStep
  \/ ClaimCheckpoint \/ PersistRollbackContext \/ BeginRestore \/ EndRestore
  \/ RecordGitReview \/ CompleteRollback \/ FinishRollback
  \/ FailRollback \/ RequireReview
  \/ ExpireApprovals \/ FinishReview

\* The steps of a worker that does not hold it.
WorkerStep(w) ==
  \/ ReadLifecycle(w) \/ CommitProject(w)
  \/ HoldResponse(w) \/ PlanResponse(w) \/ ReviewResponse(w)
  \/ DoneResponse(w) \/ StopResponse(w) \/ ProtocolFailure(w)
  \/ DecisionResponse(w) \/ RefuseContract(w) \/ ExecuteContract(w)
  \/ ResponseFails(w) \/ CheckProject(w)

\* The steps of a caller that is about to take it.
CallerStep(caller) ==
  \/ /\ caller = "main"
     /\ \/ DispatchFromMain
        \/ \E c \in CheckpointIds :
             \/ AcceptCheckpoint(c) \/ BeginRollback(c)
             \/ \E type \in {"checkpoint_accept", "checkpoint_rollback"} :
                  RefuseCheckpoint(type, c)
        \/ \E decision \in {"prepare", "discard"} :
             NothingToReview(decision) \/ ResolveRecovery(decision)
  \/ \E a \in ApprovalIds :
       \/ \E d \in {"approve", "reject"} : AlreadyDecided(caller, a, d)
       \/ Reject(caller, a) \/ ApproveCommand(caller, a)
       \/ ApproveContract(caller, a) \/ ApproveCourseChange(caller, a)

\* A thread that can go on does: the operating system schedules it.  Nothing
\* is asked of the browser, the human, Telegram, a timer or a crash.
Fairness ==
  /\ WF_vars(HolderStep)
  /\ \A w \in Workers : WF_vars(WorkerStep(w))
  /\ \A caller \in Callers : WF_vars(CallerStep(caller))

FairSpec == Spec /\ Fairness

-----------------------------------------------------------------------------
\* record_send: nothing else adds to the turns of the last hour, a restart
\* included.
TurnSent == run'.turns > run.turns

\* A protected command starts only with its own recorded approval and behind
\* a ready checkpoint that holds exactly the files it is about to change
\* (orchestrator_risk.py: the crash boundary before run_command).
ProtectedRunsBehindCheckpoint ==
  step \in {"start", "executing"} /\ job.risk = "protected" =>
    /\ job.approval \in ApprovalIds /\ approvals[job.approval] = "approve"
    /\ job.ckpt \in CheckpointIds /\ ckpt[job.ckpt] = "ready"
    /\ step = "start" => image[job.ckpt] = ws

\* A checkpoint reads rolled_back only once the workspace holds the files it
\* captured (rollback_checkpoint completes after restore_workspace_snapshot).
RollbackRestores ==
  [][\A c \in CheckpointIds :
       ckpt[c] # "rolled_back" /\ ckpt'[c] = "rolled_back" => ws = image[c]]_vars

\* A workspace that a restore may have left half way is never without the
\* row of an unfinished rollback (checkpoint.py: rollback_failed and invalid
\* are kept as evidence), until a command rewrites the files.
HalfRestoredIsOnRecord ==
  ws = Mixed => \E c \in CheckpointIds :
                  ckpt[c] \in {"rolling_back", "rollback_failed", "invalid"}

\* Whenever the host may die, a rollback under way and a review the human has
\* not answered are found again by the next start (the crash boundaries of
\* rollback_checkpoint, _restore_runtime_state).
ReviewSurvivesCrash ==
  (\/ step \in RollbackSteps
   \/ run.lifecycle = "recovery_required" /\ step \notin {"expire", "resolved"})
  => NeedsReview

\* A step of the host, a crash and restart included, leaves recovery_required
\* only once the human has answered the review (the recovery gate of
\* MessageMixin.handle, _resolve_recovery).
ReviewIsExplicit ==
  [][run.lifecycle = "recovery_required" /\ run'.lifecycle # "recovery_required"
       => step \in {"expire", "resolved"}]_vars

\* While a review is open no command changes the files, no turn is sent and
\* no course change is applied ("before any project action can continue").
NoActionDuringReview ==
  [][run.lifecycle = "recovery_required" =>
       /\ ws' = ws /\ project'.course = project.course /\ ~TurnSent]_vars

\* A decided or expired approval keeps its outcome: resolve_approval pops the
\* continuation, expire_pending_approvals touches pending rows only.
DecisionsAreFinal ==
  [][\A a \in ApprovalIds :
       approvals[a] \in {"approve", "reject", "expired"}
         => approvals'[a] = approvals[a]]_vars

\* A turn is sent only by a step that leaves the workflow neither paused nor
\* guarded, however long ago the prompt was built and whoever sends it; a human's
\* approval may end a pause and send in one step (dispatch() reads both again
\* under the lock).
PausedSendsNothing ==
  [][TurnSent => ~run'.paused /\ ~run'.guard /\ ~run'.blocked]_vars

\* Concurrent prompts cannot overrun the turn limit: dispatch() asks the
\* budget a second time.
TurnsWithinBudget == run.turns <= MaxTurns

\* The course change on disk is not one whose approval row says reject
\* (resolve_approval: "Preserve the current approved roadmap").
RejectedCourseIsNotApplied ==
  project.course \in ApprovalIds => approvals[project.course] # "reject"

\* Each protected command has an approval of its own: there are never more
\* checkpoints taken than approvals given (the loop drops approved_index).
OneApprovalPerCheckpoint ==
  Cardinality({c \in CheckpointIds : ckpt[c] # "absent"})
    <= Cardinality({a \in ApprovalIds : approvals[a] = "approve"})

\* How far the holder of self.lock is from giving it back, apart from the
\* commands it still has to run.
Distance ==
  [none |-> 0, download |-> 7, acknowledge |-> 1, expire |-> 2, resolved |-> 1,
   command |-> 6, checkpoint |-> 5, start |-> 4, executing |-> 3, report |-> 2,
   waiting |-> 1,
   claim |-> 7, context |-> 6, restore |-> 5, restoring |-> 4, record |-> 3,
   complete |-> 2, finish |-> 1, fail |-> 2, failed |-> 1]
StepsLeft == 4 * job.left + Distance[step]

\* Whoever holds self.lock comes closer to giving it back with each of its
\* steps, whatever fails: no step of a command loop, a rollback or a review is
\* taken twice, and nobody else moves the holder (the loops under self.lock
\* break at the first failure).
HoldEnds ==
  [][owner # "none" /\ owner' = owner
       => StepsLeft' < StepsLeft \/ UNCHANGED <<step, job>>]_vars

\* The checkpoints table, the archives and the workspace keep the promise of
\* CheckpointPromise through every interleaving and crash.
Promise == INSTANCE CheckpointPromise
             WITH status <- ckpt, captured <- image, files <- ws
CheckpointPromiseKept == Promise!PromiseSpec

-----------------------------------------------------------------------------
\* self.lock is always given back: no wait of its holder depends on a thread
\* that waits for the lock (_request_downloads gives up by itself).
LockIsReleased == owner # "none" ~> owner = "none"

\* A main thread that waits for the lock, and with it every later browser
\* message, is served.
MainIsServed == want["main"] # Nothing ~> want["main"] = Nothing

=============================================================================
