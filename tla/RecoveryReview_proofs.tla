------------------------- MODULE RecoveryReview_proofs -------------------------
(***************************************************************************)
(* The crash boundaries of a rollback and of a review, proved for every    *)
(* instance of NativeHost: whenever the host dies while a rollback is under*)
(* way or a review is unanswered, the next start finds it on the disk.     *)
(***************************************************************************)
EXTENDS NativeHost_proofs

\* The steps of the main thread that nobody else may take for it.
ReviewSteps == {"expire", "resolved"}
MainSteps   == RollbackSteps \union ReviewSteps

\* The lock has a holder exactly when there is a step to hold it for; the
\* rollback and the review are the main thread's; and all through a rollback
\* the persisted row says so, whatever the other threads publish meanwhile.
LockInv ==
  /\ owner = "none" <=> step = "none"
  /\ step \in MainSteps => owner = "main"
  /\ step \in RollbackSteps => /\ run.lifecycle = "recovering"
                               /\ disk \in Run /\ disk.lifecycle = "recovering"

ReviewInv == IndTypes /\ LockInv /\ ReviewSurvivesCrash

-----------------------------------------------------------------------------
\* Either row, once persisted, makes the next start ask for a review.
LEMMA RowNeedsReview ==
  ASSUME disk' \in Run,
         disk'.lifecycle \in {"recovering", "recovery_required"}
  PROVE  NeedsReview'
<1>1. Snapshot' = disk'
  BY NoRowAssumption DEF Snapshot
<1> QED BY <1>1 DEF NeedsReview, RequiresRecovery, RECOVERY_LIFECYCLES

\* An hour more changes the turns of a row and nothing else.
LEMMA OlderRow ==
  ASSUME NEW r \in Run
  PROVE  /\ OneOlder(r) \in Run /\ OneOlder(r).lifecycle = r.lifecycle
         /\ OneOlder(r).status = r.status /\ OneOlder(r).ctx = r.ctx
         /\ OneOlder(r).paused = r.paused /\ OneOlder(r).guard = r.guard
         /\ OneOlder(r).turns <= r.turns
<1>1. r.turns \in Nat /\ (IF r.turns > 0 THEN r.turns - 1 ELSE 0) \in Nat
  BY RunFields
<1>2. OneOlder(r) = [r EXCEPT !.turns = IF r.turns > 0 THEN r.turns - 1 ELSE 0]
  BY DEF OneOlder
<1> QED BY <1>1, <1>2 DEF Run

\* What the next start does depends on the disk alone.
LEMMA NeedsReviewKept ==
  ASSUME NeedsReview, ckpt' = ckpt,
         disk' = disk \/ (disk \in Run /\ disk' = OneOlder(disk))
  PROVE  NeedsReview'
<1>1. StoreContext' = StoreContext
  BY DEF StoreContext, IsLatestRollingBack, RollingBack
<1>2. CASE disk' = disk
  <2>1. Snapshot' = Snapshot
    BY <1>1, <1>2 DEF Snapshot
  <2> QED BY <1>1, <2>1 DEF NeedsReview, RestoredContext
<1>3. CASE disk \in Run /\ disk' = OneOlder(disk)
  <2>1. /\ disk' \in Run /\ disk'.lifecycle = disk.lifecycle
        /\ disk'.status = disk.status /\ disk'.ctx = disk.ctx
    BY <1>3, OlderRow
  <2>2. Snapshot = disk /\ Snapshot' = disk'
    BY <1>3, <2>1, NoRowAssumption DEF Snapshot
  <2> QED BY <1>1, <2>1, <2>2 DEF NeedsReview, RestoredContext, RequiresRecovery
<1> QED BY <1>2, <1>3

\* How a step outside a rollback may treat the row: it persists the lifecycle
\* it leaves, or it changes neither, or no review is open after it.
RowKept ==
  \/ disk' \in Run /\ disk'.lifecycle = run'.lifecycle
  \/ /\ disk \in Run /\ disk' = OneOlder(disk)
     /\ UNCHANGED ckpt /\ run'.lifecycle = run.lifecycle
  \/ UNCHANGED <<disk, ckpt>> /\ run'.lifecycle = run.lifecycle
  \/ run'.lifecycle # "recovery_required"

LEMMA OutsideRollback ==
  ASSUME ReviewInv, IndTypes', RowKept,
         step \notin MainSteps, step' \notin MainSteps,
         owner' = "none" <=> step' = "none"
  PROVE  ReviewInv'
<1>1. LockInv'
  BY DEF LockInv, MainSteps
<1>2. ASSUME run'.lifecycle = "recovery_required" PROVE NeedsReview'
  <2>1. CASE disk' \in Run /\ disk'.lifecycle = run'.lifecycle
    BY <1>2, <2>1, RowNeedsReview
  <2>2. CASE /\ UNCHANGED ckpt /\ run'.lifecycle = run.lifecycle
             /\ disk' = disk \/ (disk \in Run /\ disk' = OneOlder(disk))
    BY <1>2, <2>2, NeedsReviewKept
       DEF ReviewInv, ReviewSurvivesCrash, MainSteps, ReviewSteps
  <2> QED BY <1>2, <2>1, <2>2 DEF RowKept
<1> QED BY <1>1, <1>2 DEF ReviewInv, ReviewSurvivesCrash, MainSteps

\* A step of a thread outside the lock leaves the lifecycle and the tables.
LEMMA OutsideLock ==
  ASSUME ReviewInv, IndTypes', KeepLock, UNCHANGED ckpt,
         run'.lifecycle = run.lifecycle,
         \/ disk' = run' \/ disk' = disk
         \/ disk \in Run /\ disk' = OneOlder(disk)
  PROVE  ReviewInv'
<1>1. CASE step \in RollbackSteps
  <2>1. disk' \in Run /\ disk'.lifecycle = "recovering"
    BY <1>1, OlderRow DEF ReviewInv, LockInv, IndTypes, TypeOK
  <2>2. NeedsReview'
    BY <2>1, RowNeedsReview
  <2> QED BY <1>1, <2>1, <2>2
          DEF ReviewInv, LockInv, KeepLock, ReviewSurvivesCrash
<1>2. CASE step \in ReviewSteps
  BY <1>2 DEF ReviewInv, LockInv, KeepLock, ReviewSurvivesCrash, RollbackSteps,
              ReviewSteps
<1>3. CASE step \notin MainSteps
  <2>1. RowKept /\ step' \notin MainSteps /\ (owner' = "none" <=> step' = "none")
    BY <1>3 DEF ReviewInv, LockInv, KeepLock, RowKept, IndTypes, TypeOK
  <2> QED BY <1>3, <2>1, OutsideRollback
<1> QED BY <1>1, <1>2, <1>3 DEF MainSteps

-----------------------------------------------------------------------------
\* A prompt is sent behind the row it leaves, or is skipped over saved.
LEMMA PromptRow ==
  ASSUME NEW r \in Run, NEW saved \in Run \union {NoRow},
         \/ SendPrompt(r, saved)
         \/ Dispatch(r, saved)
         \/ PromptRefused(r)
         \/ PromptDelayed(r)
  PROVE  disk' = run' \/ (run' = r /\ disk' = saved)
BY DEF SendPrompt, Dispatch, PromptRefused, PromptDelayed, Publish

LEMMA MainStepReview == ReviewInv /\ IndTypes' /\ MainStep => ReviewInv'
<1> SUFFICES ASSUME ReviewInv, IndTypes', MainStep PROVE ReviewInv'
  OBVIOUS
<1>1. run \in Run /\ disk \in Run \union {NoRow} /\ run' \in Run
      /\ disk' \in Run \union {NoRow}
  BY DEF ReviewInv, IndTypes, TypeOK
\* The main thread itself, which is not inside the lock.
<1>2. ASSUME owner # "main", KeepLock, UNCHANGED ckpt,
             disk' = run' \/ (run' = run /\ disk' = disk)
      PROVE  ReviewInv'
  <2>1. RowKept
    BY <1>1, <1>2 DEF RowKept
  <2> QED BY <1>2, <2>1, OutsideRollback DEF ReviewInv, LockInv, KeepLock
<1>3. ASSUME MainIdle PROVE owner # "main"
  BY <1>3 DEF MainIdle
<1>4. CASE \/ Inform \/ Pause \/ Resume \/ ResetSession
           \/ \E changed \in BOOLEAN :
                \/ EmptyRequest(changed) \/ SetConfig(changed)
                \/ ControllerPromptRaises(changed)
           \/ \E foreign \in Foreign :
                \/ ProviderSafetySignal(foreign)
                \/ \E w \in Workers, reply \in Replies :
                     AssistantResponse(w, reply, foreign)
           \/ \E ok \in BOOLEAN : ChatSendAck(ok)
  <2>1. owner # "main" /\ KeepLock /\ UNCHANGED ckpt /\ disk' = run'
    BY <1>4 DEF Inform, Pause, Resume, ResetSession, ProviderSafetySignal,
                SetConfig, EmptyRequest, ControllerPromptRaises, AssistantResponse,
                ChatSendAck, Received, MainIdle, OnlyRun, durable, Publish
  <2> QED BY <1>2, <2>1
<1>5. CASE \E changed \in BOOLEAN :
             \/ BuildStartPrompt(changed) \/ BuildControllerPrompt(changed)
             \/ ChangeCourse(changed) \/ FinishProject(changed)
  <2>1. MainIdle /\ KeepLock /\ UNCHANGED ckpt
    BY <1>5 DEF BuildStartPrompt, BuildControllerPrompt, ChangeCourse,
                FinishProject, Received, PromptBuilder, durable
  <2>2. disk' = run'
    BY <1>5 DEF BuildStartPrompt, BuildControllerPrompt, ChangeCourse,
                FinishProject, PromptBuilder, SendFromMain, PromptRefused,
                PromptDelayed, Publish
  <2> QED BY <1>2, <1>3, <2>1, <2>2
<1>6. CASE DispatchFromMain \/ FireTimer
  <2>1. LockFree /\ KeepLock /\ UNCHANGED ckpt /\ Dispatch(run, disk)
    BY <1>6 DEF DispatchFromMain, FireTimer, OnlyRun, durable
  <2>2. disk' = run' \/ (run' = run /\ disk' = disk)
    BY <1>1, <2>1, PromptRow
  <2> QED BY <1>2, <2>1, <2>2 DEF LockFree
<1>7. CASE TurnAges
  <2>1. run'.lifecycle = run.lifecycle
    BY <1>1, <1>7, OlderRow DEF TurnAges
  <2>2. disk' = disk \/ (disk \in Run /\ disk' = OneOlder(disk))
    BY <1>1, <1>7 DEF TurnAges
  <2>3. KeepLock /\ UNCHANGED ckpt
    BY <1>7 DEF TurnAges, OnlyRun, durable
  <2> QED BY <2>1, <2>2, <2>3, OutsideLock
<1> QED BY <1>4, <1>5, <1>6, <1>7 DEF MainStep

LEMMA ResponseStepReview == ReviewInv /\ IndTypes' /\ ResponseStep => ReviewInv'
<1> SUFFICES ASSUME ReviewInv, IndTypes', ResponseStep PROVE ReviewInv'
  OBVIOUS
<1>1. /\ run \in Run /\ disk \in Run \union {NoRow}
      /\ run' \in Run /\ disk' \in Run \union {NoRow}
      /\ Validating(run) \in Run
      /\ LockFree => step = "none"
  <2>1. Validating(run) \in Run
    BY DEF ReviewInv, IndTypes, TypeOK, Validating, Run, Lifecycles,
           RECOVERY_LIFECYCLES, Statuses, RECOVERY_STATUSES
  <2> QED BY <2>1 DEF ReviewInv, LockInv, LockFree, IndTypes, TypeOK
\* Outside the lock.
<1>2. CASE \E w \in Workers :
             ReadLifecycle(w) \/ CommitProject(w) \/ CheckProject(w)
  <2>1. KeepLock /\ UNCHANGED ckpt
    BY <1>2 DEF ReadLifecycle, CommitProject, CheckProject, durable
  <2>2. disk' = run' \/ disk' = disk
    BY <1>2 DEF ReadLifecycle, CommitProject, CheckProject, CommitFails,
                Proceed, Publish
  <2>3. ProjectStateError(run).lifecycle = run.lifecycle
    BY <1>1 DEF ProjectStateError, Run
  <2>4. run'.lifecycle = run.lifecycle
    BY <1>2, <2>3 DEF ReadLifecycle, CommitProject, CheckProject, CommitFails,
                      Proceed, Publish
  <2> QED BY <2>1, <2>2, <2>4, OutsideLock
\* Under the lock, and given back within the step.
<1>3. ASSUME NEW w \in Workers, LockFree, Quietly(w),
             disk' \in Run /\ disk'.lifecycle = run'.lifecycle
      PROVE  ReviewInv'
  <2>1. step \notin MainSteps /\ step' \notin MainSteps
        /\ (owner' = "none" <=> step' = "none")
    BY <1>1, <1>3 DEF LockFree, Quietly, KeepLock, MainSteps, RollbackSteps,
                      ReviewSteps
  <2> QED BY <1>3, <2>1, OutsideRollback DEF RowKept
<1>4. CASE \E w \in Workers :
             \/ HoldResponse(w) \/ PlanResponse(w) \/ ReviewResponse(w)
             \/ DoneResponse(w) \/ StopResponse(w) \/ DecisionResponse(w)
             \/ ResponseFails(w)
  <2>1. PICK w \in Workers : LockFree /\ Quietly(w)
    BY <1>4 DEF HoldResponse, PlanResponse, ReviewResponse, DoneResponse,
                StopResponse, DecisionResponse, ResponseFails, Responding,
                ReadsContract
  <2>2. disk' = run'
    BY <1>4 DEF HoldResponse, PlanResponse, ReviewResponse, DoneResponse,
                StopResponse, DecisionResponse, ResponseFails, RequestDecision,
                Publish
  <2> QED BY <1>1, <1>3, <2>1, <2>2
<1>5. ASSUME NEW w \in Workers, ProtocolFailure(w) PROVE ReviewInv'
  <2>1. [run EXCEPT !.status = "recovering"] \in Run
    BY <1>1, RunUpdates DEF Statuses, RECOVERY_STATUSES
  <2>2. disk' = run'
    BY <1>5, <2>1, PromptRow DEF ProtocolFailure, Publish
  <2> QED BY <1>1, <1>3, <1>5, <2>2
          DEF ProtocolFailure, ReadsContract, Responding
<1>6. ASSUME NEW w \in Workers, RefuseContract(w) PROVE ReviewInv'
  <2>1. ASSUME NEW s \in {"blocked", "failed", "idle"}
        PROVE  /\ [Validating(run) EXCEPT !.status = s] \in Run
               /\ [Validating(run) EXCEPT !.status = s].lifecycle
                    = Validating(run).lifecycle
    BY <1>1 DEF Run, Statuses, PassiveStatuses
  <2>2. disk' \in Run /\ disk'.lifecycle = run'.lifecycle
    BY <1>1, <1>6, <2>1, PromptRow DEF RefuseContract, Publish
  <2> QED BY <1>3, <1>6, <2>2 DEF RefuseContract, ReadsContract, Responding
<1>7. ASSUME NEW w \in Workers, ExecuteContract(w) PROVE ReviewInv'
  <2>1. step \notin MainSteps
    BY <1>1, <1>7 DEF ExecuteContract, ReadsContract, Responding, MainSteps,
                      RollbackSteps, ReviewSteps
  <2>2. owner' = w /\ step' \in {"download", "command"}
    BY <1>7 DEF ExecuteContract, Take
  <2>3. w # "none"
    BY HostAssumption
  <2>4. RowKept
    BY <1>1, <1>7 DEF ExecuteContract, Publish, RowKept
  <2> QED BY <2>1, <2>2, <2>3, <2>4, OutsideRollback
          DEF MainSteps, RollbackSteps, ReviewSteps
<1>8. CASE DownloadArrives
  <2>1. RowKept
    BY <1>1, <1>8 DEF DownloadArrives, Publish, RowKept
  <2> QED BY <1>8, <2>1, OutsideRollback
          DEF DownloadArrives, GoTo, ReviewInv, LockInv, MainSteps,
              RollbackSteps, ReviewSteps
<1>9. CASE DownloadEndsContract \/ DownloadFails
  <2>1. ASSUME NEW s \in {"idle", "failed"}
        PROVE  /\ [run EXCEPT !.status = s] \in Run
               /\ [run EXCEPT !.status = s].lifecycle = run.lifecycle
    BY <1>1 DEF Run, Statuses, PassiveStatuses
  <2>2. PICK s \in {"idle", "failed"} :
          \/ SendPrompt([run EXCEPT !.status = s], run)
          \/ SendPrompt([run EXCEPT !.status = s], [run EXCEPT !.status = s])
    BY <1>9 DEF DownloadEndsContract, DownloadFails
  <2>3. RowKept
    BY <1>1, <2>1, <2>2, PromptRow DEF RowKept
  <2> QED BY <1>9, <2>3, OutsideRollback
          DEF DownloadEndsContract, DownloadFails, Release, MainSteps,
              RollbackSteps, ReviewSteps
<1> QED BY <1>2, <1>4, <1>5, <1>6, <1>7, <1>8, <1>9 DEF ResponseStep

LEMMA DecisionStepReview == ReviewInv /\ IndTypes' /\ DecisionStep => ReviewInv'
<1> SUFFICES ASSUME ReviewInv, IndTypes', DecisionStep PROVE ReviewInv'
  OBVIOUS
<1>1. /\ run \in Run /\ disk \in Run \union {NoRow}
      /\ run' \in Run /\ disk' \in Run \union {NoRow}
      /\ LockFree => step = "none"
  BY DEF ReviewInv, LockInv, LockFree, IndTypes, TypeOK
<1>2. CASE \E a \in ApprovalIds, decision \in {"approve", "reject"} :
             \/ DecideInBrowser(a, decision) \/ DecideInTelegram(a, decision)
             \/ \E caller \in Callers : AlreadyDecided(caller, a, decision)
  BY <1>2, OutsideLock
  DEF DecideInBrowser, DecideInTelegram, Decide, CourseChangeRaises, AlreadyDecided,
      Resolving
<1>3. ASSUME NEW caller \in Callers, NEW a \in ApprovalIds,
             NEW decision \in {"approve", "reject"},
             Resolving(caller, a, decision),
             \/ disk' \in Run /\ disk'.lifecycle = run'.lifecycle
             \/ run'.lifecycle # "recovery_required",
             KeepLock \/ (owner' = caller /\ step' \in {"command", "acknowledge"})
      PROVE  ReviewInv'
  <2>1. step \notin MainSteps /\ step' \notin MainSteps
        /\ (owner' = "none" <=> step' = "none")
    BY <1>1, <1>3 DEF Resolving, LockFree, KeepLock, Callers, MainSteps,
                      RollbackSteps, ReviewSteps
  <2> QED BY <1>3, <2>1, OutsideRollback DEF RowKept
<1>4. ASSUME NEW caller \in Callers, NEW a \in ApprovalIds, Reject(caller, a)
      PROVE  ReviewInv'
  <2> DEFINE r == [run EXCEPT !.status = "idle",
                     !.lifecycle = IF pending[a].kind = "course_change"
                                     THEN "running" ELSE @]
  <2>1. r \in Run
    BY <1>1 DEF Run, Lifecycles, RECOVERY_LIFECYCLES, Statuses, PassiveStatuses
  <2>2. r.lifecycle = run.lifecycle \/ r.lifecycle = "running"
    BY <1>1 DEF Run
  <2>3. SendPrompt(r, run)
    BY <1>4 DEF Reject
  <2> HIDE DEF r
  <2>4. disk' = run' \/ (run' = r /\ disk' = run)
    BY <1>1, <2>1, <2>3, PromptRow
  <2> QED BY <1>1, <1>3, <1>4, <2>2, <2>4 DEF Reject
<1>5. ASSUME NEW caller \in Callers, NEW a \in ApprovalIds,
             ApproveCommand(caller, a)
      PROVE  ReviewInv'
  BY <1>1, <1>3, <1>5 DEF ApproveCommand, Publish, Take
<1>6. ASSUME NEW caller \in Callers, NEW a \in ApprovalIds,
             ApproveContract(caller, a)
      PROVE  ReviewInv'
  <2>1. disk' = run'
    BY <1>1, <1>6, PromptRow DEF ApproveContract
  <2> QED BY <1>1, <1>3, <1>6, <2>1 DEF ApproveContract, Take
<1>7. ASSUME NEW caller \in Callers, NEW a \in ApprovalIds,
             ApproveCourseChange(caller, a)
      PROVE  ReviewInv'
  <2> DEFINE r == [run EXCEPT !.lifecycle = "running", !.status = "idle",
                              !.paused = FALSE]
  <2>1. r \in Run /\ r.lifecycle = "running"
    BY <1>1 DEF Run, Lifecycles, RECOVERY_LIFECYCLES, Statuses, PassiveStatuses
  <2>2. SendPrompt(r, run)
    BY <1>7 DEF ApproveCourseChange
  <2> HIDE DEF r
  <2>3. disk' = run' \/ (run' = r /\ disk' = run)
    BY <1>1, <2>1, <2>2, PromptRow
  <2> QED BY <1>1, <1>3, <1>7, <2>1, <2>3 DEF ApproveCourseChange
<1>8. CASE Acknowledge
  <2>1. run'.lifecycle = run.lifecycle
    BY <1>1, <1>8 DEF Acknowledge, Remember, Run
  <2>2. RowKept
    BY <1>8, <2>1 DEF Acknowledge, Remember, RowKept, durable
  <2> QED BY <1>8, <2>2, OutsideRollback
          DEF Acknowledge, Release, MainSteps, RollbackSteps, ReviewSteps
<1> QED BY <1>2, <1>4, <1>5, <1>6, <1>7, <1>8 DEF DecisionStep

LEMMA CommandStepReview == ReviewInv /\ IndTypes' /\ CommandStep => ReviewInv'
<1> SUFFICES ASSUME ReviewInv, IndTypes', CommandStep PROVE ReviewInv'
  OBVIOUS
<1>1. /\ run \in Run /\ disk \in Run \union {NoRow}
      /\ run' \in Run /\ disk' \in Run \union {NoRow}
      /\ owner = "none" <=> step = "none"
  BY DEF ReviewInv, LockInv, IndTypes, TypeOK
<1>2. /\ step \in CommandSteps
      /\ \/ step' \in CommandSteps /\ UNCHANGED owner
         \/ Release
  BY DEF CommandStep, BlockCommand, RequestApproval, SelectCommand,
         CreateCheckpoint, CheckpointFails, StartCommand, FinishCommand,
         ReportResults, AwaitModel, Running, Abandon, GoTo, CommandSteps
<1>3. /\ step \notin MainSteps /\ step' \notin MainSteps
      /\ owner' = "none" <=> step' = "none"
  BY <1>1, <1>2 DEF Release, CommandSteps, MainSteps, RollbackSteps, ReviewSteps
<1>4. ASSUME NEW s \in {"blocked", "failed", "reporting"}
      PROVE  /\ [run EXCEPT !.status = s] \in Run
             /\ [run EXCEPT !.status = s].lifecycle = run.lifecycle
  BY <1>1 DEF Run, Statuses, PassiveStatuses, RECOVERY_STATUSES
<1>5. ASSUME NEW s \in {"blocked", "failed"},
             SendPrompt([run EXCEPT !.status = s], [run EXCEPT !.status = s])
      PROVE  RowKept
  <2>1. disk' = run'
    BY <1>4, <1>5, PromptRow
  <2> QED BY <1>1, <2>1 DEF RowKept
<1>6. RowKept
  <2>1. CASE BlockCommand \/ CheckpointFails
    BY <1>5, <2>1 DEF BlockCommand, CheckpointFails, Abandon
  <2>2. CASE \/ RequestApproval \/ CreateCheckpoint \/ StartCommand
             \/ AwaitModel \/ \E passed \in BOOLEAN : FinishCommand(passed)
    BY <1>1, <2>2
    DEF RequestApproval, CreateCheckpoint, StartCommand, AwaitModel,
        FinishCommand, RequestDecision, Publish, RowKept
  <2>3. CASE SelectCommand
    BY <1>1, <2>3 DEF SelectCommand, NoStoreChange, Publish, RowKept
  <2>4. CASE ReportResults
    <3>1. disk' = run' \/ (run' = [run EXCEPT !.status = "reporting"]
                           /\ disk' = disk)
      BY <1>1, <1>4, <2>4, PromptRow DEF ReportResults
    <3> QED BY <1>1, <1>4, <2>4, <3>1 DEF ReportResults, NoStoreChange, RowKept
  <2> QED BY <2>1, <2>2, <2>3, <2>4 DEF CommandStep
<1> QED BY <1>3, <1>6, OutsideRollback

LEMMA CheckpointStepReview ==
  ReviewInv /\ IndTypes' /\ CheckpointStep => ReviewInv'
<1> SUFFICES ASSUME ReviewInv, IndTypes', CheckpointStep PROVE ReviewInv'
  OBVIOUS
<1>1. /\ run \in Run /\ disk \in Run \union {NoRow}
      /\ run' \in Run /\ disk' \in Run \union {NoRow}
      /\ LockFree => step = "none"
  BY DEF ReviewInv, LockInv, LockFree, IndTypes, TypeOK
<1>11. ASSUME NEW c \in CheckpointIds,
              NEW type \in {"checkpoint_accept", "checkpoint_rollback"},
              RequestCheckpoint(type, c) \/ RefuseCheckpoint(type, c)
       PROVE  ReviewInv'
  BY <1>11, OutsideLock DEF RequestCheckpoint, RefuseCheckpoint, durable, Publish
<1>2. CASE \E c \in CheckpointIds : AcceptCheckpoint(c)
  <2>1. RowKept
    BY <1>1, <1>2 DEF AcceptCheckpoint, Publish, RowKept
  <2> QED BY <1>1, <1>2, <2>1, OutsideRollback
          DEF AcceptCheckpoint, Requested, KeepLock, LockFree, MainSteps,
              RollbackSteps, ReviewSteps
\* The steps of a rollback before its last.
<1>3. ASSUME step' \in RollbackSteps, owner' = "main",
             run'.lifecycle = "recovering",
             disk' \in Run, disk'.lifecycle = "recovering"
      PROVE  ReviewInv'
  <2>1. NeedsReview'
    BY <1>3, RowNeedsReview
  <2>2. step' # "none"
    BY <1>3 DEF RollbackSteps
  <2> QED BY <1>3, <2>1, <2>2
          DEF ReviewInv, LockInv, MainSteps, ReviewSurvivesCrash
<1>4. CASE \E c \in CheckpointIds : BeginRollback(c)
  <2>1. step' = "claim" /\ owner' = "main" /\ disk' = run'
    BY <1>4 DEF BeginRollback, Take, Publish
  <2>2. run'.lifecycle = "recovering"
    BY <1>1, <1>4 DEF BeginRollback, Publish, Run
  <2> QED BY <1>1, <1>3, <2>1, <2>2 DEF RollbackSteps
<1>5. ASSUME step \in RollbackSteps, NEW s \in RollbackSteps, GoTo(s),
             \/ UNCHANGED <<run, disk>>
             \/ Publish([run EXCEPT !.ctx = job.ckpt])
      PROVE  ReviewInv'
  <2>1. /\ owner = "main" /\ run.lifecycle = "recovering"
        /\ disk \in Run /\ disk.lifecycle = "recovering"
    BY <1>5 DEF ReviewInv, LockInv, MainSteps
  <2>2. run'.lifecycle = "recovering"
    BY <1>1, <1>5, <2>1 DEF Publish, Run
  <2>3. disk' \in Run /\ disk'.lifecycle = "recovering"
    BY <1>1, <1>5, <2>1, <2>2 DEF Publish
  <2> QED BY <1>3, <1>5, <2>1, <2>2, <2>3 DEF GoTo
<1>6. CASE \/ ClaimCheckpoint \/ PersistRollbackContext \/ BeginRestore
           \/ EndRestore \/ RecordGitReview \/ CompleteRollback
           \/ RestoreRaises \/ FailRollback
  <2>1. step \in RollbackSteps
    BY <1>6 DEF ClaimCheckpoint, PersistRollbackContext, BeginRestore,
                EndRestore, RecordGitReview, CompleteRollback, RestoreRaises,
                FailRollback, RollingBackAt, RollbackSteps
  <2>2. PICK s \in RollbackSteps : GoTo(s)
    BY <1>6 DEF ClaimCheckpoint, PersistRollbackContext, BeginRestore,
                EndRestore, RecordGitReview, CompleteRollback, RestoreRaises,
                FailRollback, RollbackSteps
  <2>3. UNCHANGED <<run, disk>> \/ Publish([run EXCEPT !.ctx = job.ckpt])
    BY <1>6 DEF ClaimCheckpoint, PersistRollbackContext, BeginRestore,
                EndRestore, RecordGitReview, CompleteRollback, RestoreRaises,
                FailRollback
  <2> QED BY <1>5, <2>1, <2>2, <2>3
\* The ways out: the lock is given back.
<1>7. ASSUME Release,
             run'.lifecycle = "recovery_required" =>
               disk' \in Run /\ disk'.lifecycle = "recovery_required"
      PROVE  ReviewInv'
  <2>1. LockInv'
    BY <1>7 DEF Release, LockInv, MainSteps, RollbackSteps, ReviewSteps
  <2>2. run'.lifecycle = "recovery_required" => NeedsReview'
    BY <1>7, RowNeedsReview
  <2> QED BY <1>7, <2>1, <2>2
          DEF ReviewInv, ReviewSurvivesCrash, Release, RollbackSteps
<1>8. CASE FinishRollback
  <2>1. run'.lifecycle = "paused"
    BY <1>1, <1>8 DEF FinishRollback, Publish, Run
  <2> QED BY <1>7, <1>8, <2>1 DEF FinishRollback
<1>9. CASE RequireReview
  <2>1. run'.lifecycle = "recovery_required" /\ disk' = run'
    BY <1>1, <1>9 DEF RequireReview, Publish, Run
  <2> QED BY <1>1, <1>7, <1>9, <2>1 DEF RequireReview
<1>10. CASE RollbackRaises
  <2>1. step \in RollbackSteps
    BY <1>10 DEF RollbackRaises, RollbackSteps
  <2>2. run'.lifecycle = "recovering"
    BY <1>1, <1>10, <2>1 DEF RollbackRaises, Run, ReviewInv, LockInv
  <2> QED BY <1>7, <1>10, <2>2 DEF RollbackRaises
<1> QED BY <1>2, <1>4, <1>6, <1>8, <1>9, <1>10, <1>11 DEF CheckpointStep

LEMMA RecoveryStepReview == ReviewInv /\ IndTypes' /\ RecoveryStep => ReviewInv'
<1> SUFFICES ASSUME ReviewInv, IndTypes', RecoveryStep PROVE ReviewInv'
  OBVIOUS
<1>1. run \in Run /\ run' \in Run /\ disk \in Run \union {NoRow}
  BY DEF ReviewInv, IndTypes, TypeOK
\* A start that asks for a review finds it again should it die at once; one
\* that asks for none does not read recovery_required from the row.
<1>2. CASE Restart
  <2>1. LockInv'
    BY <1>2 DEF Restart, LockInv, MainSteps, RollbackSteps, ReviewSteps
  <2>2. CASE NeedsReview
    BY <1>2, <2>1, <2>2, NeedsReviewKept
    DEF Restart, durable, ReviewInv, ReviewSurvivesCrash
  <2>3. CASE ~NeedsReview
    <3>1. Snapshot \in Run /\ Snapshot.lifecycle \notin RECOVERY_LIFECYCLES
      <4>1. InitRun \in Run
        BY DEF InitRun, Run, Lifecycles, PassiveLifecycles, Statuses,
               PassiveStatuses
      <4>2. StoreContext = NoCheckpoint
        BY <2>3 DEF NeedsReview, RestoredContext
      <4> QED BY <1>1, <2>3, <4>1, <4>2
              DEF Snapshot, NeedsReview, RequiresRecovery
    <3>2. RestoredRun.lifecycle \in {"paused", Snapshot.lifecycle}
      <4>1. OwnBudget \in Run /\ OwnBudget.lifecycle = Snapshot.lifecycle
        BY <3>1 DEF OwnBudget, Fresh, Run
      <4> QED BY <2>3, <4>1 DEF RestoredRun, Run
    <3>3. run'.lifecycle # "recovery_required"
      BY <1>2, <3>1, <3>2 DEF Restart, RECOVERY_LIFECYCLES
    <3> QED BY <1>2, <2>1, <3>3
            DEF Restart, ReviewInv, ReviewSurvivesCrash, RollbackSteps
  <2> QED BY <2>2, <2>3
\* Inside the review nothing is promised until its answer is published.
<1>3. CASE \/ \E decision \in {"prepare", "discard"} : ResolveRecovery(decision)
           \/ ExpireApprovals
  <2>1. step' \in ReviewSteps /\ owner' = "main"
    BY <1>3 DEF ResolveRecovery, ExpireApprovals, Take, GoTo, ReviewSteps,
                ReviewInv, LockInv, MainSteps
  <2> QED BY <2>1 DEF ReviewInv, LockInv, ReviewSurvivesCrash, ReviewSteps,
                      MainSteps, RollbackSteps
<1>4. CASE FinishReview
  <2>1. LockInv'
    BY <1>4 DEF FinishReview, Release, LockInv, MainSteps, RollbackSteps,
                ReviewSteps
  <2>2. Reviewed(run, job.decision).lifecycle \in {"idle", "paused"}
    BY <1>1 DEF Reviewed, Run
  <2> QED BY <1>4, <2>1, <2>2
          DEF FinishReview, Release, Publish, ReviewInv, ReviewSurvivesCrash,
              RollbackSteps
<1>5. ASSUME NEW decision \in {"prepare", "discard"},
             AnswerReview(decision) \/ NothingToReview(decision)
      PROVE  ReviewInv'
  BY <1>5, OutsideLock DEF AnswerReview, NothingToReview, durable, Publish
<1> QED BY <1>2, <1>3, <1>4, <1>5 DEF RecoveryStep

-----------------------------------------------------------------------------
LEMMA InitReview == Init => ReviewInv
<1> SUFFICES ASSUME Init PROVE ReviewInv
  OBVIOUS
<1>1. run.lifecycle = "setup" /\ owner = "none" /\ step = "none"
  BY DEF Init, InitRun
<1> QED BY <1>1, InitType
        DEF ReviewInv, LockInv, ReviewSurvivesCrash, MainSteps, RollbackSteps,
            ReviewSteps

LEMMA NextReview == ReviewInv /\ [Next]_vars => ReviewInv'
<1> SUFFICES ASSUME ReviewInv, [Next]_vars PROVE ReviewInv'
  OBVIOUS
<1>1. IndTypes'
  BY NextType DEF ReviewInv
<1>2. CASE UNCHANGED vars
  BY <1>1, <1>2, OutsideLock DEF vars, KeepLock
<1>3. CASE Next
  BY <1>1, <1>3, MainStepReview, ResponseStepReview, DecisionStepReview,
     CommandStepReview, CheckpointStepReview, RecoveryStepReview DEF Next
<1> QED BY <1>2, <1>3

\* Wherever the host dies between the first crash boundary of a rollback and
\* its last persisted row, or before a review is answered, the next start asks
\* for the review (rollback_checkpoint, _restore_runtime_state).
THEOREM ReviewNeverForgotten == Spec => []ReviewSurvivesCrash
<1>1. ReviewInv => ReviewSurvivesCrash
  BY DEF ReviewInv
<1> QED BY InitReview, NextReview, <1>1, PTL DEF Spec

\* Only the main thread, and only under the lock, ever rolls a workspace back
\* or answers a review; the row on disk says recovering all the while.
THEOREM LockDiscipline == Spec => []LockInv
<1>1. ReviewInv => LockInv
  BY DEF ReviewInv
<1> QED BY InitReview, NextReview, <1>1, PTL DEF Spec

-----------------------------------------------------------------------------
\* Without Telegram, an open review stops everything that waits: the workflow
\* is paused, and no lock holder is left that could act, nor a main thread that
\* waits for anything but to answer the review.  (A Telegram decision does not meet the gate: the run
\* telegram_review.)
InReview == run.lifecycle = "recovery_required"

GateInv ==
  /\ want["telegram"] = Nothing
  /\ step \in MainSteps => want["main"] = Nothing
  /\ InReview => /\ run.paused
                 /\ want["main"].for \in {"nothing", "recovery"}
                 /\ step \in ReviewSteps \union {"none"}

Gate == ReviewInv /\ TurnInv /\ GateInv

\* What a step does to an open review.
ReviewRespected ==
  InReview => /\ run'.lifecycle # "recovery_required" => step \in ReviewSteps
              /\ ws' = ws /\ project'.course = project.course /\ ~TurnSent
              /\ run'.ctx = run.ctx \/ RecoveryStep

LEMMA PromptLifecycle ==
  ASSUME NEW r \in Run, NEW saved \in Run \union {NoRow},
         \/ SendPrompt(r, saved) \/ Dispatch(r, saved)
         \/ PromptRefused(r) \/ PromptDelayed(r)
  PROVE  run'.lifecycle \in {r.lifecycle, "budget_exhausted"}
<1>1. /\ Braked(r).lifecycle = "budget_exhausted"
      /\ [r EXCEPT !.status = "cooldown"].lifecycle = r.lifecycle
      /\ [r EXCEPT !.turns = @ + 1].lifecycle = r.lifecycle
  BY DEF Braked, Run
<1> QED BY <1>1 DEF SendPrompt, Dispatch, PromptRefused, PromptDelayed, Publish

\* A step that finds no review and opens none.
LEMMA NoReviewOpened ==
  ASSUME Gate, ~InReview, ~InReview', want'["telegram"] = Nothing,
         step' \in MainSteps => want'["main"] = Nothing
  PROVE  GateInv' /\ ReviewRespected
BY DEF GateInv, ReviewRespected, InReview

\* A step that leaves a review, open or not, where it is.
LEMMA ReviewUntouched ==
  ASSUME Gate, UNCHANGED <<ws, want>>, KeepLock,
         run'.lifecycle = run.lifecycle, InReview => run'.paused,
         run'.ctx = run.ctx, project'.course = project.course, run'.turns <= run.turns,
         run \in Run, run' \in Run
  PROVE  GateInv' /\ ReviewRespected
<1>1. run.turns \in Nat /\ run'.turns \in Nat
  BY DEF Run
<1>2. ~TurnSent
  BY <1>1 DEF TurnSent
<1> QED BY <1>2 DEF Gate, GateInv, InReview, KeepLock, ReviewRespected

LEMMA MainStepGate ==
  ASSUME Gate, ReviewInv', MainStep
  PROVE  GateInv' /\ ReviewRespected
<1>1. /\ run \in Run /\ run' \in Run /\ disk \in Run \union {NoRow}
      /\ run.turns \in Nat /\ want \in [Callers -> Wants]
  BY DEF Gate, ReviewInv, IndTypes, TypeOK, Run
<1>2. ASSUME Inform \/ TurnAges PROVE GateInv' /\ ReviewRespected
  <2>1. /\ run'.lifecycle = run.lifecycle /\ run'.paused = run.paused
        /\ run'.turns <= run.turns /\ run'.ctx = run.ctx
    BY <1>1, <1>2, OlderRow DEF Inform, TurnAges, Publish
  <2>2. UNCHANGED <<ws, want, project>> /\ KeepLock
    BY <1>2 DEF Inform, TurnAges, OnlyRun, NoPrompt, durable
  <2> QED BY <1>1, <2>1, <2>2, ReviewUntouched DEF Gate, GateInv
<1>3. ASSUME FireTimer PROVE GateInv' /\ ReviewRespected
  <2>1. UNCHANGED <<ws, want, project>> /\ KeepLock
    BY <1>3 DEF FireTimer, OnlyRun, durable
  <2>2. CASE InReview
    <3>1. run' = run
      BY <1>3, <2>2 DEF FireTimer, Dispatch, Gate, GateInv
    <3> QED BY <1>1, <2>1, <3>1, ReviewUntouched DEF Gate, GateInv
  <2>3. CASE ~InReview
    <3>1. ~InReview'
      BY <1>1, <1>3, <2>3, PromptLifecycle DEF FireTimer, InReview
    <3> QED BY <2>1, <2>3, <3>1, NoReviewOpened DEF Gate, GateInv, KeepLock
  <2> QED BY <2>2, <2>3
<1>4. ASSUME DispatchFromMain PROVE GateInv' /\ ReviewRespected
  <2>1. ~InReview
    BY <1>4 DEF DispatchFromMain, Gate, GateInv, ToPrompt
  <2>2. ~InReview'
    BY <1>1, <1>4, <2>1, PromptLifecycle DEF DispatchFromMain, InReview
  <2>3. want'["telegram"] = Nothing /\ want'["main"] = Nothing
    BY <1>1, <1>4 DEF DispatchFromMain, Gate, GateInv, Callers
  <2> QED BY <2>1, <2>2, <2>3, NoReviewOpened
\* Every other message passes the gate, and has the main thread to itself.
<1>5. ASSUME MainIdle, ~InReview, KeepLock, want'["telegram"] = Nothing, ~InReview'
      PROVE  GateInv' /\ ReviewRespected
  <2>1. step' \notin MainSteps
    BY <1>5 DEF MainIdle, KeepLock, Gate, ReviewInv, LockInv
  <2> QED BY <1>5, <2>1, NoReviewOpened
<1>6. ASSUME \/ Pause \/ Resume \/ ResetSession
             \/ (\E ok \in BOOLEAN : ChatSendAck(ok))
             \/ \E foreign \in Foreign :
                  \/ ProviderSafetySignal(foreign)
                  \/ \E w \in Workers, reply \in Replies :
                       AssistantResponse(w, reply, foreign)
      PROVE  GateInv' /\ ReviewRespected
  <2>1. MainIdle /\ ~InReview
    BY <1>6 DEF Pause, Resume, ResetSession, ProviderSafetySignal, ChatSendAck,
                AssistantResponse, Received, InReview
  <2>2. KeepLock /\ want' = want
    BY <1>6 DEF Pause, Resume, ResetSession, ProviderSafetySignal, ChatSendAck,
                AssistantResponse, OnlyRun, NoPrompt
  <2>3. run'.lifecycle \in {run.lifecycle, "paused", "running"}
    <3>1. CASE ResetSession
      <4>1. Fresh(run) \in Run /\ Fresh(run).lifecycle = run.lifecycle
        BY <1>1 DEF Fresh, Run
      <4> QED BY <3>1, <4>1 DEF ResetSession, Publish, Run
    <3> QED
      BY <1>1, <1>6, <3>1
      DEF Pause, Resume, ProviderSafetySignal, ChatSendAck, AssistantResponse,
          Publish, Run
  <2> QED BY <1>5, <2>1, <2>2, <2>3 DEF InReview, Gate, GateInv
<1>7. ASSUME NEW changed \in BOOLEAN
      PROVE  ForProvider(changed) \in Run
               /\ ForProvider(changed).lifecycle = run.lifecycle
  <2>1. Fresh(run) \in Run /\ Fresh(run).lifecycle = run.lifecycle
    BY <1>1 DEF Fresh, Run
  <2>2. /\ [run EXCEPT !.foreign = FALSE] \in Run
        /\ [run EXCEPT !.foreign = FALSE].lifecycle = run.lifecycle
    BY <1>1 DEF Run
  <2> QED BY <1>1, <2>1, <2>2 DEF ForProvider
<1>8. ASSUME NEW changed \in BOOLEAN, EmptyRequest(changed) \/ SetConfig(changed)
      PROVE  GateInv' /\ ReviewRespected
  <2>1. MainIdle /\ ~InReview /\ KeepLock /\ want' = want
    BY <1>8 DEF EmptyRequest, SetConfig, Received, NoPrompt, OnlyRun, InReview
  <2>2. run'.lifecycle = run.lifecycle
    BY <1>7, <1>8 DEF EmptyRequest, SetConfig, Publish
  <2> QED BY <1>5, <2>1, <2>2 DEF InReview, Gate, GateInv
<1>9. ASSUME NEW r \in Run, r.lifecycle # "recovery_required", MainIdle, ~InReview,
             PromptBuilder(r)
      PROVE  GateInv' /\ ReviewRespected
  <2>1. ~InReview'
    BY <1>1, <1>9, PromptLifecycle DEF PromptBuilder, SendFromMain, Publish, InReview
  <2>2. KeepLock /\ want'["telegram"] = Nothing
    BY <1>1, <1>9 DEF PromptBuilder, SendFromMain, Gate, GateInv, Callers
  <2> QED BY <1>5, <1>9, <2>1, <2>2
<1>10. ASSUME NEW changed \in BOOLEAN,
              BuildStartPrompt(changed) \/ BuildControllerPrompt(changed)
                \/ ChangeCourse(changed) \/ FinishProject(changed)
       PROVE  MainIdle /\ ~InReview
  BY <1>10 DEF BuildStartPrompt, BuildControllerPrompt, ChangeCourse, FinishProject,
               Received, InReview
<1>11. ASSUME NEW changed \in BOOLEAN, BuildStartPrompt(changed)
       PROVE  GateInv' /\ ReviewRespected
  <2> DEFINE r == [ForProvider(changed) EXCEPT !.lifecycle = "planning",
                                               !.status = "planning"]
  <2>1. r \in Run /\ r.lifecycle = "planning"
    BY <1>7 DEF Run, Lifecycles, RECOVERY_LIFECYCLES, Statuses, PassiveStatuses
  <2>2. PromptBuilder(r)
    BY <1>11 DEF BuildStartPrompt
  <2> HIDE DEF r
  <2> QED BY <1>9, <1>10, <1>11, <2>1, <2>2
<1>12. ASSUME NEW changed \in BOOLEAN, ChangeCourse(changed)
       PROVE  GateInv' /\ ReviewRespected
  <2> DEFINE r == [ForProvider(changed) EXCEPT !.paused = FALSE,
                     !.lifecycle = "change_review", !.status = "change_review"]
  <2>1. r \in Run /\ r.lifecycle = "change_review"
    BY <1>7 DEF Run, Lifecycles, RECOVERY_LIFECYCLES, Statuses, RECOVERY_STATUSES
  <2>2. PromptBuilder(r)
    BY <1>12 DEF ChangeCourse
  <2> HIDE DEF r
  <2> QED BY <1>9, <1>10, <1>12, <2>1, <2>2
<1>13. ASSUME NEW changed \in BOOLEAN, FinishProject(changed)
       PROVE  GateInv' /\ ReviewRespected
  <2> DEFINE r == [ForProvider(changed) EXCEPT !.paused = FALSE,
                     !.lifecycle = "finishing", !.status = "finishing"]
  <2>1. r \in Run /\ r.lifecycle = "finishing"
    BY <1>7 DEF Run, Lifecycles, RECOVERY_LIFECYCLES, Statuses, RECOVERY_STATUSES
  <2>2. PromptBuilder(r)
    BY <1>13 DEF FinishProject
  <2> HIDE DEF r
  <2> QED BY <1>9, <1>10, <1>13, <2>1, <2>2
<1>14. ASSUME NEW changed \in BOOLEAN, ~InReview
       PROVE  /\ Arming(changed) \in Run
              /\ Arming(changed).lifecycle # "recovery_required"
  <2> DEFINE base == ForProvider(changed)
             rested == IF base.lifecycle \in {"ready_to_arm", "setup"}
                         THEN Fresh(base) ELSE base
             up == [rested EXCEPT !.guard = FALSE, !.paused = FALSE,
                                  !.lifecycle = "running"]
             a == Armed(ForProvider(changed))
  <2>1. rested \in Run
    <3>1. \A q \in Run : Fresh(q) \in Run
      BY DEF Fresh, Run
    <3> QED BY <1>7, <3>1
  <2>2. up \in Run /\ up.lifecycle = "running"
    <3> HIDE DEF rested
    <3> QED BY <2>1 DEF Run, Lifecycles, RECOVERY_LIFECYCLES
  <2>3. a = up \/ a = base
    BY DEF Armed
  <2>4. base \in Run /\ base.lifecycle # "recovery_required"
    BY <1>7, <1>14 DEF InReview
  <2>5. a \in Run /\ a.lifecycle # "recovery_required"
    <3> HIDE DEF a, up, base
    <3> QED BY <2>2, <2>3, <2>4
  <2>6. /\ [a EXCEPT !.status = "arming"] \in Run
        /\ [a EXCEPT !.status = "arming"].lifecycle # "recovery_required"
    <3> HIDE DEF a
    <3> QED BY <2>5 DEF Run, Statuses, RECOVERY_STATUSES
  <2> QED BY <2>6 DEF Arming
<1>15. ASSUME NEW changed \in BOOLEAN, BuildControllerPrompt(changed)
       PROVE  GateInv' /\ ReviewRespected
  BY <1>9, <1>10, <1>14, <1>15 DEF BuildControllerPrompt
<1>16. ASSUME NEW changed \in BOOLEAN, ControllerPromptRaises(changed)
       PROVE  GateInv' /\ ReviewRespected
  <2>1. MainIdle /\ ~InReview /\ KeepLock /\ want' = want
    BY <1>16 DEF ControllerPromptRaises, Received, NoPrompt, InReview
  <2>2. ~InReview'
    BY <1>14, <1>16, <2>1 DEF ControllerPromptRaises, Publish, InReview
  <2> QED BY <1>5, <2>1, <2>2 DEF Gate, GateInv
<1> QED
  BY <1>2, <1>3, <1>4, <1>6, <1>8, <1>11, <1>12, <1>13, <1>15, <1>16 DEF MainStep

LEMMA ResponseStepGate ==
  ASSUME Gate, ReviewInv', ResponseStep
  PROVE  GateInv' /\ ReviewRespected
<1>1. /\ run \in Run /\ run' \in Run /\ disk \in Run \union {NoRow}
      /\ run.turns \in Nat /\ project \in ProjectStates
      /\ Validating(run) \in Run
      /\ LockFree => step = "none"
  <2>1. Validating(run) \in Run
    BY DEF Gate, ReviewInv, IndTypes, TypeOK, Validating, Run, Lifecycles,
           RECOVERY_LIFECYCLES, Statuses, RECOVERY_STATUSES
  <2> QED BY <2>1 DEF Gate, ReviewInv, LockInv, LockFree, IndTypes, TypeOK, Run
\* Outside the lock a worker touches neither the lifecycle nor the budget.
<1>2. CASE \E w \in Workers :
             ReadLifecycle(w) \/ CommitProject(w) \/ CheckProject(w)
  <2>1. UNCHANGED <<ws, want>> /\ KeepLock
    BY <1>2 DEF ReadLifecycle, CommitProject, CheckProject, durable
  <2>2. project'.course = project.course
    BY <1>1, <1>2 DEF ReadLifecycle, CommitProject, CheckProject, CommitFails,
                      Planned, ClosedOut, durable, ProjectStates
  <2>3. LET e == ProjectStateError(run)
        IN /\ e.lifecycle = run.lifecycle /\ e.paused
           /\ e.turns = run.turns /\ e.ctx = run.ctx
    BY <1>1 DEF ProjectStateError, Run
  <2>4. /\ run'.lifecycle = run.lifecycle /\ run'.turns <= run.turns
        /\ run'.ctx = run.ctx
        /\ run'.paused \/ run' = run
    BY <1>1, <1>2, <2>3 DEF ReadLifecycle, CommitProject, CheckProject,
                      CommitFails, Proceed, Publish
  <2>5. InReview => run'.paused
    BY <2>4 DEF Gate, GateInv
  <2> QED BY <1>1, <2>1, <2>2, <2>4, <2>5, ReviewUntouched
<1>3. CASE \E w \in Workers : HoldResponse(w)
  <2>1. run' = run /\ UNCHANGED <<ws, want, project>> /\ KeepLock
    BY <1>3 DEF HoldResponse, Publish, Quietly, NoCommit
  <2> QED BY <1>1, <2>1, ReviewUntouched DEF Gate, GateInv
\* Everything else needs a workflow that is not paused.
<1>4. ASSUME ~InReview, ~InReview', want' = want,
             LockFree, KeepLock \/ step' \in {"download", "command"}
      PROVE  GateInv' /\ ReviewRespected
  <2>1. step' \notin MainSteps
    BY <1>1, <1>4 DEF KeepLock, MainSteps, RollbackSteps, ReviewSteps
  <2> QED BY <1>4, <2>1, NoReviewOpened DEF Gate, GateInv
<1>5. CASE \E w \in Workers :
             \/ PlanResponse(w) \/ ReviewResponse(w)
             \/ DoneResponse(w) \/ StopResponse(w) \/ DecisionResponse(w)
             \/ ResponseFails(w)
  <2>1. LockFree /\ ~run.paused /\ KeepLock /\ want' = want
    BY <1>5 DEF PlanResponse, ReviewResponse, DoneResponse, StopResponse,
                DecisionResponse, ResponseFails, Responding, ReadsContract, Quietly
  <2>2. ~InReview
    BY <2>1 DEF Gate, GateInv
  <2>3. Validating(run).lifecycle # "recovery_required"
    BY <1>1, <2>2 DEF Validating, Run, InReview
  <2>4. \A s \in {"waiting_approval", "error"} :
          [Validating(run) EXCEPT !.status = s].lifecycle = Validating(run).lifecycle
    BY <1>1 DEF Run
  <2>5. ~InReview'
    BY <1>1, <1>5, <2>2, <2>3, <2>4
    DEF PlanResponse, ReviewResponse, DoneResponse, StopResponse,
        DecisionResponse, ResponseFails, RequestDecision, Publish, Run, InReview
  <2> QED BY <1>4, <2>1, <2>2, <2>5
<1>6. ASSUME NEW w \in Workers, ProtocolFailure(w)
      PROVE  GateInv' /\ ReviewRespected
  <2>1. LockFree /\ ~run.paused /\ KeepLock /\ want' = want
    BY <1>6 DEF ProtocolFailure, Responding, ReadsContract, Quietly
  <2>2. ~InReview
    BY <2>1 DEF Gate, GateInv
  <2>3. /\ [run EXCEPT !.status = "recovering"] \in Run
        /\ [run EXCEPT !.status = "recovering"].lifecycle = run.lifecycle
    BY <1>1 DEF Run, Statuses, RECOVERY_STATUSES
  <2>4. ~InReview'
    BY <1>1, <1>6, <2>2, <2>3, PromptLifecycle
    DEF ProtocolFailure, Publish, Run, InReview
  <2> QED BY <1>4, <2>1, <2>2, <2>4
<1>7. ASSUME NEW w \in Workers, RefuseContract(w)
      PROVE  GateInv' /\ ReviewRespected
  <2>1. LockFree /\ ~run.paused /\ KeepLock /\ want' = want
    BY <1>7 DEF RefuseContract, Responding, ReadsContract, Quietly
  <2>2. ~InReview /\ Validating(run).lifecycle # "recovery_required"
    BY <1>1, <2>1 DEF Gate, GateInv, Validating, Run, InReview
  <2>3. ASSUME NEW s \in {"blocked", "failed", "idle"}
        PROVE  /\ [Validating(run) EXCEPT !.status = s] \in Run
               /\ [Validating(run) EXCEPT !.status = s].lifecycle
                    = Validating(run).lifecycle
    BY <1>1 DEF Run, Statuses, PassiveStatuses
  <2>4. run'.lifecycle \in {Validating(run).lifecycle, "budget_exhausted"}
    BY <1>1, <1>7, <2>3, PromptLifecycle DEF RefuseContract, Publish
  <2>5. ~InReview'
    BY <2>2, <2>4 DEF InReview
  <2> QED BY <1>4, <2>1, <2>2, <2>5
<1>8. ASSUME NEW w \in Workers, ExecuteContract(w)
      PROVE  GateInv' /\ ReviewRespected
  <2>1. /\ LockFree /\ ~run.paused /\ want' = want
        /\ step' \in {"download", "command"}
    BY <1>8 DEF ExecuteContract, Responding, ReadsContract, Take
  <2>2. ~InReview /\ Validating(run).lifecycle # "recovery_required"
    BY <1>1, <2>1 DEF Gate, GateInv, Validating, Run, InReview
  <2>3. ~InReview'
    BY <1>8, <2>2 DEF ExecuteContract, Publish, InReview
  <2> QED BY <1>4, <2>1, <2>2, <2>3
<1>9. CASE DownloadArrives \/ DownloadEndsContract \/ DownloadFails
  <2>1. ~InReview /\ want' = want /\ step' \in {"none", "command"}
    BY <1>9 DEF Gate, GateInv, ReviewSteps, DownloadArrives, GoTo,
                DownloadEndsContract, DownloadFails, Release
  <2>2. ASSUME NEW s \in {"idle", "failed"}
        PROVE  /\ [run EXCEPT !.status = s] \in Run
               /\ [run EXCEPT !.status = s].lifecycle = run.lifecycle
    BY <1>1 DEF Run, Statuses, PassiveStatuses
  <2>3. run'.lifecycle \in {run.lifecycle, "budget_exhausted"}
    BY <1>1, <1>9, <2>2, PromptLifecycle
    DEF DownloadArrives, DownloadEndsContract, DownloadFails, Publish
  <2>4. ~InReview' /\ step' \notin MainSteps
    BY <2>1, <2>3 DEF InReview, MainSteps, RollbackSteps, ReviewSteps
  <2> QED BY <2>1, <2>4, NoReviewOpened DEF Gate, GateInv
<1> QED BY <1>2, <1>3, <1>5, <1>6, <1>7, <1>8, <1>9 DEF ResponseStep

LEMMA DecisionStepGate ==
  ASSUME Gate, ReviewInv', ~TelegramEnabled, DecisionStep
  PROVE  GateInv' /\ ReviewRespected
<1>1. /\ run \in Run /\ run' \in Run /\ want \in [Callers -> Wants]
      /\ LockFree => step = "none"
      /\ pending \in [ApprovalIds -> Continuations]
  BY DEF Gate, ReviewInv, LockInv, LockFree, IndTypes, TypeOK
\* A decision is only accepted where no review is open and, the main thread
\* being inside no rollback, no lock of its own.
<1>2. ASSUME NEW a \in ApprovalIds, NEW decision \in {"approve", "reject"},
             DecideInBrowser(a, decision) \/ DecideInTelegram(a, decision)
      PROVE  GateInv' /\ ReviewRespected
  <2>1. ~InReview /\ owner # "main" /\ run' = run /\ KeepLock
        /\ \/ want' = want
           \/ want' = [want EXCEPT !["main"] = Deciding(a, decision)]
    BY <1>2 DEF DecideInBrowser, DecideInTelegram, BrowserDecides, Decide,
                CourseChangeRaises, MayDecide, InReview
  <2>2. want'["telegram"] = Nothing /\ ~InReview'
    BY <1>1, <2>1 DEF Gate, GateInv, Callers, InReview
  <2>3. step' \notin MainSteps
    BY <2>1 DEF Gate, ReviewInv, LockInv, KeepLock
  <2> QED BY <2>1, <2>2, <2>3, NoReviewOpened
\* And it is resolved by the thread that waited, so there is none then.
<1>3. ASSUME NEW caller \in Callers, NEW a \in ApprovalIds,
             NEW decision \in {"approve", "reject"},
             Resolving(caller, a, decision), ~InReview => ~InReview',
             KeepLock \/ step' \in {"command", "acknowledge"}
      PROVE  GateInv' /\ ReviewRespected
  <2>1. want[caller].for = "approval" /\ want[caller] # Nothing
    BY <1>3 DEF Resolving, Deciding, Nothing
  <2>2. caller = "main"
    BY <2>1 DEF Gate, GateInv, Callers
  <2>3. ~InReview /\ ~InReview'
    BY <1>3, <2>1, <2>2 DEF Gate, GateInv
  <2>4. want'["telegram"] = Nothing
    BY <1>1, <1>3 DEF Resolving, Gate, GateInv, Callers
  <2>5. step' \notin MainSteps
    BY <1>1, <1>3 DEF Resolving, KeepLock, MainSteps, RollbackSteps, ReviewSteps
  <2> QED BY <2>3, <2>4, <2>5, NoReviewOpened
<1>4. ASSUME NEW caller \in Callers, NEW a \in ApprovalIds,
             NEW decision \in {"approve", "reject"},
             AlreadyDecided(caller, a, decision)
      PROVE  GateInv' /\ ReviewRespected
  BY <1>3, <1>4 DEF AlreadyDecided, InReview
<1>5. ASSUME NEW caller \in Callers, NEW a \in ApprovalIds, Reject(caller, a)
      PROVE  GateInv' /\ ReviewRespected
  <2> DEFINE r == [run EXCEPT !.status = "idle",
                     !.lifecycle = IF pending[a].kind = "course_change"
                                     THEN "running" ELSE @]
  <2>1. r \in Run
    BY <1>1 DEF Run, Lifecycles, RECOVERY_LIFECYCLES, Statuses, PassiveStatuses
  <2>2. r.lifecycle = run.lifecycle \/ r.lifecycle = "running"
    BY <1>1 DEF Run
  <2>3. SendPrompt(r, run)
    BY <1>5 DEF Reject
  <2> HIDE DEF r
  <2>4. ~InReview => ~InReview'
    BY <1>1, <2>1, <2>2, <2>3, PromptLifecycle DEF InReview
  <2> QED BY <1>3, <1>5, <2>4 DEF Reject
<1>6. ASSUME NEW caller \in Callers, NEW a \in ApprovalIds,
             ApproveCommand(caller, a)
      PROVE  GateInv' /\ ReviewRespected
  BY <1>3, <1>6 DEF ApproveCommand, Publish, Take, InReview
<1>7. ASSUME NEW caller \in Callers, NEW a \in ApprovalIds,
             ApproveContract(caller, a)
      PROVE  GateInv' /\ ReviewRespected
  <2>1. ~InReview => ~InReview'
    BY <1>1, <1>7, PromptLifecycle DEF ApproveContract, InReview
  <2> QED BY <1>3, <1>7, <2>1 DEF ApproveContract, Take
<1>8. ASSUME NEW caller \in Callers, NEW a \in ApprovalIds,
             ApproveCourseChange(caller, a)
      PROVE  GateInv' /\ ReviewRespected
  <2> DEFINE r == [run EXCEPT !.lifecycle = "running", !.status = "idle",
                              !.paused = FALSE]
  <2>1. r \in Run /\ r.lifecycle = "running"
    BY <1>1 DEF Run, Lifecycles, RECOVERY_LIFECYCLES, Statuses, PassiveStatuses
  <2>2. SendPrompt(r, run)
    BY <1>8 DEF ApproveCourseChange
  <2> HIDE DEF r
  <2>3. ~InReview'
    BY <1>1, <2>1, <2>2, PromptLifecycle DEF InReview
  <2> QED BY <1>3, <1>8, <2>3 DEF ApproveCourseChange
<1>9. CASE Acknowledge
  <2>1. ~InReview /\ want' = want /\ step' = "none"
    BY <1>9 DEF Gate, GateInv, ReviewSteps, Acknowledge, Release
  <2>2. ~InReview' /\ step' \notin MainSteps
    BY <1>1, <1>9, <2>1 DEF Acknowledge, Remember, Run, InReview, MainSteps,
                            RollbackSteps, ReviewSteps
  <2> QED BY <2>1, <2>2, NoReviewOpened DEF Gate, GateInv
<1> QED BY <1>2, <1>4, <1>5, <1>6, <1>7, <1>8, <1>9 DEF DecisionStep

LEMMA CommandStepGate ==
  ASSUME Gate, ReviewInv', CommandStep
  PROVE  GateInv' /\ ReviewRespected
<1>1. run \in Run /\ run' \in Run /\ disk \in Run \union {NoRow}
  BY DEF Gate, ReviewInv, IndTypes, TypeOK
<1>2. /\ step \in CommandSteps /\ want' = want
      /\ step' \in CommandSteps \union {"none"}
  BY DEF CommandStep, BlockCommand, RequestApproval, SelectCommand,
         CreateCheckpoint, CheckpointFails, StartCommand, FinishCommand,
         ReportResults, AwaitModel, Running, Abandon, GoTo, CommandSteps, Release
<1>3. ~InReview /\ step' \notin MainSteps
  BY <1>2 DEF Gate, GateInv, CommandSteps, MainSteps, RollbackSteps, ReviewSteps
<1>4. ASSUME NEW s \in Statuses
      PROVE  /\ [run EXCEPT !.status = s] \in Run
             /\ [run EXCEPT !.status = s].lifecycle = run.lifecycle
  BY <1>1 DEF Run
<1>5. {"blocked", "failed", "reporting", "checkpointing", "running",
       "waiting_approval", "waiting_llm"} \subseteq Statuses
  BY DEF Statuses, RECOVERY_STATUSES, PassiveStatuses
<1>6. run'.lifecycle \in {run.lifecycle, "budget_exhausted"}
  <2>1. CASE BlockCommand \/ CheckpointFails \/ ReportResults
    BY <1>1, <1>4, <1>5, <2>1, PromptLifecycle
    DEF BlockCommand, CheckpointFails, ReportResults, Abandon
  <2>2. CASE \/ RequestApproval \/ SelectCommand \/ CreateCheckpoint
             \/ StartCommand \/ AwaitModel
             \/ \E passed \in BOOLEAN : FinishCommand(passed)
    BY <1>4, <1>5, <2>2
    DEF RequestApproval, SelectCommand, CreateCheckpoint, StartCommand,
        AwaitModel, FinishCommand, RequestDecision, Publish
  <2> QED BY <2>1, <2>2 DEF CommandStep
<1> QED BY <1>2, <1>3, <1>6, NoReviewOpened DEF Gate, GateInv, InReview

\* A rollback that fails opens the review, paused, and gives the lock back
\* with no message of the main thread waiting behind it.
LEMMA CheckpointStepGate ==
  ASSUME Gate, ReviewInv', CheckpointStep
  PROVE  GateInv' /\ ReviewRespected
<1>1. /\ run \in Run /\ run' \in Run /\ disk \in Run \union {NoRow}
      /\ want \in [Callers -> Wants]
      /\ LockFree => step = "none"
  BY DEF Gate, ReviewInv, LockInv, LockFree, IndTypes, TypeOK
\* No request is made while a review is open, and none waits then.
<1>7. ASSUME NEW c \in CheckpointIds,
             NEW type \in {"checkpoint_accept", "checkpoint_rollback"},
             Requested(type, c)
      PROVE  /\ ~InReview /\ step \notin MainSteps
             /\ want'["main"] = Nothing /\ want'["telegram"] = Nothing
  <2>1. want["main"].for = type
    BY <1>7 DEF Requested, ForCheckpoint
  <2> QED BY <1>1, <1>7, <2>1
          DEF Requested, Gate, GateInv, Callers, MainSteps, RollbackSteps, ReviewSteps
<1>8. ASSUME NEW c \in CheckpointIds,
             NEW type \in {"checkpoint_accept", "checkpoint_rollback"},
             RequestCheckpoint(type, c)
      PROVE  GateInv' /\ ReviewRespected
  <2>1. ~InReview /\ ~InReview' /\ owner # "main" /\ KeepLock
    BY <1>8 DEF RequestCheckpoint, InReview
  <2>2. want'["telegram"] = Nothing
    BY <1>1, <1>8 DEF RequestCheckpoint, Gate, GateInv, Callers
  <2>3. step' \notin MainSteps
    BY <2>1 DEF Gate, ReviewInv, LockInv, KeepLock
  <2> QED BY <2>1, <2>2, <2>3, NoReviewOpened
<1>2. ASSUME NEW c \in CheckpointIds,
             NEW type \in {"checkpoint_accept", "checkpoint_rollback"},
             \/ RefuseCheckpoint(type, c)
             \/ type = "checkpoint_accept" /\ AcceptCheckpoint(c)
      PROVE  GateInv' /\ ReviewRespected
  <2>1. run' = run /\ Requested(type, c)
    BY <1>2 DEF RefuseCheckpoint, AcceptCheckpoint, Publish
  <2>2. ~InReview /\ ~InReview'
    BY <1>7, <2>1 DEF InReview
  <2> QED BY <1>7, <2>1, <2>2, NoReviewOpened
<1>3. CASE \E c \in CheckpointIds : BeginRollback(c)
  <2>1. /\ ~InReview /\ want'["main"] = Nothing
        /\ want'["telegram"] = Nothing
    BY <1>3, <1>7 DEF BeginRollback
  <2>2. ~InReview'
    BY <1>1, <1>3 DEF BeginRollback, Publish, Run, InReview
  <2> QED BY <2>1, <2>2, NoReviewOpened DEF Gate, GateInv
<1>4. ASSUME step \in RollbackSteps
      PROVE  ~InReview /\ want["main"] = Nothing
  BY <1>4 DEF Gate, GateInv, MainSteps, ReviewInv, LockInv, InReview
<1>5. CASE \/ ClaimCheckpoint \/ PersistRollbackContext \/ BeginRestore
           \/ EndRestore \/ RecordGitReview \/ CompleteRollback
           \/ RestoreRaises \/ FailRollback \/ FinishRollback \/ RollbackRaises
  <2>1. step \in RollbackSteps /\ want' = want
    BY <1>5 DEF ClaimCheckpoint, PersistRollbackContext, BeginRestore,
                EndRestore, RecordGitReview, CompleteRollback, RestoreRaises,
                FailRollback, FinishRollback, RollbackRaises, RollingBackAt,
                RollbackSteps
  <2>2. run'.lifecycle \in {run.lifecycle, "paused"}
    BY <1>1, <1>5 DEF ClaimCheckpoint, PersistRollbackContext, BeginRestore,
                EndRestore, RecordGitReview, CompleteRollback, RestoreRaises,
                FailRollback, FinishRollback, RollbackRaises, Publish, Run
  <2> QED BY <1>4, <2>1, <2>2, NoReviewOpened DEF Gate, GateInv, InReview
<1>6. CASE RequireReview
  <2>1. /\ step \in RollbackSteps /\ want' = want /\ step' = "none"
        /\ UNCHANGED <<project>>
    BY <1>6 DEF RequireReview, RollingBackAt, RollbackSteps, Release
  <2>2. run'.paused
    BY <1>1, <1>6 DEF RequireReview, Publish, Run
  <2> QED BY <1>4, <2>1, <2>2
          DEF Gate, GateInv, ReviewRespected, MainSteps, RollbackSteps, ReviewSteps,
              Nothing
<1> QED BY <1>2, <1>3, <1>5, <1>6, <1>8 DEF CheckpointStep

LEMMA RecoveryStepGate ==
  ASSUME Gate, ReviewInv', RecoveryStep
  PROVE  GateInv' /\ ReviewRespected
<1>1. /\ run \in Run /\ run' \in Run /\ disk \in Run \union {NoRow}
      /\ want \in [Callers -> Wants]
      /\ LockFree => step = "none"
  BY DEF Gate, ReviewInv, LockInv, LockFree, IndTypes, TypeOK
\* A start that opens a review is paused, and nothing waits yet.
<1>2. CASE Restart
  <2>1. /\ UNCHANGED <<disk, ws, project>> /\ run' = RestoredRun
        /\ step' = "none"
        /\ want'["telegram"] = Nothing /\ want'["main"] = Nothing
    BY <1>2 DEF Restart, durable, Callers
  <2>2. ~TurnSent
    <3>1. run'.turns \in Nat /\ run'.turns <= run.turns
      <4> HIDE DEF RestoredRun
      <4> QED BY <2>1, RestoredTurns DEF Gate
    <3> QED BY <1>1, <3>1 DEF TurnSent, Run
  <2>3. Snapshot \in Run
    <3>1. InitRun \in Run
      BY DEF InitRun, Run, Lifecycles, PassiveLifecycles, Statuses,
             PassiveStatuses, NoCheckpoint
    <3>2. CASE disk = NoRow /\ StoreContext # NoCheckpoint
      <4>1. Snapshot = [InitRun EXCEPT !.lifecycle = "recovering",
                          !.status = "recovering", !.paused = TRUE,
                          !.ctx = StoreContext]
        BY <3>2 DEF Snapshot
      <4>2. StoreContext \in CheckpointIds \union {NoCheckpoint}
        BY LatestRollingBackExists DEF Gate, ReviewInv, IndTypes, TypeOK, StoreContext
      <4> QED BY <3>1, <4>1, <4>2 DEF Run, Lifecycles, RECOVERY_LIFECYCLES,
                                  Statuses, RECOVERY_STATUSES
    <3> QED BY <1>1, <3>1, <3>2 DEF Snapshot
  <2>6. /\ OwnBudget \in Run /\ OwnBudget.lifecycle = Snapshot.lifecycle
        /\ OwnBudget.paused = Snapshot.paused
    BY <2>3 DEF OwnBudget, Fresh, Run
  <2>4. run'.lifecycle = "recovery_required" => run'.paused
    BY <2>1, <2>3, <2>6 DEF RestoredRun, NeedsReview, RequiresRecovery,
                      RECOVERY_LIFECYCLES, Run
  <2>5. ASSUME InReview, step \notin ReviewSteps
        PROVE  run'.lifecycle = "recovery_required"
    <3>1. NeedsReview
      BY <2>5 DEF Gate, ReviewInv, ReviewSurvivesCrash, InReview, ReviewSteps
    <3> QED BY <2>1, <2>6, <3>1 DEF RestoredRun, Run
  <2> QED BY <2>1, <2>2, <2>4, <2>5
          DEF GateInv, ReviewRespected, InReview, MainSteps, RollbackSteps,
              ReviewSteps, Nothing
\* The human's answer: the review stays open until it is published.
<1>3. CASE \/ \E decision \in {"prepare", "discard"} : ResolveRecovery(decision)
           \/ ExpireApprovals
  <2>1. /\ run' = run /\ UNCHANGED <<ws, project>>
        /\ step' \in ReviewSteps
        /\ want'["main"] = Nothing /\ want'["telegram"] = Nothing
    BY <1>1, <1>3 DEF ResolveRecovery, ExpireApprovals, Take, GoTo, ReviewSteps,
                      Gate, GateInv, MainSteps, Callers
  <2>2. ~TurnSent
    BY <1>1, <2>1 DEF TurnSent, Run
  <2> QED BY <2>1, <2>2 DEF Gate, GateInv, ReviewRespected, InReview, Nothing
<1>4. CASE FinishReview
  <2>1. Reviewed(run, job.decision).lifecycle \in {"idle", "paused"}
    BY <1>1 DEF Reviewed, Run
  <2>2. Reviewed(run, job.decision).turns = run.turns
    BY <1>1 DEF Reviewed, Run
  <2>3. /\ UNCHANGED <<ws, project, want>> /\ step = "resolved"
        /\ step' = "none" /\ ~InReview' /\ ~TurnSent
    BY <1>1, <1>4, <2>1, <2>2 DEF FinishReview, Release, Publish, durable, Run, InReview, TurnSent
  <2> QED BY <2>3 DEF Gate, GateInv, ReviewRespected, MainSteps, RollbackSteps,
                      ReviewSteps
\* Waiting for the lock with the answer, or with one nobody asked for.
<1>5. ASSUME NEW decision \in {"prepare", "discard"}, AnswerReview(decision)
      PROVE  GateInv' /\ ReviewRespected
  <2>1. /\ owner # "main" /\ run' = run /\ UNCHANGED <<ws, project>> /\ KeepLock
        /\ want' = [want EXCEPT !["main"] = Answering(decision)]
    BY <1>5 DEF AnswerReview, durable
  <2>2. /\ want'["main"].for = "recovery" /\ want'["telegram"] = Nothing
        /\ ~TurnSent
    BY <1>1, <2>1 DEF Answering, Gate, GateInv, Callers, TurnSent, Run
  <2>3. step' \notin MainSteps
    BY <2>1 DEF Gate, ReviewInv, LockInv, KeepLock
  <2> QED BY <2>1, <2>2, <2>3
          DEF Gate, GateInv, ReviewRespected, InReview, KeepLock
<1>6. ASSUME NEW decision \in {"prepare", "discard"}, NothingToReview(decision)
      PROVE  GateInv' /\ ReviewRespected
  <2>1. ~InReview /\ ~InReview' /\ step' \notin MainSteps
    BY <1>1, <1>6 DEF NothingToReview, Publish, InReview, KeepLock, MainSteps,
                      RollbackSteps, ReviewSteps
  <2>2. want'["telegram"] = Nothing
    BY <1>1, <1>6 DEF NothingToReview, Gate, GateInv, Callers
  <2> QED BY <2>1, <2>2, NoReviewOpened
<1> QED BY <1>2, <1>3, <1>4, <1>5, <1>6 DEF RecoveryStep

LEMMA InitGate == Init => Gate
<1> SUFFICES ASSUME Init PROVE Gate
  OBVIOUS
<1>1. /\ run.lifecycle = "setup" /\ step = "none"
      /\ want["telegram"] = Nothing
  BY DEF Init, InitRun, Callers
<1> QED BY <1>1, InitReview, InitTurns DEF Gate, GateInv, InReview, MainSteps,
                                RollbackSteps, ReviewSteps

LEMMA NextGate ==
  ASSUME ~TelegramEnabled, Gate, [Next]_vars
  PROVE  Gate' /\ (ReviewRespected \/ UNCHANGED vars)
<1>1. ReviewInv' /\ TurnInv'
  BY NextReview, NextTurns DEF Gate, ReviewInv
<1>2. CASE UNCHANGED vars
  BY <1>1, <1>2 DEF vars, Gate, GateInv, InReview
<1>3. CASE Next
  BY <1>1, <1>3, MainStepGate, ResponseStepGate, DecisionStepGate,
     CommandStepGate, CheckpointStepGate, RecoveryStepGate DEF Next, Gate
<1> QED BY <1>2, <1>3

\* Without Telegram, only the human's answer closes a review: no message, no
\* late reply, no timer and no crash does (MessageMixin.handle).
THEOREM ReviewAnsweredByHuman ==
  ASSUME ~TelegramEnabled
  PROVE  Spec => ReviewIsExplicit
<1>1. Gate /\ [Next]_vars => Gate'
  BY NextGate
<1>2. Gate /\ [Next]_vars =>
        [run.lifecycle = "recovery_required"
           /\ run'.lifecycle # "recovery_required"
             => step \in {"expire", "resolved"}]_vars
  BY NextGate DEF ReviewRespected, InReview, ReviewSteps
<1> QED BY <1>1, <1>2, InitGate, PTL DEF Spec, ReviewIsExplicit

\* Without Telegram, nothing acts on the project while a review is open: no
\* command, no prompt and no course change that was already under way.
THEOREM NothingActsDuringReview ==
  ASSUME ~TelegramEnabled
  PROVE  Spec => NoActionDuringReview
<1>1. Gate /\ [Next]_vars => Gate'
  BY NextGate
<1>2. Gate /\ [Next]_vars =>
        [run.lifecycle = "recovery_required" =>
           /\ ws' = ws /\ project'.course = project.course /\ ~TurnSent]_vars
  BY NextGate DEF ReviewRespected, InReview
<1> QED BY <1>1, <1>2, InitGate, PTL DEF Spec, NoActionDuringReview
=============================================================================
