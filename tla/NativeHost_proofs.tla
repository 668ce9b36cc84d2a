--------------------------- MODULE NativeHost_proofs ---------------------------
(***************************************************************************)
(* What the TLA+ proof system proves of NativeHost, for every set of       *)
(* workers, messages and replies, and for every bound.                     *)
(***************************************************************************)
EXTENDS NativeHost, NaturalsInduction, WellFoundedInduction, TLAPS

\* The types, and what a thread knows of its own variables at a step: a
\* rollback has its checkpoint, and a command loop a command to run.
IndTypes ==
  /\ TypeOK
  /\ step \in RollbackSteps => job.ckpt \in CheckpointIds
  /\ step \in {"command", "checkpoint", "start", "executing"} => job.left > 0
  /\ \A a \in ApprovalIds :
       pending[a].kind = "command" => pending[a].left > 0

-----------------------------------------------------------------------------
\* An attribute may be assigned any value of its type.
LEMMA RunUpdates ==
  ASSUME NEW r \in Run
  PROVE  /\ \A l \in Lifecycles : [r EXCEPT !.lifecycle = l] \in Run
         /\ \A s \in Statuses : [r EXCEPT !.status = s] \in Run
         /\ \A b \in BOOLEAN : /\ [r EXCEPT !.paused = b] \in Run
                               /\ [r EXCEPT !.guard = b] \in Run
                               /\ [r EXCEPT !.blocked = b] \in Run
                               /\ [r EXCEPT !.foreign = b] \in Run
         /\ \A n \in Nat : [r EXCEPT !.turns = n] \in Run
         /\ \A c \in CheckpointIds \union {NoCheckpoint} :
              [r EXCEPT !.ctx = c] \in Run
BY DEF Run

LEMMA RunFields ==
  ASSUME NEW r \in Run
  PROVE  /\ r.lifecycle \in Lifecycles
         /\ r.status \in Statuses
         /\ r.paused \in BOOLEAN /\ r.guard \in BOOLEAN /\ r.blocked \in BOOLEAN
         /\ r.turns \in Nat /\ r.foreign \in BOOLEAN
         /\ r.ctx \in CheckpointIds \union {NoCheckpoint}
BY DEF Run

\* A prompt keeps the attributes and the persisted row well typed.
LEMMA DispatchType ==
  ASSUME NEW r \in Run, NEW saved \in Run \union {NoRow}, Dispatch(r, saved)
  PROVE  run' \in Run /\ disk' \in Run \union {NoRow}
<1>1. [r EXCEPT !.turns = @ + 1] \in Run
  BY RunUpdates, RunFields
<1>2. Braked(r) \in Run
  BY DEF Braked, Run, Lifecycles, PassiveLifecycles, Statuses, PassiveStatuses
<1> QED BY <1>1, <1>2 DEF Dispatch, Publish

LEMMA PromptType ==
  ASSUME NEW r \in Run, NEW saved \in Run \union {NoRow}, timers \in Nat,
         \/ SendPrompt(r, saved)
         \/ PromptRefused(r)
         \/ PromptDelayed(r)
  PROVE  run' \in Run /\ disk' \in Run \union {NoRow} /\ timers' \in Nat
<1>1. CASE PromptRefused(r)
  <2>1. Braked(r) \in Run
    BY DEF Braked, Run, Lifecycles, PassiveLifecycles, Statuses, PassiveStatuses
  <2> QED BY <1>1, <2>1 DEF PromptRefused, Publish
<1>2. CASE PromptDelayed(r)
  <2>1. [r EXCEPT !.status = "cooldown"] \in Run
    BY RunUpdates DEF Statuses, RECOVERY_STATUSES
  <2> QED BY <1>2, <2>1 DEF PromptDelayed, Publish
<1>3. CASE Dispatch(r, saved) /\ UNCHANGED timers
  BY <1>3, DispatchType
<1> QED BY <1>1, <1>2, <1>3 DEF SendPrompt

\* A decision that is asked for is remembered well typed.
LEMMA RequestType ==
  ASSUME IndTypes, NEW r \in Run, NEW k \in Continuations,
         k.kind = "command" => k.left > 0,
         RequestDecision(r, k)
  PROVE  /\ run' \in Run /\ disk' \in Run
         /\ approvals' \in [ApprovalIds -> {"absent", "pending", "approve",
                                            "reject", "expired"}]
         /\ pending' \in [ApprovalIds -> Continuations]
         /\ \A a \in ApprovalIds :
              pending'[a].kind = "command" => pending'[a].left > 0
<1>1. [r EXCEPT !.status = "waiting_approval"] \in Run
  BY RunUpdates DEF Statuses, RECOVERY_STATUSES
<1>2. PICK a \in ApprovalIds :
        /\ approvals' = [approvals EXCEPT ![a] = "pending"]
        /\ pending' = [pending EXCEPT ![a] = k]
        /\ Publish([r EXCEPT !.status = "waiting_approval"])
  BY DEF RequestDecision
<1> QED BY <1>1, <1>2 DEF IndTypes, TypeOK, Publish

\* The thread that gives the lock back leaves no local variables behind.
LEMMA ReleaseType ==
  ASSUME TypeOK, Release
  PROVE  /\ owner' \in Threads \union {"none"} /\ step' = "none"
         /\ job' \in Jobs
         /\ worker' \in [Workers -> WorkerStates]
<1>1. NoJob \in Jobs
  BY HostAssumption DEF NoJob, Jobs, Risks, NoCheckpoint
<1>2. worker' \in [Workers -> WorkerStates]
  BY DEF TypeOK, Release, WorkerStates
<1> QED BY <1>1, <1>2 DEF Release

-----------------------------------------------------------------------------
LEMMA MainStepType == IndTypes /\ MainStep => IndTypes'
<1> SUFFICES ASSUME IndTypes, MainStep PROVE IndTypes'
  OBVIOUS
<1> USE DEF IndTypes, TypeOK
<1>1. ASSUME Inform PROVE IndTypes'
  BY <1>1 DEF Inform, Publish, NoPrompt, OnlyRun, durable, KeepLock
<1>2. ASSUME Pause PROVE IndTypes'
  <2>1. run' \in Run /\ disk' \in Run
    BY <1>2 DEF Pause, Publish, Run, Lifecycles, PassiveLifecycles, Statuses,
                PassiveStatuses
  <2> QED BY <1>2, <2>1 DEF Pause, NoPrompt, OnlyRun, durable, KeepLock
<1>3. ASSUME Resume PROVE IndTypes'
  <2>1. run' \in Run /\ disk' \in Run
    BY <1>3 DEF Resume, Publish, Run, Lifecycles, RECOVERY_LIFECYCLES,
                Statuses, PassiveStatuses
  <2> QED BY <1>3, <2>1 DEF Resume, NoPrompt, OnlyRun, durable, KeepLock
<1>4. ASSUME ResetSession PROVE IndTypes'
  <2>1. run' \in Run /\ disk' \in Run
    BY <1>4 DEF ResetSession, Fresh, Publish, Run, Lifecycles,
                RECOVERY_LIFECYCLES, Statuses, PassiveStatuses
  <2> QED BY <1>4, <2>1 DEF ResetSession, NoPrompt, OnlyRun, durable, KeepLock
<1>5. ASSUME NEW foreign \in Foreign, ProviderSafetySignal(foreign)
      PROVE  IndTypes'
  <2>1. foreign \in BOOLEAN
    BY DEF Foreign
  <2>2. run' \in Run /\ disk' \in Run
    BY <1>5, <2>1 DEF ProviderSafetySignal, Publish, Run, Lifecycles,
                      PassiveLifecycles, Statuses, PassiveStatuses
  <2> QED BY <1>5, <2>2 DEF ProviderSafetySignal, NoPrompt, OnlyRun, durable,
                            KeepLock
<1>6. ASSUME NEW changed \in BOOLEAN PROVE ForProvider(changed) \in Run
  BY DEF ForProvider, Fresh, Run
<1>7. ASSUME NEW r \in Run, PromptBuilder(r) PROVE IndTypes'
  <2>1. run' \in Run /\ disk' \in Run \union {NoRow} /\ timers' \in Nat
    BY <1>7, PromptType DEF PromptBuilder, SendFromMain, Publish
  <2>2. want' \in [Callers -> Wants]
    BY <1>7 DEF PromptBuilder, SendFromMain, Wants, ToPrompt
  <2> QED BY <1>7, <2>1, <2>2 DEF PromptBuilder, durable, KeepLock
<1>8. ASSUME NEW changed \in BOOLEAN, EmptyRequest(changed) PROVE IndTypes'
  BY <1>6, <1>8 DEF EmptyRequest, Publish, NoPrompt, durable, KeepLock
<1>9. ASSUME NEW changed \in BOOLEAN, BuildStartPrompt(changed) PROVE IndTypes'
  <2>1. [ForProvider(changed) EXCEPT !.lifecycle = "planning",
                                     !.status = "planning"] \in Run
    BY <1>6 DEF Run, Lifecycles, RECOVERY_LIFECYCLES, Statuses, PassiveStatuses
  <2> QED BY <1>7, <1>9, <2>1 DEF BuildStartPrompt
<1>10. ASSUME NEW changed \in BOOLEAN PROVE Arming(changed) \in Run
  <2>1. Armed(ForProvider(changed)) \in Run
    <3>1. \A r \in Run : Fresh(r) \in Run
      BY DEF Fresh, Run
    <3>2. \A r \in Run : [r EXCEPT !.guard = FALSE, !.paused = FALSE,
                                   !.lifecycle = "running"] \in Run
      BY DEF Run, Lifecycles, RECOVERY_LIFECYCLES
    <3> QED BY <1>6, <3>1, <3>2 DEF Armed
  <2> QED BY <2>1, RunUpdates DEF Arming, Statuses, RECOVERY_STATUSES
<1>11. ASSUME NEW changed \in BOOLEAN, ChangeCourse(changed) PROVE IndTypes'
  <2>1. [ForProvider(changed) EXCEPT !.paused = FALSE,
           !.lifecycle = "change_review", !.status = "change_review"] \in Run
    BY <1>6 DEF Run, Lifecycles, RECOVERY_LIFECYCLES, Statuses,
                RECOVERY_STATUSES
  <2> QED BY <1>7, <1>11, <2>1 DEF ChangeCourse
<1>12. ASSUME NEW changed \in BOOLEAN, FinishProject(changed) PROVE IndTypes'
  <2>1. [ForProvider(changed) EXCEPT !.paused = FALSE,
           !.lifecycle = "finishing", !.status = "finishing"] \in Run
    BY <1>6 DEF Run, Lifecycles, RECOVERY_LIFECYCLES, Statuses,
                RECOVERY_STATUSES
  <2> QED BY <1>7, <1>12, <2>1 DEF FinishProject
<1>13. ASSUME NEW w \in Workers, NEW reply \in Replies, NEW foreign \in Foreign,
              AssistantResponse(w, reply, foreign)
       PROVE  IndTypes'
  <2>1. worker' \in [Workers -> WorkerStates]
    BY <1>13, HostAssumption
       DEF AssistantResponse, WorkerStates, Lifecycles, PassiveLifecycles
  <2>2. [run EXCEPT !.foreign = foreign] \in Run
    BY RunUpdates DEF Foreign
  <2> QED BY <1>13, <2>1, <2>2
          DEF AssistantResponse, Publish, NoPrompt, durable, KeepLock
<1>14. ASSUME NEW ok \in BOOLEAN, ChatSendAck(ok) PROVE IndTypes'
  <2>1. run' \in Run /\ disk' \in Run
    BY <1>14 DEF ChatSendAck, Publish, Run, Statuses, RECOVERY_STATUSES,
                 PassiveStatuses
  <2> QED BY <1>14, <2>1 DEF ChatSendAck, NoPrompt, OnlyRun, durable, KeepLock
<1>15. ASSUME DispatchFromMain PROVE IndTypes'
  <2>1. want' \in [Callers -> Wants]
    BY <1>15 DEF DispatchFromMain, Wants, Nothing
  <2> QED BY <1>15, <2>1, DispatchType
          DEF DispatchFromMain, OnlyRun, durable, KeepLock
<1>16. ASSUME FireTimer PROVE IndTypes'
  BY <1>16, DispatchType DEF FireTimer, OnlyRun, durable, KeepLock
<1>17. ASSUME TurnAges PROVE IndTypes'
  <2>1. ASSUME NEW r \in Run PROVE OneOlder(r) \in Run
    <3>1. r.turns \in Nat /\ (r.turns > 0 => r.turns - 1 \in Nat)
      BY RunFields
    <3>2. (IF r.turns > 0 THEN r.turns - 1 ELSE 0) \in Nat
      BY <3>1
    <3> QED BY <3>2, RunUpdates DEF OneOlder
  <2> QED BY <1>17, <2>1 DEF TurnAges, NoPrompt, OnlyRun, durable, KeepLock
<1>18. ASSUME NEW changed \in BOOLEAN, BuildControllerPrompt(changed)
       PROVE  IndTypes'
  BY <1>7, <1>10, <1>18 DEF BuildControllerPrompt
<1>19. ASSUME NEW changed \in BOOLEAN,
              SetConfig(changed) \/ ControllerPromptRaises(changed)
       PROVE  IndTypes'
  BY <1>6, <1>10, <1>19
  DEF SetConfig, ControllerPromptRaises, Publish, NoPrompt, OnlyRun, durable, KeepLock
<1> QED BY <1>1, <1>2, <1>3, <1>4, <1>5, <1>8, <1>9, <1>11, <1>12, <1>13, <1>14,
           <1>15, <1>16, <1>17, <1>18, <1>19 DEF MainStep

-----------------------------------------------------------------------------
LEMMA ResponseStepType == IndTypes /\ ResponseStep => IndTypes'
<1> SUFFICES ASSUME IndTypes, ResponseStep PROVE IndTypes'
  OBVIOUS
<1> USE DEF IndTypes, TypeOK
\* A reply dealt with under the lock, within one step.
<1>1. ASSUME NEW w \in Workers, Quietly(w),
             run' \in Run, disk' \in Run \union {NoRow}, recoveries' \in 0 .. 2,
             \/ UNCHANGED <<approvals, pending>>
             \/ \E k \in Continuations :
                  RequestDecision(run, k) /\ (k.kind = "command" => k.left > 0)
             \/ \E k \in Continuations :
                  /\ RequestDecision(Validating(run), k)
                  /\ k.kind = "command" => k.left > 0,
             timers' \in Nat
      PROVE  IndTypes'
  <2>1. worker' \in [Workers -> WorkerStates]
    BY <1>1 DEF Quietly, Advance, WorkerStates
  <2>2. Validating(run) \in Run
    BY DEF Validating, Run, Lifecycles, RECOVERY_LIFECYCLES, Statuses,
           RECOVERY_STATUSES
  <2>3. /\ approvals' \in [ApprovalIds -> {"absent", "pending", "approve",
                                           "reject", "expired"}]
        /\ pending' \in [ApprovalIds -> Continuations]
        /\ \A a \in ApprovalIds :
             pending'[a].kind = "command" => pending'[a].left > 0
    BY <1>1, <2>2, RequestType
  <2> QED BY <1>1, <2>1, <2>3 DEF Quietly, NoCommit, KeepLock
<1>2. [NoPending EXCEPT !.kind = "course_change"] \in Continuations
      /\ [NoPending EXCEPT !.kind = "contract"] \in Continuations
  BY HostAssumption DEF NoPending, Continuations, Risks
<1>3. Validating(run) \in Run
  BY DEF Validating, Run, Lifecycles, RECOVERY_LIFECYCLES, Statuses,
         RECOVERY_STATUSES
<1>4. ProjectStateError(run) \in Run
  BY DEF ProjectStateError, Run, Statuses, PassiveStatuses
<1>5. ASSUME NEW w \in Workers PROVE IdleWorker \in WorkerStates
  BY DEF IdleWorker, WorkerStates, ReplyKinds, Lifecycles, PassiveLifecycles
<1>6. ASSUME NEW w \in Workers, ReadLifecycle(w) PROVE IndTypes'
  <2>1. worker' \in [Workers -> WorkerStates]
    BY <1>6, RunFields DEF ReadLifecycle, WorkerStates
  <2> QED BY <1>6, <2>1 DEF ReadLifecycle, durable, KeepLock
<1>7. ASSUME NEW w \in Workers, CommitProject(w) PROVE IndTypes'
  <2>1. worker' \in [Workers -> WorkerStates]
    BY <1>5, <1>7 DEF CommitProject, Proceed, CommitFails, Advance, WorkerStates
  <2>2. run' \in Run /\ disk' \in Run \union {NoRow}
    BY <1>4, <1>7 DEF CommitProject, Proceed, CommitFails, Publish
  <2>3. project' \in ProjectStates
    BY <1>7 DEF CommitProject, CommitFails, Planned, ClosedOut, ProjectStates
  <2> QED BY <1>7, <2>1, <2>2, <2>3 DEF CommitProject, KeepLock
<1>8. ASSUME NEW w \in Workers, HoldResponse(w) PROVE IndTypes'
  BY <1>1, <1>8 DEF HoldResponse, Publish
<1>9. ASSUME NEW w \in Workers, PlanResponse(w) PROVE IndTypes'
  <2>1. run' \in Run /\ disk' \in Run
    BY <1>9 DEF PlanResponse, Publish, Run, Lifecycles, PassiveLifecycles,
                Statuses, PassiveStatuses
  <2> QED BY <1>1, <1>9, <2>1 DEF PlanResponse
<1>10. ASSUME NEW w \in Workers, ReviewResponse(w) PROVE IndTypes'
  <2>1. CASE RequestDecision(run, [NoPending EXCEPT !.kind = "course_change"])
    <3>1. run' \in Run /\ disk' \in Run
      BY <1>2, <2>1, RequestType DEF NoPending
    <3> QED BY <1>1, <1>2, <1>10, <2>1, <3>1 DEF ReviewResponse, NoPending
  <2>2. CASE Publish(run) /\ UNCHANGED <<approvals, pending>>
    BY <1>1, <1>10, <2>2 DEF ReviewResponse, Publish
  <2> QED BY <1>10, <2>1, <2>2 DEF ReviewResponse
<1>11. ASSUME NEW w \in Workers, DoneResponse(w) PROVE IndTypes'
  <2>1. run' \in Run /\ disk' \in Run
    BY <1>11 DEF DoneResponse, Publish, Run, Lifecycles, PassiveLifecycles,
                 Statuses, PassiveStatuses
  <2> QED BY <1>1, <1>11, <2>1 DEF DoneResponse
<1>12. ASSUME NEW w \in Workers, StopResponse(w) PROVE IndTypes'
  <2>1. run' \in Run /\ disk' \in Run
    BY <1>12 DEF StopResponse, Publish, Run, Lifecycles, PassiveLifecycles,
                 Statuses, PassiveStatuses
  <2> QED BY <1>1, <1>12, <2>1 DEF StopResponse
<1>13. ASSUME NEW w \in Workers, ProtocolFailure(w) PROVE IndTypes'
  <2>1. [run EXCEPT !.status = "recovering"] \in Run
    BY RunUpdates DEF Statuses, RECOVERY_STATUSES
  <2>2. [run EXCEPT !.lifecycle = "protocol_blocked",
                    !.status = "protocol_blocked", !.paused = TRUE] \in Run
    BY DEF Run, Lifecycles, PassiveLifecycles, Statuses, PassiveStatuses
  <2>3. run' \in Run /\ disk' \in Run \union {NoRow} /\ timers' \in Nat
        /\ recoveries' \in 0 .. 2
    BY <1>13, <2>1, <2>2, PromptType DEF ProtocolFailure, Publish
  <2> QED BY <1>1, <1>13, <2>3 DEF ProtocolFailure
<1>14. ASSUME NEW w \in Workers, DecisionResponse(w) PROVE IndTypes'
  <2>1. run' \in Run /\ disk' \in Run
    BY <1>2, <1>3, <1>14, RequestType DEF DecisionResponse, NoPending
  <2> QED BY <1>1, <1>2, <1>14, <2>1 DEF DecisionResponse, NoPending
<1>15. ASSUME NEW w \in Workers, RefuseContract(w) PROVE IndTypes'
  <2>1. ASSUME NEW s \in {"blocked", "failed", "idle"}
        PROVE  [Validating(run) EXCEPT !.status = s] \in Run
    BY <1>3, RunUpdates DEF Statuses, PassiveStatuses
  <2>2. run' \in Run /\ disk' \in Run \union {NoRow} /\ timers' \in Nat
    BY <1>3, <1>15, <2>1, PromptType DEF RefuseContract, Publish
  <2> QED BY <1>1, <1>15, <2>2 DEF RefuseContract
<1>16. ASSUME NEW w \in Workers, ExecuteContract(w) PROVE IndTypes'
  <2>1. PICK n \in 0 .. MaxCommands, s \in {"download", "command"} :
          /\ s = "command" => n > 0
          /\ Take(w, s, [NoJob EXCEPT !.left = n])
    BY <1>16 DEF ExecuteContract
  <2>2. [NoJob EXCEPT !.left = n] \in Jobs
    BY HostAssumption DEF NoJob, Jobs, Risks, NoCheckpoint
  <2>3. /\ owner' \in Threads \union {"none"} /\ step' \in Steps /\ job' \in Jobs
        /\ step' \notin RollbackSteps
        /\ step' = "command" => job'.left > 0
        /\ step' \in {"download", "command"}
    BY <2>1, <2>2
       DEF Take, Threads, Steps, CommandSteps, RollbackSteps, NoJob
  <2> QED BY <1>3, <1>16, <2>3 DEF ExecuteContract, Publish, durable
<1>17. ASSUME DownloadArrives PROVE IndTypes'
  BY <1>17 DEF DownloadArrives, Publish, GoTo, durable, Steps, CommandSteps,
               RollbackSteps
<1>18. ASSUME NEW s \in {"idle", "failed"}, NEW saved \in Run \union {NoRow},
              SendPrompt([run EXCEPT !.status = s], saved), Release,
              UNCHANGED <<recoveries, durable, pending, want>>
       PROVE  IndTypes'
  <2>1. [run EXCEPT !.status = s] \in Run
    BY RunUpdates DEF Statuses, PassiveStatuses
  <2> QED BY <1>18, <2>1, PromptType, ReleaseType
          DEF durable, Steps, RollbackSteps
<1>19. ASSUME DownloadEndsContract PROVE IndTypes'
  BY <1>18, <1>19 DEF DownloadEndsContract
<1>20. ASSUME DownloadFails PROVE IndTypes'
  <2>1. [run EXCEPT !.status = "failed"] \in Run
    BY RunUpdates DEF Statuses, PassiveStatuses
  <2> QED BY <1>18, <1>20, <2>1 DEF DownloadFails
<1>21. ASSUME NEW w \in Workers, CheckProject(w) PROVE IndTypes'
  <2>1. worker' \in [Workers -> WorkerStates]
    BY <1>5, <1>21 DEF CheckProject
  <2>2. run' \in Run /\ disk' \in Run \union {NoRow}
    BY <1>4, <1>21 DEF CheckProject, Publish
  <2> QED BY <1>21, <2>1, <2>2 DEF CheckProject, durable, KeepLock
<1>22. ASSUME NEW w \in Workers, ResponseFails(w) PROVE IndTypes'
  <2>1. ASSUME NEW r \in Run PROVE [r EXCEPT !.status = "error"] \in Run
    BY RunUpdates DEF Statuses, PassiveStatuses
  <2> QED BY <1>1, <1>3, <1>22, <2>1 DEF ResponseFails, Publish
<1> QED BY <1>6, <1>7, <1>8, <1>9, <1>10, <1>11, <1>12, <1>13, <1>14, <1>15,
           <1>16, <1>17, <1>19, <1>20, <1>21, <1>22 DEF ResponseStep

-----------------------------------------------------------------------------
LEMMA DecisionStepType == IndTypes /\ DecisionStep => IndTypes'
<1> SUFFICES ASSUME IndTypes, DecisionStep PROVE IndTypes'
  OBVIOUS
<1> USE DEF IndTypes, TypeOK
<1>1. ASSUME NEW caller \in Callers, NEW a \in ApprovalIds,
             NEW decision \in {"approve", "reject"}, Decide(caller, a, decision)
      PROVE  IndTypes'
  <2>1. want' \in [Callers -> Wants]
    BY <1>1 DEF Decide, Deciding, Wants
  <2>2. a \in 0 .. MaxApprovals
    BY HostAssumption DEF ApprovalIds
  <2>3. project' \in ProjectStates
    BY <1>1, <2>2 DEF Decide, ApplyCourseChange, ProjectStates
  <2> QED BY <1>1, <2>1, <2>3 DEF Decide, KeepLock
<1>2. ASSUME NEW caller \in Callers, NEW a \in ApprovalIds,
             NEW decision \in {"approve", "reject"},
             Resolving(caller, a, decision)
      PROVE  want' \in [Callers -> Wants]
  BY <1>2 DEF Resolving, Nothing, Wants
<1>3. ASSUME NEW a \in ApprovalIds, NEW decision \in {"approve", "reject"},
             Pop(a, decision)
      PROVE  /\ approvals' \in [ApprovalIds -> {"absent", "pending", "approve",
                                                "reject", "expired"}]
             /\ pending' \in [ApprovalIds -> Continuations]
             /\ \A b \in ApprovalIds :
                  pending'[b].kind = "command" => pending'[b].left > 0
  <2>1. NoPending \in Continuations /\ NoPending.kind # "command"
    BY HostAssumption DEF NoPending, Continuations, Risks
  <2> QED BY <1>3, <2>1 DEF Pop
<1>4. ASSUME NEW caller \in Callers, NEW a \in ApprovalIds,
             NEW decision \in {"approve", "reject"},
             AlreadyDecided(caller, a, decision)
      PROVE  IndTypes'
  BY <1>2, <1>4 DEF AlreadyDecided, Resolving, KeepLock
<1>5. ASSUME NEW caller \in Callers, NEW a \in ApprovalIds,
             NEW decision \in {"approve", "reject"},
             Resolving(caller, a, decision), Pop(a, decision),
             NEW r \in Run, SendPrompt(r, run),
             \/ KeepLock
             \/ Take(caller, "acknowledge", NoJob)
      PROVE  IndTypes'
  <2>1. NoJob \in Jobs
    BY HostAssumption DEF NoJob, Jobs, Risks, NoCheckpoint
  <2>2. /\ owner' \in Threads \union {"none"} /\ step' \in Steps
        /\ job' \in Jobs
        /\ step' \in RollbackSteps => job'.ckpt \in CheckpointIds
        /\ step' \in {"command", "checkpoint", "start", "executing"}
             => job'.left > 0
    BY <1>5, <2>1 DEF KeepLock, Take, Threads, Steps, RollbackSteps
  <2> QED BY <1>2, <1>3, <1>5, <2>2, PromptType DEF Resolving
<1>6. ASSUME NEW caller \in Callers, NEW a \in ApprovalIds, Reject(caller, a)
      PROVE  IndTypes'
  <2>1. [run EXCEPT !.status = "idle",
           !.lifecycle = IF pending[a].kind = "course_change"
                           THEN "running" ELSE @] \in Run
    BY DEF Run, Lifecycles, RECOVERY_LIFECYCLES, Statuses, PassiveStatuses
  <2> QED BY <1>5, <1>6, <2>1 DEF Reject
<1>7. ASSUME NEW caller \in Callers, NEW a \in ApprovalIds,
             ApproveContract(caller, a)
      PROVE  IndTypes'
  BY <1>5, <1>7 DEF ApproveContract
<1>8. ASSUME NEW caller \in Callers, NEW a \in ApprovalIds,
             ApproveCourseChange(caller, a)
      PROVE  IndTypes'
  <2>1. [run EXCEPT !.lifecycle = "running", !.status = "idle",
                    !.paused = FALSE] \in Run
    BY DEF Run, Lifecycles, RECOVERY_LIFECYCLES, Statuses, PassiveStatuses
  <2> QED BY <1>5, <1>8, <2>1 DEF ApproveCourseChange
<1>9. ASSUME NEW caller \in Callers, NEW a \in ApprovalIds,
             ApproveCommand(caller, a)
      PROVE  IndTypes'
  <2>1. a \in 0 .. MaxApprovals /\ 0 \in 0 .. MaxCommands
    BY HostAssumption DEF ApprovalIds
  <2>2. pending[a].left \in 0 .. MaxCommands /\ pending[a].risk \in Risks
    BY DEF Continuations
  <2>3. [NoJob EXCEPT !.left = pending[a].left, !.risk = pending[a].risk,
                      !.approval = a] \in Jobs
    BY <2>1, <2>2 DEF NoJob, Jobs, Risks, NoCheckpoint
  <2>4. /\ owner' \in Threads \union {"none"} /\ step' = "command"
        /\ job' \in Jobs /\ job'.left > 0
    BY <1>9, <2>3 DEF ApproveCommand, Take, Threads, NoJob
  <2> QED BY <1>2, <1>3, <1>9, <2>4
          DEF ApproveCommand, Publish, Resolving, Steps, CommandSteps,
              RollbackSteps
<1>10. ASSUME Acknowledge PROVE IndTypes'
  <2>1. [run EXCEPT !.status = "idle"] \in Run
    BY RunUpdates DEF Statuses, PassiveStatuses
  <2> QED BY <1>10, <2>1, ReleaseType
          DEF Acknowledge, Remember, durable, Steps, RollbackSteps
<1>11. ASSUME NEW caller \in Callers, NEW a \in ApprovalIds,
              CourseChangeRaises(caller, a)
       PROVE  IndTypes'
  <2>1. a \in 0 .. MaxApprovals
    BY HostAssumption DEF ApprovalIds
  <2>2. project' \in ProjectStates
    BY <1>11, <2>1 DEF CourseChangeRaises, ApplyCourseChange, ProjectStates
  <2> QED BY <1>11, <2>2 DEF CourseChangeRaises, KeepLock
<1> QED
  BY <1>1, <1>4, <1>6, <1>7, <1>8, <1>9, <1>10, <1>11
  DEF DecisionStep, DecideInBrowser, DecideInTelegram, Callers

-----------------------------------------------------------------------------
LEMMA CommandStepType == IndTypes /\ CommandStep => IndTypes'
<1> SUFFICES ASSUME IndTypes, CommandStep PROVE IndTypes'
  OBVIOUS
<1> USE DEF IndTypes, TypeOK
<1>1. ASSUME NEW s \in {"command", "checkpoint"}, Running(s),
             NEW t \in {"blocked", "failed"},
             Abandon([run EXCEPT !.status = t]), NoStoreChange
      PROVE  IndTypes'
  <2>1. [run EXCEPT !.status = t] \in Run
    BY RunUpdates DEF Statuses, PassiveStatuses
  <2> QED BY <1>1, <2>1, PromptType, ReleaseType
          DEF Abandon, Running, NoStoreChange, Steps, RollbackSteps
<1>2. ASSUME BlockCommand PROVE IndTypes'
  BY <1>1, <1>2 DEF BlockCommand
<1>3. ASSUME RequestApproval PROVE IndTypes'
  <2>1. PICK risk \in Risks :
          RequestDecision(run, [kind |-> "command", left |-> job.left,
                                risk |-> risk])
    BY <1>3 DEF RequestApproval
  <2>2. [kind |-> "command", left |-> job.left, risk |-> risk] \in Continuations
        /\ job.left > 0
    BY <1>3 DEF Continuations, Jobs, RequestApproval, Running
  <2> QED BY <1>3, <2>1, <2>2, RequestType, ReleaseType
          DEF RequestApproval, Running, Steps, RollbackSteps
<1>4. ASSUME SelectCommand PROVE IndTypes'
  <2>1. job' \in Jobs /\ job'.left > 0
    BY <1>4 DEF SelectCommand, Jobs, Risks, Running
  <2>2. step' \in {"checkpoint", "start"}
    BY <1>4 DEF SelectCommand
  <2>3. run' \in Run /\ disk' \in Run \union {NoRow}
    <3>1. [run EXCEPT !.status = "checkpointing"] \in Run
      BY RunUpdates DEF Statuses, PassiveStatuses
    <3> QED BY <1>4, <3>1 DEF SelectCommand, Publish
  <2> QED BY <1>4, <2>1, <2>2, <2>3
          DEF SelectCommand, Running, NoStoreChange, Steps, CommandSteps,
              RollbackSteps
<1>5. ASSUME CreateCheckpoint PROVE IndTypes'
  <2>1. PICK c \in CheckpointIds :
          /\ ckpt' = PutCheckpoint(ckpt, c, "ready")
          /\ image' = [image EXCEPT ![c] = ws]
          /\ job' = [job EXCEPT !.ckpt = c]
    BY <1>5 DEF CreateCheckpoint
  <2>2. ckpt' \in CheckpointTables
    BY <2>1 DEF CheckpointTables, PutCheckpoint, CHECKPOINT_STATUSES
  <2>3. job' \in Jobs /\ job'.left > 0
    BY <1>5, <2>1 DEF Jobs, CreateCheckpoint, Running
  <2> QED BY <1>5, <2>1, <2>2, <2>3
          DEF CreateCheckpoint, Running, Publish, Steps, CommandSteps,
              RollbackSteps
<1>6. ASSUME CheckpointFails PROVE IndTypes'
  BY <1>1, <1>6 DEF CheckpointFails
<1>7. ASSUME StartCommand PROVE IndTypes'
  <2>1. [run EXCEPT !.status = "running"] \in Run
    BY RunUpdates DEF Statuses, RECOVERY_STATUSES
  <2> QED BY <1>7, <2>1
          DEF StartCommand, Running, Publish, GoTo, Steps, CommandSteps,
              RollbackSteps
<1>8. ASSUME NEW passed \in BOOLEAN, FinishCommand(passed) PROVE IndTypes'
  <2>1. /\ job.left \in Nat /\ job.left > 0 /\ job.left <= MaxCommands
        /\ MaxCommands \in Nat /\ MaxApprovals \in Nat
    BY <1>8, HostAssumption DEF Jobs, FinishCommand, Running
  <2>2. ASSUME NEW n \in 0 .. MaxCommands
        PROVE  [NoJob EXCEPT !.left = n] \in Jobs
    BY <2>1 DEF NoJob, Jobs, Risks, NoCheckpoint
  <2>3. job' \in Jobs /\ step' \in {"command", "report"}
        /\ (step' = "command" => job'.left > 0)
    BY <1>8, <2>1, <2>2 DEF FinishCommand, NoJob
  <2> QED BY <1>8, <2>3
          DEF FinishCommand, Running, NoStoreChange, Publish, Steps,
              CommandSteps, RollbackSteps
<1>9. ASSUME ReportResults PROVE IndTypes'
  <2>1. [run EXCEPT !.status = "reporting"] \in Run
    BY RunUpdates DEF Statuses, RECOVERY_STATUSES
  <2> QED BY <1>9, <2>1, PromptType
          DEF ReportResults, Running, GoTo, NoStoreChange, Steps, CommandSteps,
              RollbackSteps
<1>10. ASSUME AwaitModel PROVE IndTypes'
  <2>1. [run EXCEPT !.status = "waiting_llm"] \in Run
    BY RunUpdates DEF Statuses, RECOVERY_STATUSES
  <2> QED BY <1>10, <2>1, ReleaseType
          DEF AwaitModel, Running, Publish, NoStoreChange, Steps, RollbackSteps
<1> QED BY <1>2, <1>3, <1>4, <1>5, <1>6, <1>7, <1>8, <1>9, <1>10 DEF CommandStep

-----------------------------------------------------------------------------
LEMMA CheckpointStepType == IndTypes /\ CheckpointStep => IndTypes'
<1> SUFFICES ASSUME IndTypes, CheckpointStep PROVE IndTypes'
  OBVIOUS
<1> USE DEF IndTypes, TypeOK
<1>1. ASSUME NEW c \in CheckpointIds, NEW s \in CHECKPOINT_STATUSES
      PROVE  [ckpt EXCEPT ![c] = s] \in CheckpointTables
  BY DEF CheckpointTables
<1>2. ASSUME NEW c \in CheckpointIds, AcceptCheckpoint(c) PROVE IndTypes'
  <2>1. ckpt' \in CheckpointTables
    BY <1>1, <1>2
       DEF AcceptCheckpoint, Transitioned, CHECKPOINT_STATUSES
  <2>2. want' \in [Callers -> Wants]
    BY <1>2 DEF AcceptCheckpoint, Requested, Nothing, Wants
  <2> QED BY <1>2, <2>1, <2>2 DEF AcceptCheckpoint, Publish, KeepLock
<1>3. ASSUME NEW c \in CheckpointIds, BeginRollback(c) PROVE IndTypes'
  <2>1. run' \in Run /\ disk' \in Run
    BY <1>3 DEF BeginRollback, Publish, Run, Lifecycles, RECOVERY_LIFECYCLES,
                Statuses, RECOVERY_STATUSES
  <2>2. job' \in Jobs /\ job'.ckpt \in CheckpointIds
    BY <1>3, HostAssumption DEF BeginRollback, Take, NoJob, Jobs, Risks
  <2>3. owner' \in Threads /\ step' = "claim"
    BY <1>3 DEF BeginRollback, Take, Threads, Callers
  <2>4. want' \in [Callers -> Wants]
    BY <1>3 DEF BeginRollback, Requested, Nothing, Wants
  <2> QED BY <1>3, <2>1, <2>2, <2>3, <2>4
          DEF BeginRollback, durable, Steps, RollbackSteps
\* From one step of the rollback to the next.
<1>4. ASSUME NEW s \in RollbackSteps, step \in RollbackSteps, GoTo(s),
             UNCHANGED <<recoveries, approvals, pending, project, want, timers,
                         image, worker>>,
             run' \in Run, disk' \in Run \union {NoRow},
             ckpt' \in CheckpointTables, ws' \in Contents \union {Mixed}
      PROVE  IndTypes'
  <2>1. s \in Steps /\ s \notin {"command", "checkpoint", "start", "executing"}
    BY DEF Steps, RollbackSteps
  <2> QED BY <1>4, <2>1 DEF GoTo
<1>5. step \in RollbackSteps => job.ckpt \in CheckpointIds
  OBVIOUS
<1>6. ASSUME ClaimCheckpoint PROVE IndTypes'
  <2>1. ckpt' \in CheckpointTables
    BY <1>1, <1>5, <1>6
       DEF ClaimCheckpoint, RollingBackAt, RollbackSteps, Moves, Transitioned,
           CHECKPOINT_STATUSES
  <2> QED BY <1>4, <1>6, <2>1 DEF ClaimCheckpoint, RollingBackAt, RollbackSteps
<1>7. ASSUME PersistRollbackContext PROVE IndTypes'
  <2>1. [run EXCEPT !.ctx = job.ckpt] \in Run
    BY <1>5, <1>7, RunUpdates
       DEF PersistRollbackContext, RollingBackAt, RollbackSteps
  <2> QED BY <1>4, <1>7, <2>1
          DEF PersistRollbackContext, RollingBackAt, RollbackSteps, Publish
<1>8. ASSUME BeginRestore PROVE IndTypes'
  BY <1>4, <1>8 DEF BeginRestore, RollingBackAt, RollbackSteps
<1>9. ASSUME EndRestore PROVE IndTypes'
  BY <1>4, <1>5, <1>9 DEF EndRestore, RollingBackAt, RollbackSteps
<1>10. ASSUME RecordGitReview PROVE IndTypes'
  <2>1. ckpt' \in CheckpointTables
    BY <1>1, <1>5, <1>10
       DEF RecordGitReview, RollingBackAt, RollbackSteps, PutCheckpoint,
           CHECKPOINT_STATUSES
  <2> QED BY <1>4, <1>10, <2>1 DEF RecordGitReview, RollingBackAt, RollbackSteps
<1>11. ASSUME CompleteRollback PROVE IndTypes'
  <2>1. ckpt' \in CheckpointTables
    BY <1>1, <1>5, <1>11
       DEF CompleteRollback, RollingBackAt, RollbackSteps, Moves, Transitioned,
           CHECKPOINT_STATUSES
  <2> QED BY <1>4, <1>11, <2>1
          DEF CompleteRollback, RollingBackAt, RollbackSteps
<1>12. ASSUME RestoreRaises PROVE IndTypes'
  BY <1>4, <1>12 DEF RestoreRaises, RollingBackAt, RollbackSteps
<1>13. ASSUME FailRollback PROVE IndTypes'
  <2>1. ckpt' \in CheckpointTables
    BY <1>1, <1>5, <1>13
       DEF FailRollback, RollingBackAt, RollbackSteps, Moves, Transitioned,
           CHECKPOINT_STATUSES
  <2> QED BY <1>4, <1>13, <2>1 DEF FailRollback, RollingBackAt, RollbackSteps
\* The three ways out of a rollback.
<1>14. ASSUME Release, run' \in Run, disk' \in Run \union {NoRow},
              UNCHANGED <<recoveries, approvals, pending, project, want, timers,
                          ckpt, image, ws>>
       PROVE  IndTypes'
  BY <1>14, ReleaseType DEF Steps, RollbackSteps
<1>15. ASSUME FinishRollback PROVE IndTypes'
  <2>1. [run EXCEPT !.ctx = NoCheckpoint, !.paused = TRUE,
                    !.lifecycle = "paused", !.status = "paused"] \in Run
    BY DEF Run, Lifecycles, PassiveLifecycles, Statuses, PassiveStatuses
  <2> QED BY <1>14, <1>15, <2>1 DEF FinishRollback, RollingBackAt, Publish
<1>16. ASSUME RequireReview PROVE IndTypes'
  <2>1. job.ckpt \in CheckpointIds
    BY <1>5, <1>16 DEF RequireReview, RollingBackAt, RollbackSteps
  <2>2. [run EXCEPT !.ctx = job.ckpt, !.paused = TRUE,
           !.lifecycle = "recovery_required",
           !.status = "recovery_required"] \in Run
    BY <2>1 DEF Run, Lifecycles, RECOVERY_LIFECYCLES, Statuses,
                RECOVERY_STATUSES
  <2> QED BY <1>14, <1>16, <2>2 DEF RequireReview, RollingBackAt, Publish
<1>17. ASSUME RollbackRaises PROVE IndTypes'
  <2>1. job.ckpt \in CheckpointIds
    BY <1>5, <1>17 DEF RollbackRaises, RollingBackAt, RollbackSteps
  <2>2. run' \in Run
    BY <1>17, <2>1, RunUpdates DEF RollbackRaises
  <2> QED BY <1>14, <1>17, <2>2 DEF RollbackRaises, RollingBackAt
<1>18. ASSUME NEW c \in CheckpointIds,
              NEW type \in {"checkpoint_accept", "checkpoint_rollback"},
              RequestCheckpoint(type, c) \/ RefuseCheckpoint(type, c)
       PROVE  IndTypes'
  <2>1. want' \in [Callers -> Wants]
    BY <1>18 DEF RequestCheckpoint, RefuseCheckpoint, Requested, ForCheckpoint,
                 Nothing, Wants
  <2> QED BY <1>18, <2>1
          DEF RequestCheckpoint, RefuseCheckpoint, Publish, KeepLock, durable
<1> QED BY <1>2, <1>3, <1>6, <1>7, <1>8, <1>9, <1>10, <1>11, <1>12, <1>13,
           <1>15, <1>16, <1>17, <1>18 DEF CheckpointStep

-----------------------------------------------------------------------------
\* Of the rollbacks a crash may have interrupted, one is the newest: the
\* table is finite.
LEMMA LatestRollingBackExists ==
  ASSUME ckpt \in CheckpointTables
  PROVE  \E c \in CheckpointIds \union {NoCheckpoint} :
           IsLatestRollingBack(ckpt, c)
<1>1. CASE RollingBack(ckpt) = {}
  BY <1>1 DEF IsLatestRollingBack
<1>2. CASE RollingBack(ckpt) # {}
  <2> DEFINE Ages == {MaxCheckpoints - c : c \in RollingBack(ckpt)}
  <2> DEFINE Younger == {p \in Nat \X Nat : p[1] < p[2]}
  <2>1. Ages \subseteq Nat /\ Ages # {}
    BY <1>2, MaxCheckpointsAssumption DEF RollingBack, CheckpointIds
  <2>2. PICK n \in Ages : \A m \in Ages : ~(<<m, n>> \in Younger)
    <3>1. IsWellFoundedOn(Younger, Nat)
      BY NatLessThanWellFounded DEF OpToRel
    <3> HIDE DEF Younger
    <3> QED BY <2>1, <3>1, WFMin
  <2>3. PICK c \in RollingBack(ckpt) : n = MaxCheckpoints - c
    OBVIOUS
  <2>4. ASSUME NEW d \in RollingBack(ckpt) PROVE d <= c
    <3>1. ~(MaxCheckpoints - d < n)
      BY <2>1, <2>2
    <3> QED BY <2>3, <3>1, MaxCheckpointsAssumption
            DEF RollingBack, CheckpointIds
  <2> QED BY <2>4 DEF IsLatestRollingBack, RollingBack
<1> QED BY <1>1, <1>2

\* A host that starts on a well typed disk has well typed attributes.
LEMMA RestoredRunType ==
  ASSUME TypeOK
  PROVE  RestoredRun \in Run
<1>1. StoreContext \in CheckpointIds \union {NoCheckpoint}
  BY LatestRollingBackExists DEF StoreContext, TypeOK
<1>2. InitRun \in Run
  BY DEF InitRun, Run, Lifecycles, PassiveLifecycles, Statuses, PassiveStatuses
<1>3. Snapshot \in Run
  <2>1. [InitRun EXCEPT !.lifecycle = "recovering", !.status = "recovering",
           !.paused = TRUE, !.ctx = StoreContext] \in Run
    BY <1>1, <1>2 DEF Run, Lifecycles, RECOVERY_LIFECYCLES, Statuses,
                      RECOVERY_STATUSES
  <2> QED BY <1>2, <2>1 DEF Snapshot, TypeOK
<1>4. RestoredContext \in CheckpointIds \union {NoCheckpoint}
  BY <1>1, <1>3, RunFields DEF RestoredContext
<1> DEFINE kept == [OwnBudget EXCEPT !.ctx = RestoredContext,
                                     !.blocked = @ \/ Snapshot.guard]
<1>5. kept \in Run
  <2>1. OwnBudget \in Run
    BY <1>3 DEF OwnBudget, Fresh, Run
  <2> QED BY <1>3, <1>4, <2>1 DEF Run
<1>6. [kept EXCEPT !.paused = TRUE, !.lifecycle = "recovery_required",
                   !.status = "recovery_required"] \in Run
  BY <1>5 DEF Run, Lifecycles, RECOVERY_LIFECYCLES, Statuses, RECOVERY_STATUSES
<1>7. [kept EXCEPT !.paused = TRUE, !.lifecycle = "paused",
                   !.status = "provider_guard"] \in Run
  BY <1>5 DEF Run, Lifecycles, PassiveLifecycles, Statuses, PassiveStatuses
<1> HIDE DEF kept
<1> QED BY <1>5, <1>6, <1>7 DEF RestoredRun, kept

LEMMA RecoveryStepType == IndTypes /\ RecoveryStep => IndTypes'
<1> SUFFICES ASSUME IndTypes, RecoveryStep PROVE IndTypes'
  OBVIOUS
<1> USE DEF IndTypes, TypeOK
<1>1. NoPending \in Continuations /\ NoPending.kind # "command"
  BY HostAssumption DEF NoPending, Continuations, Risks
<1>2. ASSUME Restart PROVE IndTypes'
  <2>1. NoJob \in Jobs
    BY HostAssumption DEF NoJob, Jobs, Risks, NoCheckpoint
  <2>2. IdleWorker \in WorkerStates
    BY DEF IdleWorker, WorkerStates, ReplyKinds, Lifecycles, PassiveLifecycles
  <2>3. Nothing \in Wants
    BY DEF Nothing, Wants
  <2> QED BY <1>1, <1>2, <2>1, <2>2, <2>3, RestoredRunType
          DEF Restart, durable, Steps, RollbackSteps
<1>3. ASSUME NEW decision \in {"prepare", "discard"}, ResolveRecovery(decision)
      PROVE  IndTypes'
  <2>1. ckpt' \in CheckpointTables
    <3>1. run.ctx \in CheckpointIds \union {NoCheckpoint}
      BY RunFields
    <3> QED BY <1>3, <3>1 DEF ResolveRecovery, Transitioned, CheckpointTables,
                              CHECKPOINT_STATUSES
  <2>2. job' \in Jobs
    BY <1>3, HostAssumption
       DEF ResolveRecovery, Take, NoJob, Jobs, Risks, NoCheckpoint
  <2>3. want' \in [Callers -> Wants]
    BY <1>3 DEF ResolveRecovery, Nothing, Wants
  <2> QED BY <1>3, <2>1, <2>2, <2>3
          DEF ResolveRecovery, Take, Threads, Callers, Steps, RollbackSteps
<1>4. ASSUME ExpireApprovals PROVE IndTypes'
  BY <1>4 DEF ExpireApprovals, GoTo, Steps, RollbackSteps
<1>5. ASSUME FinishReview PROVE IndTypes'
  <2>1. Reviewed(run, job.decision) \in Run
    <3>1. [run EXCEPT !.ctx = NoCheckpoint] \in Run
      BY RunUpdates
    <3> QED BY <3>1 DEF Reviewed, Run, Lifecycles, PassiveLifecycles, Statuses,
                        PassiveStatuses
  <2> QED BY <1>1, <1>5, <2>1, ReleaseType
          DEF FinishReview, Publish, durable, Steps, RollbackSteps
<1>6. ASSUME NEW decision \in {"prepare", "discard"},
             AnswerReview(decision) \/ NothingToReview(decision)
      PROVE  IndTypes'
  <2>1. want' \in [Callers -> Wants]
    BY <1>6 DEF AnswerReview, NothingToReview, Answering, Nothing, Wants
  <2> QED BY <1>6, <2>1
          DEF AnswerReview, NothingToReview, Publish, durable, KeepLock
<1> QED BY <1>2, <1>3, <1>4, <1>5, <1>6 DEF RecoveryStep

-----------------------------------------------------------------------------
LEMMA InitType == Init => IndTypes
<1> SUFFICES ASSUME Init PROVE IndTypes
  OBVIOUS
<1> USE DEF Init
<1>1. run \in Run /\ disk \in Run \union {NoRow}
  BY DEF InitRun, Run, Lifecycles, PassiveLifecycles, Statuses, PassiveStatuses
<1>2. ckpt \in CheckpointTables
  BY DEF EmptyTable, CheckpointTables
<1>3. pending \in [ApprovalIds -> Continuations]
      /\ \A a \in ApprovalIds : pending[a].kind # "command"
  BY HostAssumption DEF NoPending, Continuations, Risks
<1>4. job \in Jobs /\ project \in ProjectStates
  BY HostAssumption DEF NoJob, Jobs, Risks, NoCheckpoint, ProjectStates
<1>5. want \in [Callers -> Wants] /\ worker \in [Workers -> WorkerStates]
  BY DEF Nothing, Wants, IdleWorker, WorkerStates, ReplyKinds, Lifecycles,
         PassiveLifecycles
<1> QED BY <1>1, <1>2, <1>3, <1>4, <1>5
        DEF IndTypes, TypeOK, Steps, RollbackSteps

LEMMA NextType == IndTypes /\ [Next]_vars => IndTypes'
<1>1. CASE UNCHANGED vars
  BY <1>1 DEF vars, IndTypes, TypeOK
<1>2. CASE Next
  BY <1>2, MainStepType, ResponseStepType, DecisionStepType, CommandStepType,
     CheckpointStepType, RecoveryStepType DEF Next
<1> QED BY <1>1, <1>2

\* Every attribute, row and local variable of the host keeps its type in
\* every interleaving, failure and restart: build_runtime_snapshot never
\* persists, and _restore_runtime_state never restores, anything else.
THEOREM TypeCorrect == Spec => []TypeOK
<1>1. IndTypes => TypeOK
  BY DEF IndTypes
<1> QED BY InitType, NextType, <1>1, PTL DEF Spec

-----------------------------------------------------------------------------
\* The turns of the last hour, as counted in memory and in the persisted row:
\* the row knows every turn there is, unless it is of another provider.
Within(r) == r = NoRow \/ r.turns <= MaxTurns

SameTurns(r, row) ==
  IF row = NoRow THEN r.turns = 0 ELSE row.turns = r.turns \/ row.foreign

TurnInv == TypeOK /\ Within(run) /\ Within(disk) /\ SameTurns(run, disk)

\* What a step that may send a turn leaves behind.
Sober == TurnSent => ~run'.paused /\ ~run'.guard /\ ~run'.blocked

TurnsKept ==
  Within(run') /\ Within(disk') /\ SameTurns(run', disk') /\ Sober

LEMMA TurnFacts ==
  ASSUME TurnInv
  PROVE  /\ run \in Run /\ disk \in Run \union {NoRow} /\ run.turns <= MaxTurns
         /\ Within(disk) /\ run.turns \in Nat /\ MaxTurns \in Nat
         /\ SameTurns(run, disk) /\ run # NoRow
BY NoRowAssumption, HostAssumption DEF TurnInv, TypeOK, Within, Run

\* A step that adds no turn, and publishes or leaves the row alone.
LEMMA NothingSent ==
  ASSUME TurnInv, TypeOK',
         \/ run'.turns <= run.turns /\ disk' = run'
         \/ run'.turns = run.turns /\ disk' = disk
  PROVE  TurnsKept
<1>1. run' \in Run /\ run' # NoRow /\ run'.turns \in Nat
  BY NoRowAssumption DEF TypeOK, Run
<1>2. run'.turns <= run.turns /\ run'.turns <= MaxTurns
  BY <1>1, TurnFacts
<1>3. Within(run') /\ Within(disk')
  BY <1>2, TurnFacts DEF Within
<1>4. SameTurns(run', disk')
  BY <1>1, TurnFacts DEF SameTurns
<1>5. Sober
  BY <1>1, <1>2, TurnFacts DEF Sober, TurnSent
<1> QED BY <1>3, <1>4, <1>5 DEF TurnsKept

LEMMA WithinBudget ==
  ASSUME TurnInv, TypeOK', NEW r \in Run, NEW saved \in Run \union {NoRow},
         r.turns <= run.turns, Within(saved), SameTurns(r, saved),
         \/ SendPrompt(r, saved) \/ Dispatch(r, saved)
         \/ PromptRefused(r) \/ PromptDelayed(r)
  PROVE  TurnsKept
<1>1. r.turns \in Nat /\ MaxTurns \in Nat /\ r.turns <= MaxTurns
  BY TurnFacts DEF Run
<1>2. Braked(r).turns = r.turns /\ [r EXCEPT !.status = "cooldown"].turns = r.turns
  BY DEF Braked, Run
<1>3. ASSUME run'.turns = r.turns, disk' = run' PROVE TurnsKept
  BY <1>3, NothingSent
<1>4. CASE Dispatch(r, saved)
  <2>1. CASE run' = r /\ disk' = saved
    BY <1>1, <2>1, TurnFacts DEF TurnsKept, Within, Sober, TurnSent
  <2>2. CASE ~r.paused /\ ~r.guard /\ ~Spent(r) /\ Publish([r EXCEPT !.turns = @ + 1])
    <3> DEFINE sent == [r EXCEPT !.turns = @ + 1]
    <3>1. /\ sent.turns = r.turns + 1 /\ sent.paused = r.paused
          /\ sent.guard = r.guard /\ sent.blocked = r.blocked
          /\ sent \in Run /\ sent # NoRow
      BY <1>1, NoRowAssumption DEF Run
    <3>2. run' = sent /\ disk' = sent
      BY <2>2 DEF Publish
    <3> HIDE DEF sent
    <3>3. r.turns + 1 <= MaxTurns /\ ~r.blocked
      BY <1>1, <2>2 DEF Spent
    <3> QED BY <2>2, <3>1, <3>2, <3>3 DEF TurnsKept, Sober, Within, SameTurns
  <2>3. CASE Publish(Braked(r))
    BY <1>2, <1>3, <2>3 DEF Publish
  <2> QED BY <1>4, <2>1, <2>2, <2>3 DEF Dispatch
<1>5. CASE PromptRefused(r)
  BY <1>2, <1>3, <1>5 DEF PromptRefused, Publish
<1>6. CASE PromptDelayed(r)
  BY <1>2, <1>3, <1>6 DEF PromptDelayed, Publish
<1> QED BY <1>4, <1>5, <1>6 DEF SendPrompt

LEMMA MainStepTurns ==
  ASSUME TurnInv, TypeOK', MainStep
  PROVE  TurnsKept
<1>1. /\ run \in Run /\ disk \in Run \union {NoRow} /\ run.turns <= MaxTurns
      /\ Within(disk) /\ run.turns \in Nat /\ SameTurns(run, disk)
  BY TurnFacts
<1>2. ASSUME NEW changed \in BOOLEAN
      PROVE  ForProvider(changed) \in Run /\ ForProvider(changed).turns <= run.turns
  <2>1. Fresh(run) \in Run /\ Fresh(run).turns = 0
    BY <1>1 DEF Fresh, Run
  <2>2. /\ [run EXCEPT !.foreign = FALSE] \in Run
        /\ [run EXCEPT !.foreign = FALSE].turns = run.turns
    BY <1>1 DEF Run
  <2> QED BY <1>1, <2>1, <2>2 DEF ForProvider
<1>3. ASSUME NEW r \in Run, r.turns <= run.turns, SendFromMain(r)
      PROVE  TurnsKept
  <2>1. CASE PromptRefused(r) \/ PromptDelayed(r)
    <3>1. Within(r) /\ SameTurns(r, r)
      BY <1>1, <1>3, TurnFacts, NoRowAssumption DEF Within, SameTurns, Run
    <3> QED BY <1>3, <2>1, <3>1, WithinBudget
  <2>2. CASE Publish(r)
    BY <1>3, <2>2, NothingSent DEF Publish
  <2> QED BY <1>3, <2>1, <2>2 DEF SendFromMain
<1>4. ASSUME NEW changed \in BOOLEAN, BuildStartPrompt(changed)
      PROVE  TurnsKept
  <2> DEFINE r == [ForProvider(changed) EXCEPT !.lifecycle = "planning",
                                               !.status = "planning"]
  <2>1. r \in Run /\ r.turns <= run.turns
    BY <1>2 DEF Run, Lifecycles, RECOVERY_LIFECYCLES, Statuses, PassiveStatuses
  <2>2. SendFromMain(r)
    BY <1>4 DEF BuildStartPrompt, PromptBuilder
  <2> HIDE DEF r
  <2> QED BY <1>3, <2>1, <2>2
<1>5. ASSUME NEW changed \in BOOLEAN
      PROVE  Arming(changed) \in Run /\ Arming(changed).turns <= run.turns
  <2> DEFINE a == Armed(ForProvider(changed))
  <2>1. a \in Run /\ a.turns <= run.turns
    <3>1. \A q \in Run : Fresh(q) \in Run /\ Fresh(q).turns = 0
      BY DEF Fresh, Run
    <3> DEFINE base == ForProvider(changed)
               rested == IF base.lifecycle \in {"ready_to_arm", "setup"}
                           THEN Fresh(base) ELSE base
               up == [rested EXCEPT !.guard = FALSE, !.paused = FALSE,
                                    !.lifecycle = "running"]
    <3>2. rested \in Run /\ rested.turns <= run.turns
      BY <1>1, <1>2, <3>1
    <3>3. up \in Run /\ up.turns = rested.turns
      <4> HIDE DEF rested
      <4> QED BY <3>2 DEF Run, Lifecycles, RECOVERY_LIFECYCLES
    <3>4. a = up \/ a = base
      BY DEF Armed
    <3> HIDE DEF a, up, rested, base
    <3>5. base \in Run /\ base.turns <= run.turns
      BY <1>2 DEF base
    <3> QED BY <3>2, <3>3, <3>4, <3>5
  <2> HIDE DEF a
  <2>2. [a EXCEPT !.status = "arming"] \in Run
        /\ [a EXCEPT !.status = "arming"].turns = a.turns
    BY <2>1 DEF Run, Statuses, RECOVERY_STATUSES
  <2> QED BY <2>1, <2>2 DEF Arming, a
<1>6. ASSUME NEW changed \in BOOLEAN, ChangeCourse(changed)
      PROVE  TurnsKept
  <2> DEFINE r == [ForProvider(changed) EXCEPT !.paused = FALSE,
                     !.lifecycle = "change_review", !.status = "change_review"]
  <2>1. r \in Run /\ r.turns <= run.turns
    BY <1>2 DEF Run, Lifecycles, RECOVERY_LIFECYCLES, Statuses, RECOVERY_STATUSES
  <2>2. SendFromMain(r)
    BY <1>6 DEF ChangeCourse, PromptBuilder
  <2> HIDE DEF r
  <2> QED BY <1>3, <2>1, <2>2
<1>7. ASSUME NEW changed \in BOOLEAN, FinishProject(changed)
      PROVE  TurnsKept
  <2> DEFINE r == [ForProvider(changed) EXCEPT !.paused = FALSE,
                     !.lifecycle = "finishing", !.status = "finishing"]
  <2>1. r \in Run /\ r.turns <= run.turns
    BY <1>2 DEF Run, Lifecycles, RECOVERY_LIFECYCLES, Statuses, RECOVERY_STATUSES
  <2>2. SendFromMain(r)
    BY <1>7 DEF FinishProject, PromptBuilder
  <2> HIDE DEF r
  <2> QED BY <1>3, <2>1, <2>2
<1>8. ASSUME DispatchFromMain \/ FireTimer PROVE TurnsKept
  BY <1>1, <1>8, WithinBudget DEF DispatchFromMain, FireTimer
<1>9. ASSUME NEW changed \in BOOLEAN,
             \/ EmptyRequest(changed) \/ SetConfig(changed)
             \/ ControllerPromptRaises(changed)
      PROVE  TurnsKept
  BY <1>2, <1>5, <1>9, NothingSent
  DEF EmptyRequest, SetConfig, ControllerPromptRaises, Publish
<1>10. ASSUME \/ Inform \/ Pause \/ Resume
              \/ \E foreign \in Foreign : ProviderSafetySignal(foreign)
              \/ \E ok \in BOOLEAN : ChatSendAck(ok)
              \/ \E foreign \in Foreign, w \in Workers, reply \in Replies :
                   AssistantResponse(w, reply, foreign)
       PROVE  TurnsKept
  <2>1. run'.turns = run.turns /\ disk' = run'
    BY <1>1, <1>10
    DEF Inform, Pause, Resume, ProviderSafetySignal, ChatSendAck, AssistantResponse,
        Publish, Run
  <2> QED BY <1>1, <2>1, NothingSent
<1>11. ASSUME ResetSession PROVE TurnsKept
  <2>1. Fresh(run).turns = 0 /\ Fresh(run) \in Run
    BY <1>1 DEF Fresh, Run
  <2>2. run'.turns = 0 /\ disk' = run'
    BY <1>11, <2>1 DEF ResetSession, Publish, Run
  <2> QED BY <1>1, <2>2, NothingSent
<1>12. ASSUME NEW changed \in BOOLEAN, BuildControllerPrompt(changed)
       PROVE  TurnsKept
  BY <1>3, <1>5, <1>12 DEF BuildControllerPrompt, PromptBuilder
<1>13. ASSUME TurnAges PROVE TurnsKept
  <2>1. ASSUME NEW r \in Run
        PROVE  /\ OneOlder(r).turns = IF r.turns > 0 THEN r.turns - 1 ELSE 0
               /\ OneOlder(r).foreign = r.foreign
    BY DEF OneOlder, Run
  <2>2. run' = OneOlder(run) /\ run'.turns = run.turns - 1 /\ run.turns > 0
    BY <1>1, <1>13, <2>1 DEF TurnAges
  <2>3. disk # NoRow /\ disk \in Run /\ disk' = OneOlder(disk) /\ disk' # NoRow
    <3>1. disk # NoRow
      BY <1>1, <2>2 DEF SameTurns
    <3>2. disk \in Run /\ disk' = OneOlder(disk)
      BY <1>1, <1>13, <3>1 DEF TurnAges
    <3>3. OneOlder(disk) \in Run
      <4>1. (IF disk.turns > 0 THEN disk.turns - 1 ELSE 0) \in Nat
        BY <3>2, RunFields
      <4> QED BY <3>2, <4>1, RunUpdates DEF OneOlder
    <3> QED BY <3>1, <3>2, <3>3, NoRowAssumption
  <2>4. disk.turns \in Nat /\ disk.turns <= MaxTurns /\ MaxTurns \in Nat
    BY <2>3, TurnFacts DEF Within, Run
  <2>5. disk'.turns <= MaxTurns /\ SameTurns(run', disk')
    BY <1>1, <2>1, <2>2, <2>3, <2>4 DEF SameTurns
  <2> QED BY <1>1, <2>2, <2>4, <2>5 DEF TurnsKept, Within, Sober, TurnSent
<1> QED
  BY <1>4, <1>6, <1>7, <1>8, <1>9, <1>10, <1>11, <1>12, <1>13 DEF MainStep

LEMMA OtherStepTurns ==
  ASSUME TurnInv, TypeOK',
         ResponseStep \/ DecisionStep \/ CommandStep \/ CheckpointStep
  PROVE  TurnsKept
<1>1. /\ run \in Run /\ disk \in Run \union {NoRow} /\ run.turns <= MaxTurns
      /\ Within(disk) /\ run.turns \in Nat /\ SameTurns(run, disk)
  BY TurnFacts
<1>2. ASSUME NEW r \in Run, NEW saved \in Run,
             r.turns = run.turns, saved.turns = run.turns, SendPrompt(r, saved)
      PROVE  TurnsKept
  <2>1. Within(saved) /\ SameTurns(r, saved)
    BY <1>1, <1>2, NoRowAssumption DEF Within, SameTurns
  <2> QED BY <1>1, <1>2, <2>1, WithinBudget
<1>3. Validating(run) \in Run /\ Validating(run).turns = run.turns
  BY <1>1 DEF Validating, Run, Lifecycles, RECOVERY_LIFECYCLES, Statuses,
              RECOVERY_STATUSES
<1>4. \A s \in Statuses : /\ [run EXCEPT !.status = s] \in Run
                          /\ [run EXCEPT !.status = s].turns = run.turns
                          /\ [Validating(run) EXCEPT !.status = s] \in Run
                          /\ [Validating(run) EXCEPT !.status = s].turns = run.turns
  BY <1>1, <1>3 DEF Run
<1>5. {"recovering", "blocked", "failed", "idle", "reporting"} \subseteq Statuses
  BY DEF Statuses, PassiveStatuses, RECOVERY_STATUSES
<1>6. ASSUME NEW w \in Workers, ProtocolFailure(w) \/ RefuseContract(w)
      PROVE  TurnsKept
  <2>1. CASE \E s \in {"recovering", "blocked", "failed", "idle"} :
               \/ SendPrompt([run EXCEPT !.status = s], [run EXCEPT !.status = s])
               \/ SendPrompt([Validating(run) EXCEPT !.status = s], Validating(run))
    BY <1>2, <1>3, <1>4, <1>5, <2>1
  <2>2. CASE \/ Publish(run) \/ Publish(Validating(run))
             \/ Publish([run EXCEPT !.lifecycle = "protocol_blocked",
                           !.status = "protocol_blocked", !.paused = TRUE])
    <3>1. run'.turns = run.turns /\ disk' = run'
      BY <1>1, <1>3, <2>2 DEF Publish, Run
    <3> QED BY <1>1, <3>1, NothingSent
  <2> QED BY <1>6, <2>1, <2>2 DEF ProtocolFailure, RefuseContract
<1>7. ASSUME DownloadEndsContract \/ DownloadFails PROVE TurnsKept
  <2>1. CASE DownloadEndsContract
    BY <1>2, <1>1, <1>4, <1>5, <2>1 DEF DownloadEndsContract
  <2>2. CASE DownloadFails
    BY <1>2, <1>4, <1>5, <2>2 DEF DownloadFails
  <2> QED BY <1>7, <2>1, <2>2
<1>8. ASSUME NEW w \in Workers,
             \/ ReadLifecycle(w) \/ CommitProject(w) \/ HoldResponse(w)
             \/ PlanResponse(w) \/ ReviewResponse(w) \/ DoneResponse(w)
             \/ StopResponse(w) \/ DecisionResponse(w) \/ ExecuteContract(w)
             \/ ResponseFails(w) \/ CheckProject(w)
      PROVE  TurnsKept
  <2>1. run'.turns = run.turns /\ (disk' = run' \/ disk' = disk)
    BY <1>1, <1>3, <1>8
    DEF ReadLifecycle, CommitProject, CommitFails, Proceed, HoldResponse, PlanResponse,
        ReviewResponse, DoneResponse, StopResponse, DecisionResponse, ExecuteContract,
        ResponseFails, CheckProject, RequestDecision, ProjectStateError, Publish, Run
  <2> QED BY <1>1, <2>1, NothingSent
<1>9. ASSUME DownloadArrives PROVE TurnsKept
  BY <1>1, <1>9, NothingSent DEF DownloadArrives, Publish
<1>10. ASSUME DecisionStep PROVE TurnsKept
  <2>1. ASSUME NEW caller \in Callers, NEW a \in ApprovalIds, Reject(caller, a)
        PROVE  TurnsKept
    <3> DEFINE r == [run EXCEPT !.status = "idle",
                       !.lifecycle = IF pending[a].kind = "course_change"
                                       THEN "running" ELSE @]
    <3>1. r \in Run /\ r.turns = run.turns
      BY <1>1 DEF Run, Statuses, PassiveStatuses, Lifecycles, RECOVERY_LIFECYCLES
    <3>2. SendPrompt(r, run)
      BY <2>1 DEF Reject
    <3> HIDE DEF r
    <3> QED BY <1>1, <1>2, <3>1, <3>2
  <2>2. ASSUME NEW caller \in Callers, NEW a \in ApprovalIds,
               ApproveCourseChange(caller, a)
        PROVE  TurnsKept
    <3> DEFINE r == [run EXCEPT !.lifecycle = "running", !.status = "idle",
                                !.paused = FALSE]
    <3>1. r \in Run /\ r.turns = run.turns
      BY <1>1 DEF Run, Statuses, PassiveStatuses, Lifecycles, RECOVERY_LIFECYCLES
    <3>2. SendPrompt(r, run)
      BY <2>2 DEF ApproveCourseChange
    <3> HIDE DEF r
    <3> QED BY <1>1, <1>2, <3>1, <3>2
  <2>3. ASSUME NEW caller \in Callers, NEW a \in ApprovalIds, ApproveContract(caller, a)
        PROVE  TurnsKept
    BY <1>1, <1>2, <2>3 DEF ApproveContract
  <2>4. CASE \/ Acknowledge
             \/ \E caller \in Callers, a \in ApprovalIds : ApproveCommand(caller, a)
             \/ \E caller \in Callers, a \in ApprovalIds, d \in {"approve", "reject"} :
                  \/ Decide(caller, a, d) \/ AlreadyDecided(caller, a, d)
                  \/ CourseChangeRaises(caller, a)
    <3>1. run'.turns = run.turns /\ (disk' = run' \/ disk' = disk)
      BY <1>1, <2>4
      DEF Acknowledge, ApproveCommand, Decide, AlreadyDecided, CourseChangeRaises,
          Publish, Remember, Run
    <3> QED BY <1>1, <3>1, NothingSent
  <2>5. "main" \in Callers /\ "telegram" \in Callers
    BY DEF Callers
  <2> QED BY <1>10, <2>1, <2>2, <2>3, <2>4, <2>5
          DEF DecisionStep, DecideInBrowser, DecideInTelegram
<1>11. ASSUME CommandStep PROVE TurnsKept
  <2>1. ASSUME BlockCommand \/ CheckpointFails PROVE TurnsKept
    BY <1>2, <1>4, <1>5, <2>1 DEF BlockCommand, CheckpointFails, Abandon
  <2>2. ASSUME ReportResults PROVE TurnsKept
    <3>1. [run EXCEPT !.status = "reporting"] \in Run
          /\ [run EXCEPT !.status = "reporting"].turns = run.turns
      BY <1>4, <1>5
    <3>2. SendPrompt([run EXCEPT !.status = "reporting"], disk)
      BY <2>2 DEF ReportResults
    <3> DEFINE r == [run EXCEPT !.status = "reporting"]
    <3> HIDE DEF r
    <3>3. r \in Run /\ r.turns = run.turns /\ SendPrompt(r, disk)
      BY <1>1, <3>1, <3>2 DEF r
    <3>4. SameTurns(r, disk)
      BY <1>1, <3>3 DEF SameTurns
    <3> QED BY <1>1, <3>3, <3>4, WithinBudget
  <2>3. ASSUME \/ RequestApproval \/ SelectCommand \/ CreateCheckpoint \/ StartCommand
               \/ AwaitModel \/ \E passed \in BOOLEAN : FinishCommand(passed)
        PROVE  TurnsKept
    <3>1. run'.turns = run.turns /\ (disk' = run' \/ disk' = disk)
      BY <1>1, <2>3
      DEF RequestApproval, SelectCommand, CreateCheckpoint, StartCommand, AwaitModel,
          FinishCommand, RequestDecision, Publish, Run
    <3> QED BY <1>1, <3>1, NothingSent
  <2> QED BY <1>11, <2>1, <2>2, <2>3 DEF CommandStep
<1>12. ASSUME CheckpointStep PROVE TurnsKept
  <2>1. run'.turns = run.turns /\ (disk' = run' \/ disk' = disk)
    BY <1>1, <1>12
    DEF CheckpointStep, RequestCheckpoint, RefuseCheckpoint, AcceptCheckpoint,
        BeginRollback, ClaimCheckpoint, PersistRollbackContext, BeginRestore,
        EndRestore, RecordGitReview, CompleteRollback, FinishRollback, RestoreRaises,
        FailRollback, RequireReview, RollbackRaises, Publish, Run
  <2> QED BY <1>1, <2>1, NothingSent
<1> QED BY <1>6, <1>7, <1>8, <1>9, <1>10, <1>11, <1>12 DEF ResponseStep

\* A restart finds the turns of the row, or none if they were another provider's.
LEMMA RestoredTurns ==
  ASSUME TurnInv
  PROVE  /\ RestoredRun.turns \in Nat /\ RestoredRun.turns <= run.turns
         /\ SameTurns(RestoredRun, disk)
<1>1. /\ run \in Run /\ run.turns \in Nat /\ SameTurns(run, disk)
      /\ disk \in Run \union {NoRow}
  BY TurnFacts
<1>2. Snapshot \in Run /\ (disk = NoRow => Snapshot.turns = 0)
  <2>1. StoreContext \in CheckpointIds \union {NoCheckpoint}
    BY LatestRollingBackExists DEF StoreContext, TurnInv, TypeOK
  <2>2. InitRun \in Run /\ InitRun.turns = 0
    BY DEF InitRun, Run, Lifecycles, PassiveLifecycles, Statuses, PassiveStatuses
  <2> DEFINE found == [InitRun EXCEPT !.lifecycle = "recovering",
                         !.status = "recovering", !.paused = TRUE,
                         !.ctx = StoreContext]
  <2>3. found \in Run /\ found.turns = 0
    BY <2>1, <2>2 DEF Run, Lifecycles, RECOVERY_LIFECYCLES, Statuses,
                      RECOVERY_STATUSES
  <2> QED BY <1>1, <2>2, <2>3 DEF Snapshot
<1>3. /\ OwnBudget \in Run
      /\ OwnBudget.turns = IF Snapshot.foreign THEN 0 ELSE Snapshot.turns
  BY <1>2 DEF OwnBudget, Fresh, Run
<1>4. RestoredRun.turns = OwnBudget.turns
  BY <1>3 DEF RestoredRun, Run
<1>5. CASE disk = NoRow
  BY <1>1, <1>2, <1>3, <1>4, <1>5 DEF SameTurns
<1>6. CASE disk # NoRow
  <2>1. Snapshot = disk /\ disk.turns \in Nat /\ disk.foreign \in BOOLEAN
    BY <1>1, <1>6 DEF Snapshot, Run
  <2> QED BY <1>1, <1>3, <1>4, <1>6, <2>1 DEF SameTurns
<1> QED BY <1>5, <1>6

LEMMA RecoveryStepTurns ==
  ASSUME TurnInv, TypeOK', RecoveryStep
  PROVE  TurnsKept
<1>1. /\ run \in Run /\ run.turns <= MaxTurns /\ run.turns \in Nat
      /\ Within(disk) /\ MaxTurns \in Nat
  BY TurnFacts
<1>2. ASSUME Restart PROVE TurnsKept
  <2>1. run' = RestoredRun /\ disk' = disk
    BY <1>2 DEF Restart
  <2> HIDE DEF RestoredRun
  <2> QED BY <1>1, <2>1, RestoredTurns DEF TurnsKept, Within, Sober, TurnSent
<1>3. ASSUME FinishReview PROVE TurnsKept
  <2>1. run'.turns = run.turns /\ disk' = run'
    BY <1>1, <1>3 DEF FinishReview, Reviewed, Publish, Run
  <2> QED BY <1>1, <2>1, NothingSent
<1>4. ASSUME \/ ExpireApprovals
             \/ \E decision \in {"prepare", "discard"} :
                  \/ AnswerReview(decision) \/ NothingToReview(decision)
                  \/ ResolveRecovery(decision)
      PROVE TurnsKept
  <2>1. run' = run /\ (disk' = disk \/ disk' = run')
    BY <1>4 DEF ExpireApprovals, AnswerReview, NothingToReview, ResolveRecovery, Publish
  <2> QED BY <1>1, <2>1, NothingSent
<1> QED BY <1>2, <1>3, <1>4 DEF RecoveryStep

LEMMA NextTurns ==
  ASSUME IndTypes, TurnInv, [Next]_vars
  PROVE  (TurnInv /\ IndTypes)' /\ Sober
<1>1. IndTypes'
  BY NextType
<1>2. TypeOK'
  BY <1>1 DEF IndTypes
<1>3. TurnsKept
  <2>1. CASE Next
    BY <1>2, <2>1, MainStepTurns, OtherStepTurns, RecoveryStepTurns DEF Next
  <2>2. CASE UNCHANGED vars
    BY <1>2, <2>2, NothingSent DEF vars
  <2> QED BY <2>1, <2>2
<1> QED BY <1>1, <1>2, <1>3 DEF TurnsKept, TurnInv, Within, SameTurns

LEMMA InitTurns == Init => TurnInv /\ IndTypes
BY InitType, HostAssumption DEF Init, InitRun, TurnInv, Within, SameTurns, IndTypes

\* Concurrent prompts, timers, restarts and resets never overrun the limit.
THEOREM TurnsAlwaysWithinBudget == Spec => []TurnsWithinBudget
<1>1. TurnInv => TurnsWithinBudget
  BY NoRowAssumption DEF TurnInv, TypeOK, Within, TurnsWithinBudget
<1> QED BY InitTurns, NextTurns, <1>1, PTL DEF Spec

\* Whichever thread sends it, and however long ago it was built: no prompt
\* leaves a workflow that is paused, guarded or blocked.
THEOREM NoPromptWhilePaused == Spec => PausedSendsNothing
<1>1. TurnInv /\ IndTypes /\ [Next]_vars =>
        [TurnSent => ~run'.paused /\ ~run'.guard /\ ~run'.blocked]_vars
  BY NextTurns DEF Sober
<1> QED BY InitTurns, NextTurns, <1>1, PTL DEF Spec, PausedSendsNothing

-----------------------------------------------------------------------------
\* What HoldEnds says of one step.
Closer ==
  owner # "none" /\ owner' = owner
    => StepsLeft' < StepsLeft \/ UNCHANGED <<step, job>>

\* A step forward with the same commands still to run.
LEMMA GoToIsCloser ==
  ASSUME job \in Jobs, NEW s \in Steps, GoTo(s),
         Distance[s] < Distance[step], Distance[s] \in Nat, Distance[step] \in Nat
  PROVE  Closer
<1>1. job.left \in Nat
  BY HostAssumption DEF Jobs
<1>2. job' = job /\ step' = s
  BY DEF GoTo
<1> QED BY <1>1, <1>2 DEF Closer, StepsLeft

\* Giving the lock back, taking it, or leaving it alone.
LEMMA NotHeldIsCloser ==
  ASSUME \/ KeepLock
         \/ Release
         \/ owner' = "none"
         \/ owner = "none"
  PROVE  Closer
BY DEF Closer, KeepLock, Release

LEMMA CommandStepIsCloser ==
  ASSUME IndTypes, CommandStep
  PROVE  Closer
<1> USE DEF Distance
<1>1. job \in Jobs /\ job.left \in Nat
  BY HostAssumption DEF IndTypes, TypeOK, Jobs
<1>2. CASE BlockCommand \/ RequestApproval \/ CheckpointFails \/ AwaitModel
  BY <1>2, NotHeldIsCloser
  DEF BlockCommand, RequestApproval, CheckpointFails, AwaitModel, Abandon
<1>3. CASE SelectCommand
  <2>1. /\ step = "command" /\ step' \in {"checkpoint", "start"}
        /\ \E risk : job' = [job EXCEPT !.risk = risk]
    BY <1>3 DEF SelectCommand, Running
  <2>2. job'.left = job.left
    BY <1>1, <2>1 DEF Jobs
  <2> QED BY <1>1, <2>1, <2>2 DEF Closer, StepsLeft
<1>4. CASE CreateCheckpoint
  <2>1. /\ step = "checkpoint" /\ step' = "start"
        /\ \E c : job' = [job EXCEPT !.ckpt = c]
    BY <1>4 DEF CreateCheckpoint, Running
  <2>2. job'.left = job.left
    BY <1>1, <2>1 DEF Jobs
  <2> QED BY <1>1, <2>1, <2>2 DEF Closer, StepsLeft
<1>5. CASE StartCommand
  BY <1>1, <1>5, GoToIsCloser DEF StartCommand, Running, Steps, CommandSteps
<1>6. CASE ReportResults
  BY <1>1, <1>6, GoToIsCloser DEF ReportResults, Running, Steps, CommandSteps
<1>7. ASSUME NEW passed \in BOOLEAN, FinishCommand(passed)
      PROVE  Closer
  <2> DEFINE left == IF passed THEN job.left - 1 ELSE job.left
  <2>1. step = "executing" /\ job.left > 0
    BY <1>7 DEF FinishCommand, Running, IndTypes
  <2>2. /\ job'.left = left
        /\ step' = IF passed /\ left > 0 THEN "command" ELSE "report"
    BY <1>7 DEF FinishCommand, NoJob
  <2> QED BY <1>1, <2>1, <2>2 DEF Closer, StepsLeft
<1> QED BY <1>2, <1>3, <1>4, <1>5, <1>6, <1>7 DEF CommandStep

LEMMA RollbackStepIsCloser ==
  ASSUME IndTypes, CheckpointStep
  PROVE  Closer
<1> USE DEF Distance, Steps, RollbackSteps
<1>1. job \in Jobs
  BY DEF IndTypes, TypeOK
<1>2. ASSUME NEW c \in CheckpointIds,
             NEW type \in {"checkpoint_accept", "checkpoint_rollback"},
             \/ RequestCheckpoint(type, c) \/ RefuseCheckpoint(type, c)
             \/ AcceptCheckpoint(c) \/ BeginRollback(c)
      PROVE  Closer
  BY <1>2, NotHeldIsCloser
  DEF RequestCheckpoint, RefuseCheckpoint, AcceptCheckpoint, BeginRollback, Take,
      LockFree
<1>3. CASE ClaimCheckpoint
  BY <1>1, <1>3, GoToIsCloser DEF ClaimCheckpoint, RollingBackAt
<1>4. CASE PersistRollbackContext
  BY <1>1, <1>4, GoToIsCloser DEF PersistRollbackContext, RollingBackAt
<1>5. CASE BeginRestore
  BY <1>1, <1>5, GoToIsCloser DEF BeginRestore, RollingBackAt
<1>6. CASE EndRestore
  BY <1>1, <1>6, GoToIsCloser DEF EndRestore, RollingBackAt
<1>7. CASE RecordGitReview
  BY <1>1, <1>7, GoToIsCloser DEF RecordGitReview, RollingBackAt
<1>8. CASE CompleteRollback
  BY <1>1, <1>8, GoToIsCloser DEF CompleteRollback, RollingBackAt
<1>9. CASE FinishRollback \/ RequireReview \/ RollbackRaises
  BY <1>9, NotHeldIsCloser DEF FinishRollback, RequireReview, RollbackRaises
<1>10. CASE RestoreRaises
  <2>1. step \in {"restore", "restoring", "record"} /\ GoTo("fail")
    BY <1>10 DEF RestoreRaises
  <2> QED BY <1>1, <2>1, GoToIsCloser
<1>11. CASE FailRollback
  BY <1>1, <1>11, GoToIsCloser DEF FailRollback, RollingBackAt
<1> QED BY <1>2, <1>3, <1>4, <1>5, <1>6, <1>7, <1>8, <1>9, <1>10, <1>11
        DEF CheckpointStep

LEMMA OtherStepIsCloser ==
  ASSUME IndTypes, MainStep \/ ResponseStep \/ DecisionStep \/ RecoveryStep
  PROVE  Closer
<1> USE DEF Distance, Steps, CommandSteps
<1>1. job \in Jobs
  BY DEF IndTypes, TypeOK
<1>2. CASE MainStep
  BY <1>2, NotHeldIsCloser
  DEF MainStep, OnlyRun, Inform, Pause, Resume, ResetSession, ProviderSafetySignal,
      SetConfig, EmptyRequest, ControllerPromptRaises, PromptBuilder, BuildStartPrompt, BuildControllerPrompt,
      ChangeCourse, FinishProject, AssistantResponse, ChatSendAck,
      DispatchFromMain, FireTimer, TurnAges
<1>3. ASSUME NEW w \in Workers,
             \/ ReadLifecycle(w) \/ CommitProject(w) \/ HoldResponse(w)
             \/ PlanResponse(w) \/ ReviewResponse(w) \/ DoneResponse(w)
             \/ StopResponse(w) \/ ProtocolFailure(w) \/ DecisionResponse(w)
             \/ RefuseContract(w) \/ ExecuteContract(w) \/ ResponseFails(w)
             \/ CheckProject(w)
      PROVE  Closer
  <2>1. KeepLock \/ owner = "none"
    BY <1>3 DEF ReadLifecycle, CommitProject, HoldResponse, PlanResponse,
      ReviewResponse, DoneResponse, StopResponse, ProtocolFailure,
      DecisionResponse, RefuseContract, ExecuteContract, ResponseFails,
      CheckProject, Quietly, ReadsContract, Responding, LockFree
  <2> QED BY <2>1, NotHeldIsCloser
<1>4. CASE DownloadArrives
  <2>1. step = "download" /\ GoTo("command")
    BY <1>4 DEF DownloadArrives
  <2> QED BY <1>1, <2>1, GoToIsCloser
<1>5. CASE DownloadEndsContract \/ DownloadFails
  BY <1>5, NotHeldIsCloser DEF DownloadEndsContract, DownloadFails
<1>6. CASE DecisionStep
  <2>1. KeepLock \/ owner = "none" \/ Release
    BY <1>6 DEF DecisionStep, DecideInBrowser, DecideInTelegram, Decide,
      CourseChangeRaises, AlreadyDecided, Reject, ApproveCommand, ApproveContract,
      ApproveCourseChange, Acknowledge, Resolving, LockFree
  <2> QED BY <2>1, NotHeldIsCloser
<1>7. CASE RecoveryStep
  <2>1. CASE Restart \/ FinishReview
    BY <2>1, NotHeldIsCloser DEF Restart, FinishReview
  <2>2. ASSUME NEW decision \in {"prepare", "discard"},
               \/ AnswerReview(decision) \/ NothingToReview(decision)
               \/ ResolveRecovery(decision)
        PROVE  Closer
    BY <2>2, NotHeldIsCloser
    DEF AnswerReview, NothingToReview, ResolveRecovery, Take, LockFree
  <2>3. CASE ExpireApprovals
    <3>1. step = "expire" /\ GoTo("resolved")
      BY <2>3 DEF ExpireApprovals
    <3> QED BY <1>1, <3>1, GoToIsCloser
  <2> QED BY <1>7, <2>1, <2>2, <2>3 DEF RecoveryStep
<1> QED BY <1>2, <1>3, <1>4, <1>5, <1>6, <1>7 DEF ResponseStep

\* Whatever the interleaving, no hold of self.lock goes on for ever by its own
\* doing: each step of the holder brings it closer to giving the lock back, and
\* no step of another thread takes it further away.
THEOREM HoldAlwaysEnds == Spec => HoldEnds
<1>1. IndTypes /\ [Next]_vars => Closer
  <2>1. CASE UNCHANGED vars
    BY <2>1, NotHeldIsCloser DEF vars, KeepLock
  <2> QED BY <2>1, CommandStepIsCloser, RollbackStepIsCloser, OtherStepIsCloser
          DEF Next
<1>2. IndTypes /\ [Next]_vars =>
        [owner # "none" /\ owner' = owner
           => StepsLeft' < StepsLeft \/ UNCHANGED <<step, job>>]_vars
  BY <1>1 DEF Closer
<1> QED BY InitType, NextType, <1>2, PTL DEF Spec, HoldEnds

\* A hold is never more than a few steps for each command of the contract.
THEOREM HoldIsBounded == Spec => [](StepsLeft \in 0 .. 4 * MaxCommands + 7)
<1>1. IndTypes => StepsLeft \in 0 .. 4 * MaxCommands + 7
  <2> SUFFICES ASSUME IndTypes PROVE StepsLeft \in 0 .. 4 * MaxCommands + 7
    OBVIOUS
  <2>1. job.left \in 0 .. MaxCommands /\ MaxCommands \in Nat
    BY HostAssumption DEF IndTypes, TypeOK, Jobs
  <2>2. step \in Steps
    BY DEF IndTypes, TypeOK
  <2>3. Distance[step] \in 0 .. 7
    BY <2>2 DEF Steps, CommandSteps, RollbackSteps, Distance
  <2> QED BY <2>1, <2>3 DEF StepsLeft
<1> QED BY InitType, NextType, <1>1, PTL DEF Spec

=============================================================================
