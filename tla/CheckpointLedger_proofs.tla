----------------------- MODULE CheckpointLedger_proofs -----------------------
(***************************************************************************)
(* Approvals, checkpoints and the workspace, proved for every instance of  *)
(* NativeHost: what a decision, a checkpoint and a rollback leave behind,  *)
(* whatever threads interleave, faults occur and crashes happen.           *)
(***************************************************************************)
EXTENDS RecoveryReview_proofs, FiniteSetTheorems

\* The steps between the claim of a checkpoint and its durable outcome.
Rolling == {"context", "restore", "restoring", "record", "complete", "fail"}

\* A continuation in memory has an undecided row, except while a review that
\* has expired the rows is about to drop the continuations.
PendingIsUndecided ==
  step # "resolved" =>
    \A a \in ApprovalIds : pending[a] # NoPending => approvals[a] = "pending"

Taken    == {c \in CheckpointIds : ckpt[c] # "absent"}
Approved == {a \in ApprovalIds : approvals[a] = "approve"}

\* The approval a command loop holds has not been used for a checkpoint yet.
ApprovalsCoverCheckpoints ==
  /\ job.approval # 0 => approvals[job.approval] = "approve"
  /\ Cardinality(Taken) <= Cardinality(Approved)
  /\ step \in {"download", "command", "checkpoint"} /\ job.approval # 0
       => Cardinality(Taken) < Cardinality(Approved)

CommandIsCovered ==
  /\ step = "checkpoint" => job.risk = "protected" /\ job.approval # 0
  /\ step \in {"start", "executing"} /\ job.risk = "protected" =>
       /\ job.approval # 0
       /\ job.ckpt \in CheckpointIds /\ ckpt[job.ckpt] = "ready"
       /\ step = "start" => image[job.ckpt] = ws

RollbackIsClaimed ==
  /\ step = "claim" => ckpt[job.ckpt] = "ready"
  /\ step \in Rolling => ckpt[job.ckpt] = "rolling_back"
  /\ step \in {"record", "complete"} => ws = image[job.ckpt]

\* A row that tells of an unfinished rollback other than the one under way.
Unfinished == {"rolling_back", "rollback_failed", "invalid"}
Evidence(c) == ckpt[c] \in Unfinished /\ ~(step \in Rolling /\ job.ckpt = c)
OnRecord == \E c \in CheckpointIds : Evidence(c)

HalfRestored ==
  /\ (\E c \in CheckpointIds : image[c] = Mixed) => OnRecord
  /\ ws = Mixed => OnRecord \/ step \in {"restoring", "fail"}

LedgerInv ==
  /\ PendingIsUndecided /\ ApprovalsCoverCheckpoints /\ CommandIsCovered
  /\ RollbackIsClaimed /\ HalfRestored

\* LedgerInv next to the invariants it is proved from.
Ledger == ReviewInv /\ TurnInv /\ LedgerInv

-----------------------------------------------------------------------------
LEMMA FiniteIds ==
  /\ IsFiniteSet(CheckpointIds) /\ IsFiniteSet(ApprovalIds)
  /\ \A S \in SUBSET CheckpointIds : IsFiniteSet(S) /\ Cardinality(S) \in Nat
  /\ \A S \in SUBSET ApprovalIds : IsFiniteSet(S) /\ Cardinality(S) \in Nat
<1>1. MaxCheckpoints \in Nat /\ MaxApprovals \in Nat
  BY MaxCheckpointsAssumption, HostAssumption
<1>2. IsFiniteSet(CheckpointIds) /\ IsFiniteSet(ApprovalIds)
  BY <1>1, FS_Interval DEF CheckpointIds, ApprovalIds
<1> QED BY <1>2, FS_Subset, FS_CardinalityType

\* Where a step that leaves the tables and the files may take the lock to.
MovesFreely ==
  \/ KeepLock
  \/ /\ step' \in {"none", "acknowledge", "download", "command", "report",
                   "waiting", "failed", "expire", "finish"}
     /\ job'.approval = 0

LEMMA TablesKept ==
  ASSUME Ledger, IndTypes', MovesFreely,
         UNCHANGED <<ckpt, image, ws, approvals>>,
         \A a \in ApprovalIds : pending'[a] \in {pending[a], NoPending},
         step # "resolved" \/ step' = "resolved"
           \/ \A a \in ApprovalIds : pending'[a] = NoPending
  PROVE  LedgerInv'
<1>1. Taken' = Taken /\ Approved' = Approved
  BY DEF Taken, Approved
<1>2. CASE KeepLock
  <2>1. OnRecord => OnRecord'
    BY <1>2 DEF OnRecord, Evidence, KeepLock
  <2> QED
    BY <1>1, <1>2, <2>1
    DEF Ledger, LedgerInv, PendingIsUndecided, ApprovalsCoverCheckpoints,
        CommandIsCovered, RollbackIsClaimed, HalfRestored, KeepLock
<1>3. CASE step' \in {"none", "acknowledge", "download", "command", "report",
                      "waiting", "failed", "expire", "finish"}
           /\ job'.approval = 0
  <2>1. step' \notin Rolling
    BY <1>3 DEF Rolling
  <2>2. OnRecord => OnRecord'
    BY <2>1 DEF OnRecord, Evidence
  <2>3. step \in {"restoring", "fail"} => OnRecord'
    BY <2>1 DEF Ledger, ReviewInv, LedgerInv, RollbackIsClaimed, OnRecord, Evidence,
                Unfinished, Rolling, IndTypes, RollbackSteps
  <2> QED
    BY <1>1, <1>3, <2>1, <2>2, <2>3
    DEF Ledger, LedgerInv, PendingIsUndecided, ApprovalsCoverCheckpoints,
        CommandIsCovered, RollbackIsClaimed, HalfRestored
<1> QED BY <1>2, <1>3 DEF MovesFreely

\* A new request draws an id nobody has used.
LEMMA RequestKept ==
  ASSUME Ledger, IndTypes', KeepLock, LockFree, UNCHANGED <<ckpt, image, ws>>,
         NEW r, NEW k, RequestDecision(r, k)
  PROVE  LedgerInv'
<1>1. PICK a \in ApprovalIds :
        /\ approvals[a] = "absent"
        /\ approvals' = [approvals EXCEPT ![a] = "pending"]
        /\ pending' = [pending EXCEPT ![a] = k]
  BY DEF RequestDecision
<1>2. approvals \in [ApprovalIds -> {"absent", "pending", "approve", "reject", "expired"}]
      /\ pending \in [ApprovalIds -> Continuations]
  BY DEF Ledger, ReviewInv, IndTypes, TypeOK
<1>3. Taken' = Taken /\ Approved' = Approved
  BY <1>1, <1>2 DEF Taken, Approved
<1>4. step = "none" /\ step' = "none" /\ job' = job
  BY DEF Ledger, ReviewInv, LockInv, LockFree, KeepLock
<1>5. OnRecord => OnRecord'
  BY <1>4 DEF OnRecord, Evidence
<1>6. PendingIsUndecided'
  BY <1>1, <1>2, <1>4 DEF Ledger, LedgerInv, PendingIsUndecided
<1>7. job.approval # 0 => job.approval \in ApprovalIds
  BY DEF Ledger, ReviewInv, IndTypes, TypeOK, Jobs, ApprovalIds
<1> QED
  BY <1>1, <1>2, <1>3, <1>4, <1>5, <1>6, <1>7
  DEF Ledger, LedgerInv, ApprovalsCoverCheckpoints, CommandIsCovered,
      RollbackIsClaimed, HalfRestored, Rolling

-----------------------------------------------------------------------------
LEMMA MainStepLedger == Ledger /\ IndTypes' /\ MainStep => LedgerInv'
<1> SUFFICES ASSUME Ledger, IndTypes', MainStep PROVE LedgerInv'
  OBVIOUS
<1>1. KeepLock /\ UNCHANGED <<ckpt, image, ws, approvals, pending>>
  BY DEF MainStep, OnlyRun, durable, Inform, Pause, Resume, ResetSession, SetConfig, ControllerPromptRaises,
         ProviderSafetySignal, EmptyRequest, BuildStartPrompt,
         BuildControllerPrompt, ChangeCourse, FinishProject, PromptBuilder,
         AssistantResponse, ChatSendAck, DispatchFromMain, FireTimer, TurnAges
<1> QED BY <1>1, TablesKept DEF MovesFreely, KeepLock

LEMMA ResponseStepLedger == Ledger /\ IndTypes' /\ ResponseStep => LedgerInv'
<1> SUFFICES ASSUME Ledger, IndTypes', ResponseStep PROVE LedgerInv'
  OBVIOUS
<1>1. ASSUME NEW w \in Workers, ReviewResponse(w) \/ DecisionResponse(w)
      PROVE LedgerInv'
  <2>1. LockFree /\ KeepLock /\ UNCHANGED <<ckpt, image, ws>>
    BY <1>1 DEF ReviewResponse, DecisionResponse, ReadsContract, Responding,
                Quietly, NoCommit
  <2>2. CASE UNCHANGED <<approvals, pending>>
    BY <2>1, <2>2, TablesKept DEF MovesFreely, KeepLock
  <2>3. CASE \E r, k : RequestDecision(r, k)
    BY <2>1, <2>3, RequestKept
  <2> QED BY <1>1, <2>2, <2>3 DEF ReviewResponse, DecisionResponse
<1>2. ASSUME NEW w \in Workers, ExecuteContract(w)
      PROVE LedgerInv'
  <2>1. step = "none" /\ UNCHANGED <<ckpt, image, ws, approvals, pending>>
    BY <1>2 DEF ExecuteContract, ReadsContract, Responding, durable, LockFree,
                Ledger, ReviewInv, LockInv
  <2>2. step' \in {"download", "command"} /\ job'.approval = 0
    BY <1>2 DEF ExecuteContract, Take, NoJob
  <2> QED BY <2>1, <2>2, TablesKept DEF MovesFreely
<1>3. ASSUME DownloadArrives PROVE LedgerInv'
  <2>1. /\ step = "download" /\ step' = "command" /\ job' = job
        /\ UNCHANGED <<ckpt, image, ws, approvals, pending>>
    BY <1>3 DEF DownloadArrives, GoTo, durable
  <2>2. Taken' = Taken /\ Approved' = Approved /\ (OnRecord => OnRecord')
    BY <2>1 DEF Taken, Approved, OnRecord, Evidence, Rolling
  <2> QED
    BY <2>1, <2>2
    DEF Ledger, LedgerInv, PendingIsUndecided, ApprovalsCoverCheckpoints,
        CommandIsCovered, RollbackIsClaimed, HalfRestored, Rolling
<1>4. ASSUME DownloadEndsContract \/ DownloadFails PROVE LedgerInv'
  <2>1. /\ step = "download" /\ step' = "none" /\ job'.approval = 0
        /\ UNCHANGED <<ckpt, image, ws, approvals, pending>>
    BY <1>4 DEF DownloadEndsContract, DownloadFails, Release, durable, NoJob
  <2> QED BY <2>1, TablesKept DEF MovesFreely
<1>5. ASSUME NEW w \in Workers,
             \/ ReadLifecycle(w) \/ CommitProject(w) \/ HoldResponse(w)
             \/ PlanResponse(w) \/ DoneResponse(w) \/ StopResponse(w)
             \/ ProtocolFailure(w) \/ RefuseContract(w) \/ ResponseFails(w)
               \/ CheckProject(w)
      PROVE LedgerInv'
  <2>1. KeepLock /\ UNCHANGED <<ckpt, image, ws, approvals, pending>>
    BY <1>5 DEF ReadLifecycle, CommitProject, HoldResponse, PlanResponse,
                DoneResponse, StopResponse, ProtocolFailure, RefuseContract, ResponseFails,
                CheckProject, Quietly, NoCommit, durable
  <2> QED BY <2>1, TablesKept DEF MovesFreely, KeepLock
<1> QED BY <1>1, <1>2, <1>3, <1>4, <1>5 DEF ResponseStep

-----------------------------------------------------------------------------
\* The first decision settles the row; an approval then covers one more
\* checkpoint than have been taken.
LEMMA PopSettles ==
  ASSUME Ledger, IndTypes', LockFree, NEW a \in ApprovalIds,
         NEW d \in {"approve", "reject"}, Pop(a, d), UNCHANGED ckpt
  PROVE  /\ approvals[a] = "pending"
         /\ \A b \in ApprovalIds : b # a => approvals'[b] = approvals[b]
         /\ approvals'[a] = d
         /\ Cardinality(Taken') <= Cardinality(Approved')
         /\ d = "approve" => Cardinality(Taken') < Cardinality(Approved')
<1>1. approvals \in [ApprovalIds -> {"absent", "pending", "approve", "reject", "expired"}]
  BY DEF Ledger, ReviewInv, IndTypes, TypeOK
<1>2. step = "none" /\ approvals[a] = "pending"
  BY DEF Ledger, ReviewInv, LockInv, LockFree, LedgerInv, PendingIsUndecided, Pop
<1>3. approvals'[a] = d /\ \A b \in ApprovalIds : b # a => approvals'[b] = approvals[b]
  BY <1>1 DEF Pop
<1>4. Taken' = Taken
  BY DEF Taken
<1>5. Cardinality(Taken) <= Cardinality(Approved)
  BY DEF Ledger, LedgerInv, ApprovalsCoverCheckpoints
<1>6. CASE d = "reject"
  <2>1. Approved' = Approved
    BY <1>2, <1>3, <1>6 DEF Approved
  <2> QED BY <1>2, <1>3, <1>4, <1>5, <1>6, <2>1
<1>7. CASE d = "approve"
  <2>1. Approved' = Approved \union {a} /\ a \notin Approved
    BY <1>2, <1>3, <1>7 DEF Approved
  <2>2. Approved \in SUBSET ApprovalIds /\ Taken \in SUBSET CheckpointIds
    BY DEF Approved, Taken
  <2>3. Cardinality(Approved') = Cardinality(Approved) + 1
    BY <2>1, <2>2, FiniteIds, FS_AddElement
  <2> QED BY <1>2, <1>3, <1>4, <1>5, <2>2, <2>3, FiniteIds
<1> QED BY <1>6, <1>7

LEMMA PopKept ==
  ASSUME Ledger, IndTypes', LockFree, NEW a \in ApprovalIds,
         NEW d \in {"approve", "reject"}, Pop(a, d), UNCHANGED <<ckpt, image, ws>>,
         \/ KeepLock
         \/ step' \in {"command", "acknowledge"} /\ job'.approval \in {0, a}
            /\ (job'.approval = a => d = "approve")
  PROVE  LedgerInv'
<1>1. /\ approvals \in [ApprovalIds -> {"absent", "pending", "approve", "reject", "expired"}]
      /\ pending \in [ApprovalIds -> Continuations]
  BY DEF Ledger, ReviewInv, IndTypes, TypeOK
<1>2. step = "none"
  BY DEF Ledger, ReviewInv, LockInv, LockFree
<1>3. /\ approvals[a] = "pending" /\ approvals'[a] = d
      /\ \A b \in ApprovalIds : b # a => approvals'[b] = approvals[b]
      /\ Cardinality(Taken') <= Cardinality(Approved')
      /\ d = "approve" => Cardinality(Taken') < Cardinality(Approved')
  BY PopSettles
<1>4. step' \in {"none", "command", "acknowledge"}
  BY <1>2 DEF KeepLock
<1>5. PendingIsUndecided'
  BY <1>1, <1>2, <1>3 DEF Ledger, LedgerInv, PendingIsUndecided, Pop
<1>6. OnRecord => OnRecord'
  BY <1>4 DEF OnRecord, Evidence, Rolling
<1>7. HalfRestored'
  BY <1>2, <1>6 DEF Ledger, LedgerInv, HalfRestored
<1>8. job.approval \in 0 .. MaxApprovals /\ MaxApprovals \in Nat
  BY HostAssumption DEF Ledger, ReviewInv, IndTypes, TypeOK, Jobs
<1>9. ApprovalsCoverCheckpoints'
  <2>1. CASE KeepLock
    BY <1>2, <1>3, <1>8, <2>1
    DEF Ledger, LedgerInv, ApprovalsCoverCheckpoints, KeepLock, ApprovalIds
  <2>2. CASE step' \in {"command", "acknowledge"} /\ job'.approval \in {0, a}
             /\ (job'.approval = a => d = "approve")
    BY <1>3, <2>2 DEF ApprovalsCoverCheckpoints
  <2> QED BY <2>1, <2>2
<1>10. CommandIsCovered' /\ RollbackIsClaimed'
  BY <1>4 DEF CommandIsCovered, RollbackIsClaimed, Rolling
<1> QED BY <1>5, <1>7, <1>9, <1>10 DEF LedgerInv

LEMMA DecisionStepLedger == Ledger /\ IndTypes' /\ DecisionStep => LedgerInv'
<1> SUFFICES ASSUME Ledger, IndTypes', DecisionStep PROVE LedgerInv'
  OBVIOUS
<1>1. ASSUME NEW caller \in Callers, NEW a \in ApprovalIds,
             NEW d \in {"approve", "reject"},
             \/ Decide(caller, a, d) \/ CourseChangeRaises(caller, a)
             \/ AlreadyDecided(caller, a, d)
      PROVE LedgerInv'
  <2>1. KeepLock /\ UNCHANGED <<ckpt, image, ws, approvals, pending>>
    BY <1>1 DEF Decide, CourseChangeRaises, AlreadyDecided, Resolving
  <2> QED BY <2>1, TablesKept DEF MovesFreely, KeepLock
<1>2. ASSUME NEW caller \in Callers, NEW a \in ApprovalIds,
             Reject(caller, a) \/ ApproveContract(caller, a)
               \/ ApproveCourseChange(caller, a)
      PROVE LedgerInv'
  <2>1. PICK d \in {"approve", "reject"} : Pop(a, d)
    BY <1>2 DEF Reject, ApproveContract, ApproveCourseChange
  <2>2. LockFree /\ UNCHANGED <<ckpt, image, ws>>
    BY <1>2 DEF Reject, ApproveContract, ApproveCourseChange, Resolving
  <2>3. KeepLock \/ (step' = "acknowledge" /\ job'.approval = 0)
    BY <1>2 DEF Reject, ApproveContract, ApproveCourseChange, Take, NoJob
  <2>4. a # 0
    BY HostAssumption DEF ApprovalIds
  <2> QED BY <2>1, <2>2, <2>3, <2>4, PopKept
<1>3. ASSUME NEW caller \in Callers, NEW a \in ApprovalIds, ApproveCommand(caller, a)
      PROVE LedgerInv'
  <2>1. Pop(a, "approve") /\ LockFree /\ UNCHANGED <<ckpt, image, ws>>
    BY <1>3 DEF ApproveCommand, Resolving
  <2>2. step' = "command" /\ job'.approval = a
    BY <1>3 DEF ApproveCommand, Take, NoJob
  <2> QED BY <2>1, <2>2, PopKept
<1>4. ASSUME Acknowledge PROVE LedgerInv'
  <2>1. /\ step = "acknowledge" /\ step' = "none" /\ job'.approval = 0
        /\ UNCHANGED <<ckpt, image, ws, approvals, pending>>
    BY <1>4 DEF Acknowledge, Release, durable, NoJob
  <2> QED BY <2>1, TablesKept DEF MovesFreely
<1>5. {"main", "telegram"} = Callers
  BY DEF Callers
<1> QED BY <1>1, <1>2, <1>3, <1>4, <1>5
        DEF DecisionStep, DecideInBrowser, DecideInTelegram

-----------------------------------------------------------------------------
LEMMA CommandStepLedger == Ledger /\ IndTypes' /\ CommandStep => LedgerInv'
<1> SUFFICES ASSUME Ledger, IndTypes', CommandStep PROVE LedgerInv'
  OBVIOUS
<1> USE DEF NoStoreChange
<1>0. /\ ckpt \in CheckpointTables /\ image \in [CheckpointIds -> Contents \union {Mixed}]
      /\ job \in Jobs /\ job' \in Jobs
  BY DEF Ledger, ReviewInv, IndTypes, TypeOK
<1>1. ASSUME BlockCommand \/ CheckpointFails PROVE LedgerInv'
  <2>1. /\ step' = "none" /\ job'.approval = 0 /\ step # "resolved"
        /\ UNCHANGED <<ckpt, image, ws, approvals, pending>>
    BY <1>1 DEF BlockCommand, CheckpointFails, Running, Abandon, Release, NoJob
  <2> QED BY <2>1, TablesKept DEF MovesFreely
<1>2. ASSUME RequestApproval PROVE LedgerInv'
  <2>1. PICK a \in ApprovalIds :
          /\ approvals[a] = "absent"
          /\ approvals' = [approvals EXCEPT ![a] = "pending"]
          /\ \E k : pending' = [pending EXCEPT ![a] = k]
    BY <1>2 DEF RequestApproval, RequestDecision
  <2>2. /\ step = "command" /\ step' = "none" /\ job'.approval = 0
        /\ UNCHANGED <<ckpt, image, ws>>
    BY <1>2 DEF RequestApproval, Running, Release, NoJob
  <2>3. approvals \in [ApprovalIds -> {"absent", "pending", "approve", "reject", "expired"}]
        /\ pending \in [ApprovalIds -> Continuations]
    BY DEF Ledger, ReviewInv, IndTypes, TypeOK
  <2>4. Taken' = Taken /\ Approved' = Approved /\ (OnRecord => OnRecord')
    BY <2>1, <2>2, <2>3 DEF Taken, Approved, OnRecord, Evidence, Rolling
  <2>5. PendingIsUndecided'
    BY <2>1, <2>2, <2>3 DEF Ledger, LedgerInv, PendingIsUndecided
  <2> QED
    BY <2>2, <2>4, <2>5
    DEF Ledger, LedgerInv, ApprovalsCoverCheckpoints, CommandIsCovered,
        RollbackIsClaimed, HalfRestored, Rolling
<1>3. ASSUME SelectCommand PROVE LedgerInv'
  <2>1. PICK risk \in Risks :
          /\ ~NeedsApproval(risk)
          /\ job' = [job EXCEPT !.risk = risk]
          /\ \/ risk = "protected" /\ step' = "checkpoint"
             \/ risk = "low" /\ step' = "start"
    BY <1>0, <1>3 DEF SelectCommand, Jobs
  <2>2. step = "command" /\ UNCHANGED <<ckpt, image, ws, approvals, pending>>
    BY <1>3 DEF SelectCommand, Running
  <2>3. job'.approval = job.approval /\ job'.risk = risk
    BY <1>0, <2>1 DEF Jobs
  <2>4. risk = "protected" => job.approval # 0
    BY <2>1 DEF NeedsApproval
  <2>5. Taken' = Taken /\ Approved' = Approved /\ (OnRecord => OnRecord')
    BY <2>1, <2>2 DEF Taken, Approved, OnRecord, Evidence, Rolling
  <2> QED
    BY <2>1, <2>2, <2>3, <2>4, <2>5
    DEF Ledger, LedgerInv, PendingIsUndecided, ApprovalsCoverCheckpoints,
        CommandIsCovered, RollbackIsClaimed, HalfRestored, Rolling
<1>4. ASSUME CreateCheckpoint PROVE LedgerInv'
  <2>1. PICK c \in CheckpointIds :
          /\ ckpt[c] = "absent"
          /\ ckpt' = [ckpt EXCEPT ![c] = "ready"]
          /\ image' = [image EXCEPT ![c] = ws]
          /\ job' = [job EXCEPT !.ckpt = c]
    BY <1>4 DEF CreateCheckpoint, IsNextCheckpoint, PutCheckpoint
  <2>2. step = "checkpoint" /\ step' = "start" /\ UNCHANGED <<ws, approvals, pending>>
    BY <1>4 DEF CreateCheckpoint, Running
  <2>3. /\ job'.approval = job.approval /\ job'.risk = job.risk /\ job'.ckpt = c
        /\ ckpt'[c] = "ready" /\ image'[c] = ws
        /\ \A d \in CheckpointIds :
             d # c => ckpt'[d] = ckpt[d] /\ image'[d] = image[d]
    BY <1>0, <2>1 DEF Jobs, CheckpointTables
  <2>4. Taken' = Taken \union {c} /\ c \notin Taken /\ Approved' = Approved
    BY <2>1, <2>2, <2>3 DEF Taken, Approved
  <2>5. Approved \in SUBSET ApprovalIds /\ Taken \in SUBSET CheckpointIds
    BY DEF Approved, Taken
  <2>6. Cardinality(Taken') = Cardinality(Taken) + 1
    BY <2>4, <2>5, FiniteIds, FS_AddElement
  <2>7. Cardinality(Taken) < Cardinality(Approved) /\ job.approval # 0
    BY <2>2 DEF Ledger, LedgerInv, ApprovalsCoverCheckpoints, CommandIsCovered
  <2>8. Cardinality(Taken') <= Cardinality(Approved')
    BY <2>4, <2>5, <2>6, <2>7, FiniteIds
  <2>9. OnRecord => OnRecord'
    BY <2>1, <2>2, <2>3 DEF OnRecord, Evidence, Rolling, Unfinished
  <2>10. HalfRestored'
    BY <2>2, <2>3, <2>9 DEF Ledger, LedgerInv, HalfRestored
  <2>11. ApprovalsCoverCheckpoints'
    BY <2>2, <2>3, <2>8 DEF Ledger, LedgerInv, ApprovalsCoverCheckpoints
  <2> QED
    BY <2>2, <2>3, <2>7, <2>10, <2>11
    DEF Ledger, LedgerInv, PendingIsUndecided, CommandIsCovered,
        RollbackIsClaimed, Rolling
<1>5. ASSUME StartCommand PROVE LedgerInv'
  <2>1. /\ step = "start" /\ step' = "executing" /\ job' = job
        /\ ws' \in Contents \union {ws}
        /\ UNCHANGED <<ckpt, image, approvals, pending>>
    BY <1>5 DEF StartCommand, Running, GoTo
  <2>2. Taken' = Taken /\ Approved' = Approved /\ (OnRecord => OnRecord')
    BY <2>1 DEF Taken, Approved, OnRecord, Evidence, Rolling
  <2>3. Mixed \notin Contents
    BY HostAssumption
  <2> QED
    BY <2>1, <2>2, <2>3
    DEF Ledger, LedgerInv, PendingIsUndecided, ApprovalsCoverCheckpoints,
        CommandIsCovered, RollbackIsClaimed, HalfRestored, Rolling
<1>6. ASSUME NEW passed \in BOOLEAN, FinishCommand(passed) PROVE LedgerInv'
  <2>1. /\ step = "executing" /\ step' \in {"command", "report"}
        /\ job'.approval = 0
        /\ UNCHANGED <<ckpt, image, ws, approvals, pending>>
    BY <1>6 DEF FinishCommand, Running, NoJob
  <2> QED BY <2>1, TablesKept DEF MovesFreely
<1>7. ASSUME ReportResults PROVE LedgerInv'
  <2>1. /\ step = "report" /\ step' = "waiting" /\ job' = job
        /\ UNCHANGED <<ckpt, image, ws, approvals, pending>>
    BY <1>7 DEF ReportResults, Running, GoTo
  <2>2. Taken' = Taken /\ Approved' = Approved /\ (OnRecord => OnRecord')
    BY <2>1 DEF Taken, Approved, OnRecord, Evidence, Rolling
  <2> QED
    BY <2>1, <2>2
    DEF Ledger, LedgerInv, PendingIsUndecided, ApprovalsCoverCheckpoints,
        CommandIsCovered, RollbackIsClaimed, HalfRestored, Rolling
<1>8. ASSUME AwaitModel PROVE LedgerInv'
  <2>1. /\ step = "waiting" /\ step' = "none" /\ job'.approval = 0
        /\ UNCHANGED <<ckpt, image, ws, approvals, pending>>
    BY <1>8 DEF AwaitModel, Running, Release, NoJob
  <2> QED BY <2>1, TablesKept DEF MovesFreely
<1> QED BY <1>1, <1>2, <1>3, <1>4, <1>5, <1>6, <1>7, <1>8 DEF CommandStep

-----------------------------------------------------------------------------
\* A step of the rollback that keeps its checkpoint, the approvals and the
\* continuations; what it does to the row and the files is the caller's.
LEMMA RollbackMoves ==
  ASSUME Ledger, IndTypes', step \in RollbackSteps, step' \in RollbackSteps,
         job' = job, UNCHANGED <<image, approvals, pending>>,
         \A c \in CheckpointIds : c # job.ckpt => ckpt'[c] = ckpt[c],
         ckpt[job.ckpt] # "absent", ckpt'[job.ckpt] # "absent",
         RollbackIsClaimed', HalfRestored'
  PROVE  LedgerInv'
<1>1. Taken' = Taken /\ Approved' = Approved
  BY DEF Taken, Approved
<1> QED
  BY <1>1 DEF Ledger, LedgerInv, PendingIsUndecided, ApprovalsCoverCheckpoints,
              CommandIsCovered, RollbackSteps

LEMMA CheckpointStepLedger == Ledger /\ IndTypes' /\ CheckpointStep => LedgerInv'
<1> SUFFICES ASSUME Ledger, IndTypes', CheckpointStep PROVE LedgerInv'
  OBVIOUS
<1>0. /\ ckpt \in CheckpointTables /\ image \in [CheckpointIds -> Contents \union {Mixed}]
      /\ step \in RollbackSteps => job.ckpt \in CheckpointIds
  BY DEF Ledger, ReviewInv, IndTypes, TypeOK
<1>1. ASSUME NEW c \in CheckpointIds, AcceptCheckpoint(c) PROVE LedgerInv'
  <2>1. /\ step = "none" /\ step' = "none" /\ job' = job
        /\ ckpt[c] = "ready" /\ ckpt' = [ckpt EXCEPT ![c] = "accepted"]
        /\ UNCHANGED <<image, ws, approvals, pending>>
    BY <1>1 DEF AcceptCheckpoint, Requested, LockFree, KeepLock, Ledger, ReviewInv,
                LockInv, CanTransition, Transitioned
  <2>2. \A d \in CheckpointIds : ckpt'[d] = IF d = c THEN "accepted" ELSE ckpt[d]
    BY <1>0, <2>1 DEF CheckpointTables
  <2>3. Taken' = Taken /\ Approved' = Approved /\ (OnRecord => OnRecord')
    BY <2>1, <2>2 DEF Taken, Approved, OnRecord, Evidence, Rolling, Unfinished
  <2> QED
    BY <2>1, <2>3
    DEF Ledger, LedgerInv, PendingIsUndecided, ApprovalsCoverCheckpoints,
        CommandIsCovered, RollbackIsClaimed, HalfRestored, Rolling
<1>2. ASSUME NEW c \in CheckpointIds, BeginRollback(c) PROVE LedgerInv'
  <2>1. /\ step = "none" /\ step' = "claim" /\ job'.approval = 0 /\ job'.ckpt = c
        /\ ckpt[c] = "ready"
        /\ UNCHANGED <<ckpt, image, ws, approvals, pending>>
    BY <1>2 DEF BeginRollback, Requested, LockFree, Take, NoJob, Ledger, ReviewInv,
                LockInv, durable
  <2>2. Taken' = Taken /\ Approved' = Approved /\ (OnRecord => OnRecord')
    BY <2>1 DEF Taken, Approved, OnRecord, Evidence, Rolling
  <2> QED
    BY <2>1, <2>2
    DEF Ledger, LedgerInv, PendingIsUndecided, ApprovalsCoverCheckpoints,
        CommandIsCovered, RollbackIsClaimed, HalfRestored, Rolling
<1>3. ASSUME ClaimCheckpoint PROVE LedgerInv'
  <2>1. /\ step = "claim" /\ step' = "context" /\ job' = job
        /\ ckpt[job.ckpt] = "ready"
        /\ ckpt' = [ckpt EXCEPT ![job.ckpt] = "rolling_back"]
        /\ UNCHANGED <<image, ws, approvals, pending>>
    BY <1>3 DEF ClaimCheckpoint, RollingBackAt, Moves, CanTransition, Transitioned, GoTo
  <2>2. /\ step \in RollbackSteps /\ step' \in RollbackSteps
        /\ ckpt'[job.ckpt] = "rolling_back"
        /\ \A c \in CheckpointIds : c # job.ckpt => ckpt'[c] = ckpt[c]
    BY <1>0, <2>1 DEF CheckpointTables, RollbackSteps
  <2>3. OnRecord => OnRecord'
    BY <2>1, <2>2 DEF OnRecord, Evidence, Rolling, Unfinished
  <2>4. RollbackIsClaimed' /\ HalfRestored'
    BY <2>1, <2>2, <2>3 DEF Ledger, LedgerInv, RollbackIsClaimed, HalfRestored, Rolling
  <2> QED BY <2>1, <2>2, <2>4, RollbackMoves
\* Steps at which the claimed row stays as it is.
<1>4. ASSUME PersistRollbackContext \/ BeginRestore \/ EndRestore \/ RecordGitReview
               \/ RestoreRaises
      PROVE LedgerInv'
  <2>1. /\ step \in Rolling /\ step' \in Rolling \ {"context"}
        /\ job' = job /\ UNCHANGED <<image, approvals, pending>>
    BY <1>4 DEF PersistRollbackContext, BeginRestore, EndRestore, RecordGitReview,
                RestoreRaises, RollingBackAt, GoTo, Rolling
  <2>2. ckpt[job.ckpt] = "rolling_back"
    BY <2>1 DEF Ledger, LedgerInv, RollbackIsClaimed
  <2>3. ckpt' = ckpt
    <3>1. job.ckpt \in CheckpointIds
      BY <1>0, <2>1 DEF Rolling, RollbackSteps
    <3>2. CASE RecordGitReview
      <4>1. ckpt' = [ckpt EXCEPT ![job.ckpt] = "rolling_back"]
        BY <3>2 DEF RecordGitReview, PutCheckpoint
      <4> QED BY <1>0, <2>2, <3>1, <4>1 DEF CheckpointTables
    <3> QED
      BY <1>4, <3>2 DEF PersistRollbackContext, BeginRestore, EndRestore, RestoreRaises
  <2>4. OnRecord <=> OnRecord'
    BY <2>1, <2>3 DEF OnRecord, Evidence
  <2>5. /\ step' \in {"restoring", "fail"} \/ ws' = ws \/ ws' = image[job.ckpt]
        /\ step' \in {"record", "complete"} => ws' = image[job.ckpt]
        /\ \/ ws' = image[job.ckpt]
           \/ step \notin {"restoring", "fail"} \/ step' = "fail"
    BY <1>4 DEF PersistRollbackContext, BeginRestore, EndRestore, RecordGitReview,
                RestoreRaises, RollingBackAt, GoTo, Ledger, LedgerInv,
                RollbackIsClaimed
  <2>6. RollbackIsClaimed'
    BY <2>1, <2>2, <2>3, <2>5 DEF RollbackIsClaimed, Rolling
  <2>7. HalfRestored'
    <3>1. job.ckpt \in CheckpointIds
      BY <1>0, <2>1 DEF Rolling, RollbackSteps
    <3> QED BY <2>1, <2>4, <2>5, <3>1 DEF Ledger, LedgerInv, HalfRestored
  <2>8. step \in RollbackSteps /\ step' \in RollbackSteps
    BY <2>1 DEF Rolling, RollbackSteps
  <2> QED BY <2>1, <2>2, <2>3, <2>6, <2>7, <2>8, RollbackMoves
<1>5. ASSUME CompleteRollback PROVE LedgerInv'
  <2>1. /\ step = "complete" /\ step' = "finish" /\ job' = job
        /\ ckpt[job.ckpt] = "rolling_back"
        /\ ckpt' = [ckpt EXCEPT ![job.ckpt] = "rolled_back"]
        /\ UNCHANGED <<image, ws, approvals, pending>>
    BY <1>5 DEF CompleteRollback, RollingBackAt, Moves, CanTransition, Transitioned, GoTo
  <2>2. /\ step \in RollbackSteps /\ step' \in RollbackSteps
        /\ ckpt'[job.ckpt] = "rolled_back"
        /\ \A c \in CheckpointIds : c # job.ckpt => ckpt'[c] = ckpt[c]
    BY <1>0, <2>1 DEF CheckpointTables, RollbackSteps
  <2>3. OnRecord => OnRecord'
    BY <2>1, <2>2 DEF OnRecord, Evidence, Rolling, Unfinished
  <2>4. RollbackIsClaimed' /\ HalfRestored'
    BY <2>1, <2>2, <2>3 DEF Ledger, LedgerInv, RollbackIsClaimed, HalfRestored, Rolling
  <2> QED BY <2>1, <2>2, <2>4, RollbackMoves
<1>6. ASSUME FailRollback PROVE LedgerInv'
  <2>1. /\ step = "fail" /\ step' = "failed" /\ job' = job
        /\ UNCHANGED <<image, ws, approvals, pending>>
        /\ ckpt' = [ckpt EXCEPT ![job.ckpt] = "rollback_failed"] \/ ckpt' = ckpt
    BY <1>6 DEF FailRollback, RollingBackAt, Moves, CanTransition, Transitioned, GoTo
  <2>2. step \in Rolling /\ ckpt[job.ckpt] = "rolling_back"
    BY <2>1 DEF Ledger, LedgerInv, RollbackIsClaimed, Rolling
  <2>3. /\ step \in RollbackSteps /\ step' \in RollbackSteps
        /\ ckpt'[job.ckpt] \in {"rolling_back", "rollback_failed"}
        /\ \A c \in CheckpointIds : c # job.ckpt => ckpt'[c] = ckpt[c]
        /\ job.ckpt \in CheckpointIds
    BY <1>0, <2>1, <2>2 DEF CheckpointTables, RollbackSteps
  <2>4. OnRecord'
    BY <2>1, <2>3 DEF OnRecord, Evidence, Rolling, Unfinished
  <2>5. RollbackIsClaimed' /\ HalfRestored'
    BY <2>1, <2>4 DEF RollbackIsClaimed, HalfRestored, Rolling
  <2> QED BY <2>1, <2>2, <2>3, <2>5, RollbackMoves
<1>7. ASSUME FinishRollback \/ RequireReview \/ RollbackRaises PROVE LedgerInv'
  <2>1. /\ step # "resolved" /\ step' = "none" /\ job'.approval = 0
        /\ UNCHANGED <<ckpt, image, ws, approvals, pending>>
    BY <1>7 DEF FinishRollback, RequireReview, RollbackRaises, RollingBackAt,
                Release, NoJob
  <2> QED BY <2>1, TablesKept DEF MovesFreely
<1>8. ASSUME NEW c \in CheckpointIds,
             NEW type \in {"checkpoint_accept", "checkpoint_rollback"},
             RequestCheckpoint(type, c) \/ RefuseCheckpoint(type, c)
      PROVE  LedgerInv'
  <2>1. KeepLock /\ UNCHANGED <<ckpt, image, ws, approvals, pending>>
    BY <1>8 DEF RequestCheckpoint, RefuseCheckpoint, durable
  <2> QED BY <2>1, TablesKept DEF MovesFreely, KeepLock
<1> QED BY <1>1, <1>2, <1>3, <1>4, <1>5, <1>6, <1>7, <1>8 DEF CheckpointStep

-----------------------------------------------------------------------------
LEMMA RecoveryStepLedger == Ledger /\ IndTypes' /\ RecoveryStep => LedgerInv'
<1> SUFFICES ASSUME Ledger, IndTypes', RecoveryStep PROVE LedgerInv'
  OBVIOUS
<1>0. /\ ckpt \in CheckpointTables
      /\ approvals \in [ApprovalIds -> {"absent", "pending", "approve", "reject", "expired"}]
  BY DEF Ledger, ReviewInv, IndTypes, TypeOK
<1>1. ASSUME Restart PROVE LedgerInv'
  <2>1. /\ step' = "none" /\ job'.approval = 0
        /\ \A a \in ApprovalIds : pending'[a] = NoPending
        /\ UNCHANGED <<ckpt, image, ws, approvals>>
    BY <1>1 DEF Restart, durable, NoJob
  <2> QED BY <2>1, TablesKept DEF MovesFreely
<1>2. ASSUME NEW d \in {"prepare", "discard"}, ResolveRecovery(d) PROVE LedgerInv'
  <2>1. /\ step = "none" /\ step' = "expire" /\ job'.approval = 0
        /\ UNCHANGED <<image, ws, approvals, pending>>
    BY <1>2 DEF ResolveRecovery, Take, LockFree, NoJob, Ledger, ReviewInv, LockInv
  <2>2. \A c \in CheckpointIds :
          \/ ckpt'[c] = ckpt[c]
          \/ ckpt[c] = "rolling_back" /\ ckpt'[c] = "invalid"
    BY <1>0, <1>2 DEF ResolveRecovery, Transitioned, CanTransition, CheckpointTables
  <2>3. Taken' = Taken /\ Approved' = Approved /\ (OnRecord => OnRecord')
    BY <2>1, <2>2 DEF Taken, Approved, OnRecord, Evidence, Rolling, Unfinished
  <2> QED
    BY <2>1, <2>3
    DEF Ledger, LedgerInv, PendingIsUndecided, ApprovalsCoverCheckpoints,
        CommandIsCovered, RollbackIsClaimed, HalfRestored, Rolling
<1>3. ASSUME ExpireApprovals PROVE LedgerInv'
  <2>1. /\ step = "expire" /\ step' = "resolved" /\ job' = job
        /\ UNCHANGED <<ckpt, image, ws, pending>>
        /\ \A a \in ApprovalIds :
             approvals'[a] = IF approvals[a] = "pending" THEN "expired" ELSE approvals[a]
    BY <1>3 DEF ExpireApprovals, GoTo
  <2>2. Taken' = Taken /\ Approved' = Approved /\ (OnRecord => OnRecord')
    BY <2>1 DEF Taken, Approved, OnRecord, Evidence, Rolling
  <2>3. job.approval # 0 => job.approval \in ApprovalIds
    BY DEF Ledger, ReviewInv, IndTypes, TypeOK, Jobs, ApprovalIds
  <2> QED
    BY <2>1, <2>2, <2>3
    DEF Ledger, LedgerInv, PendingIsUndecided, ApprovalsCoverCheckpoints,
        CommandIsCovered, RollbackIsClaimed, HalfRestored, Rolling
<1>4. ASSUME FinishReview PROVE LedgerInv'
  <2>1. /\ step' = "none" /\ job'.approval = 0
        /\ \A a \in ApprovalIds : pending'[a] = NoPending
        /\ UNCHANGED <<ckpt, image, ws, approvals>>
    BY <1>4 DEF FinishReview, Release, durable, NoJob
  <2> QED BY <2>1, TablesKept DEF MovesFreely
<1>5. ASSUME NEW d \in {"prepare", "discard"}, AnswerReview(d) \/ NothingToReview(d)
      PROVE  LedgerInv'
  <2>1. KeepLock /\ UNCHANGED <<ckpt, image, ws, approvals, pending>>
    BY <1>5 DEF AnswerReview, NothingToReview, durable
  <2> QED BY <2>1, TablesKept DEF MovesFreely, KeepLock
<1> QED BY <1>1, <1>2, <1>3, <1>4, <1>5 DEF RecoveryStep

LEMMA InitLedger == Init => Ledger
<1> SUFFICES ASSUME Init PROVE Ledger
  OBVIOUS
<1>1. ReviewInv /\ TurnInv
  BY InitReview, InitTurns
<1>2. Taken = {} /\ Approved = {}
  BY DEF Init, EmptyTable, Taken, Approved
<1>3. Cardinality(Taken) <= Cardinality(Approved)
  BY <1>2, FS_EmptySet
<1>4. \A c \in CheckpointIds : image[c] # Mixed
  BY HostAssumption DEF Init
<1> QED
  BY <1>1, <1>3, <1>4, HostAssumption
  DEF Init, NoJob, Ledger, LedgerInv, PendingIsUndecided, ApprovalsCoverCheckpoints,
      CommandIsCovered, RollbackIsClaimed, HalfRestored, Rolling

LEMMA NextLedger == Ledger /\ [Next]_vars => Ledger'
<1> SUFFICES ASSUME Ledger, [Next]_vars PROVE Ledger'
  OBVIOUS
<1>1. ReviewInv' /\ TurnInv'
  BY NextReview, NextTurns DEF Ledger, ReviewInv
<1>2. IndTypes'
  BY <1>1 DEF ReviewInv
<1>3. CASE UNCHANGED vars
  <2>1. KeepLock /\ UNCHANGED <<ckpt, image, ws, approvals, pending>>
    BY <1>3 DEF vars, KeepLock
  <2>2. LedgerInv'
    BY <1>2, <2>1, TablesKept DEF MovesFreely, KeepLock
  <2> QED BY <1>1, <2>2 DEF Ledger
<1>4. CASE Next
  BY <1>1, <1>2, <1>4, MainStepLedger, ResponseStepLedger, DecisionStepLedger,
     CommandStepLedger, CheckpointStepLedger, RecoveryStepLedger
  DEF Next, Ledger
<1> QED BY <1>3, <1>4

-----------------------------------------------------------------------------
\* A protected command starts only with its own recorded approval and behind
\* a ready checkpoint of exactly the files it is about to change.
THEOREM ProtectedAlwaysBehindCheckpoint == Spec => []ProtectedRunsBehindCheckpoint
<1>1. Ledger => ProtectedRunsBehindCheckpoint
  BY DEF Ledger, ReviewInv, IndTypes, TypeOK, Jobs, LedgerInv, CommandIsCovered,
         ApprovalsCoverCheckpoints, ProtectedRunsBehindCheckpoint, ApprovalIds
<1> QED BY InitLedger, NextLedger, <1>1, PTL DEF Spec

\* Files a restore left half way are never without a row that says so.
THEOREM HalfRestoredAlwaysOnRecord == Spec => []HalfRestoredIsOnRecord
<1>1. Ledger => HalfRestoredIsOnRecord
  <2> SUFFICES ASSUME Ledger, ws = Mixed
               PROVE  \E c \in CheckpointIds :
                        ckpt[c] \in {"rolling_back", "rollback_failed", "invalid"}
    BY DEF HalfRestoredIsOnRecord
  <2>1. CASE OnRecord
    BY <2>1 DEF OnRecord, Evidence, Unfinished
  <2>2. CASE step \in {"restoring", "fail"}
    BY <2>2 DEF Ledger, LedgerInv, RollbackIsClaimed, Rolling, ReviewInv, IndTypes,
                RollbackSteps
  <2> QED BY <2>1, <2>2 DEF Ledger, LedgerInv, HalfRestored
<1> QED BY InitLedger, NextLedger, <1>1, PTL DEF Spec

\* There are never more checkpoints than approvals given.
THEOREM ApprovalsAreNeverReused == Spec => []OneApprovalPerCheckpoint
<1>1. Ledger => OneApprovalPerCheckpoint
  BY DEF Ledger, LedgerInv, ApprovalsCoverCheckpoints, OneApprovalPerCheckpoint,
         Taken, Approved
<1> QED BY InitLedger, NextLedger, <1>1, PTL DEF Spec

-----------------------------------------------------------------------------
\* The steps that leave the rows of the two tables alone.
LEMMA OtherSteps ==
  ASSUME MainStep \/ ResponseStep \/ DecisionStep
  PROVE  UNCHANGED ckpt
BY DEF MainStep, OnlyRun, durable, Inform, Pause, Resume, ResetSession, SetConfig, ControllerPromptRaises,
       ProviderSafetySignal, EmptyRequest, BuildStartPrompt, BuildControllerPrompt,
       ChangeCourse, FinishProject, PromptBuilder, AssistantResponse, ChatSendAck,
       DispatchFromMain, FireTimer, TurnAges,
       ResponseStep, ReadLifecycle, CommitProject, HoldResponse, PlanResponse,
       ReviewResponse, DoneResponse, StopResponse, ProtocolFailure, DecisionResponse,
       RefuseContract, ExecuteContract, ResponseFails, CheckProject, Quietly, NoCommit,
       DownloadArrives, DownloadEndsContract, DownloadFails,
       DecisionStep, DecideInBrowser, DecideInTelegram, Decide, CourseChangeRaises, Resolving,
       AlreadyDecided, Reject, ApproveCommand, ApproveContract,
       ApproveCourseChange, Acknowledge

\* The only step that writes rolled_back.
LEMMA OnlyCompleteRollsBack ==
  ASSUME Ledger, [Next]_vars, NEW c \in CheckpointIds,
         ckpt[c] # "rolled_back", ckpt'[c] = "rolled_back"
  PROVE  CompleteRollback /\ c = job.ckpt
<1>0. /\ ckpt \in CheckpointTables
      /\ step \in RollbackSteps => job.ckpt \in CheckpointIds
  BY DEF Ledger, ReviewInv, IndTypes, TypeOK
<1>1. CommandStep \/ CheckpointStep \/ RecoveryStep
  BY OtherSteps DEF Next, vars
<1>2. ~CommandStep
  BY <1>0
  DEF CommandStep, BlockCommand, RequestApproval, SelectCommand, CreateCheckpoint,
      CheckpointFails, StartCommand, FinishCommand, ReportResults, AwaitModel,
      NoStoreChange, PutCheckpoint, IsNextCheckpoint, CheckpointTables
<1>3. ~RecoveryStep
  BY <1>0
  DEF RecoveryStep, Restart, AnswerReview, NothingToReview, ResolveRecovery,
      ExpireApprovals, FinishReview, durable, Transitioned, CheckpointTables
<1>4. ~\E d \in CheckpointIds :
         \/ AcceptCheckpoint(d) \/ BeginRollback(d)
         \/ \E type \in {"checkpoint_accept", "checkpoint_rollback"} :
              RequestCheckpoint(type, d) \/ RefuseCheckpoint(type, d)
  BY <1>0 DEF RequestCheckpoint, RefuseCheckpoint, AcceptCheckpoint, BeginRollback,
              durable, Transitioned, CheckpointTables
<1>5. ~ClaimCheckpoint /\ ~RecordGitReview /\ ~FailRollback
  BY <1>0 DEF ClaimCheckpoint, RecordGitReview, FailRollback, RollingBackAt, Moves,
              Transitioned, PutCheckpoint, CheckpointTables, RollbackSteps
<1>6. ~(PersistRollbackContext \/ BeginRestore \/ EndRestore \/ FinishRollback
          \/ RestoreRaises \/ RequireReview \/ RollbackRaises)
  BY DEF PersistRollbackContext, BeginRestore, EndRestore, FinishRollback,
         RestoreRaises, RequireReview, RollbackRaises
<1>7. CompleteRollback
  BY <1>1, <1>2, <1>3, <1>4, <1>5, <1>6 DEF CheckpointStep
<1>8. c = job.ckpt
  BY <1>0, <1>7 DEF CompleteRollback, RollingBackAt, Moves, Transitioned,
                    CheckpointTables, RollbackSteps
<1> QED BY <1>7, <1>8

\* A checkpoint reads rolled_back only over the files it captured.
THEOREM RolledBackMeansRestored == Spec => RollbackRestores
<1>1. Ledger /\ [Next]_vars =>
        [\A c \in CheckpointIds :
           ckpt[c] # "rolled_back" /\ ckpt'[c] = "rolled_back" => ws = image[c]]_vars
  <2> SUFFICES ASSUME Ledger, [Next]_vars, NEW c \in CheckpointIds,
                      ckpt[c] # "rolled_back", ckpt'[c] = "rolled_back"
               PROVE  ws = image[c]
    OBVIOUS
  <2>1. step = "complete" /\ c = job.ckpt
    BY OnlyCompleteRollsBack DEF CompleteRollback, RollingBackAt
  <2> QED BY <2>1 DEF Ledger, LedgerInv, RollbackIsClaimed
<1> QED BY InitLedger, NextLedger, <1>1, PTL DEF Spec, RollbackRestores

-----------------------------------------------------------------------------
\* How a step may treat the approvals table.
LEMMA ApprovalSteps ==
  ASSUME Ledger, [Next]_vars
  PROVE  \/ UNCHANGED approvals
         \/ \E a \in ApprovalIds :
              approvals[a] = "absent" /\ approvals' = [approvals EXCEPT ![a] = "pending"]
         \/ \E a \in ApprovalIds, d \in {"approve", "reject"} : LockFree /\ Pop(a, d)
         \/ ExpireApprovals
<1>1. CASE MainStep
  BY <1>1
  DEF MainStep, OnlyRun, durable, Inform, Pause, Resume, ResetSession, SetConfig, ControllerPromptRaises,
      ProviderSafetySignal, EmptyRequest, BuildStartPrompt, BuildControllerPrompt,
      ChangeCourse, FinishProject, PromptBuilder, AssistantResponse, ChatSendAck,
      DispatchFromMain, FireTimer, TurnAges
<1>2. CASE ResponseStep
  BY <1>2
  DEF ResponseStep, ReadLifecycle, CommitProject, HoldResponse, PlanResponse,
      ReviewResponse, DoneResponse, StopResponse, ProtocolFailure, DecisionResponse,
      RefuseContract, ExecuteContract, ResponseFails, CheckProject, DownloadArrives,
      DownloadEndsContract, DownloadFails, RequestDecision, durable
<1>3. CASE DecisionStep
  BY <1>3
  DEF DecisionStep, DecideInBrowser, DecideInTelegram, Decide, CourseChangeRaises, AlreadyDecided,
      Reject, ApproveCommand, ApproveContract, ApproveCourseChange, Acknowledge,
      Resolving, durable
<1>4. CASE CommandStep
  BY <1>4
  DEF CommandStep, BlockCommand, RequestApproval, SelectCommand, CreateCheckpoint,
      CheckpointFails, StartCommand, FinishCommand, ReportResults, AwaitModel,
      NoStoreChange, RequestDecision
<1>5. CASE CheckpointStep
  BY <1>5
  DEF CheckpointStep, RequestCheckpoint, RefuseCheckpoint, AcceptCheckpoint,
      BeginRollback, ClaimCheckpoint, PersistRollbackContext, BeginRestore, EndRestore, RecordGitReview,
      CompleteRollback, FinishRollback, RestoreRaises, FailRollback, RequireReview,
      RollbackRaises, RollingBackAt, durable
<1>6. CASE RecoveryStep
  BY <1>6 DEF RecoveryStep, Restart, AnswerReview, NothingToReview, ResolveRecovery,
              FinishReview, durable
<1>7. CASE UNCHANGED vars
  BY <1>7 DEF vars
<1> QED BY <1>1, <1>2, <1>3, <1>4, <1>5, <1>6, <1>7 DEF Next

\* A decided or expired approval keeps its outcome, whichever channel answers
\* again and however late.
THEOREM DecisionsAlwaysFinal == Spec => DecisionsAreFinal
<1>1. Ledger /\ [Next]_vars =>
        [\A a \in ApprovalIds :
           approvals[a] \in {"approve", "reject", "expired"}
             => approvals'[a] = approvals[a]]_vars
  <2> SUFFICES ASSUME Ledger, [Next]_vars, NEW a \in ApprovalIds,
                      approvals[a] \in {"approve", "reject", "expired"}
               PROVE  approvals'[a] = approvals[a]
    OBVIOUS
  <2>1. approvals \in
          [ApprovalIds -> {"absent", "pending", "approve", "reject", "expired"}]
    BY DEF Ledger, ReviewInv, IndTypes, TypeOK
  <2>2. CASE \E b \in ApprovalIds, d \in {"approve", "reject"} : LockFree /\ Pop(b, d)
    BY <2>1, <2>2
    DEF Pop, LockFree, Ledger, ReviewInv, LockInv, LedgerInv, PendingIsUndecided
  <2> QED BY <2>1, <2>2, ApprovalSteps DEF ExpireApprovals
<1> QED BY InitLedger, NextLedger, <1>1, PTL DEF Spec, DecisionsAreFinal

-----------------------------------------------------------------------------
\* Without Telegram the main thread is the only one to decide: while it waits
\* for the lock with an approved course change, nobody else can reject it, and
\* once the continuation is gone nobody ever will.
CourseInv ==
  project.course # 0 =>
    /\ approvals[project.course] \notin {"absent", "reject"}
    /\ \/ pending[project.course] = NoPending
       \/ want["main"] = Deciding(project.course, "approve")

LEMMA CourseKept ==
  ASSUME CourseInv, IndTypes, IndTypes', project'.course = project.course,
         \A a \in ApprovalIds :
           /\ approvals[a] \notin {"absent", "reject"}
                => approvals'[a] \notin {"absent", "reject"}
           /\ approvals[a] # "absent" => pending'[a] \in {pending[a], NoPending},
         \/ want'["main"] = want["main"]
         \/ \A d \in ApprovalIds : want["main"] # Deciding(d, "approve")
         \/ \A a \in ApprovalIds : pending'[a] = NoPending
  PROVE  CourseInv'
<1>1. project.course # 0 => project.course \in ApprovalIds
  BY DEF IndTypes, TypeOK, ProjectStates, ApprovalIds
<1> QED BY <1>1 DEF CourseInv

LEMMA MainStepCourse ==
  ASSUME CourseInv, IndTypes, IndTypes', MainStep
  PROVE  CourseInv'
<1>1. UNCHANGED <<project, approvals, pending>>
  BY DEF MainStep, OnlyRun, durable, Inform, Pause, Resume, ResetSession, SetConfig, ControllerPromptRaises,
         ProviderSafetySignal, EmptyRequest, BuildStartPrompt,
         BuildControllerPrompt, ChangeCourse, FinishProject, PromptBuilder,
         AssistantResponse, ChatSendAck, DispatchFromMain, FireTimer, TurnAges
<1>2. ASSUME NEW a \in ApprovalIds
      PROVE  Nothing # Deciding(a, "approve") /\ ToPrompt # Deciding(a, "approve")
  BY DEF Nothing, ToPrompt, Deciding
<1>3. \/ want'["main"] = want["main"]
      \/ want["main"] \in {Nothing, ToPrompt}
  BY DEF MainStep, OnlyRun, NoPrompt, durable, Inform, Pause, Resume, ResetSession, SetConfig, ControllerPromptRaises,
         ProviderSafetySignal, EmptyRequest, BuildStartPrompt, MainIdle, Received,
         BuildControllerPrompt, ChangeCourse, FinishProject, PromptBuilder,
         SendFromMain, AssistantResponse, ChatSendAck, DispatchFromMain, FireTimer,
         TurnAges
<1> QED BY <1>1, <1>2, <1>3, CourseKept

LEMMA ResponseStepCourse ==
  ASSUME CourseInv, IndTypes, IndTypes', ResponseStep
  PROVE  CourseInv'
<1>1. want' = want
  BY DEF ResponseStep, ReadLifecycle, CommitProject, HoldResponse, PlanResponse,
         ReviewResponse, DoneResponse, StopResponse, ProtocolFailure,
         DecisionResponse, RefuseContract, ExecuteContract, ResponseFails, CheckProject,
         DownloadArrives, DownloadEndsContract, DownloadFails, Quietly
<1>2. /\ project \in ProjectStates
      /\ approvals \in
           [ApprovalIds -> {"absent", "pending", "approve", "reject", "expired"}]
      /\ pending \in [ApprovalIds -> Continuations]
  BY DEF IndTypes, TypeOK
<1>3. project'.course = project.course
  BY <1>2
  DEF ResponseStep, ReadLifecycle, CommitProject, CommitFails, Planned, ClosedOut,
      HoldResponse, PlanResponse, ReviewResponse, DoneResponse, StopResponse, ProtocolFailure,
      DecisionResponse, RefuseContract, ExecuteContract, ResponseFails, CheckProject,
      DownloadArrives, DownloadEndsContract, DownloadFails, Quietly, NoCommit,
      durable, ProjectStates
<1>4. \/ UNCHANGED <<approvals, pending>>
      \/ \E r, k : RequestDecision(r, k)
  BY DEF ResponseStep, ReadLifecycle, CommitProject, HoldResponse, PlanResponse,
         ReviewResponse, DoneResponse, StopResponse, ProtocolFailure,
         DecisionResponse, RefuseContract, ExecuteContract, ResponseFails, CheckProject,
         DownloadArrives, DownloadEndsContract, DownloadFails, durable
<1>5. \A a \in ApprovalIds :
        approvals[a] # "absent" =>
          approvals'[a] = approvals[a] /\ pending'[a] = pending[a]
  BY <1>2, <1>4 DEF RequestDecision
<1> QED BY <1>1, <1>3, <1>5, CourseKept

LEMMA DecisionStepCourse ==
  ASSUME ~TelegramEnabled, ~FileFaults, Ledger, GateInv, CourseInv, IndTypes',
         DecisionStep
  PROVE  CourseInv'
<1>1. /\ IndTypes /\ project \in ProjectStates
      /\ want \in [Callers -> Wants]
      /\ approvals \in
           [ApprovalIds -> {"absent", "pending", "approve", "reject", "expired"}]
      /\ pending \in [ApprovalIds -> Continuations]
  BY DEF Ledger, ReviewInv, IndTypes, TypeOK
<1>2. ASSUME NEW a \in ApprovalIds, NEW d \in {"approve", "reject"},
             DecideInBrowser(a, d) \/ DecideInTelegram(a, d)
      PROVE  CourseInv'
  <2>1. /\ Decide("main", a, d) /\ want["main"] = Nothing /\ owner # "main"
        /\ UNCHANGED <<approvals, pending>>
    BY <1>2 DEF DecideInBrowser, DecideInTelegram, CourseChangeRaises, Decide,
                MayDecide
  <2>2. \A b \in ApprovalIds : Nothing # Deciding(b, "approve")
    BY DEF Nothing, Deciding
  <2>3. CASE d = "approve" /\ pending[a].kind = "course_change"
    <3>1. project'.course = a /\ want'["main"] = Deciding(a, "approve")
      BY <1>1, <2>1, <2>3 DEF Decide, ApplyCourseChange, Callers
    <3>2. pending[a] # NoPending /\ step # "resolved"
      BY <2>1, <2>3 DEF NoPending, Ledger, ReviewInv, LockInv, MainSteps, ReviewSteps
    <3>3. approvals[a] = "pending"
      BY <3>2 DEF Ledger, LedgerInv, PendingIsUndecided
    <3> QED BY <2>1, <3>1, <3>3 DEF CourseInv
  <2>4. CASE ~(d = "approve" /\ pending[a].kind = "course_change")
    <3>1. project' = project
      BY <2>1, <2>4 DEF Decide, ApplyCourseChange
    <3> QED BY <1>1, <2>1, <2>2, <3>1, CourseKept
  <2> QED BY <2>3, <2>4
\* The decision a thread waits with is the main thread's.
<1>3. ASSUME NEW caller \in Callers, NEW a \in ApprovalIds,
             NEW d \in {"approve", "reject"}, Resolving(caller, a, d)
      PROVE  /\ want["main"] = Deciding(a, d) /\ project' = project
             /\ \A b \in ApprovalIds :
                  want["main"] = Deciding(b, "approve") => b = a /\ d = "approve"
  <2>1. Deciding(a, d) # Nothing
    BY DEF Deciding, Nothing
  <2>2. caller = "main"
    BY <1>3, <2>1 DEF Resolving, GateInv, Callers
  <2> QED BY <1>3, <2>2 DEF Resolving, Deciding
<1>4. ASSUME NEW caller \in Callers, NEW a \in ApprovalIds,
             NEW d \in {"approve", "reject"}, AlreadyDecided(caller, a, d)
      PROVE  CourseInv'
  <2>1. Resolving(caller, a, d) /\ pending[a] = NoPending
        /\ UNCHANGED <<approvals, pending>>
    BY <1>4 DEF AlreadyDecided
  <2>2. project.course # 0 => project.course \in ApprovalIds
    BY <1>1 DEF ProjectStates, ApprovalIds
  <2>3. project.course # 0 => pending[project.course] = NoPending
    BY <1>3, <2>1, <2>2 DEF CourseInv
  <2> QED BY <1>3, <2>1, <2>3 DEF CourseInv
<1>5. ASSUME NEW caller \in Callers, NEW a \in ApprovalIds,
             NEW d \in {"approve", "reject"}, Resolving(caller, a, d), Pop(a, d)
      PROVE  CourseInv'
  <2>1. project.course # 0 => project.course \in ApprovalIds
    BY <1>1 DEF ProjectStates, ApprovalIds
  <2>2. /\ pending[a] # NoPending /\ pending'[a] = NoPending
        /\ approvals'[a] = d
        /\ \A b \in ApprovalIds : b # a =>
             approvals'[b] = approvals[b] /\ pending'[b] = pending[b]
    BY <1>1, <1>5 DEF Pop
  <2>3. project.course = a => d = "approve"
    BY <1>3, <1>5, <2>2 DEF CourseInv, ApprovalIds
  <2>4. project.course # 0 /\ project.course # a
          => pending[project.course] = NoPending
    BY <1>3, <1>5, <2>1 DEF CourseInv
  <2> QED BY <1>3, <1>5, <2>1, <2>2, <2>3, <2>4 DEF CourseInv
<1>6. ASSUME NEW caller \in Callers, NEW a \in ApprovalIds,
             Reject(caller, a) \/ ApproveCommand(caller, a)
               \/ ApproveContract(caller, a) \/ ApproveCourseChange(caller, a)
      PROVE  CourseInv'
  <2>1. PICK d \in {"approve", "reject"} : Resolving(caller, a, d) /\ Pop(a, d)
    BY <1>6 DEF Reject, ApproveCommand, ApproveContract, ApproveCourseChange
  <2> QED BY <1>5, <2>1
<1>7. CASE Acknowledge
  BY <1>1, <1>7, CourseKept DEF Acknowledge, durable
<1> QED BY <1>2, <1>4, <1>6, <1>7 DEF DecisionStep

LEMMA HolderStepCourse ==
  ASSUME CourseInv, IndTypes, IndTypes', CommandStep \/ CheckpointStep
  PROVE  CourseInv'
<1> USE DEF CommandStep, BlockCommand, RequestApproval, SelectCommand,
            CreateCheckpoint, CheckpointFails, StartCommand, FinishCommand,
            ReportResults, AwaitModel, Running, NoStoreChange,
            CheckpointStep, RequestCheckpoint, RefuseCheckpoint, AcceptCheckpoint,
            BeginRollback, ClaimCheckpoint, PersistRollbackContext, BeginRestore,
            EndRestore, RecordGitReview, CompleteRollback, FinishRollback,
            RestoreRaises, FailRollback, RequireReview, RollbackRaises,
            RollingBackAt, durable
<1>1. project' = project
  OBVIOUS
<1>2. \/ UNCHANGED <<approvals, pending>>
      \/ \E r, k : RequestDecision(r, k)
  OBVIOUS
<1>3. \/ want'["main"] = want["main"]
      \/ want["main"].for \in {"nothing", "checkpoint_accept", "checkpoint_rollback"}
  <2>1. CASE CommandStep
    BY <2>1
  <2>2. CASE \E c \in CheckpointIds :
               \/ \E type \in {"checkpoint_accept", "checkpoint_rollback"} :
                    RequestCheckpoint(type, c) \/ RefuseCheckpoint(type, c)
               \/ AcceptCheckpoint(c) \/ BeginRollback(c)
    BY ONLY <2>2 DEF RequestCheckpoint, RefuseCheckpoint, AcceptCheckpoint,
                     BeginRollback, Requested, ForCheckpoint, Nothing
  <2>3. CASE \/ ClaimCheckpoint \/ PersistRollbackContext \/ BeginRestore
             \/ EndRestore \/ RecordGitReview \/ CompleteRollback
             \/ FinishRollback \/ RestoreRaises \/ FailRollback
             \/ RequireReview \/ RollbackRaises
    BY <2>3
  <2> QED BY ONLY <2>1, <2>2, <2>3, CommandStep \/ CheckpointStep DEF CheckpointStep
<1>4. /\ approvals \in
           [ApprovalIds -> {"absent", "pending", "approve", "reject", "expired"}]
      /\ pending \in [ApprovalIds -> Continuations]
  BY DEF IndTypes, TypeOK
<1>5. \A a \in ApprovalIds :
        approvals[a] # "absent" =>
          approvals'[a] = approvals[a] /\ pending'[a] = pending[a]
  BY ONLY <1>2, <1>4 DEF RequestDecision
<1>6. \/ want'["main"] = want["main"]
      \/ \A d \in ApprovalIds : want["main"] # Deciding(d, "approve")
  BY ONLY <1>3 DEF Deciding
<1> QED BY <1>1, <1>5, <1>6, CourseKept

LEMMA RecoveryStepCourse ==
  ASSUME CourseInv, IndTypes, IndTypes', RecoveryStep
  PROVE  CourseInv'
<1> USE DEF RecoveryStep, Restart, AnswerReview, NothingToReview, ResolveRecovery,
            ExpireApprovals, FinishReview, durable
<1>1. project' = project
  OBVIOUS
<1>2. \A a \in ApprovalIds :
        /\ approvals[a] \notin {"absent", "reject"}
             => approvals'[a] \notin {"absent", "reject"}
        /\ pending'[a] \in {pending[a], NoPending}
  OBVIOUS
<1>3. \/ want'["main"] = want["main"]
      \/ want["main"].for \in {"nothing", "recovery"}
      \/ \A a \in ApprovalIds : pending'[a] = NoPending
  BY DEF Nothing, Answering
<1>4. \/ want'["main"] = want["main"]
      \/ \A d \in ApprovalIds : want["main"] # Deciding(d, "approve")
      \/ \A a \in ApprovalIds : pending'[a] = NoPending
  BY ONLY <1>3 DEF Deciding
<1> QED BY <1>1, <1>2, <1>4, CourseKept

\* Everything proved of a host without Telegram.
Supervised == Ledger /\ GateInv /\ CourseInv

LEMMA InitSupervised == Init => Supervised
BY InitLedger, InitGate DEF Supervised, Gate, Init, CourseInv

LEMMA NextSupervised ==
  ASSUME ~TelegramEnabled, ~FileFaults, Supervised, [Next]_vars
  PROVE  Supervised'
<1>1. Ledger' /\ GateInv' /\ IndTypes /\ IndTypes'
  BY NextLedger, NextGate DEF Supervised, Ledger, Gate, ReviewInv
<1>2. CASE UNCHANGED vars
  BY <1>1, <1>2 DEF vars, Supervised, CourseInv
<1>3. CASE Next
  BY <1>1, <1>3, MainStepCourse, ResponseStepCourse, DecisionStepCourse,
     HolderStepCourse, RecoveryStepCourse DEF Next, Supervised
<1> QED BY <1>2, <1>3

\* Without Telegram, and while the project's files can be written, the course
\* change on disk was never rejected, although it is written before the decision
\* is taken under the lock.
THEOREM RejectedCourseNeverApplied ==
  ASSUME ~TelegramEnabled, ~FileFaults
  PROVE  Spec => []RejectedCourseIsNotApplied
<1>1. Supervised => RejectedCourseIsNotApplied
  BY HostAssumption
  DEF Supervised, CourseInv, RejectedCourseIsNotApplied, ApprovalIds
<1>2. Supervised /\ [Next]_vars => Supervised'
  BY NextSupervised
<1> QED BY <1>1, <1>2, InitSupervised, PTL DEF Spec

-----------------------------------------------------------------------------
\* Where a rollback is unresolved, when SQLite does not fail inside one: at
\* the step that performs it, or in the review a restart has opened for it.
Unresolved ==
  IF step \in Rolling THEN {job.ckpt}
  ELSE IF InReview /\ step = "none" THEN {run.ctx}
  ELSE {}

\* A review that a restart has opened: nothing the host did before it crashed
\* is left in memory, and only the human's answer may be on its way.
EmptyReview ==
  /\ InReview /\ step = "none"
  /\ \A a \in ApprovalIds : pending[a] = NoPending
  /\ \A w \in Workers : worker[w] = IdleWorker
  /\ want["main"].for \in {"nothing", "recovery"} /\ timers = 0

RowInv ==
  /\ RollingBack(ckpt) \subseteq Unresolved
  /\ RollingBack(ckpt) # {} => step \in Rolling \/ EmptyReview

\* Threads that are not inside a rollback or an answer to a review.
LEMMA OtherLocks ==
  ASSUME Ledger, MainStep \/ ResponseStep \/ DecisionStep
  PROVE  KeepLock \/ (step \notin MainSteps /\ step' \notin MainSteps)
<1>1. LockFree => step = "none"
  BY DEF LockFree, Ledger, ReviewInv, LockInv
<1>2. CASE MainStep
  BY <1>2
  DEF MainStep, OnlyRun, durable, Inform, Pause, Resume, ResetSession, SetConfig, ControllerPromptRaises,
      ProviderSafetySignal, EmptyRequest, BuildStartPrompt, BuildControllerPrompt,
      ChangeCourse, FinishProject, PromptBuilder, AssistantResponse, ChatSendAck,
      DispatchFromMain, FireTimer, TurnAges
<1>3. CASE ResponseStep
  <2>1. ASSUME NEW w \in Workers, ExecuteContract(w)
        PROVE  step \notin MainSteps /\ step' \notin MainSteps
    BY <1>1, <2>1 DEF ExecuteContract, ReadsContract, Responding, Take, MainSteps,
                      RollbackSteps, ReviewSteps
  <2>2. ASSUME DownloadArrives \/ DownloadEndsContract \/ DownloadFails
        PROVE  step \notin MainSteps /\ step' \notin MainSteps
    BY <2>2 DEF DownloadArrives, DownloadEndsContract, DownloadFails, GoTo, Release,
                MainSteps, RollbackSteps, ReviewSteps
  <2>3. ASSUME NEW w \in Workers,
               \/ ReadLifecycle(w) \/ CommitProject(w) \/ HoldResponse(w)
               \/ PlanResponse(w) \/ ReviewResponse(w) \/ DoneResponse(w)
               \/ StopResponse(w) \/ ProtocolFailure(w) \/ DecisionResponse(w)
               \/ RefuseContract(w) \/ ResponseFails(w)
               \/ CheckProject(w)
        PROVE  KeepLock
    BY <2>3 DEF ReadLifecycle, CommitProject, HoldResponse, PlanResponse,
                ReviewResponse, DoneResponse, StopResponse, ProtocolFailure,
                DecisionResponse, RefuseContract, ResponseFails, CheckProject, Quietly
  <2> QED BY <1>3, <2>1, <2>2, <2>3 DEF ResponseStep
<1>4. CASE DecisionStep
  BY <1>1, <1>4
  DEF DecisionStep, DecideInBrowser, DecideInTelegram, Decide, CourseChangeRaises, AlreadyDecided,
      Reject, ApproveCommand, ApproveContract, ApproveCourseChange, Acknowledge,
      Resolving, Take, Release, MainSteps, RollbackSteps, ReviewSteps
<1> QED BY <1>2, <1>3, <1>4

\* In such a review the host only informs, counts and hears late decisions.
LEMMA ReviewStaysEmpty ==
  ASSUME Ledger, EmptyReview, MainStep \/ ResponseStep \/ DecisionStep
  PROVE  EmptyReview' /\ run'.ctx = run.ctx /\ UNCHANGED ckpt
<1> USE DEF EmptyReview, InReview
<1>1. /\ want \in [Callers -> Wants] /\ run \in Run
      /\ \A w \in Workers : worker[w].stage = "idle"
  BY DEF Ledger, ReviewInv, IndTypes, TypeOK, IdleWorker
<1>2. CASE MainStep
  <2>1. Inform \/ TurnAges
    <3>1. /\ run.lifecycle = "recovery_required" /\ timers = 0
          /\ want["main"] # ToPrompt
      BY DEF ToPrompt
    <3> QED
      BY <1>2, <3>1
      DEF MainStep, Pause, Resume, ResetSession, SetConfig, ControllerPromptRaises, ProviderSafetySignal, EmptyRequest,
          BuildStartPrompt, BuildControllerPrompt, ChangeCourse, FinishProject,
          AssistantResponse, ChatSendAck, DispatchFromMain, FireTimer, Received
  <2>2. /\ UNCHANGED <<ckpt, pending, worker, want, timers, step>>
        /\ run' \in {run, OneOlder(run)}
    BY <2>1 DEF Inform, TurnAges, NoPrompt, OnlyRun, durable, KeepLock, Publish
  <2> QED BY <1>1, <2>2, OlderRow
<1>3. CASE ResponseStep
  <2>1. FALSE
    BY <1>1, <1>3
    DEF ResponseStep, ReadLifecycle, CommitProject, HoldResponse, PlanResponse,
        ReviewResponse, DoneResponse, StopResponse, ProtocolFailure,
        DecisionResponse, RefuseContract, ExecuteContract, ResponseFails, CheckProject,
        ReadsContract, Responding, DownloadArrives, DownloadEndsContract,
        DownloadFails
  <2> QED BY <2>1
<1>4. CASE DecisionStep
  <2>1. ASSUME NEW a \in ApprovalIds, NEW d \in {"approve", "reject"},
               \/ DecideInTelegram(a, d)
               \/ \E caller \in Callers : AlreadyDecided(caller, a, d)
        PROVE  EmptyReview' /\ run'.ctx = run.ctx /\ UNCHANGED ckpt
    <3>1. /\ UNCHANGED <<run, ckpt, pending, worker, timers, step>>
          /\ want'["main"] = want["main"]
      BY <1>1, <2>1 DEF DecideInTelegram, Decide, CourseChangeRaises, AlreadyDecided,
                        Resolving, Deciding, KeepLock, Callers, NoPending
    <3> QED BY <3>1
  <2>2. ~Acknowledge /\ \A a \in ApprovalIds, d \in {"approve", "reject"} :
          ~DecideInBrowser(a, d) /\ ~Pop(a, d)
    BY DEF Acknowledge, DecideInBrowser, BrowserDecides, Pop
  <2> QED BY <1>4, <2>1, <2>2
          DEF DecisionStep, Reject, ApproveCommand, ApproveContract,
              ApproveCourseChange
<1> QED BY <1>2, <1>3, <1>4

LEMMA OutsideRows ==
  ASSUME Ledger, RowInv, MainStep \/ ResponseStep \/ DecisionStep
  PROVE  RowInv'
<1>1. ckpt' = ckpt
  BY OtherSteps
<1>2. CASE EmptyReview
  <2>1. EmptyReview' /\ run'.ctx = run.ctx
    BY <1>2, ReviewStaysEmpty
  <2> QED BY <1>1, <1>2, <2>1 DEF RowInv, RollingBack, Unresolved, EmptyReview, Rolling
<1>3. CASE step \in Rolling
  <2>1. KeepLock
    BY <1>3, OtherLocks DEF Rolling, MainSteps, RollbackSteps
  <2> QED BY <1>1, <1>3, <2>1 DEF RowInv, RollingBack, Unresolved, KeepLock
<1>4. CASE RollingBack(ckpt) = {}
  BY <1>1, <1>4 DEF RowInv, RollingBack
<1> QED BY <1>2, <1>3, <1>4 DEF RowInv

LEMMA CommandRows ==
  ASSUME Ledger, RowInv, CommandStep
  PROVE  RowInv'
<1>1. /\ step \in CommandSteps
      /\ \A c \in CheckpointIds : ckpt'[c] = ckpt[c] \/ ckpt'[c] = "ready"
  <2>1. ckpt \in CheckpointTables
    BY DEF Ledger, ReviewInv, IndTypes, TypeOK
  <2> QED
    BY <2>1
    DEF CommandStep, BlockCommand, RequestApproval, SelectCommand, CreateCheckpoint,
        CheckpointFails, StartCommand, FinishCommand, ReportResults, AwaitModel,
        Running, NoStoreChange, PutCheckpoint, CheckpointTables, CommandSteps
<1>2. Unresolved = {}
  BY <1>1 DEF Unresolved, CommandSteps, Rolling
<1> QED BY <1>1, <1>2 DEF RowInv, RollingBack

LEMMA CheckpointRows ==
  ASSUME ~StoreFaults, Ledger, RowInv, CheckpointStep
  PROVE  RowInv'
<1>0. /\ ckpt \in CheckpointTables
      /\ step \in RollbackSteps => job.ckpt \in CheckpointIds
      /\ run \in Run
  BY DEF Ledger, ReviewInv, IndTypes, TypeOK
<1>1. CASE \E c \in CheckpointIds : AcceptCheckpoint(c) \/ BeginRollback(c)
  <2>1. /\ step = "none"
        /\ want["main"].for \in {"checkpoint_accept", "checkpoint_rollback"}
    BY <1>1 DEF AcceptCheckpoint, BeginRollback, Requested, ForCheckpoint, LockFree,
                Ledger, ReviewInv, LockInv
  <2>2. RollingBack(ckpt) = {}
    BY <2>1 DEF RowInv, EmptyReview, Rolling
  <2>3. \A c \in CheckpointIds : ckpt'[c] \in {ckpt[c], "accepted"}
    BY <1>0, <1>1 DEF AcceptCheckpoint, BeginRollback, Transitioned, durable,
                      CheckpointTables
  <2> QED BY <2>2, <2>3 DEF RowInv, RollingBack
\* A step of the rollback works on its own row, and settles it on the way out.
<1>2. ASSUME step \in RollbackSteps, NEW s, GoTo(s),
             s \in Rolling \/ ckpt'[job.ckpt] # "rolling_back",
             \A c \in CheckpointIds : c # job.ckpt => ckpt'[c] = ckpt[c]
      PROVE  RowInv'
  <2>1. RollingBack(ckpt) \subseteq {job.ckpt}
    BY <1>2 DEF RowInv, Unresolved, RollbackSteps
  <2>2. RollingBack(ckpt') \subseteq {job.ckpt}
    BY <2>1, <1>2 DEF RollingBack
  <2>3. s \notin Rolling => RollingBack(ckpt') = {}
    BY <2>2, <1>2 DEF RollingBack
  <2> QED BY <1>2, <2>2, <2>3 DEF RowInv, Unresolved, GoTo
<1>3. CASE ClaimCheckpoint \/ PersistRollbackContext \/ BeginRestore \/ EndRestore
             \/ RecordGitReview \/ CompleteRollback \/ RestoreRaises \/ FailRollback
  <2>1. step \in RollbackSteps
    BY <1>3 DEF ClaimCheckpoint, PersistRollbackContext, BeginRestore, EndRestore,
                RecordGitReview, CompleteRollback, RestoreRaises, FailRollback,
                RollingBackAt, RollbackSteps
  <2>2. job.ckpt \in CheckpointIds
    BY <1>0, <2>1
  <2>3. \A c \in CheckpointIds : c # job.ckpt => ckpt'[c] = ckpt[c]
    BY <1>0, <1>3 DEF ClaimCheckpoint, PersistRollbackContext, BeginRestore,
                EndRestore, RecordGitReview, CompleteRollback, RestoreRaises,
                FailRollback, Moves, Transitioned, PutCheckpoint, CheckpointTables
  <2>4. CASE CompleteRollback \/ FailRollback
    <3>1. ckpt'[job.ckpt] # "rolling_back"
      BY <1>0, <2>2, <2>4 DEF CompleteRollback, FailRollback, Moves, Transitioned,
                              CanTransition, CheckpointTables
    <3> QED BY <1>2, <2>1, <2>3, <2>4, <3>1 DEF CompleteRollback, FailRollback
  <2>5. CASE ClaimCheckpoint \/ PersistRollbackContext \/ BeginRestore \/ EndRestore
               \/ RecordGitReview \/ RestoreRaises
    <3>1. PICK s \in Rolling : GoTo(s)
      BY <2>5 DEF ClaimCheckpoint, PersistRollbackContext, BeginRestore, EndRestore,
                  RecordGitReview, RestoreRaises, Rolling
    <3> QED BY <1>2, <2>1, <2>3, <3>1
  <2> QED BY <1>3, <2>4, <2>5
<1>4. CASE FinishRollback \/ RequireReview
  <2>1. step \in {"finish", "failed"} /\ ckpt' = ckpt
    BY <1>4 DEF FinishRollback, RequireReview, RollingBackAt
  <2>2. RollingBack(ckpt) = {}
    BY <2>1 DEF RowInv, Unresolved, Rolling
  <2> QED BY <2>1, <2>2 DEF RowInv, RollingBack
\* Asking for the lock, or being refused under it.
<1>5. ASSUME NEW c \in CheckpointIds,
             NEW type \in {"checkpoint_accept", "checkpoint_rollback"},
             RequestCheckpoint(type, c) \/ RefuseCheckpoint(type, c)
      PROVE  RowInv'
  <2>1. /\ KeepLock /\ ckpt' = ckpt
        /\ ~InReview \/ want["main"].for = type
    BY <1>5 DEF RequestCheckpoint, RefuseCheckpoint, Requested, ForCheckpoint,
                InReview, durable
  <2>2. ~EmptyReview
    BY <2>1 DEF EmptyReview
  <2>3. RollingBack(ckpt) # {} => step \in Rolling
    BY <2>2 DEF RowInv
  <2> QED BY <2>1, <2>3 DEF RowInv, RollingBack, Unresolved, KeepLock
<1> QED BY <1>1, <1>3, <1>4, <1>5 DEF CheckpointStep, RollbackRaises

\* A restart reads the one unfinished row back and opens the review for it;
\* the human's answer invalidates that row.
LEMMA RecoveryRows ==
  ASSUME Ledger, RowInv, RecoveryStep
  PROVE  RowInv'
<1>0. /\ ckpt \in CheckpointTables /\ disk \in Run \union {NoRow} /\ TypeOK
  BY DEF Ledger, ReviewInv, IndTypes, TypeOK
<1>1. CASE Restart
  <2>1. PICK x : RollingBack(ckpt) \subseteq {x}
    BY DEF RowInv, Unresolved
  <2>2. CASE RollingBack(ckpt) = {}
    BY <1>1, <2>2 DEF Restart, durable, RowInv, RollingBack
  <2>3. CASE RollingBack(ckpt) = {x}
    <3>1. IsLatestRollingBack(ckpt, StoreContext)
      BY <1>0, LatestRollingBackExists DEF StoreContext
    <3>2. StoreContext = x /\ x \in CheckpointIds
      BY <2>3, <3>1 DEF IsLatestRollingBack, RollingBack
    <3>3. x # NoCheckpoint
      BY <3>2, MaxCheckpointsAssumption DEF CheckpointIds, NoCheckpoint
    <3>4. NeedsReview /\ RestoredContext = x
      BY <3>2, <3>3 DEF NeedsReview, RestoredContext
    <3>5. Snapshot \in Run
      <4>1. InitRun \in Run
        BY DEF InitRun, Run, Lifecycles, PassiveLifecycles, Statuses,
               PassiveStatuses
      <4>2. [InitRun EXCEPT !.lifecycle = "recovering", !.status = "recovering",
               !.paused = TRUE, !.ctx = StoreContext] \in Run
        BY <3>2, <4>1 DEF Run, Lifecycles, RECOVERY_LIFECYCLES, Statuses,
                          RECOVERY_STATUSES
      <4> QED BY <1>0, <4>1, <4>2 DEF Snapshot
    <3>6. RestoredRun.lifecycle = "recovery_required" /\ RestoredRun.ctx = x
      <4>1. OwnBudget \in Run
        BY <3>5 DEF OwnBudget, Fresh, Run
      <4> QED BY <3>3, <3>4, <3>2, <4>1 DEF RestoredRun, Run
    <3>7. EmptyReview' /\ run'.ctx = x
      <4> HIDE DEF RestoredRun
      <4> QED BY <1>1, <3>6 DEF Restart, EmptyReview, InReview, Callers, Nothing
    <3>8. RollingBack(ckpt') = {x}
      BY <1>1, <2>3 DEF Restart, durable
    <3> QED
      BY <3>7, <3>8 DEF RowInv, Unresolved, EmptyReview, Rolling
  <2> QED BY <2>1, <2>2, <2>3
<1>2. CASE \E d \in {"prepare", "discard"} : ResolveRecovery(d)
  <2>1. InReview /\ step = "none"
    BY <1>2 DEF ResolveRecovery, InReview, Take, LockFree, Ledger,
                ReviewInv, LockInv
  <2>2. RollingBack(ckpt) \subseteq {run.ctx}
    BY <2>1 DEF RowInv, Unresolved, Rolling
  <2>3. RollingBack(ckpt') = {}
    BY <1>0, <1>2, <2>2, MaxCheckpointsAssumption
    DEF ResolveRecovery, Transitioned, CanTransition, CHECKPOINT_TRANSITIONS,
        CHECKPOINT_STATUSES, RollingBack, CheckpointTables, CheckpointIds,
        NoCheckpoint
  <2> QED BY <2>3 DEF RowInv
<1>3. CASE ExpireApprovals \/ FinishReview
  <2>1. step \in ReviewSteps /\ ckpt' = ckpt
    BY <1>3 DEF ExpireApprovals, FinishReview, ReviewSteps, durable
  <2>2. RollingBack(ckpt) = {}
    BY <2>1 DEF RowInv, Unresolved, Rolling, ReviewSteps
  <2> QED BY <2>1, <2>2 DEF RowInv, RollingBack
<1>4. CASE \E d \in {"prepare", "discard"} : AnswerReview(d)
  <2>1. /\ KeepLock /\ UNCHANGED <<run, ckpt, pending, worker, timers>>
        /\ want'["main"].for = "recovery"
    BY <1>0, <1>4 DEF AnswerReview, Answering, durable, TypeOK, Callers
  <2> QED BY <2>1 DEF RowInv, RollingBack, Unresolved, EmptyReview, InReview, KeepLock
<1>5. CASE \E d \in {"prepare", "discard"} : NothingToReview(d)
  <2>1. step = "none" /\ ~InReview /\ ckpt' = ckpt
    BY <1>5 DEF NothingToReview, InReview, LockFree, durable, Ledger, ReviewInv,
                LockInv
  <2>2. RollingBack(ckpt) = {}
    BY <2>1 DEF RowInv, EmptyReview, Rolling
  <2> QED BY <2>1, <2>2 DEF RowInv, RollingBack
<1> QED BY <1>1, <1>2, <1>3, <1>4, <1>5 DEF RecoveryStep

-----------------------------------------------------------------------------
Kept == Ledger /\ RowInv

LEMMA NextKept ==
  ASSUME ~StoreFaults, Kept, [Next]_vars
  PROVE  Kept'
<1>1. Ledger'
  BY NextLedger DEF Kept
<1>2. CASE UNCHANGED vars
  BY <1>1, <1>2 DEF vars, Kept, RowInv, RollingBack, Unresolved, InReview, EmptyReview
<1>3. CASE Next
  BY <1>1, <1>3, OutsideRows, CommandRows, CheckpointRows, RecoveryRows
  DEF Next, Kept
<1> QED BY <1>2, <1>3

\* A step that writes no row, no archive and no file is a stutter.
LEMMA OtherStepsStutter ==
  ASSUME MainStep \/ ResponseStep \/ DecisionStep
  PROVE  UNCHANGED <<ckpt, image, ws>>
BY DEF MainStep, OnlyRun, durable, Inform, Pause, Resume, ResetSession, SetConfig, ControllerPromptRaises,
       ProviderSafetySignal, EmptyRequest, BuildStartPrompt, BuildControllerPrompt,
       ChangeCourse, FinishProject, PromptBuilder, AssistantResponse, ChatSendAck,
       DispatchFromMain, FireTimer, TurnAges,
       ResponseStep, ReadLifecycle, CommitProject, HoldResponse, PlanResponse,
       ReviewResponse, DoneResponse, StopResponse, ProtocolFailure, DecisionResponse,
       RefuseContract, ExecuteContract, ResponseFails, CheckProject, Quietly, NoCommit,
       DownloadArrives, DownloadEndsContract, DownloadFails,
       DecisionStep, DecideInBrowser, DecideInTelegram, Decide, CourseChangeRaises, Resolving,
       AlreadyDecided, Reject, ApproveCommand, ApproveContract,
       ApproveCourseChange, Acknowledge

LEMMA StepKeepsPromise ==
  ASSUME Kept, Next
  PROVE  Promise!PromiseNext \/ UNCHANGED <<ckpt, image, ws>>
<1>0. /\ ckpt \in CheckpointTables
      /\ image \in [CheckpointIds -> Contents \union {Mixed}]
      /\ ws \in Contents \union {Mixed}
      /\ step \in RollbackSteps => job.ckpt \in CheckpointIds
  BY DEF Kept, Ledger, ReviewInv, IndTypes, TypeOK
<1>1. CASE MainStep \/ ResponseStep \/ DecisionStep
  BY <1>1, OtherStepsStutter
<1> USE DEF Promise!CheckpointIds, CheckpointIds
<1>2. ASSUME step \notin Rolling, ~(InReview /\ step = "none")
      PROVE  Promise!RollingBack(ckpt) = {}
  BY <1>2 DEF Kept, RowInv, RollingBack, Unresolved, Promise!RollingBack
<1>3. CASE CommandStep
  <2>1. CASE StartCommand
    <3>1. step = "start" /\ ws' \in Contents \union {ws} /\ UNCHANGED <<ckpt, image>>
      BY <2>1 DEF StartCommand, Running
    <3>2. Promise!RollingBack(ckpt) = {}
      BY <1>2, <3>1 DEF Rolling
    <3>3. CASE ws' \in Contents
      <4>1. Promise!Work
        BY <3>1, <3>2, <3>3 DEF Promise!Work
      <4> QED BY <4>1 DEF Promise!PromiseNext
    <3> QED BY <3>1, <3>3
  <2>2. CASE CreateCheckpoint
    <3>1. PICK c \in CheckpointIds :
            /\ IsNextCheckpoint(ckpt, c)
            /\ ckpt' = [ckpt EXCEPT ![c] = "ready"]
            /\ image' = [image EXCEPT ![c] = ws] /\ ws' = ws
      BY <2>2 DEF CreateCheckpoint, PutCheckpoint
    <3>2. Promise!Capture(c)
      BY <3>1 DEF Promise!Capture, Promise!IsNextCheckpoint, IsNextCheckpoint,
                  Promise!Becomes
    <3> QED BY <3>2 DEF Promise!PromiseNext
  <2>3. CASE ~StartCommand /\ ~CreateCheckpoint
    BY <1>3, <2>3
    DEF CommandStep, BlockCommand, RequestApproval, SelectCommand, CheckpointFails,
        FinishCommand, ReportResults, AwaitModel, NoStoreChange
  <2> QED BY <2>1, <2>2, <2>3
<1>4. CASE CheckpointStep
  <2>1. ASSUME NEW c \in CheckpointIds, AcceptCheckpoint(c)
        PROVE  Promise!PromiseNext
    <3>1. Promise!Answer(c)
      BY <2>1 DEF AcceptCheckpoint, CanTransition, Transitioned, Promise!Answer,
                  Promise!Becomes
    <3> QED BY <3>1 DEF Promise!PromiseNext
  <2>2. ASSUME ClaimCheckpoint PROVE Promise!PromiseNext
    <3>1. /\ step = "claim" /\ job.ckpt \in CheckpointIds
          /\ ckpt[job.ckpt] = "ready" /\ UNCHANGED <<image, ws>>
          /\ ckpt' = [ckpt EXCEPT ![job.ckpt] = "rolling_back"]
      BY <1>0, <2>2 DEF ClaimCheckpoint, RollingBackAt, Moves, CanTransition,
                        Transitioned, RollbackSteps
    <3>2. Promise!RollingBack(ckpt) = {}
      BY <1>2, <3>1 DEF Rolling
    <3>3. Promise!Answer(job.ckpt)
      BY <3>1, <3>2 DEF Promise!Answer, Promise!Becomes
    <3> QED BY <3>1, <3>3 DEF Promise!PromiseNext
  <2>3. ASSUME BeginRestore \/ EndRestore PROVE Promise!PromiseNext
    <3>1. /\ step \in Rolling /\ job.ckpt \in CheckpointIds
          /\ ws' \in {image[job.ckpt], Mixed} /\ UNCHANGED <<ckpt, image>>
      BY <1>0, <2>3 DEF BeginRestore, EndRestore, RollingBackAt, RollbackSteps, Rolling
    <3>2. ckpt[job.ckpt] = "rolling_back"
      BY <3>1 DEF Kept, Ledger, LedgerInv, RollbackIsClaimed
    <3>3. Promise!Restore(job.ckpt)
      BY <3>1, <3>2 DEF Promise!Restore
    <3> QED BY <3>1, <3>3 DEF Promise!PromiseNext
  <2>4. ASSUME CompleteRollback PROVE Promise!PromiseNext
    <3>1. /\ step = "complete" /\ job.ckpt \in CheckpointIds
          /\ ckpt[job.ckpt] = "rolling_back" /\ UNCHANGED <<image, ws>>
          /\ ckpt' = [ckpt EXCEPT ![job.ckpt] = "rolled_back"]
      BY <1>0, <2>4 DEF CompleteRollback, RollingBackAt, Moves, CanTransition,
                        Transitioned, RollbackSteps
    <3>2. ws = image[job.ckpt]
      BY <3>1 DEF Kept, Ledger, LedgerInv, RollbackIsClaimed
    <3>3. Promise!Settle(job.ckpt)
      BY <3>1, <3>2 DEF Promise!Settle, Promise!Becomes
    <3> QED BY <3>1, <3>3 DEF Promise!PromiseNext
  <2>5. ASSUME FailRollback PROVE Promise!PromiseNext \/ UNCHANGED <<ckpt, image, ws>>
    <3>1. /\ job.ckpt \in CheckpointIds /\ UNCHANGED <<image, ws>>
          /\ \/ ckpt' = ckpt
             \/ /\ ckpt[job.ckpt] = "rolling_back"
                /\ ckpt' = [ckpt EXCEPT ![job.ckpt] = "rollback_failed"]
      BY <1>0, <2>5 DEF FailRollback, RollingBackAt, Moves, CanTransition,
                        Transitioned, RollbackSteps
    <3>2. Promise!Settle(job.ckpt) \/ ckpt' = ckpt
      BY <3>1 DEF Promise!Settle, Promise!Becomes
    <3> QED BY <3>1, <3>2 DEF Promise!PromiseNext
  \* The upsert of the Git evidence writes the status the row already has.
  <2>6. ASSUME RecordGitReview PROVE UNCHANGED <<ckpt, image, ws>>
    <3>1. /\ step \in Rolling /\ job.ckpt \in CheckpointIds /\ UNCHANGED <<image, ws>>
          /\ ckpt' = [ckpt EXCEPT ![job.ckpt] = "rolling_back"]
      BY <1>0, <2>6 DEF RecordGitReview, RollingBackAt, PutCheckpoint, RollbackSteps,
                        Rolling
    <3>2. ckpt[job.ckpt] = "rolling_back"
      BY <3>1 DEF Kept, Ledger, LedgerInv, RollbackIsClaimed
    <3> QED BY <1>0, <3>1, <3>2 DEF CheckpointTables
  <2>7. ASSUME \/ \E c \in CheckpointIds :
                    \/ BeginRollback(c)
                    \/ \E type \in {"checkpoint_accept", "checkpoint_rollback"} :
                         RequestCheckpoint(type, c) \/ RefuseCheckpoint(type, c)
               \/ PersistRollbackContext \/ FinishRollback \/ RestoreRaises
               \/ RequireReview \/ RollbackRaises
        PROVE  UNCHANGED <<ckpt, image, ws>>
    BY <2>7 DEF RequestCheckpoint, RefuseCheckpoint, BeginRollback,
                PersistRollbackContext, FinishRollback, RestoreRaises, RequireReview,
                RollbackRaises, durable
  <2> QED BY <1>4, <2>1, <2>2, <2>3, <2>4, <2>5, <2>6, <2>7 DEF CheckpointStep
<1>5. CASE RecoveryStep
  <2>1. CASE \E d \in {"prepare", "discard"} : ResolveRecovery(d)
    <3>1. \/ ckpt' = ckpt
          \/ /\ run.ctx \in CheckpointIds /\ ckpt[run.ctx] = "rolling_back"
             /\ ckpt' = [ckpt EXCEPT ![run.ctx] = "invalid"]
      <4>1. run.ctx \in CheckpointIds \union {NoCheckpoint}
        BY DEF Kept, Ledger, ReviewInv, IndTypes, TypeOK, Run
      <4> QED BY <2>1, <4>1 DEF ResolveRecovery, Transitioned, CanTransition
    <3>2. UNCHANGED <<image, ws>>
      BY <2>1 DEF ResolveRecovery
    <3>3. Promise!Settle(run.ctx) \/ ckpt' = ckpt
      BY <3>1, <3>2 DEF Promise!Settle, Promise!Becomes
    <3> QED BY <3>1, <3>2, <3>3 DEF Promise!PromiseNext
  <2>2. CASE \/ Restart \/ ExpireApprovals \/ FinishReview
             \/ \E d \in {"prepare", "discard"} : AnswerReview(d) \/ NothingToReview(d)
    BY <2>2 DEF Restart, AnswerReview, NothingToReview, ExpireApprovals, FinishReview,
                durable
  <2> QED BY <1>5, <2>1, <2>2 DEF RecoveryStep
<1> QED BY <1>1, <1>3, <1>4, <1>5 DEF Next

\* When SQLite does not fail inside a rollback the host keeps the promise made
\* about checkpoints, with Telegram or without: every step writes a row, an
\* archive or the files as CheckpointPromise lets it, or writes none.
THEOREM HostKeepsCheckpointPromise ==
  ASSUME ~StoreFaults
  PROVE  Spec => CheckpointPromiseKept
<1>1. Init => Promise!PromiseInit
  BY DEF Init, Promise!PromiseInit, EmptyTable, Promise!EmptyTable, CheckpointIds,
         Promise!CheckpointIds
<1>2. Init => Kept
  BY InitLedger DEF Kept, RowInv, RollingBack, Init, EmptyTable
<1>3. Kept /\ [Next]_vars => Kept'
  BY NextKept
<1>4. Kept /\ [Next]_vars => [Promise!PromiseNext]_<<ckpt, image, ws>>
  BY StepKeepsPromise DEF vars
<1>5. [][Promise!PromiseNext]_<<ckpt, image, ws>>
        => [][Promise!PromiseNext]_Promise!promiseVars
  BY DEF Promise!promiseVars
<1> QED BY <1>1, <1>2, <1>3, <1>4, <1>5, PTL
        DEF Spec, CheckpointPromiseKept, Promise!PromiseSpec

-----------------------------------------------------------------------------
\* What the human has not answered yet changes nothing.
Untouched == ws' = ws /\ project'.course = project.course /\ ~TurnSent

LEMMA NoTurnSent ==
  ASSUME run \in Run, run' \in Run, run'.turns <= run.turns
  PROVE  ~TurnSent
BY RunFields DEF TurnSent

LEMMA EmptyReviewStep ==
  ASSUME Ledger, EmptyReview, [Next]_vars
  PROVE  Untouched /\ (EmptyReview' \/ step' = "expire")
<1>1. /\ TypeOK /\ run.lifecycle = "recovery_required" /\ step = "none"
      /\ \A a \in ApprovalIds : pending[a] = NoPending
      /\ want["main"].for \in {"nothing", "recovery"} /\ timers = 0
      /\ \A w \in Workers : worker[w].stage = "idle"
  BY DEF EmptyReview, InReview, Ledger, ReviewInv, IndTypes, IdleWorker
<1>10. run \in Run /\ run' \in Run /\ run.turns \in Nat
  BY NextLedger, RunFields DEF Ledger, ReviewInv, IndTypes, TypeOK
<1>2. CASE MainStep
  <2>1. Inform \/ TurnAges
    BY <1>1, <1>2
    DEF MainStep, Pause, Resume, ResetSession, SetConfig, ControllerPromptRaises,
        ProviderSafetySignal, EmptyRequest, BuildStartPrompt, BuildControllerPrompt,
        ChangeCourse, FinishProject, AssistantResponse, ChatSendAck,
        DispatchFromMain, FireTimer, Received, ToPrompt
  <2>2. UNCHANGED <<ws, project>> /\ run' \in {run, OneOlder(run)}
    BY <2>1 DEF Inform, TurnAges, OnlyRun, durable, Publish
  <2>3. run'.turns <= run.turns
    BY <1>10, <2>2, OlderRow
  <2> QED BY <1>2, <1>10, <2>2, <2>3, NoTurnSent, ReviewStaysEmpty DEF Untouched
<1>3. CASE ResponseStep
  <2>1. FALSE
    BY <1>1, <1>3
    DEF ResponseStep, ReadLifecycle, CommitProject, HoldResponse, PlanResponse,
        ReviewResponse, DoneResponse, StopResponse, ProtocolFailure,
        DecisionResponse, RefuseContract, ExecuteContract, ResponseFails,
        CheckProject, ReadsContract, Responding, DownloadArrives,
        DownloadEndsContract, DownloadFails
  <2> QED BY <2>1
<1>4. CASE DecisionStep
  <2>1. ASSUME NEW a \in ApprovalIds, NEW d \in {"approve", "reject"},
               \/ DecideInTelegram(a, d)
               \/ \E caller \in Callers : AlreadyDecided(caller, a, d)
        PROVE  UNCHANGED <<ws, project, run>>
    <3>1. pending[a].kind # "course_change"
      BY <1>1 DEF NoPending
    <3> QED BY <2>1, <3>1 DEF DecideInTelegram, Decide, CourseChangeRaises,
                              ApplyCourseChange, AlreadyDecided, Resolving
  <2>2. ~Acknowledge /\ \A a \in ApprovalIds, d \in {"approve", "reject"} :
          ~DecideInBrowser(a, d) /\ ~Pop(a, d)
    BY <1>1 DEF Acknowledge, DecideInBrowser, BrowserDecides, Pop
  <2>3. UNCHANGED <<ws, project, run>>
    BY <1>4, <2>1, <2>2
    DEF DecisionStep, Reject, ApproveCommand, ApproveContract, ApproveCourseChange
  <2> QED BY <1>4, <1>10, <2>3, NoTurnSent, ReviewStaysEmpty DEF Untouched
<1>5. CASE CommandStep \/ CheckpointStep
  <2>2. ASSUME NEW c \in CheckpointIds
        PROVE  /\ ~AcceptCheckpoint(c) /\ ~BeginRollback(c)
               /\ \A type \in {"checkpoint_accept", "checkpoint_rollback"} :
                    ~RequestCheckpoint(type, c) /\ ~RefuseCheckpoint(type, c)
    BY <1>1 DEF RequestCheckpoint, RefuseCheckpoint, AcceptCheckpoint, BeginRollback,
                Requested, ForCheckpoint
  <2>1. FALSE
    BY <1>1, <1>5, <2>2
    DEF CommandStep, BlockCommand, RequestApproval, SelectCommand, CreateCheckpoint,
        CheckpointFails, StartCommand, FinishCommand, ReportResults, AwaitModel,
        Running, CheckpointStep, ClaimCheckpoint, PersistRollbackContext,
        BeginRestore, EndRestore, RecordGitReview, CompleteRollback, FinishRollback,
        RestoreRaises, FailRollback, RequireReview, RollbackRaises, RollingBackAt
  <2> QED BY <2>1
<1>6. CASE Restart
  <2>1. NeedsReview
    BY <1>1 DEF Ledger, ReviewInv, ReviewSurvivesCrash
  <2>2. Snapshot \in Run
    <3>1. StoreContext \in CheckpointIds \union {NoCheckpoint}
      BY <1>1, LatestRollingBackExists DEF StoreContext, TypeOK
    <3>2. InitRun \in Run
      BY DEF InitRun, Run, Lifecycles, PassiveLifecycles, Statuses, PassiveStatuses
    <3>3. [InitRun EXCEPT !.lifecycle = "recovering", !.status = "recovering",
             !.paused = TRUE, !.ctx = StoreContext] \in Run
      BY <3>1, <3>2 DEF Run, Lifecycles, RECOVERY_LIFECYCLES, Statuses,
                        RECOVERY_STATUSES
    <3> QED BY <1>1, <3>2, <3>3 DEF Snapshot, TypeOK
  <2>3. RestoredRun.lifecycle = "recovery_required"
    <3>1. OwnBudget \in Run
      BY <2>2 DEF OwnBudget, Fresh, Run
    <3> QED BY <2>1, <3>1 DEF RestoredRun, Run
  <2>4. EmptyReview' /\ UNCHANGED <<ws, project>> /\ run' = RestoredRun
    <3> HIDE DEF RestoredRun
    <3> QED BY <1>6, <2>3 DEF Restart, EmptyReview, InReview, Callers, Nothing, durable
  <2>5. run'.turns <= run.turns
    <3> HIDE DEF RestoredRun
    <3> QED BY <2>4, RestoredTurns DEF Ledger
  <2> QED BY <1>10, <2>4, <2>5, NoTurnSent DEF Untouched
<1>7. ASSUME NEW d \in {"prepare", "discard"}, ResolveRecovery(d)
      PROVE  Untouched /\ step' = "expire"
  <2>1. UNCHANGED <<ws, project, run>> /\ step' = "expire"
    BY <1>7 DEF ResolveRecovery, Take
  <2> QED BY <1>10, <2>1, NoTurnSent DEF Untouched
<1>8. ~ExpireApprovals /\ ~FinishReview
      /\ \A d \in {"prepare", "discard"} : ~NothingToReview(d)
  BY <1>1 DEF ExpireApprovals, FinishReview, NothingToReview
<1>9. CASE UNCHANGED vars
  <2>1. UNCHANGED <<ws, project, run>>
    BY <1>9 DEF vars
  <2>2. EmptyReview'
    BY <1>9 DEF vars, EmptyReview, InReview
  <2> QED BY <1>10, <2>1, <2>2, NoTurnSent DEF Untouched
<1>11. ASSUME NEW d \in {"prepare", "discard"}, AnswerReview(d)
       PROVE  Untouched /\ EmptyReview'
  <2>1. /\ UNCHANGED <<ws, project, run, step, pending, worker, timers>>
        /\ want'["main"].for = "recovery"
    BY <1>1, <1>11 DEF AnswerReview, Answering, KeepLock, durable, TypeOK, Callers
  <2>2. EmptyReview'
    BY <2>1 DEF EmptyReview, InReview
  <2> QED BY <1>10, <2>1, <2>2, NoTurnSent DEF Untouched
<1> QED BY <1>2, <1>3, <1>4, <1>5, <1>6, <1>7, <1>8, <1>9, <1>11
        DEF Next, RecoveryStep

\* A restart that opens a review opens it in an empty host.
LEMMA RestartEmptiesReview == Restart /\ InReview' => EmptyReview'
BY DEF Restart, EmptyReview, InReview, Callers, Nothing

\* A review opened by a restart is respected, by Telegram and by failures of
\* SQLite too: until the human answers it, it stays as the restart left it,
\* and no command, turn or course change takes effect.  What the run
\* telegram_review shows needs the continuations of a host that has not crashed.
THEOREM RestartReviewIsRespected ==
  Spec => [][/\ Restart /\ InReview' => EmptyReview'
             /\ EmptyReview => Untouched /\ (EmptyReview' \/ step' = "expire")]_vars
<1>1. Ledger /\ [Next]_vars =>
        [/\ Restart /\ InReview' => EmptyReview'
         /\ EmptyReview => Untouched /\ (EmptyReview' \/ step' = "expire")]_vars
  BY EmptyReviewStep, RestartEmptiesReview
<1> QED BY <1>1, InitLedger, NextLedger, PTL DEF Spec

=============================================================================
