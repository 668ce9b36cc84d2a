------------------------------ MODULE HostState ------------------------------
(***************************************************************************)
(* The state the native host's threads share, and the few operations every *)
(* handler is made of: publish an event, persist the runtime row, send a   *)
(* prompt.  The handlers themselves are in MessageHandlers, ResponseWorker,*)
(* ApprovalDecisions, CommandExecution, CheckpointControl, RecoveryReview; *)
(* NativeHost puts them together.                                          *)
(*                                                                         *)
(* Threads: "main" reads browser messages, "telegram" polls decisions, one *)
(* worker per captured reply, and timer threads that release a delayed     *)
(* prompt.  self.lock is an RLock; owner is the thread holding it, step    *)
(* the point that thread has reached, job its local variables.             *)
(***************************************************************************)
EXTENDS RuntimeRecovery, CheckpointTable, TLC

CONSTANTS
  Workers,          \* threads that process captured replies
  Messages,         \* the message types the browser sends in this instance
  Replies,          \* the kinds of reply the model writes in this instance
  Contents,         \* possible contents of the workspace files
  Mixed,            \* contents of a workspace a restore left half way
  NoRow,            \* runtime_state holds no row yet
  MaxTurns,         \* the smaller of max_turns_per_session and per hour
  MaxCommands,      \* bound: commands in one contract
  MaxApprovals,     \* bound: approval ids ever drawn
  MaxTimers,        \* bound: live timer threads
  TelegramEnabled,  \* a bot token is configured
  AutoRunLowRisk,   \* config auto_run_low_risk
  StoreFaults,      \* SQLite calls of the rollback may raise
  FileFaults,       \* writing ROADMAP.md, HISTORY.md or the config may raise
  OtherProviders    \* replies and warnings may come from another provider

ReplyKinds == {"plan", "review", "done", "stop", "none", "contract", "decision"}

ASSUME HostAssumption ==
  /\ {"none", "main", "telegram"} \intersect Workers = {}
  /\ Replies \subseteq ReplyKinds
  /\ Mixed \notin Contents
  /\ {MaxTurns, MaxCommands, MaxApprovals, MaxTimers} \subseteq Nat
  /\ {TelegramEnabled, AutoRunLowRisk, StoreFaults, FileFaults, OtherProviders}
       \subseteq BOOLEAN

VARIABLES
  run,         \* the attributes build_runtime_snapshot persists
  recoveries,  \* self.no_contract_recoveries
  disk,        \* the persisted runtime_state row
  ckpt,        \* the checkpoints table
  image,       \* the snapshot archive of each checkpoint
  ws,          \* the contents of the workspace files
  approvals,   \* the approvals table
  pending,     \* self.pending: the continuations kept in memory
  project,     \* <workspace>/.ai-workflow: status and applied course change
  owner, step, job,  \* self.lock and its holder
  want,        \* what a main or telegram thread is about to take the lock for
  worker,      \* the worker threads
  timers       \* live timer threads of delayed prompts

vars == <<run, recoveries, disk, ckpt, image, ws, approvals, pending, project,
          owner, step, job, want, worker, timers>>

durable == <<ckpt, image, ws, approvals, project>>

\* turns: the recorded turns of the last hour; foreign: the budget belongs to
\* another provider than active_provider.
Run == [lifecycle : Lifecycles, status : Statuses, paused : BOOLEAN,
        guard : BOOLEAN, turns : Nat, blocked : BOOLEAN, foreign : BOOLEAN,
        ctx : CheckpointIds \union {NoCheckpoint}]

\* A persisted row is told apart from a missing one.
ASSUME NoRowAssumption == NoRow \notin Run

InitRun == [lifecycle |-> "setup", status |-> "idle", paused |-> FALSE,
            guard |-> FALSE, turns |-> 0, blocked |-> FALSE,
            foreign |-> FALSE, ctx |-> NoCheckpoint]

ApprovalIds == 1 .. MaxApprovals
Risks       == {"low", "protected"}

NoPending == [kind |-> "absent", left |-> 0, risk |-> "low"]
Continuations ==
  [kind : {"absent", "command", "contract", "course_change"},
   left : 0 .. MaxCommands, risk : Risks]

CommandSteps ==
  {"command", "checkpoint", "start", "executing", "report", "waiting"}
RollbackSteps ==
  {"claim", "context", "restore", "restoring", "record", "complete",
   "finish", "fail", "failed"}
Steps == {"none", "download", "acknowledge", "expire", "resolved"}
           \union CommandSteps \union RollbackSteps

\* left: commands still to run; risk: of the current one; approval: the one
\* it was approved by; ckpt: the checkpoint taken for it, or rolled back.
Jobs == [left : 0 .. MaxCommands, risk : Risks, approval : 0 .. MaxApprovals,
         ckpt : CheckpointIds \union {NoCheckpoint},
         decision : {"none", "prepare", "discard"}]
NoJob == [left |-> 0, risk |-> "low", approval |-> 0, ckpt |-> NoCheckpoint,
          decision |-> "none"]

Callers == {"main", "telegram"}
Threads == Callers \union Workers
Wants   == [for : {"nothing", "dispatch"}, id : {0}, decision : {"reject"}]
             \union [for : {"approval"}, id : ApprovalIds,
                     decision : {"approve", "reject"}]
             \union [for : {"checkpoint_accept", "checkpoint_rollback"},
                     id : CheckpointIds, decision : {"reject"}]
             \union [for : {"recovery"}, id : {0},
                     decision : {"prepare", "discard"}]
Nothing  == [for |-> "nothing", id |-> 0, decision |-> "reject"]
ToPrompt == [for |-> "dispatch", id |-> 0, decision |-> "reject"]
Deciding(a, d) == [for |-> "approval", id |-> a, decision |-> d]
ForCheckpoint(type, c) == [for |-> type, id |-> c, decision |-> "reject"]
Answering(d) == [for |-> "recovery", id |-> 0, decision |-> d]

WorkerStates ==
  [stage : {"idle", "started", "commit", "ready", "post"}, reply : ReplyKinds,
   prior : Lifecycles]
IdleWorker == [stage |-> "idle", reply |-> "none", prior |-> "setup"]

ProjectStates == [status : {"none", "active", "complete"},
                  course : 0 .. MaxApprovals]

Init ==
  /\ run = InitRun /\ recoveries = 0 /\ disk = NoRow
  /\ ckpt = EmptyTable
  /\ ws \in Contents /\ image = [c \in CheckpointIds |-> ws]
  /\ approvals = [a \in ApprovalIds |-> "absent"]
  /\ pending = [a \in ApprovalIds |-> NoPending]
  /\ project = [status |-> "none", course |-> 0]
  /\ owner = "none" /\ step = "none" /\ job = NoJob
  /\ want = [t \in Callers |-> Nothing]
  /\ worker = [w \in Workers |-> IdleWorker]
  /\ timers = 0

-----------------------------------------------------------------------------
\* command_execution_active, set and cleared by _run_command_and_continue.
CommandExecutionActive == step \in CommandSteps

\* emit_event: the runtime row is persisted before the event is emitted.
Publish(r) == run' = r /\ disk' = r

\* Attributes assigned and not persisted.
Remember(r) == run' = r /\ UNCHANGED disk

LockFree == owner = "none"
Take(t, s, j) == LockFree /\ owner' = t /\ step' = s /\ job' = j
KeepLock == UNCHANGED <<owner, step, job>>
GoTo(s)  == step' = s /\ UNCHANGED <<owner, job>>

\* Leaving "with self.lock": a worker goes on to the code after it.
Release ==
  /\ owner' = "none" /\ step' = "none" /\ job' = NoJob
  /\ worker' = [w \in Workers |->
                  IF w = owner THEN [worker[w] EXCEPT !.stage = "post"]
                               ELSE worker[w]]

-----------------------------------------------------------------------------
\* RunBudget.reset: a budget of its own for the active provider.
Fresh(r) == [r EXCEPT !.turns = 0, !.blocked = FALSE, !.foreign = FALSE]

\* RunBudget.decision refuses: a block, or as many turns in the last hour as
\* the smaller of the two turn limits.
Spent(r) == r.blocked \/ r.turns >= MaxTurns

Braked(r) == [r EXCEPT !.paused = TRUE, !.lifecycle = "budget_exhausted",
                       !.status = "budget_exhausted"]

\* The first half of _send_result_to_chatgpt: guard, decision, delay.  The
\* runtime and hourly limits may refuse at any time.
PromptRefused(r) ==
  /\ UNCHANGED timers
  /\ \/ r.guard /\ Publish(r)
     \/ ~r.guard /\ Publish(Braked(r))

\* A new timer; cancel() may come too late for one that has already fired.
PromptDelayed(r) ==
  /\ ~r.guard /\ ~Spent(r)
  /\ Publish([r EXCEPT !.status = "cooldown"])
  /\ timers' \in {timers + 1} \union (IF timers > 0 THEN {timers} ELSE {})
  /\ timers' <= MaxTimers

\* Slips: the second reading of paused, or of the budget, left out.
DispatchWhilePaused(r, saved) ==
  \/ r.guard /\ run' = r /\ disk' = saved
  \/ ~r.guard /\ ~Spent(r) /\ Publish([r EXCEPT !.turns = @ + 1])
  \/ ~r.guard /\ Publish(Braked(r))

DispatchWithoutBudget(r, saved) ==
  \/ (r.paused \/ r.guard) /\ run' = r /\ disk' = saved
  \/ ~r.paused /\ ~r.guard /\ Publish([r EXCEPT !.turns = @ + 1])

\* dispatch(), under the lock: paused and guard are read again, the budget is
\* asked again, and the turn is recorded and persisted before the prompt goes.
\* saved is the row the caller has persisted, which a skipped prompt leaves.
Dispatch(r, saved) ==
  \/ (r.paused \/ r.guard) /\ run' = r /\ disk' = saved
  \/ ~r.paused /\ ~r.guard /\ ~Spent(r) /\ Publish([r EXCEPT !.turns = @ + 1])
  \/ ~r.paused /\ ~r.guard /\ Publish(Braked(r))

\* _send_result_to_chatgpt called by the thread that holds the lock, with the
\* attributes r of which the row saved is persisted.
SendPrompt(r, saved) ==
  \/ PromptRefused(r)
  \/ PromptDelayed(r)
  \/ ~r.guard /\ ~Spent(r) /\ Dispatch(r, saved) /\ UNCHANGED timers

\* _request_decision: remember the continuation, record the row, ask.
RequestDecision(r, continuation) ==
  \E a \in ApprovalIds :
    /\ approvals[a] = "absent"
    /\ approvals' = [approvals EXCEPT ![a] = "pending"]
    /\ pending' = [pending EXCEPT ![a] = continuation]
    /\ Publish([r EXCEPT !.status = "waiting_approval"])

-----------------------------------------------------------------------------
TypeOK ==
  /\ run \in Run
  /\ recoveries \in 0 .. 2
  /\ disk \in Run \union {NoRow}
  /\ ckpt \in CheckpointTables
  /\ image \in [CheckpointIds -> Contents \union {Mixed}]
  /\ ws \in Contents \union {Mixed}
  /\ approvals \in [ApprovalIds -> {"absent", "pending", "approve", "reject",
                                    "expired"}]
  /\ pending \in [ApprovalIds -> Continuations]
  /\ project \in ProjectStates
  /\ owner \in Threads \union {"none"}
  /\ step \in Steps
  /\ job \in Jobs
  /\ want \in [Callers -> Wants]
  /\ worker \in [Workers -> WorkerStates]
  /\ timers \in Nat

=============================================================================
