# A TLA+ model of the AI workflow bridge

The AI workflow bridge lets a chat model in a browser tab drive work on a local
project. A Chrome extension captures the model's replies and types prompts; a
Python *native host* reads the replies as contracts, asks a human for decisions
(in the Mission Control side panel or by Telegram), runs commands in a
workspace, takes checkpoints of it, rolls it back, and persists enough in
SQLite to notice after a crash that something was interrupted.

This directory holds TLA+ modules translated from that code, the TLC runs that
check them on small instances, and theorems about them checked by TLAPS.

## 1. Inventory

Paths are relative to the repository. "Thread" is what runs the code.

| component | state it keeps | operations | talks to |
|---|---|---|---|
| runtime and restart recovery: `native_host/orchestrator_core.py`, `recovery.py` | `lifecycle`, `status`, `paused`, `safety_guard_active`, budget, `checkpoint_recovery`, the `runtime_state` row | `emit_event`, `_restore_runtime_state`, `resolve_recovery` | everything; runs at start-up and on the main thread |
| browser message handlers: `orchestrator_messages.py` | the same attributes | `handle`, one branch per message type | main thread; starts a worker per captured reply |
| reply processing: `orchestrator_response.py`, `orchestrator_project_state.py`, `orchestrator_execution.py` | `no_contract_recoveries` | `process_assistant_response`, `_execute_contract`, `_request_downloads` | worker threads; project files, then the lock |
| approvals: `orchestrator_approval.py`, `telegram.py` | `self.pending`, the `approvals` table | `_request_decision`, `resolve_approval` | main thread and the Telegram polling thread |
| command execution: `orchestrator_risk.py` | `command_execution_active`, the loop's locals | `_run_command_and_continue` | whichever thread holds the lock |
| checkpoint control: `orchestrator_checkpoints.py` | the `checkpoints` table, the workspace files | `accept_checkpoint`, `rollback_checkpoint` | main thread |
| store: `storage.py`, `checkpoint.py` | four SQLite tables | `put_checkpoint`, `transition_checkpoint_status`, `expire_pending_approvals`, ... | all threads, behind `Store.lock` |
| budget and prompt dispatch: `safety.py`, `orchestrator_reporting.py` | `turn_timestamps`, blocks, the cooldown timer | `decision`, `record_send`, `_send_result_to_chatgpt` | any thread, timer threads |
| roadmap files: `project_state.py` | `<workspace>/.ai-workflow/` | `initialize`, `advance`, `complete`, `apply_course_change` | workers, decision threads |
| snapshot and restore: `checkpoint_snapshot.py`, `checkpoint_restore.py` | archives, the workspace | capture, restore entry by entry | the lock holder |
| policy: `policy.py` | none | `classify`, `merge_risk` | command execution |
| command runner and Git evidence: `runner.py` | none between calls; a copy of `.ai-workflow` during one | `run_command`, `git_snapshot`, `compare_git_snapshots` | command execution, checkpoint control, Git |
| contracts, files, diagnostics, config, redaction, transport | none, or files | I/O and text | |
| service worker: `background.js`, `conversation-identity.js` | the binding (memory and `chrome.storage.session`), the seal authorization, the interrupted provider | the side panel's commands, the host's messages, tab events | the host by native messaging, the page by `content.js` |
| page and side panel: `content.js`, `providers.js`, `sidepanel.js` | the reply that is being written; the display | capture, submit, show | the service worker |

### How they interact, and what is hard about it

One `threading.RLock`, `self.lock`, protects the *command loop*, the decisions,
rollbacks and reviews. It does **not** protect the handlers of browser messages
that only assign attributes (`pause`, `resume`, the prompt builders, ...), nor
the parts of `ProjectStateMixin` before and after its call of `super()`. So

* the shared attributes change while another thread is inside the lock, for as
  long as a command runs;
* a worker reads `self.lifecycle` before it waits for the lock and acts on what
  it read afterwards;
* a decision is written to the project file before it is known whether it wins;
* the main thread is the only reader of the browser's messages and waits for
  the lock itself, also while the lock's holder waits for a browser message;
* a prompt may be delayed by a timer thread, which reads pause, guard and budget
  again when it fires, in whatever state the host then is;
* the host can die between any two steps; what the next start makes of it
  depends on the runtime row and the `checkpoints` table alone;
* the service worker awaits tabs, storage and the page in the middle of every
  handler: the tab may navigate, the human may pin another one, and Chrome may
  end and restart the worker, between any two awaits;
* a project command may write to the host's own files while the host writes them.

What makes each component correct: a restart finds every interruption
(recovery); nothing acts while a review is open (handlers); a decision counts
once (approvals); a protected command runs behind its own approval and
checkpoint (execution); `rolled_back` is only written over restored files
(checkpoints); limits hold under concurrency (budget); the runtime and the
project file agree (roadmap); the workflow stays in the conversation the human
bound (service worker); `.ai-workflow` is what the host wrote (runner); no
assessment of the model lowers a risk (policy). `PROJECT.json` lists the hazards line by line.

## 2. The modules

`NativeHost` composes the components; they share one set of variables, declared
in `HostState`, as the mixins of `Orchestrator` share one object.

| module | code | content |
|---|---|---|
| `RuntimeRecovery` | `recovery.py` | lifecycles, statuses, `RequiresRecovery` |
| `CheckpointTable` | `checkpoint.py`, `storage.py` | the status machine, the guarded transition, the upsert, the newest interrupted rollback |
| `HostState` | `orchestrator_core.py`, `orchestrator_reporting.py`, `safety.py` | the variables, `Init`, the lock, publishing, prompts, decision requests, `TypeOK` |
| `MessageHandlers` | `orchestrator_messages.py` | one action per browser message, the waiting dispatch, timers |
| `ResponseWorker` | `orchestrator_response.py`, `orchestrator_project_state.py`, `orchestrator_execution.py` | a worker from the captured reply to the comparison with the project file |
| `ApprovalDecisions` | `orchestrator_approval.py`, `orchestrator_project_state.py` | a decision before, at and after the lock |
| `CommandExecution` | `orchestrator_risk.py` | the command loop |
| `CheckpointControl` | `orchestrator_checkpoints.py` | accept and roll back, with its failures |
| `RecoveryReview` | `orchestrator_core.py` | the crash and the start after it, the review |
| `NativeHost` | | `Next`, `Spec`, `FairSpec`, the properties |
| `CheckpointPromise` | | the abstract specification of checkpoints |
| `MCNativeHost` | | the instance TLC checks, with its symmetry |
| `NativeHost_proofs`, `RecoveryReview_proofs`, `CheckpointLedger_proofs` | | theorems about `NativeHost`: types and budget; lock, reviews; checkpoints, approvals, files, the refinement |
| `TurnBudget` | `safety.py`, `orchestrator_reporting.py` | the budget with its clock, prompts sent with the lock, without it and by timers |
| `BudgetPromise` | | the abstract specification of the budget: turns, blocks and sessions, no restarts |
| `MCTurnBudget` | | two providers and two timers, interchangeable |
| `TurnBudget_proofs` | | its two limits and the refinement, proved |
| `ProjectRoadmap` | `project_state.py`, `orchestrator_project_state.py`, `orchestrator_approval.py` | `ROADMAP.md` and `HISTORY.md`, changed by replies and decisions step by step |
| `MCProjectRoadmap` | | three positions, two roadmaps |
| `ProjectRoadmap_proofs` | | its invariants, proved |
| `WorkspaceRestore` | `checkpoint_snapshot.py`, `checkpoint_restore.py` | capture, validation and restore, entry by entry |
| `MCWorkspaceRestore`, `WorkspaceRestore_proofs` | | six paths: a nested directory with a file and an excluded entry, and an entry with a volatile name that may hold one; its invariants, proved |
| `BindingPromise` | | the abstract specification of the bound conversation |
| `ConversationBinding` | `background.js`, `conversation-identity.js` | the service worker: pin, check, prompt, seal, give up, restart |
| `MCConversationBinding`, `ConversationBinding_proofs` | | two providers, two tabs; its invariants and the refinement, proved |
| `CommandRunner` | `runner.py`, `project_state.py` | a command and `.ai-workflow`: copy, compare, remove, write back |
| `GitEvidence` | `runner.py` | the evidence Git gives and its comparison, as operators |
| `RiskPolicy` | `policy.py`, `orchestrator_risk.py` | `merge_risk` and what the command loop does with it, as operators |
| `MCCommandRunner`, `CommandRunner_proofs` | | two files; theorems about the three modules above |

The families after `NativeHost`'s stand beside it and not inside it: each takes
one thing `NativeHost` abstracts (time, the two roadmap files, the workspace's
entries, the tab a message comes from, the host's own directory during a
command) and leaves out what it does not need (the lock's holder, the reviews).
Their meeting points: `Spent` and `PromptDelayed` of `HostState` are what
`Allowed` and `Delay` of `TurnBudget` may answer; `project` is what
`ProjectRoadmap` keeps of its `status` and of the last applied change; `Restore`,
`RestoreRaises` and `Mixed` of `CheckpointControl` are how a restore of
`WorkspaceRestore` may end. `HostReports` of `ConversationBinding` receives what
`Publish` of `HostState` emits, and its checked prompts are the `TurnSent` of
`NativeHost`; `foreign` of
`HostState` is what `TurnBudget` knows as the budget of one provider and another
one active. `HostWrites` of `CommandRunner` is a file replacement of
`ProjectRoadmap`, `BeginCommand` to `Repaired` lie between `StartCommand` and
`FinishCommand`; `Class` of `RiskPolicy` says which of `CommandExecution`'s two
classes a command is in.

### How state and actions correspond to the code

* `run` is what `build_runtime_snapshot` persists; `disk` is the row. `Publish`
  is `emit_event`: the row is written first, then the event is emitted.
  `Remember` is an assignment with no `emit_event` after it.
* `owner`, `step` and `job` are the lock, where its holder is, and the holder's
  local variables. A holder's step ends where the code persists something,
  starts something outside the process, or waits. Since the lock's holder is
  interrupted only by threads that do not take the lock, and those touch
  nothing but `run`, `disk`, `project` and their own state, finer steps would
  add no outcome the properties can tell apart.
* A handler that runs without the lock is one atomic action: its assignments
  and the `emit_event` at its end. The interleaving *inside* such a handler is
  abstracted; see section 7.
* `want[t]` is a main or Telegram thread between the part of its handler before
  the lock and the lock: with a prompt to dispatch, a decision, a checkpoint to
  accept or roll back, or a recovery decision. What it finds when it gets the lock
  it finds then: a checkpoint that is no longer ready is refused
  (`RefuseCheckpoint`), a review that is over is not answered (`NothingToReview`).
* `worker[w]` has the stages of a reply: `started`
  (captured), `commit` (the lifecycle has been read), `ready` (waits for the
  lock), `post` (left the lock).
* A reply is one of seven kinds: the plan's, the review's and the closeout's
  sentinel, a stage stop, none of these, a contract, a contract that needs a
  decision. Which text is which kind is the parser's business.
* A command is `low` (R0, R1) or `protected` (R2, R3); R4 is `BlockCommand`.
* Workspace files are one value of `Contents`; `Mixed` is what a restore that
  did not finish leaves. `image[c]` is checkpoint `c`'s archive.
* The turn count is that of the last hour, as `decision()` counts it;
  `TurnAges` lets one turn grow older than that, in memory and in the row alike,
  since both hold the same times. `foreign` says that the budget belongs to
  another provider than `active_provider`: a reply or a warning makes it so
  (`OtherProviders`), `set_provider` ends it, in a prompt builder, in `set_config`
  during setup, and at every start, where it resets the budget (`OwnBudget`). A prompt may be delayed at any
  time (`PromptDelayed`), and refused at any time (the runtime limit).
* `StoreFaults` lets the SQLite calls of a rollback raise; `FileFaults` lets a
  write to the project's files raise, in a course change (`CourseChangeRaises`) and
  in a worker. `ResponseFails` is the outer `except` of
  `process_assistant_response`, `ControllerPromptRaises` the exception of
  `controller_prompt`.
* A crash is `Restart`: everything that lives in memory is lost, every table
  and file stays, and the constructor's recovery runs.
* An operator whose comment begins with "Slip" is no part of the specification.
  It is a definition with a plausible mistake in it, used to see that the
  property it is paired with would notice.

### Left out of the actions

The branches for a workspace that is not configured; wordings, events and
their payloads; rows that fail validation when read; the two defensive branches
of `rollback_checkpoint` for a claim or a completion that is refused, which
cannot be taken while its thread holds the lock (every writer of the status
holds it); the Git review's content.

In `TurnBudget` a budget has the provider it belongs to, and a restart does what
`_restore_runtime_state` does after `restore_state`: `set_provider(active_provider)`
resets a budget of another provider, and a provider guard blocks whatever budget
there is (`Restored`). The clock ticks, a timer is armed, has fired (too late for
`cancel()`) or is off, and `session` is a ghost that remembers every turn of a
session, which the code forgets. `turn_timestamps` is kept by the turns' numbers
instead of as a list: its order is not looked at, and two turns of one instant
are two. In `ProjectRoadmap` a thread in an operation
has *checked* (it will load the file), *built* (its snapshot's successor is in
its local variables), *written* the roadmap, *read* the history, *saved*; a file
replacement is one step because the code writes a temporary file and calls
`os.replace`. In `WorkspaceRestore` a step is one `unlink`, `rmdir`, `mkdir` or
replaced file; the loops visit what was scanned at the start (`found`). `Edit`
is another program that removes, replaces or links an entry meanwhile; what the
loops then do below the link they do elsewhere (`Through`).

In `ConversationBinding` a handler under way is a `job`; its steps are what lies
between two awaits: it looked at the tab (*decide*), it hands the prompt to the
page (*deliver*), the page has submitted it (*authorize*), it looks at the tab
once more (*seal*), or it has found a tab for the human (*pin*). A page is a
provider and a path; `NewChats` and `Conversations` are the two kinds
`conversationIdentity` tells apart. `updates` are the `tabs.onUpdated` events
Chrome has yet to deliver, with the address they were sent with. `moved` is a
ghost. In `CommandRunner` one step is one file removed or written; `written` is
a ghost that remembers what the host last wrote. The repair may raise at each of
its steps (`RepairRaises`, the fault "denied").

## 3. Properties

Safety, in `NativeHost`: `ProtectedRunsBehindCheckpoint`,
`RollbackRestores`, `HalfRestoredIsOnRecord`, `ReviewSurvivesCrash`,
`ReviewIsExplicit`, `NoActionDuringReview`, `DecisionsAreFinal`,
`PausedSendsNothing`, `TurnsWithinBudget`, `RejectedCourseIsNotApplied`,
`OneApprovalPerCheckpoint`, `HoldEnds` (each step of the lock's holder brings it
closer to giving the lock back). In `TurnBudget`: `HourlyLimitHolds`,
`RuntimeLimitHolds`. In `ProjectRoadmap`: `RoadmapIsConsistent`,
`HistoryIsNeverAhead`, `CompletedWorkIsKept`, `ToldIsCurrentIfPlanned`. In
`WorkspaceRestore`: `RestoredMatches`, `ExcludedIsUntouched`,
`RefusalsComeFirst`. In `ConversationBinding`: `MemoryIsStored`,
`PromptGoesWhereChecked`. In `CommandRunner`: `OwnedFilesAreKept`.
Each has a comment that says what it means.

Refinement: `CheckpointPromiseKept` says that the checkpoints table, the
archives and the workspace follow `CheckpointPromise`, in which a checkpoint is
captured, answered once, and settled, and no command touches the files while a
rollback is unresolved. `BindingPromiseKept` says that the binding in force
follows `BindingPromise`: the human chooses it, a new chat in which a prompt of
the workflow was just submitted may become, once and in the same tab, the
conversation it turns into, and it may be given up. `BudgetPromiseKept` says that
whoever asks the budget for a turn gets the answers of `BudgetPromise`: a turn
counts for an hour, a block lasts, and only a new session ends either. A crash is
no step of it: a host that restarts must be, to its callers, the one that died, or
that one blocked (the provider guard), or one that begins a new session (the row
held the budget of another provider). A session is the life of one budget, and the
limits are limits of a session; that such a restart ends one is in the Divergences.

Liveness: `LockIsReleased` and `MainIsServed`. `HoldEnds` is the part of the first
that is not liveness: it says how a hold could fail to end (a step that does not
lower `StepsLeft`), fairness says that the steps are taken.

### Fairness

`FairSpec` has weak fairness only: of the lock holder's own steps, of each
worker, and of each thread that waits for the lock. It says that the operating
system schedules a thread that can go on, that a started command ends
(`runner.py` kills it at its timeout) and that `event.wait(timeout=120)` returns
(`DownloadFails`). Nothing is asked of the browser, the human, Telegram, a timer
or a crash: `DownloadArrives`, every message, every decision and `FireTimer` are
outside it. A thread that waits for the lock while others take it again and
again is not promised the lock by weak fairness; `MainIsServed` holds because
while the main thread waits, no new replies arrive (it is their only reader), so
that the others run out of work. That a *worker* is served is not claimed: it
would need strong fairness, which a Python lock does not give.

## 4. Runs

The first four are instances of `MCNativeHost`. Bounds: `MaxTurns` is the turn
limit, `MaxCommands` the commands of one contract, `MaxCheckpoints` and
`MaxApprovals` the rows ever created, `MaxTimers` the live timers. A run's
`Messages` and `Replies` are those that matter to its question; every action
fires in some run. One worker is enough for the safety runs: a second reply can
only wait for the lock the first one holds, and the threads that act without the
lock are the main one, Telegram's and the timers.

| run | question | bounds, and why they are enough |
|---|---|---|
| `rollback` | do protected commands, acceptance, rollback and crashes keep `CheckpointPromise`, is `rolled_back` true, and does an approval count once? | 2 checkpoints (one can be rolled back to behind another), 2 approvals, 2 commands, so that a contract goes on after an approved one, 2 file contents |
| `review` | does every restart find an interrupted rollback or workflow, also when SQLite raises inside the rollback, and is the review answered by the human only? Does a prompt ever leave a paused workflow? Without Telegram, is a rejected course change never applied? Does each step under the lock bring its release nearer? | 1 checkpoint, 1 turn, 1 timer armed before the crash or the failure; `StoreFaults` and `OtherProviders`. No `FileFaults`: a course change that raises after its first file is written is on disk while its decision is open, and may then be rejected. `rollback` has no faults: when SQLite raises right after the claim, the row stays `rolling_back` while the host, until its next start, resumes and runs commands, which `CheckpointPromise` does not allow |
| `prompts` | do pause, guard and turn limit hold for prompts from three kinds of thread? | 1 turn: the second is the one that must be refused; `OtherProviders` and `FileFaults`, so that a restart may reset the budget and a worker's commit may fail |
| `liveness` | is the lock released and the main thread served? Is each decision final while browser and Telegram decide the same approvals? | a contract with a download, decisions from both callers, a checkpoint to roll back, and a recovery decision that comes too late or in time: each kind of thing the main thread waits for; `FileFaults`, whose exceptions must not leave the lock taken or the main thread waiting |
| `limits` | do the hourly and the run-time limit of a session hold, and is a restart, to whoever asks the budget, nothing, a block or a new session? | two providers, so that the budget can be the other one's; `MaxTime` 8 ticks, an hour of 4 and a run time of 6, so that turns leave the hour inside a session and a session ends; 2 timers, one of which `cancel()` misses |
| `roadmap` | do completed stages, the history and the told position survive any sequence of operations, each stopped anywhere? | a roadmap of 3 and one of 2 in another order; `MaxRevision` 4 changes: plan, advance, change, close out; one worker and one decider, one waiting course change. `Overlap` is off; that the file is consistent with it on is proved (section 5) |
| `restore` | does a restore give back what was captured, refuse before it changes anything, and leave excluded state alone? | all workspaces over 6 paths and 2 contents; one step of changes after the capture, one foreign edit during the restore, also by a link that leads out of the workspace, `MaxFiles` 2 (3 files exceed it) |
| `binding` | does the workflow stay in the conversation the human bound, and does memory agree with the storage a restarted worker reads? | 2 tabs; a provider with a new chat and a conversation, one with a conversation only, so that a tab can seal, change provider and leave; 1 request and 1 command under way, because a handler meets others through the binding, the authorization and the tab alone, and each of these can change under it in one step of the other; 1 tab event behind the tab it tells of |

Four runs find what the code does and its texts deny. Each is one property and
the smallest instance that reaches it.

| run | what happens |
|---|---|
| `telegram_review` | A rollback fails; `recovery_required` is open, but the continuations in `self.pending` are still there. A Telegram button pressed now is not stopped by the recovery gate of `MessageMixin.handle`, which only browser messages pass: the approved command runs. |
| `course_race` | Approve and reject arrive on different threads. `ProjectStateMixin.resolve_approval` has written the course change to the project file when the rejection takes the lock first. The row says reject, the model is told to keep the roadmap, and the file has the change. |
| `restore_names` | `_walk_workspace` leaves out volatile names only for directories, `_validated_member_path` rejects them for files too. With a regular file called `build` every capture succeeds and no restore accepts its archive. |
| `commands` | A worker runs a command; a course change that still waits for its decision is approved meanwhile and written to `.ai-workflow` without the lock. `_restore_control_dir` finds the directory changed, puts the copy from before the command back, and the command is reported as the culprit. The model is told of a roadmap the file no longer has. (In `NativeHost`: `DecideInBrowser` of a course change while `step = "executing"` is reachable; a reply after PAUSE and ARM starts the command.) |

The run `restore` is the largest with 4 million states and three minutes on two
workers; `review`, `rollback` and `liveness` take about two minutes each.

### Divergences that no run shows

Seen while translating, at the lines named; the properties above are stated so
that they say nothing of them.

* `orchestrator_messages.py:169` and `:171`: a warning or a reply from a tab of
  another provider assigns `active_provider` and leaves the budget as it is. The
  turns that follow are recorded on the old provider's budget, and the next start
  finds that it is not the active provider's and resets it: turns, start of the
  session and block are forgotten by a crash (`orchestrator_core.py:435`).
  `README.md:53` and `docs/USER_GUIDE.md:181` say of the budget that it survives a
  restart. A route: a pin whose `ensureContentScript` fails, then a reply of the
  new tab. `TurnBudget` and `NativeHost` have it; the limits are those of one session.
* `runner.py:130`: the repair of `.ai-workflow` catches `ValueError` only. A command
  that takes the directory's permissions away makes `read_bytes`, `rmtree` or
  `write_bytes` raise `OSError`, and what it changed stays, or the directory is left
  half rewritten (`RepairRaises`).
* `project_state.py:442`: a course change that raises once `ROADMAP.md` is written
  (its history or the configuration cannot be) leaves `resolve_approval` before the
  decision: the course is changed, the row is pending, and the human may still
  reject it (`CourseChangeRaises`).
* `project_state.py:409`: a course change builds on the file it has read; a worker
  that advances the roadmap between the two is overwritten, and the completed stage
  is open again (`ProjectRoadmap` with `Overlap` on).
* `orchestrator_project_state.py:116`: `controller_prompt` raises, when `ROADMAP.md`
  cannot be read, after the workflow was unpaused, armed and persisted so; the main
  loop reports an error and no prompt is sent (`ControllerPromptRaises`).
* `orchestrator_response.py:135`: whatever a reply's processing raises ends as status
  `error` with the lifecycle as it was: the workflow stays armed, no prompt follows,
  and nothing but the human continues it (`ResponseFails`).
* `checkpoint_restore.py:979` to `:1127`: the loops use the paths of the scan. A
  directory that another program exchanges for a symbolic link meanwhile is followed:
  entries are removed and written where it leads. `Edit` links out of the workspace,
  where the model sees nothing change; a link into `.git` or native state would
  change excluded state, and `ExcludedIsUntouched` does not speak of it.
* `orchestrator_project_state.py:144`: a worker reads the lifecycle, FINISH
  PROJECT arrives, the worker takes the lock: the runtime becomes `complete`
  with no commit of the project file before it and no comparison after it.
* `orchestrator_messages.py:160`: a pause during a command persists passive
  values. A crash now restarts as an ordinary pause; nobody is told that a
  command was interrupted.
* `orchestrator_reporting.py:43`: the second budget decision's delay is not
  looked at, so two prompts that both found no delay are sent at once
  (`Dispatch` of `TurnBudget`).
* `orchestrator_checkpoints.py:626`: when SQLite raises between the claim of a
  rollback and the record of its context, the exception leaves the handler with
  the row in `rolling_back` and no review; RESUME and commands work until the
  next start finds the row (`RollbackRaises`).
* `project_state.py:158`: the history is read and replaced outside the lock;
  when a course change overlaps an advance, an entry is lost (`ReadHistory`,
  `WriteHistory`, with `Overlap` on).
* `project_state.py:429`: a course change to a stage that is already complete
  makes it current and leaves it counted as complete.
* `orchestrator_approval.py:32`: when the approved roadmap does not have the
  proposed position, the prompt names it all the same (`Tell`); hence the
  condition of `ToldIsCurrentIfPlanned`.
* `safety.py:139`: `decision()` drops the turns older than an hour and compares
  the rest with `max_turns_per_session`, so a session longer than an hour sends
  more turns than that; `docs/ACCOUNT_SAFETY.md:24` lists "maximum turns per
  session" (`Allowed` of `TurnBudget`, in which both limits count `Pruned`).
* `orchestrator_checkpoints.py:626`, continued: a second rollback after such an
  exception, and a crash in it, leave two rows in `rolling_back`. The restart
  opens the review for the newer one; once that is answered, the next restart
  opens it for the older one; and a host that dies there between the answer and
  its publication starts without a review. `ReviewIsExplicit` therefore counts
  an answer from its first write (*expire*) on.
* `orchestrator_messages.py:160`, continued: a stage stop makes the lifecycle
  `idle`, and a command approved after it runs under that lifecycle; a failed
  `chat_send_ack` or RESET RUN BUDGET then also makes the row passive.
* `background.js:540` to `:660`: `findBoundLlmTab` compares the conversation, then
  the content script is asked, without another comparison. A tab that navigates
  in between gets the prompt in the wrong conversation; `PromptGoesWhereChecked`
  is stated up to that (`moved`), `docs/USER_GUIDE.md:183` is not. A captured
  reply is likewise checked before its download candidates are collected.
* `background.js:610`: a check that fails clears the binding in force, which may
  be one the human has pinned since; `Decide` clears whatever is there. If the
  page's address changes before the authorization, the next check gives up a
  chat that could have been sealed.
* `background.js:406`: within the ten seconds of an authorization the
  conversation the tab navigates to is taken for the one the new chat became,
  also when a human opened it. `Grow` of `BindingPromise` allows it.
* `background.js:494`: the authorization is for the binding in force when the
  prompt is confirmed, not for the one it was sent for: a re-pin to another new
  chat of the provider in the same tab is authorized by the older prompt.
* `background.js:651`: a port that closes after the page took the prompt makes
  `sendToContent` send it again (`DeliverAgain`): it may be submitted twice, the
  second time in another conversation.
* `background.js:255`: memory is assigned when `storage.session` answers; a pin
  made while a slow read is under way is overwritten in memory. The model's
  storage answers at once.
* `runner.py:154`: the time limit kills the shell and not its children; one that
  outlives it writes to `.ai-workflow` after the comparison (`loose`).
* `runner.py:136`: a crash between the removal of `.ai-workflow` and its
  rewriting loses both files; the copy is in memory (`HostDies`).
* `runner.py:474`: a `rev-parse` that fails before the command and after the
  rollback counts as an unchanged head; `worktree_digest` is captured and never
  compared, so a second change of a file already dirty is not seen.

## 5. Proofs

TLAPS checks, for all values of the constants that satisfy the assumptions
(`MaxCheckpointsAssumption`, `HostAssumption`, `NoRowAssumption`,
`BudgetAssumption`: bounds are naturals, thread names are distinct, the mark of a
missing row is not a row, an hour is not empty):

* `TypeCorrect`: `Spec => []TypeOK`. The inductive invariant `IndTypes` adds
  what a thread knows of its locals: a rollback has a checkpoint, a command
  loop and a remembered command have a command left. Without it `left - 1`, and
  the table access of a rollback, would not be typed. The proof has a lemma per
  mixin and a step per action; the one fact that is not local is that the
  newest interrupted rollback exists, which is well-foundedness of `<`.
* `ReviewNeverForgotten`: `Spec => []ReviewSurvivesCrash`. The property is not
  inductive: a step of another thread during a rollback persists the row too.
  `LockInv` is the strengthening: all through a rollback the main thread holds
  the lock, `run.lifecycle` is `recovering`, and so is the row's. Two lemmas
  carry the proof: `OutsideLock` (a thread that does not hold the lock leaves
  the lifecycle alone and persists what it finds) and `OutsideRollback` (every
  other step persists the lifecycle it leaves). What remains is one short step
  per action of the rollback, of the review and of the start.
* `LockDiscipline`: `Spec => []LockInv`.
* `RoadmapAlwaysConsistent`: `Spec => []RoadmapIsConsistent` of
  `ProjectRoadmap`, for every roadmap, any number of workers and deciders, and
  with `Overlap` on or off. The file alone is not inductive: a thread replaces
  it with what it built from an older one. `FilesInv` says that every state in
  any thread's locals is consistent too, and one lemma per operator
  (`PlannedIsGood`, `AdvancedIsGood`, `CompletedIsGood`, `ChangedIsGood`) that
  it builds a consistent state from a consistent one. `FilesTypeCorrect` is a
  conjunct of the same invariant.
* `HistoryNeverAhead` and `CompletedWorkKept`: under `~Overlap`, from `AloneInv`:
  at most one thread is inside an operation, what it built has the next
  revision and forgets no completed stage, and between the roadmap's
  replacement and the history's there is one entry to come. With overlap both
  are false: a stale snapshot replaces a newer file.
* `ToldAlwaysCurrent`, also under `~Overlap`: the position an approved course
  change names to the model is the one the file then has. `NamedInv` follows the
  named position from the snapshot a decision builds to the file it writes;
  `AloneInv` keeps other threads from replacing that file before the prompt.
* `RuntimeLimitAlwaysHolds` of `TurnBudget`: the budget in memory began when the
  session did, and so did the persisted one unless it is another provider's than
  the persisted one, in which case a restart begins a session.
* `HourlyLimitAlwaysHolds`: the budget in memory, and the persisted one under the
  same condition, have recorded every turn of the session's last hour (`HourInv`);
  they may hold older ones. So what `decision()` counts is at least the number of
  turns that were sent, by the cardinality of a subset. A restart forgets turns
  only where it begins a session, and turns before and after it are not added up.
* `BudgetKeepsPromise`: the refinement `Spec => BudgetPromiseKept`. `KeptInv` says
  that the persisted row and the budget in memory answer a caller alike (`Seen`):
  the row may hold turns that are already pruned in memory, but none that count.
  A restart is therefore a stutter, or a block where the provider guard is set, or
  a new session where the row holds another provider's budget; a tick prunes both
  in the same way (`OlderTurns`).

`RoadmapAssumption` (a roadmap is not empty) and `PositionAssumption` are what
the roadmap's proofs use; `initialize_project_state` and
`apply_course_change` refuse an empty one.

Checkpoints, approvals and files (`CheckpointLedger_proofs`), on top of
`ReviewInv` (the types and `LockInv`) and `TurnInv`. None of the properties is inductive by
itself, because what they relate is written at different steps of one operation:

* `ProtectedAlwaysBehindCheckpoint`, `HalfRestoredAlwaysOnRecord`,
  `ApprovalsAreNeverReused`, `RolledBackMeansRestored`, `DecisionsAlwaysFinal`
  follow from one invariant, `LedgerInv`: a continuation in memory has an
  undecided row (except while a review drops them); the approval the command
  loop holds has not been used for a checkpoint, counted (`Taken`, `Approved`);
  the command about to run has a ready row whose archive is the workspace; the
  rollback under way has claimed its row, and its files are its archive once
  they are restored; half-restored files have a row that says so. They hold
  with Telegram and with SQLite failures.
* `RejectedCourseNeverApplied`, without Telegram and `FileFaults`: a thread that waits with an
  approved course change already on disk is the only one that can decide it
  (`CourseInv`). With Telegram the run `course_race` refutes it; with a write that
  fails the change may be on disk and its decision still open (Divergences).
* `HostKeepsCheckpointPromise`, without SQLite failures: the refinement
  `Spec => CheckpointPromiseKept`. Its invariant adds `RowInv`: a row in
  `rolling_back` is the one whose rollback is under way or whose review is open,
  and in the second case the review was opened by a restart, in a host with
  nothing left to do (`EmptyReview`). That is why Telegram may decide meanwhile:
  there is nothing for it to decide. (The instance of `rollback` leaves Telegram
  out; the theorem does not.)
  A lemma per step says which step of the promise it is; the rest write no row,
  no archive and no file, and stutter.

`RestartReviewIsRespected`, for Telegram and SQLite failures alike: a review that
a restart opens finds no continuation, no worker and no timer, no thread waits but
with the answer to it, and until the human answers it no command, turn or course change takes effect.
The finding of `telegram_review` is thereby confined to the reviews a host opens
itself, after a rollback that failed while continuations were pending.

Reviews (`RecoveryReview_proofs`), without Telegram: `ReviewAnsweredByHuman`
(`Spec => ReviewIsExplicit`) and `NothingActsDuringReview` from `GateInv`: while
a review is open the host is paused, no thread waits for the lock except with the
human's answer, and the only steps inside it are the answer's. `TurnsAlwaysWithinBudget`
(`NativeHost_proofs`) from `TurnInv`: the turns in memory *and* those in the row are
within the limit, and they are as many unless the row's budget is another
provider's (`SameTurns`), so that no restart adds to them. `NoPromptWhilePaused`
(`Spec => PausedSendsNothing`) comes from the same lemmas: every step either adds no
turn, leaves the row alone, or is `Dispatch`, which reads pause, guard and budget
in the state it sends from.

The lock (`NativeHost_proofs`): `HoldAlwaysEnds` (`Spec => HoldEnds`) from
`IndTypes` alone, with Telegram and SQLite failures: a command takes at most four
steps, the step after it has a command less to go, and every failure ends the
loop. `HoldIsBounded` says that the measure is a natural number of at
most `4 * MaxCommands + 7`; nobody who takes the lock takes more steps than that.

The service worker (`ConversationBinding_proofs`), for any tabs, pages and
numbers of handlers under way, under `BindingAssumption`: `BindingTyped`,
`MemoryAgreesWithStorage`, `PromptsGoWhereChecked` from `BindingInv`, whose extra
part `LookHolds` says what a handler's look at its tab is worth until the tab
navigates; and the refinement `WorkerKeepsPromise`, one lemma per handler.

The runner and the policy (`CommandRunner_proofs`):
`ControlDirectoryIsRepaired` under `Alone` (of all that may happen, only the command intrudes;
the run `commands` shows one of the other cases, and a repair that raises is
another), with the invariant that the
copy is what the host wrote as long as the command lasts, that what is still to
be removed or written is in `left`, and that the rest is done. About the pure
operators: `NoReviewMeansNoChange`, `MissingEvidenceIsReviewed`,
`SameRepositoryNeedsNoReview`; `AssessmentOnlyRaises`, `AssessmentIsMonotone`, `ApprovalMeansCheckpoint`, which is why
`CommandExecution` has two classes of commands only.

The restore (`WorkspaceRestore_proofs`), for any paths, contents and excluded
names, under `KindAssumption` and `PathAssumption` (a path is a sequence of names
and its parent is a path too): `RestoreTyped`, `ExcludedStaysUntouched`,
`RefusalsAlwaysFirst`, `RestoreIsExact`, from `RestoreInv`. Its first half,
`SafeInv`, holds whoever else is at work: what the loops still have to visit is
never excluded, so each step is a `Without` or a `With` of a visible path, which
leaves excluded entries as they are (`RemovalIsVisible`, `ReplacementIsVisible`).
Its second half, `AloneInv`, holds until somebody else edits an entry, and says
what each loop has done so far. Three lemmas explain why nothing raises
half way: what lies below a directory to remove was removed first, because the
archive is closed under parents and the deepest entries come first
(`RmdirAlone`); above an entry of the archive there are only directories
(`RoomForEntry`); and where a file goes nothing lies below, or the restore
would have been refused (`RoomForFile`).

Only model-checked: `LockIsReleased` and `MainIsServed`, since liveness under
fairness is out of the prover's reach. Every invariant and action property of a
passing run is a theorem; where a theorem has a hypothesis (`~Overlap`, no
Telegram, no SQLite or file failures), a passing run has it as well.

## 6. Plan

Written first, because the rest hangs on it: the host with its lock, reviews and
checkpoints (`NativeHost`), and its two invariants. Then what it abstracts:
`TurnBudget`, `ProjectRoadmap`, `WorkspaceRestore`; then what surrounds it:
`ConversationBinding`, `CommandRunner`, `GitEvidence`, `RiskPolicy`. What is
left, in order of what it would show:

1. `RuntimeRow` (`orchestrator_core.py:71`): snapshot and write of the runtime
   row as two steps of two threads.
2. `ReplyCapture` (`content.js`): reply stabilisation.

## 7. What is not modelled, and why

* Interleavings inside a handler that does not hold the lock, and between the
  snapshot and its write: planned as `RuntimeRow`.
* In `WorkspaceRestore`: links made during a restore that lead into the workspace,
  file modes, sizes, the temporary file of a copy that is
  interrupted, and a metadata file that is damaged (it has its own checks).
* In `ProjectRoadmap`: the checks against symbolic links, and the rendering and
  parsing of the Markdown around the machine state.
* In `TurnBudget`: a clock that is set back.
* Parsing, redaction, configuration, diagnostics, installation: text and I/O
  without state.
* In `CommandRunner`: directories below `.ai-workflow`, the command's output,
  environment and working directory. What a command does to the other files is
  a nondeterministic result of `StartCommand`.
* In `ConversationBinding`: `chrome.storage.session` answers at once, in order;
  permissions, downloads, diagnostics, the badge, and the native port's
  reconnection; the content of a prompt. `Navigate` may change any tab to any
  page at any time, which is more than a browser does.
* `content.js` and the provider adapters: they wait for the page's DOM to be
  quiet. To the host a reply is one message, in any order, in any number, at
  any time, which is more than it sends. A complete reply whose forwarding
  fails is not sent again; nothing here claims that it is.
* The patterns of `policy.py`: text. Which decision they reach is an input.
* A second host on the same database.
