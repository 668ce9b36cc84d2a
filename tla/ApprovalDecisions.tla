-------------------------- MODULE ApprovalDecisions --------------------------
(***************************************************************************)
(* resolve_approval, called by the main thread for a decision made in      *)
(* Mission Control and by the Telegram thread for a button pressed there.  *)
(* ProjectStateMixin applies an approved course change to the project file *)
(* before the lock is taken; ApprovalMixin pops the continuation under it. *)
(***************************************************************************)
EXTENDS HostState

\* Slip: the course change is applied whatever the decision.
ApplyAnyCourseChange(a, decision) ==
  IF pending[a].kind = "course_change"
    THEN project' = [status |-> "active", course |-> a]
    ELSE UNCHANGED project

\* The project file takes an approved course change; apply_course_change
\* also makes a completed project active again.
ApplyCourseChange(a, decision) ==
  IF decision = "approve" /\ pending[a].kind = "course_change"
    THEN project' = [status |-> "active", course |-> a]
    ELSE UNCHANGED project

MayDecide(caller, a) ==
  want[caller] = Nothing /\ owner # caller /\ approvals[a] # "absent"

\* An exception of apply_course_change leaves resolve_approval before the
\* lock.  Raised before ROADMAP.md is written (a roadmap without positions, a
\* file that cannot be read) it changes nothing; raised when HISTORY.md or the
\* configuration is written, the course is changed and nothing is decided.
CourseChangeRaises(caller, a) ==
  /\ FileFaults
  /\ MayDecide(caller, a)
  /\ pending[a].kind = "course_change"
  /\ ApplyCourseChange(a, "approve")
  /\ UNCHANGED <<run, recoveries, disk, ckpt, image, ws, approvals, pending,
                 want, worker, timers>>
  /\ KeepLock

Decide(caller, a, decision) ==
  /\ MayDecide(caller, a)
  /\ ApplyCourseChange(a, decision)
  /\ want' = [want EXCEPT ![caller] = Deciding(a, decision)]
  /\ UNCHANGED <<run, recoveries, disk, ckpt, image, ws, approvals, pending,
                 worker, timers>>
  /\ KeepLock

\* approval_decision passes the recovery gate; a Telegram button does not
\* meet it.
BrowserDecides ==
  "approval_decision" \in Messages /\ run.lifecycle # "recovery_required"

DecideInBrowser(a, decision) ==
  \/ BrowserDecides /\ Decide("main", a, decision)
  \/ BrowserDecides /\ decision = "approve" /\ CourseChangeRaises("main", a)

DecideInTelegram(a, decision) ==
  \/ TelegramEnabled /\ Decide("telegram", a, decision)
  \/ /\ TelegramEnabled /\ decision = "approve"
     /\ CourseChangeRaises("telegram", a)

-----------------------------------------------------------------------------
Resolving(caller, a, decision) ==
  /\ want[caller] = Deciding(a, decision)
  /\ LockFree
  /\ want' = [want EXCEPT ![caller] = Nothing]
  /\ UNCHANGED <<recoveries, ckpt, image, ws, project, worker>>

\* Slip: pending.get in place of pending.pop's early return.
PopAgain(a, decision) ==
  /\ pending' = [pending EXCEPT ![a] = NoPending]
  /\ approvals' = [approvals EXCEPT ![a] = decision]

\* pending.pop: the first decision takes the continuation.
Pop(a, decision) ==
  /\ pending[a] # NoPending
  /\ pending' = [pending EXCEPT ![a] = NoPending]
  /\ approvals' = [approvals EXCEPT ![a] = decision]

AlreadyDecided(caller, a, decision) ==
  /\ Resolving(caller, a, decision)
  /\ pending[a] = NoPending
  /\ UNCHANGED <<run, disk, approvals, pending, timers>> /\ KeepLock

Reject(caller, a) ==
  /\ Resolving(caller, a, "reject")
  /\ Pop(a, "reject")
  /\ SendPrompt([run EXCEPT !.status = "idle",
                   !.lifecycle = IF pending[a].kind = "course_change"
                                   THEN "running" ELSE @], run)
  /\ KeepLock

ApproveCommand(caller, a) ==
  /\ Resolving(caller, a, "approve")
  /\ pending[a].kind = "command" /\ Pop(a, "approve")
  /\ Publish(run)
  /\ Take(caller, "command",
          [NoJob EXCEPT !.left = pending[a].left, !.risk = pending[a].risk,
                        !.approval = a])
  /\ UNCHANGED timers

ApproveContract(caller, a) ==
  /\ Resolving(caller, a, "approve")
  /\ pending[a].kind = "contract" /\ Pop(a, "approve")
  /\ SendPrompt(run, run)
  /\ Take(caller, "acknowledge", NoJob)

\* After the prompt, status becomes idle in memory only.
Acknowledge ==
  /\ step = "acknowledge"
  /\ Remember([run EXCEPT !.status = "idle"])
  /\ Release
  /\ UNCHANGED <<recoveries, durable, pending, want, timers>>

ApproveCourseChange(caller, a) ==
  /\ Resolving(caller, a, "approve")
  /\ pending[a].kind = "course_change" /\ Pop(a, "approve")
  /\ SendPrompt([run EXCEPT !.lifecycle = "running", !.status = "idle",
                            !.paused = FALSE], run)
  /\ KeepLock

DecisionStep ==
  \/ \E a \in ApprovalIds, decision \in {"approve", "reject"} :
       \/ DecideInBrowser(a, decision)
       \/ DecideInTelegram(a, decision)
       \/ \E caller \in Callers : AlreadyDecided(caller, a, decision)
  \/ \E caller \in Callers, a \in ApprovalIds :
       \/ Reject(caller, a) \/ ApproveCommand(caller, a)
       \/ ApproveContract(caller, a) \/ ApproveCourseChange(caller, a)
  \/ Acknowledge

=============================================================================
