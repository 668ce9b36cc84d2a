---------------------------- MODULE ResponseWorker ----------------------------
(***************************************************************************)
(* process_assistant_response on a worker thread.  ProjectStateMixin reads *)
(* the lifecycle and commits the project-local roadmap before the lock is  *)
(* taken, ResponseMixin acts on the reply under the lock, and the mixin    *)
(* compares the two again after the lock is released.                      *)
(***************************************************************************)
EXTENDS HostState

NoCommit == UNCHANGED <<ckpt, image, ws, project>>
Advance(w, s) == worker' = [worker EXCEPT ![w].stage = s]

ProjectStateError(r) == [r EXCEPT !.paused = TRUE,
                                  !.status = "project_state_error"]

\* Outside the lock, first: prior_lifecycle is read.
ReadLifecycle(w) ==
  /\ worker[w].stage = "started"
  /\ worker' = [worker EXCEPT ![w].stage = "commit",
                              ![w].prior = run.lifecycle]
  /\ UNCHANGED <<run, recoveries, disk, durable, pending, want, timers>>
  /\ KeepLock

\* A reply that would end planning or closeout is committed to the project
\* file before the runtime transition.
CommitsPlan(w) ==
  worker[w].prior = "planning" /\ worker[w].reply = "plan"
CommitsCloseout(w) ==
  worker[w].prior = "finishing" /\ worker[w].reply = "done"

Planned == IF project.status = "none"
             THEN [project EXCEPT !.status = "active"] ELSE project
ClosedOut == [project EXCEPT !.status = "complete"]

Proceed(w) == Advance(w, "ready") /\ UNCHANGED <<run, disk>>

\* The commit raises: mostly before it has written anything, but ROADMAP.md
\* is written before HISTORY.md is appended to.
CommitFails(w) ==
  /\ Publish(ProjectStateError(run))
  /\ worker' = [worker EXCEPT ![w] = IdleWorker]
  /\ \/ UNCHANGED project
     \/ FileFaults /\ CommitsPlan(w) /\ project' = Planned
     \/ /\ FileFaults /\ CommitsCloseout(w) /\ project.status # "none"
        /\ project' = ClosedOut

CommitProject(w) ==
  /\ worker[w].stage = "commit"
  /\ \/ /\ CommitsPlan(w)
        /\ project' = Planned
        /\ Proceed(w)
     \/ /\ CommitsCloseout(w) /\ project.status # "none"
        /\ project' = ClosedOut
        /\ Proceed(w)
     \/ /\ CommitsPlan(w) \/ CommitsCloseout(w)
        /\ CommitFails(w)
     \/ /\ ~CommitsPlan(w) /\ ~CommitsCloseout(w)
        /\ UNCHANGED project /\ Proceed(w)
  /\ UNCHANGED <<recoveries, ckpt, image, ws, approvals, pending, want, timers>>
  /\ KeepLock

-----------------------------------------------------------------------------
\* Under the lock, and done with it within the step.
Responding(w) == worker[w].stage = "ready" /\ LockFree

Quietly(w) ==
  /\ Advance(w, "post") /\ KeepLock
  /\ UNCHANGED want /\ NoCommit

HoldResponse(w) ==
  /\ Responding(w) /\ run.paused
  /\ Publish(run)
  /\ Quietly(w) /\ UNCHANGED <<recoveries, approvals, pending, timers>>

\* A reply without a plan is an error; one whose roadmap is not JSON is only
\* reported, and the status stays what it was.
PlanResponse(w) ==
  /\ Responding(w) /\ ~run.paused /\ run.lifecycle = "planning"
  /\ \/ /\ worker[w].reply = "plan"
        /\ Publish([run EXCEPT !.lifecycle = "ready_to_arm",
                               !.status = "ready_to_arm"])
     \/ /\ worker[w].reply # "plan"
        /\ Publish(run) \/ Publish([run EXCEPT !.status = "planning_error"])
  /\ Quietly(w) /\ UNCHANGED <<recoveries, approvals, pending, timers>>

ReviewResponse(w) ==
  /\ Responding(w) /\ ~run.paused /\ run.lifecycle = "change_review"
  /\ \/ /\ worker[w].reply = "review"
        /\ RequestDecision(run, [NoPending EXCEPT !.kind = "course_change"])
     \/ /\ worker[w].reply # "review"
        /\ Publish(run) /\ UNCHANGED <<approvals, pending>>
  /\ Quietly(w) /\ UNCHANGED <<recoveries, timers>>

DoneResponse(w) ==
  /\ Responding(w) /\ ~run.paused
  /\ run.lifecycle = "finishing" /\ worker[w].reply = "done"
  /\ recoveries' = 0
  /\ Publish([run EXCEPT !.lifecycle = "complete", !.status = "complete",
                         !.paused = TRUE])
  /\ Quietly(w) /\ UNCHANGED <<approvals, pending, timers>>

\* What is left is read as a contract, a stage stop or a protocol failure.
ReadsContract(w) ==
  /\ Responding(w) /\ ~run.paused
  /\ run.lifecycle \notin {"planning", "change_review"}
  /\ ~(run.lifecycle = "finishing" /\ worker[w].reply = "done")

StopResponse(w) ==
  /\ ReadsContract(w) /\ worker[w].reply = "stop"
  /\ recoveries' = 0
  /\ Publish([run EXCEPT !.status = "idle",
                         !.lifecycle = IF @ = "finishing" THEN @ ELSE "idle"])
  /\ Quietly(w) /\ UNCHANGED <<approvals, pending, timers>>

\* _recover_protocol_failure: two recovery prompts, then the workflow stops;
\* with no automated step pending the reply is only reported.
ProtocolFailure(w) ==
  /\ ReadsContract(w)
  /\ worker[w].reply \in {"plan", "review", "done", "none"}
  /\ \/ /\ run.status \notin RecoverableStatuses
        /\ Publish(run) /\ UNCHANGED <<recoveries, timers>>
     \/ /\ run.status \in RecoverableStatuses /\ recoveries < 2
        /\ recoveries' = recoveries + 1
        /\ LET nudged == [run EXCEPT !.status = "recovering"]
           IN SendPrompt(nudged, nudged)
     \/ /\ run.status \in RecoverableStatuses /\ recoveries >= 2
        /\ Publish([run EXCEPT !.lifecycle = "protocol_blocked",
                               !.status = "protocol_blocked",
                               !.paused = TRUE])
        /\ UNCHANGED <<recoveries, timers>>
  /\ Quietly(w) /\ UNCHANGED <<approvals, pending>>

\* A contract restarts the recovery count and is published as validating.
Validating(r) ==
  [r EXCEPT !.status = "validating",
            !.lifecycle = IF @ = "finishing" THEN @ ELSE "running"]

\* The outer except of process_assistant_response: the configuration of a
\* plan cannot be saved, or a contract names a stage that is not the next one
\* and _maybe_apply_canonical_transition raises.
ResponseFails(w) ==
  /\ \/ /\ Responding(w) /\ ~run.paused /\ run.lifecycle = "planning"
        /\ worker[w].reply = "plan"
        /\ Publish([run EXCEPT !.status = "error"])
        /\ UNCHANGED recoveries
     \/ /\ ReadsContract(w) /\ worker[w].reply \in {"contract", "decision"}
        /\ recoveries' = 0
        /\ Publish([Validating(run) EXCEPT !.status = "error"])
  /\ Quietly(w) /\ UNCHANGED <<approvals, pending, timers>>

\* A roadmap mismatch or decision_required asks the human.
DecisionResponse(w) ==
  /\ ReadsContract(w) /\ worker[w].reply = "decision"
  /\ recoveries' = 0
  /\ RequestDecision(Validating(run), [NoPending EXCEPT !.kind = "contract"])
  /\ Quietly(w) /\ UNCHANGED timers

\* _execute_contract ends at once: a command names the lifecycle documents,
\* an attachment is missing, there is no command to run, or no workspace.
RefuseContract(w) ==
  /\ ReadsContract(w) /\ worker[w].reply = "contract"
  /\ recoveries' = 0
  /\ \/ \E s \in {"blocked", "failed", "idle"} :
          SendPrompt([Validating(run) EXCEPT !.status = s], Validating(run))
     \/ Publish(Validating(run)) /\ UNCHANGED timers
  /\ Quietly(w) /\ UNCHANGED <<approvals, pending>>

\* _execute_contract goes on holding the lock: for the browser's download,
\* whose request is persisted first, or in the command loop.
ExecuteContract(w) ==
  /\ ReadsContract(w) /\ worker[w].reply = "contract"
  /\ recoveries' = 0
  /\ Publish(Validating(run))
  /\ \E n \in 0 .. MaxCommands, s \in {"download", "command"} :
       /\ s = "command" => n > 0
       /\ Take(w, s, [NoJob EXCEPT !.left = n])
  /\ UNCHANGED <<durable, pending, want, worker, timers>>

\* download_result is handled by the main thread, which must be idle.
DownloadArrives ==
  /\ step = "download" /\ job.left > 0
  /\ want["main"] = Nothing
  /\ Publish(run) /\ GoTo("command")
  /\ UNCHANGED <<recoveries, durable, pending, want, worker, timers>>

\* A contract of files only is reported at once.
DownloadEndsContract ==
  /\ step = "download" /\ job.left = 0
  /\ want["main"] = Nothing
  /\ SendPrompt([run EXCEPT !.status = "idle"], run)
  /\ Release
  /\ UNCHANGED <<recoveries, durable, pending, want>>

\* Slip: event.wait() without a timeout.
DownloadFailsOnAnswer ==
  /\ step = "download" /\ want["main"] = Nothing
  /\ LET failed == [run EXCEPT !.status = "failed"]
     IN SendPrompt(failed, failed)
  /\ Release
  /\ UNCHANGED <<recoveries, durable, pending, want>>

\* event.wait(timeout=120), or the browser reports a failure.
DownloadFails ==
  /\ step = "download"
  /\ LET failed == [run EXCEPT !.status = "failed"]
     IN SendPrompt(failed, failed)
  /\ Release
  /\ UNCHANGED <<recoveries, durable, pending, want>>

-----------------------------------------------------------------------------
\* After the lock: the runtime and the project file are compared.
CheckProject(w) ==
  LET Is(prior, now) == worker[w].prior = prior /\ run.lifecycle = now
      Drifted == \/ Is("planning", "ready_to_arm") /\ project.status = "none"
                 \/ Is("finishing", "complete") /\ project.status # "complete"
  IN /\ worker[w].stage = "post"
     /\ worker' = [worker EXCEPT ![w] = IdleWorker]
     /\ \/ Drifted /\ Publish(ProjectStateError(run))
        \/ ~Drifted /\ Is("planning", "ready_to_arm") /\ Publish(run)
        \/ ~Drifted /\ ~Is("planning", "ready_to_arm")
             /\ UNCHANGED <<run, disk>>
     /\ UNCHANGED <<recoveries, durable, pending, want, timers>>
     /\ KeepLock

ResponseStep ==
  \/ \E w \in Workers :
       \/ ReadLifecycle(w) \/ CommitProject(w) \/ HoldResponse(w) \/ PlanResponse(w)
       \/ ReviewResponse(w) \/ DoneResponse(w) \/ StopResponse(w)
       \/ ProtocolFailure(w) \/ DecisionResponse(w) \/ RefuseContract(w)
       \/ ExecuteContract(w) \/ ResponseFails(w) \/ CheckProject(w)
  \/ DownloadArrives
  \/ DownloadEndsContract
  \/ DownloadFails

=============================================================================
