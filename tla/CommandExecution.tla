--------------------------- MODULE CommandExecution ---------------------------
(***************************************************************************)
(* RiskAwareExecutionMixin._run_command_and_continue: the command loop of  *)
(* a contract, run by whichever thread holds the lock.  Effective risk R2  *)
(* or R3 is "protected": it needs an approval and, after it, a checkpoint  *)
(* of the workspace files; R0 and R1 are "low"; R4 is blocked.             *)
(***************************************************************************)
EXTENDS HostState

Running(s) == step = s /\ UNCHANGED <<recoveries, want>>

NoStoreChange == UNCHANGED <<ckpt, image, ws, approvals, project, pending>>

\* A prompt to the model and the end of the loop.
Abandon(r) == SendPrompt(r, r) /\ Release

BlockCommand ==
  /\ Running("command")
  /\ job.approval = 0
  /\ Abandon([run EXCEPT !.status = "blocked"])
  /\ NoStoreChange

NeedsApproval(risk) ==
  /\ job.approval = 0
  /\ risk = "protected" \/ ~AutoRunLowRisk

RequestApproval ==
  /\ Running("command")
  /\ \E risk \in Risks :
       /\ NeedsApproval(risk)
       /\ RequestDecision(run, [kind |-> "command", left |-> job.left,
                                risk |-> risk])
  /\ Release
  /\ UNCHANGED <<ckpt, image, ws, project, timers>>

\* The approved command has the risk it was approved with.
SelectCommand ==
  /\ Running("command")
  /\ \E risk \in IF job.approval = 0 THEN Risks ELSE {job.risk} :
       /\ ~NeedsApproval(risk)
       /\ job' = [job EXCEPT !.risk = risk]
       /\ \/ risk = "protected" /\ step' = "checkpoint"
             /\ Publish([run EXCEPT !.status = "checkpointing"])
          \/ risk = "low" /\ step' = "start" /\ UNCHANGED <<run, disk>>
  /\ UNCHANGED <<owner, worker, timers>> /\ NoStoreChange

\* _create_command_checkpoint: the archive is written, then the row.
CreateCheckpoint ==
  /\ Running("checkpoint")
  /\ \E c \in CheckpointIds :
       /\ IsNextCheckpoint(ckpt, c)
       /\ ckpt' = PutCheckpoint(ckpt, c, "ready")
       /\ image' = [image EXCEPT ![c] = ws]
       /\ job' = [job EXCEPT !.ckpt = c]
  /\ Publish(run)
  /\ step' = "start"
  /\ UNCHANGED <<ws, approvals, pending, project, owner, worker, timers>>

\* Slip: a command that goes on without its checkpoint.
CheckpointFailsOpen ==
  /\ Running("checkpoint")
  /\ Publish(run) /\ GoTo("start")
  /\ UNCHANGED <<worker, timers>> /\ NoStoreChange

CheckpointFails ==
  /\ Running("checkpoint")
  /\ Abandon([run EXCEPT !.status = "failed"])
  /\ NoStoreChange

\* status "running" is persisted twice before the process starts; from then
\* on the command may have changed the workspace.
StartCommand ==
  /\ Running("start")
  /\ Publish([run EXCEPT !.status = "running"])
  /\ ws' \in Contents \union {ws}
  /\ GoTo("executing")
  /\ UNCHANGED <<ckpt, image, approvals, pending, project, worker, timers>>

\* Slip: approved_index is not cleared after the approved command.
FinishCommandStillApproved(passed) ==
  /\ Running("executing")
  /\ Publish(run)
  /\ LET left == IF passed THEN job.left - 1 ELSE job.left
     IN /\ job' = [job EXCEPT !.left = left]
        /\ step' = IF passed /\ left > 0 THEN "command" ELSE "report"
  /\ UNCHANGED <<owner, worker, timers>> /\ NoStoreChange

\* Slip: a command that failed is run again.
FinishCommandRepeated(passed) ==
  /\ Running("executing")
  /\ Publish(run)
  /\ LET left == IF passed THEN job.left - 1 ELSE job.left
     IN /\ job' = [NoJob EXCEPT !.left = left]
        /\ step' = IF left > 0 THEN "command" ELSE "report"
  /\ UNCHANGED <<owner, worker, timers>> /\ NoStoreChange

\* Exit 0 goes on to the next command; the approval covered this one only.
FinishCommand(passed) ==
  /\ Running("executing")
  /\ Publish(run)
  /\ LET left == IF passed THEN job.left - 1 ELSE job.left
     IN /\ job' = [NoJob EXCEPT !.left = left]
        /\ step' = IF passed /\ left > 0 THEN "command" ELSE "report"
  /\ UNCHANGED <<owner, worker, timers>> /\ NoStoreChange

ReportResults ==
  /\ Running("report")
  /\ SendPrompt([run EXCEPT !.status = "reporting"], disk)
  /\ GoTo("waiting") /\ UNCHANGED worker
  /\ NoStoreChange

AwaitModel ==
  /\ Running("waiting")
  /\ Publish([run EXCEPT !.status = "waiting_llm"])
  /\ Release /\ UNCHANGED timers
  /\ NoStoreChange

CommandStep ==
  \/ BlockCommand \/ RequestApproval \/ SelectCommand \/ CreateCheckpoint
  \/ CheckpointFails \/ StartCommand \/ ReportResults \/ AwaitModel
  \/ \E passed \in BOOLEAN : FinishCommand(passed)

=============================================================================
