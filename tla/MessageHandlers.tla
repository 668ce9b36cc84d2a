--------------------------- MODULE MessageHandlers ---------------------------
(***************************************************************************)
(* MessageMixin.handle on the main thread, for the messages that are       *)
(* handled without taking self.lock: they change the shared attributes     *)
(* while a worker or the Telegram thread may be inside the lock.           *)
(***************************************************************************)
EXTENDS HostState

MainIdle == owner # "main" /\ want["main"] = Nothing

\* Slip: the message bypasses the recovery gate.
ReceivedUngated(type) == type \in Messages /\ MainIdle

\* The main thread reads a message of this type and the recovery gate lets
\* it through.
Received(type) ==
  /\ type \in Messages
  /\ MainIdle
  /\ run.lifecycle # "recovery_required"

NoPrompt == UNCHANGED <<want, timers>>
OnlyRun  == UNCHANGED <<recoveries, durable, pending, worker>> /\ KeepLock

\* The recovery gate, and every message that only publishes an event
\* (set_config after setup, chat_response_timeout, a request refused before
\* it has changed anything).
Inform ==
  /\ "inform" \in Messages
  /\ MainIdle
  /\ Publish(run)
  /\ NoPrompt /\ OnlyRun

\* The handler has published r and calls _send_result_to_chatgpt without the
\* lock: an immediate prompt has to wait for it in dispatch().
SendFromMain(r) ==
  \/ (PromptRefused(r) \/ PromptDelayed(r)) /\ UNCHANGED want
  \/ /\ ~r.guard /\ ~Spent(r) /\ Publish(r)
     /\ want' = [want EXCEPT !["main"] = ToPrompt]
     /\ UNCHANGED timers

\* active_provider is assigned and budget.set_provider called: the budget is
\* reset when it belonged to another provider, and is active_provider's own
\* from here on.
ForProvider(changed) ==
  IF changed THEN Fresh(run) ELSE [run EXCEPT !.foreign = FALSE]

\* set_config in setup takes the configured provider at once.
SetConfig(changed) ==
  /\ Received("set_config")
  /\ run.lifecycle = "setup"
  /\ Publish(ForProvider(changed))
  /\ NoPrompt /\ OnlyRun

\* The four prompt builders begin alike: the provider is taken and the
\* recovery count restarts.
PromptBuilder(r) ==
  /\ recoveries' = 0
  /\ SendFromMain(r)
  /\ UNCHANGED <<durable, pending, worker>> /\ KeepLock

\* An empty goal or change request is refused once the provider is taken.
EmptyRequest(changed) ==
  /\ Received("build_start_prompt") \/ Received("change_course")
  /\ recoveries' = 0
  /\ Publish(ForProvider(changed))
  /\ NoPrompt /\ UNCHANGED <<durable, pending, worker>> /\ KeepLock

BuildStartPrompt(changed) ==
  /\ Received("build_start_prompt")
  /\ PromptBuilder([ForProvider(changed) EXCEPT
                      !.lifecycle = "planning", !.status = "planning"])

ArmableLifecycles ==
  {"ready_to_arm", "setup", "idle", "protocol_blocked", "paused"}

Armed(r) ==
  IF r.lifecycle \in ArmableLifecycles
    THEN [(IF r.lifecycle \in {"ready_to_arm", "setup"} THEN Fresh(r) ELSE r)
            EXCEPT !.guard = FALSE, !.paused = FALSE, !.lifecycle = "running"]
    ELSE r

Arming(changed) == [Armed(ForProvider(changed)) EXCEPT !.status = "arming"]

BuildControllerPrompt(changed) ==
  /\ Received("build_controller_prompt")
  /\ PromptBuilder(Arming(changed))

\* controller_prompt() raises, because the project's ROADMAP.md cannot be
\* read, when "arming" is already persisted: main's loop reports the error
\* and the workflow stays armed without a prompt.
ControllerPromptRaises(changed) ==
  /\ Received("build_controller_prompt")
  /\ recoveries' = 0
  /\ Publish(Arming(changed))
  /\ NoPrompt /\ UNCHANGED <<durable, pending, worker>> /\ KeepLock

ChangeCourse(changed) ==
  /\ Received("change_course")
  /\ PromptBuilder([ForProvider(changed) EXCEPT !.paused = FALSE,
                      !.lifecycle = "change_review",
                      !.status = "change_review"])

FinishProject(changed) ==
  /\ Received("finish_project")
  /\ PromptBuilder([ForProvider(changed) EXCEPT !.paused = FALSE,
                      !.lifecycle = "finishing", !.status = "finishing"])

Pause ==
  /\ Received("pause")
  /\ Publish([run EXCEPT !.paused = TRUE, !.lifecycle = "paused",
                         !.status = "paused"])
  /\ NoPrompt /\ OnlyRun

Resume ==
  /\ Received("resume")
  /\ Publish(IF run.guard THEN run
             ELSE [run EXCEPT !.paused = FALSE, !.lifecycle = "running",
                              !.status = "idle"])
  /\ NoPrompt /\ OnlyRun

ResetSession ==
  /\ Received("reset_session")
  /\ Publish([Fresh(run) EXCEPT
       !.guard = FALSE, !.paused = FALSE, !.status = "idle",
       !.lifecycle = IF @ \in {"paused", "budget_exhausted"} THEN "running"
                                                             ELSE @])
  /\ NoPrompt /\ OnlyRun

\* A reply and a warning assign active_provider and leave the budget alone:
\* it may now be another provider's, or the right one again.
Foreign == IF OtherProviders THEN BOOLEAN ELSE {FALSE}

ProviderSafetySignal(foreign) ==
  /\ Received("provider_safety_signal")
  /\ Publish([run EXCEPT !.guard = TRUE, !.paused = TRUE, !.blocked = TRUE,
                         !.foreign = foreign, !.lifecycle = "paused",
                         !.status = "provider_guard"])
  /\ NoPrompt /\ OnlyRun

\* assistant_response: publish, then start a worker thread on the reply.
AssistantResponse(w, reply, foreign) ==
  /\ Received("assistant_response")
  /\ reply \in Replies
  /\ worker[w] = IdleWorker
  /\ worker' = [worker EXCEPT ![w] = [stage |-> "started", reply |-> reply,
                                      prior |-> "setup"]]
  /\ Publish([run EXCEPT !.foreign = foreign])
  /\ NoPrompt /\ UNCHANGED <<recoveries, durable, pending>> /\ KeepLock

\* chat_send_ack from the browser: submitted, or not confirmed.
ChatSendAck(ok) ==
  /\ Received("chat_send_ack")
  /\ Publish([run EXCEPT !.status = IF ok THEN "waiting_llm" ELSE "error"])
  /\ NoPrompt /\ OnlyRun

\* The prompt of a main-thread handler gets the lock at last.
DispatchFromMain ==
  /\ want["main"] = ToPrompt
  /\ LockFree
  /\ Dispatch(run, disk)
  /\ want' = [want EXCEPT !["main"] = Nothing]
  /\ UNCHANGED timers /\ OnlyRun

\* A timer thread runs the same dispatch() once the delay is over.
FireTimer ==
  /\ timers > 0
  /\ LockFree
  /\ timers' = timers - 1
  /\ Dispatch(run, disk)
  /\ UNCHANGED want /\ OnlyRun

\* A turn gets older than an hour, in memory and in the row: decision() drops
\* it before it counts.
OneOlder(r) == [r EXCEPT !.turns = IF @ > 0 THEN @ - 1 ELSE 0]

TurnAges ==
  /\ run.turns > 0
  /\ run' = OneOlder(run)
  /\ disk' = IF disk = NoRow THEN NoRow ELSE OneOlder(disk)
  /\ NoPrompt /\ OnlyRun

MainStep ==
  \/ Inform \/ Pause \/ Resume \/ ResetSession
  \/ \E changed \in BOOLEAN :
       \/ SetConfig(changed) \/ EmptyRequest(changed)
       \/ BuildStartPrompt(changed)
       \/ BuildControllerPrompt(changed) \/ ControllerPromptRaises(changed)
       \/ ChangeCourse(changed) \/ FinishProject(changed)
  \/ \E foreign \in Foreign :
       \/ ProviderSafetySignal(foreign)
       \/ \E w \in Workers, reply \in Replies :
            AssistantResponse(w, reply, foreign)
  \/ \E ok \in BOOLEAN : ChatSendAck(ok)
  \/ DispatchFromMain
  \/ FireTimer
  \/ TurnAges

=============================================================================
