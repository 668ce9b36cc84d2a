------------------------------ MODULE TurnBudget ------------------------------
(***************************************************************************)
(* RunBudget with its clock, and the prompts that ask it: the limits on    *)
(* autonomous AI turns.  NativeHost counts turns and leaves time out; here *)
(* time passes and the rest of the host is reduced to what asks for a      *)
(* prompt, pauses it, names the provider, or restarts.  A prompt comes from*)
(* a thread that holds self.lock, from the main thread, which waits for the*)
(* lock inside dispatch(), or from a timer.  A budget belongs to a provider*)
(* and may outlive its turn: an answer of another provider makes that one  *)
(* the active provider and leaves the budget as it is, until a prompt      *)
(* builder or a restart calls set_provider.                                *)
(***************************************************************************)
EXTENDS Naturals, Sequences, FiniteSets

CONSTANTS
  Hour,          \* the window of the hourly limit
  MinInterval,   \* min_turn_interval_seconds
  MaxRuntime,    \* max_runtime_minutes
  MaxHour,       \* max_turns_per_hour
  MaxSession,    \* max_turns_per_session
  Providers,     \* the web AIs a tab may belong to
  Timers,        \* timer threads that may be alive at once
  MaxTime        \* bound: where the clock stops

ASSUME BudgetAssumption ==
  /\ {Hour, MinInterval, MaxRuntime, MaxHour, MaxSession, MaxTime} \subseteq Nat
  /\ Hour > 0
  /\ Providers # {}

VARIABLES
  now,       \* time.time(), which does not go backwards
  provider,  \* self.active_provider
  budget,    \* the RunBudget, with the provider it belongs to
  paused,    \* self.paused
  guard,     \* self.provider_guard
  saved,     \* what of these the persisted runtime row holds
  main,      \* the main thread: idle, about to ask for a prompt, or waiting
             \* for the lock inside dispatch()
  timer,     \* the timer threads
  pending,   \* self.pending_send_timer
  session    \* ghost: when the session began and when its turns were sent

attributes == <<provider, budget, paused, guard>>
vars == <<now, provider, budget, paused, guard, saved, main, timer, pending,
          session>>

\* turns: when its turns were sent, by their numbers; the order of the list is
\* not looked at, and two turns of one instant are two.  last: 0 is no turn yet.
Budgets == [provider : Providers, start : Nat, turns : UNION {[some -> Nat] : some \in SUBSET Nat},
            last : Nat, blocked : BOOLEAN]
NoTimer == "none"
Off     == [state |-> "off", due |-> 0]

\* RunBudget.reset.
FreshBudget(p) == [provider |-> p, start |-> now, turns |-> <<>>, last |-> 0,
                   blocked |-> FALSE]
NewSession     == [start |-> now, sent |-> <<>>]

Init ==
  /\ now = 1
  /\ provider \in Providers
  /\ budget = FreshBudget(provider) /\ paused = FALSE /\ guard = FALSE
  /\ saved = [provider |-> provider, budget |-> budget, paused |-> FALSE,
              guard |-> FALSE]
  /\ main = "idle"
  /\ timer = [t \in Timers |-> Off] /\ pending = NoTimer
  /\ session = NewSession

-----------------------------------------------------------------------------
Recent(turns) ==
  [i \in {j \in DOMAIN turns : now - turns[j] < Hour} |-> turns[i]]
Count(turns)  == Cardinality(DOMAIN turns)

\* decision() drops the turns older than an hour before it counts.
Pruned == [budget EXCEPT !.turns = Recent(budget.turns)]

Allowed ==
  /\ ~budget.blocked
  /\ now - budget.start < MaxRuntime
  /\ Count(Pruned.turns) < MaxHour
  /\ Count(Pruned.turns) < MaxSession

Delay == IF budget.last = 0 \/ now - budget.last >= MinInterval
           THEN 0 ELSE MinInterval - (now - budget.last)

\* The runtime row is written with the attributes as they now are.
Persist == saved' = [provider |-> provider', budget |-> budget',
                     paused |-> paused', guard |-> guard']

Brake ==
  /\ budget' = Pruned /\ paused' = TRUE
  /\ UNCHANGED <<provider, guard, session>>
  /\ Persist

\* record_send, persisted before the prompt is emitted.
Recorded(turns, number) ==
  [i \in DOMAIN turns \cup {number} |-> IF i = number THEN now ELSE turns[i]]

\* Slip: the turn is not persisted before the prompt leaves.
SendUnsaved ==
  /\ budget' = [Pruned EXCEPT !.turns = Recorded(@, Len(session.sent) + 1),
                              !.last = now]
  /\ UNCHANGED <<provider, paused, guard, saved>>
  /\ session' = [session EXCEPT !.sent = Append(@, now)]

Send ==
  /\ budget' = [Pruned EXCEPT !.turns = Recorded(@, Len(session.sent) + 1),
                              !.last = now]
  /\ UNCHANGED <<provider, paused, guard>>
  /\ Persist
  /\ session' = [session EXCEPT !.sent = Append(@, now)]

\* dispatch(): the second decision's delay is not looked at.
Dispatch ==
  \/ (paused \/ guard) /\ UNCHANGED <<attributes, saved, session>>
  \/ ~paused /\ ~guard /\ Allowed /\ Send
  \/ ~paused /\ ~guard /\ ~Allowed /\ Brake

Cancelled == IF pending # NoTimer /\ timer[pending].state = "armed"
               THEN [timer EXCEPT ![pending] = Off] ELSE timer

\* A new timer; cancel() is too late for one that has begun to run.
ArmTimer ==
  /\ Delay > 0
  /\ \E t \in Timers :
       /\ Cancelled[t] = Off
       /\ timer' = [Cancelled EXCEPT
                      ![t] = [state |-> "armed", due |-> now + Delay]]
       /\ pending' = t
  /\ budget' = Pruned
  /\ UNCHANGED <<provider, paused, guard, session>>
  /\ Persist

\* The guard refuses at once, which is told and so persisted.
Refused ==
  /\ guard
  /\ UNCHANGED <<attributes, session, timer, pending>>
  /\ Persist

\* _send_result_to_chatgpt by a thread that holds the lock.
SendHoldingLock ==
  /\ \/ Refused
     \/ ~guard /\ ~Allowed /\ Brake /\ UNCHANGED <<timer, pending>>
     \/ ~guard /\ Allowed /\ ArmTimer
     \/ ~guard /\ Allowed /\ Delay = 0 /\ Dispatch /\ pending' = NoTimer
          /\ UNCHANGED timer
  /\ UNCHANGED <<now, main>>

\* The same by the main thread, which takes the lock in dispatch().
SendWithoutLock ==
  /\ main = "send"
  /\ \/ Refused /\ main' = "idle"
     \/ /\ ~guard /\ ~Allowed /\ Brake /\ main' = "idle"
        /\ UNCHANGED <<timer, pending>>
     \/ ~guard /\ Allowed /\ ArmTimer /\ main' = "idle"
     \/ /\ ~guard /\ Allowed /\ Delay = 0 /\ main' = "dispatch"
        /\ budget' = Pruned
        /\ UNCHANGED <<provider, paused, guard, saved, timer, pending, session>>
  /\ UNCHANGED now

DispatchFromMain ==
  /\ main = "dispatch" /\ main' = "idle"
  /\ Dispatch /\ pending' = NoTimer
  /\ UNCHANGED <<now, timer>>

\* The delay is over and the timer's function begins: cancel() comes too late.
TimerExpires(t) ==
  /\ timer[t].state = "armed" /\ timer[t].due <= now
  /\ timer' = [timer EXCEPT ![t].state = "fired"]
  /\ UNCHANGED <<now, attributes, saved, main, pending, session>>

DispatchFromTimer(t) ==
  /\ timer[t].state = "fired"
  /\ timer' = [timer EXCEPT ![t] = Off]
  /\ Dispatch /\ pending' = NoTimer
  /\ UNCHANGED <<now, main>>

-----------------------------------------------------------------------------
Tick ==
  /\ now < MaxTime
  /\ now' = now + 1
  /\ UNCHANGED <<attributes, saved, main, timer, pending, session>>

\* reset.
NewBudget(p) == budget' = FreshBudget(p) /\ session' = NewSession

\* The provider is named and set_provider asked: a budget of that provider
\* stays as it is.
SetProvider(p) ==
  /\ provider' = p
  /\ \/ p = budget.provider /\ UNCHANGED <<budget, session>>
     \/ p # budget.provider /\ NewBudget(p)

\* build_start_prompt, and set_config during setup, which asks for no prompt;
\* a request that is refused has named its provider all the same.
TakeProvider(p) ==
  /\ main = "idle" /\ main' \in {"idle", "send"}
  /\ SetProvider(p) /\ UNCHANGED <<paused, guard>> /\ Persist
  /\ UNCHANGED <<now, timer, pending>>

\* change_course and finish_project lift the pause but not the guard.
PromptUnpaused(p) ==
  /\ main = "idle" /\ main' = "send"
  /\ SetProvider(p) /\ paused' = FALSE /\ UNCHANGED guard /\ Persist
  /\ UNCHANGED <<now, timer, pending>>

\* build_controller_prompt where it lifts both; the first one of a project also
\* starts the budget anew.  controller_prompt may raise after all this was told.
PromptController(p) ==
  /\ main = "idle" /\ main' \in {"idle", "send"}
  /\ \/ SetProvider(p)
     \/ provider' = p /\ NewBudget(p)
  /\ paused' = FALSE /\ guard' = FALSE /\ Persist
  /\ UNCHANGED <<now, timer, pending>>

\* pause; resume, which the guard refuses, and what else lifts the pause (a
\* course change approved, a review ended, a rollback that puts it back).
SetPaused(p) ==
  /\ main = "idle"
  /\ paused' = p /\ UNCHANGED <<provider, budget, guard>> /\ Persist
  /\ UNCHANGED <<now, main, timer, pending, session>>

\* reset_session.
ResetSession ==
  /\ main = "idle"
  /\ NewBudget(provider) /\ UNCHANGED provider
  /\ paused' = FALSE /\ guard' = FALSE /\ Persist
  /\ UNCHANGED <<now, main, timer, pending>>

\* provider_safety_signal, of whatever provider: set_provider is not asked, and
\* the block is laid on the budget there is.
ProviderSafetySignal(p) ==
  /\ main = "idle"
  /\ provider' = p /\ guard' = TRUE /\ paused' = TRUE
  /\ budget' = [budget EXCEPT !.blocked = TRUE] /\ Persist
  /\ UNCHANGED <<now, main, timer, pending, session>>

\* assistant_response: the tab's provider becomes the active one, and the
\* budget stays the one it was.
AssistantResponse(p) ==
  /\ main = "idle"
  /\ provider' = p /\ UNCHANGED <<budget, paused, guard>> /\ Persist
  /\ UNCHANGED <<now, main, timer, pending, session>>

-----------------------------------------------------------------------------
\* Slips: a restore that forgets the turns, or that starts the session again.
RestoreWithoutTurns(row) == [row.budget EXCEPT !.turns = <<>>]
RestoreNewSession(row)   == [row.budget EXCEPT !.start = now]

\* RunBudget.restore_state.
Restore(row) == row.budget

Foreign(row) == row.budget.provider # row.provider

\* _restore_runtime_state: a budget of another provider is not used again, and
\* a guard blocks whatever budget there is.
Restored(row) ==
  LET own == IF Foreign(row) THEN FreshBudget(row.provider) ELSE Restore(row)
  IN  [own EXCEPT !.blocked = @ \/ row.guard]

\* The host dies and starts again, paused when it must be reviewed or guarded.
Restart ==
  /\ provider' = saved.provider /\ guard' = saved.guard
  /\ budget' = Restored(saved)
  /\ session' = IF Foreign(saved) THEN NewSession ELSE session
  /\ paused' \in {saved.paused \/ saved.guard, TRUE}
  /\ main' = "idle"
  /\ timer' = [t \in Timers |-> Off] /\ pending' = NoTimer
  /\ UNCHANGED <<now, saved>>

Next ==
  \/ SendHoldingLock \/ SendWithoutLock \/ DispatchFromMain
  \/ \E t \in Timers : TimerExpires(t) \/ DispatchFromTimer(t)
  \/ \E p \in Providers : \/ TakeProvider(p) \/ PromptUnpaused(p)
                          \/ PromptController(p)
                          \/ ProviderSafetySignal(p) \/ AssistantResponse(p)
  \/ \E p \in BOOLEAN : SetPaused(p)
  \/ Tick \/ ResetSession \/ Restart

Spec == Init /\ [][Next]_vars

-----------------------------------------------------------------------------
\* In no hour of a session are more turns sent than the limit allows, however
\* prompts, timers and restarts interleave (RunBudget.decision, asked twice,
\* and record_send, persisted before the prompt leaves).  A session is the life
\* of one budget: reset and set_provider end it, and so does a restart that
\* finds the budget of another provider than the active one.
HourlyLimitHolds ==
  Cardinality({i \in 1 .. Len(session.sent) : now - session.sent[i] < Hour})
    <= MaxHour

\* No turn is sent once the session has run its time.  A restart that finds the
\* active provider's budget does not start the session again (restore_state
\* keeps session_started_at, and set_provider finds nothing to reset).
RuntimeLimitHolds ==
  \A i \in 1 .. Len(session.sent) : session.sent[i] - session.start < MaxRuntime

\* To who asks it for a turn, whatever was sent or blocked is persisted before
\* anybody can learn of it: a crash leaves the count, the session and the block
\* as they are, except that the provider guard blocks again and that the budget
\* of another provider gives way to a new session; and nothing but time and a
\* new session frees a turn (build_runtime_snapshot, _restore_runtime_state).
Promise == INSTANCE BudgetPromise
             WITH clock <- now, begun <- session.start,
                  counted <- Recent(budget.turns), blocked <- budget.blocked
BudgetPromiseKept == Promise!PromiseSpec

=============================================================================
