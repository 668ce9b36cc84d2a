--------------------------- MODULE TurnBudget_proofs ---------------------------
(***************************************************************************)
(* The run-time limit and the hourly limit of a session, and the promise of*)
(* BudgetPromise, proved for every limit, any number of timers and         *)
(* providers, and every restart.                                           *)
(***************************************************************************)
EXTENDS TurnBudget, FiniteSetTheorems, TLAPS

HasStart(b, n) == "start" \in DOMAIN b /\ b.start = n

\* The budget in memory began when the session did, and so did the one on the
\* disk unless a restart would not use it; so a restart measures the same time
\* or begins a session.
RuntimeInv ==
  /\ now \in Nat
  /\ session \in [start : Nat, sent : Seq(Nat)]
  /\ HasStart(budget, session.start)
  /\ ~Foreign(saved) => HasStart(saved.budget, session.start)
  /\ RuntimeLimitHolds

LEMMA PrunedKeepsStart ==
  ASSUME NEW n, HasStart(budget, n)
  PROVE  HasStart(Pruned, n)
BY DEF HasStart, Pruned

\* A turn is sent inside the limit, and only then does the list grow.
LEMMA SendPreserves ==
  ASSUME RuntimeInv, Allowed, Send, UNCHANGED now
  PROVE  RuntimeInv'
<1> DEFINE old == session.sent
<1>1. /\ now \in Nat /\ old \in Seq(Nat) /\ session.start \in Nat
      /\ session'.start = session.start /\ session'.sent = Append(old, now)
      /\ session' \in [start : Nat, sent : Seq(Nat)]
  <2>1. /\ now \in Nat /\ old \in Seq(Nat) /\ session.start \in Nat
        /\ session \in [start : Nat, sent : Seq(Nat)]
    BY DEF RuntimeInv
  <2>2. Append(old, now) \in Seq(Nat)
    BY <2>1
  <2>3. session' = [session EXCEPT !.sent = Append(old, now)]
    BY DEF Send
  <2> QED BY <2>1, <2>2, <2>3
<1>2. now - session.start < MaxRuntime
  BY DEF Allowed, RuntimeInv, HasStart
<1>3. HasStart(budget', session.start)
  <2>1. HasStart(Pruned, session.start)
    BY PrunedKeepsStart DEF RuntimeInv
  <2> QED BY <2>1 DEF Send, HasStart
<1>4. saved'.budget = budget'
  BY DEF Send, Persist
<1>5. ASSUME NEW i \in 1 .. Len(session'.sent)
      PROVE  session'.sent[i] - session'.start < MaxRuntime
  <2>1. CASE i \in 1 .. Len(old)
    <3>1. session'.sent[i] = old[i]
      BY <1>1, <2>1
    <3>2. old[i] - session.start < MaxRuntime
      BY <2>1 DEF RuntimeInv, RuntimeLimitHolds
    <3> QED BY <1>1, <3>1, <3>2
  <2>2. CASE i = Len(old) + 1
    <3>1. session'.sent[i] = now
      BY <1>1, <2>2
    <3> QED BY <1>1, <1>2, <3>1
  <2>3. i \in 1 .. Len(old) \/ i = Len(old) + 1
    BY <1>1
  <2> QED BY <2>1, <2>2, <2>3
<1> QED BY <1>1, <1>3, <1>4, <1>5 DEF RuntimeInv, RuntimeLimitHolds

\* What neither sends a turn nor begins a session.
LEMMA QuietPreserves ==
  ASSUME RuntimeInv, now' \in Nat, UNCHANGED session,
         HasStart(budget', session.start),
         \/ Persist
         \/ UNCHANGED saved
  PROVE  RuntimeInv'
<1>1. ~Foreign(saved)' => HasStart(saved'.budget, session.start)
  <2>1. CASE Persist
    <3>1. saved'.budget = budget'
      BY <2>1 DEF Persist
    <3> QED BY <3>1
  <2>2. CASE UNCHANGED saved
    BY <2>2 DEF RuntimeInv, Foreign
  <2> QED BY <2>1, <2>2
<1> QED BY <1>1 DEF RuntimeInv, RuntimeLimitHolds

\* A session begins with a budget of its own; what is on the disk was written
\* with it, or is of no use to a restart.
LEMMA NewSessionPreserves ==
  ASSUME RuntimeInv, UNCHANGED now, session' = NewSession,
         HasStart(budget', now), Persist \/ Foreign(saved)'
  PROVE  RuntimeInv'
<1>1. session' = [start |-> now, sent |-> <<>>] /\ now \in Nat
  BY DEF NewSession, RuntimeInv
<1>2. ~Foreign(saved)' => HasStart(saved'.budget, now)
  BY DEF Persist
<1> QED BY <1>1, <1>2 DEF RuntimeInv, RuntimeLimitHolds, HasStart

\* The budget a provider is given: the one that is its own, or a fresh one.
LEMMA SetProviderPreserves ==
  ASSUME RuntimeInv, NEW p, SetProvider(p) \/ NewBudget(p), Persist, UNCHANGED now
  PROVE  RuntimeInv'
<1>1. CASE UNCHANGED <<budget, session>>
  BY <1>1, QuietPreserves DEF RuntimeInv
<1>2. CASE NewBudget(p)
  BY <1>2, NewSessionPreserves DEF NewBudget, FreshBudget, HasStart
<1> QED BY <1>1, <1>2 DEF SetProvider

LEMMA RestartPreserves ==
  ASSUME RuntimeInv, Restart
  PROVE  RuntimeInv'
<1>1. CASE Foreign(saved)
  <2>1. HasStart(budget', now)
    BY <1>1 DEF Restart, Restored, FreshBudget, HasStart
  <2>2. Foreign(saved)'
    BY <1>1 DEF Restart, Foreign
  <2> QED BY <1>1, <2>1, <2>2, NewSessionPreserves DEF Restart
<1>2. CASE ~Foreign(saved)
  <2>1. budget' = [saved.budget EXCEPT !.blocked = @ \/ saved.guard]
    BY <1>2 DEF Restart, Restored, Restore
  <2>2. HasStart(budget', session.start)
    BY <1>2, <2>1 DEF RuntimeInv, HasStart
  <2> QED BY <1>2, <2>2, QuietPreserves DEF Restart, RuntimeInv
<1> QED BY <1>1, <1>2

LEMMA BrakePreserves ==
  ASSUME RuntimeInv, Brake, UNCHANGED now
  PROVE  RuntimeInv'
BY PrunedKeepsStart, QuietPreserves DEF Brake, RuntimeInv

LEMMA DispatchPreserves ==
  ASSUME RuntimeInv, Dispatch, UNCHANGED now
  PROVE  RuntimeInv'
<1>1. CASE UNCHANGED <<attributes, saved, session>>
  BY <1>1, QuietPreserves DEF RuntimeInv, attributes
<1>2. CASE Allowed /\ Send
  BY <1>2, SendPreserves
<1>3. CASE Brake
  BY <1>3, BrakePreserves
<1> QED BY <1>1, <1>2, <1>3 DEF Dispatch

LEMMA ArmTimerPreserves ==
  ASSUME RuntimeInv, ArmTimer, UNCHANGED now
  PROVE  RuntimeInv'
BY PrunedKeepsStart, QuietPreserves DEF ArmTimer, RuntimeInv

LEMMA NextPreserves ==
  ASSUME RuntimeInv, [Next]_vars
  PROVE  RuntimeInv'
<1>1. CASE SendHoldingLock
  <2>1. CASE Refused
    BY <1>1, <2>1, QuietPreserves
       DEF SendHoldingLock, Refused, attributes, RuntimeInv
  <2> QED BY <1>1, <2>1, BrakePreserves, ArmTimerPreserves, DispatchPreserves
          DEF SendHoldingLock
<1>2. CASE SendWithoutLock
  <2>1. CASE Refused
    BY <1>2, <2>1, QuietPreserves
       DEF SendWithoutLock, Refused, attributes, RuntimeInv
  <2>2. CASE UNCHANGED <<saved, session>> /\ budget' = Pruned
    BY <1>2, <2>2, PrunedKeepsStart, QuietPreserves
       DEF SendWithoutLock, RuntimeInv
  <2> QED BY <1>2, <2>1, <2>2, BrakePreserves, ArmTimerPreserves
          DEF SendWithoutLock
<1>3. CASE DispatchFromMain
  BY <1>3, DispatchPreserves DEF DispatchFromMain
<1>4. ASSUME NEW t \in Timers, TimerExpires(t) \/ DispatchFromTimer(t)
      PROVE  RuntimeInv'
  <2>1. CASE TimerExpires(t)
    BY <2>1, QuietPreserves DEF TimerExpires, RuntimeInv, attributes
  <2>2. CASE DispatchFromTimer(t)
    BY <2>2, DispatchPreserves DEF DispatchFromTimer
  <2> QED BY <1>4, <2>1, <2>2
<1>5. ASSUME NEW p \in Providers,
             TakeProvider(p) \/ PromptUnpaused(p) \/ PromptController(p)
      PROVE  RuntimeInv'
  BY <1>5, SetProviderPreserves
     DEF TakeProvider, PromptUnpaused, PromptController
<1>6. ASSUME NEW p \in Providers, ProviderSafetySignal(p) PROVE RuntimeInv'
  <2>1. HasStart(budget', session.start)
    BY <1>6 DEF ProviderSafetySignal, HasStart, RuntimeInv
  <2> QED BY <1>6, <2>1, QuietPreserves DEF ProviderSafetySignal, RuntimeInv
<1>7. ASSUME NEW p \in Providers, AssistantResponse(p) PROVE RuntimeInv'
  BY <1>7, QuietPreserves DEF AssistantResponse, RuntimeInv
<1>8. ASSUME NEW p \in BOOLEAN, SetPaused(p) PROVE RuntimeInv'
  BY <1>8, QuietPreserves DEF SetPaused, RuntimeInv
<1>9. CASE Tick
  BY <1>9, QuietPreserves DEF Tick, RuntimeInv, attributes
<1>10. CASE ResetSession
  BY <1>10, SetProviderPreserves DEF ResetSession
<1>11. CASE Restart
  BY <1>11, RestartPreserves
<1>12. CASE UNCHANGED vars
  BY <1>12, QuietPreserves DEF vars, RuntimeInv, attributes
<1> QED BY <1>1, <1>2, <1>3, <1>4, <1>5, <1>6, <1>7, <1>8, <1>9, <1>10, <1>11,
           <1>12 DEF Next

LEMMA InitRuntime == Init => RuntimeInv
BY DEF Init, RuntimeInv, FreshBudget, NewSession, HasStart, RuntimeLimitHolds

\* However prompts, timers, pauses, blocks, providers and restarts interleave, no
\* turn of a session is sent after its run time: decision() is asked again at
\* the last moment, and restore_state keeps session_started_at.  What ends a
\* session is part of the model: reset, set_provider for another provider, and a
\* restart that finds another provider's budget, whose turns are then forgotten.
THEOREM RuntimeLimitAlwaysHolds == Spec => []RuntimeLimitHolds
<1>1. RuntimeInv => RuntimeLimitHolds
  BY DEF RuntimeInv
<1> QED BY <1>1, InitRuntime, NextPreserves, PTL DEF Spec

-----------------------------------------------------------------------------
\* The turns of the session that count against the hourly limit.
LastHour == {i \in 1 .. Len(session.sent) : now - session.sent[i] < Hour}

\* A budget has recorded every turn of the last hour; it may hold older ones.
Records(b) ==
  /\ "turns" \in DOMAIN b
  /\ IsFiniteSet(DOMAIN b.turns)
  /\ \A i \in LastHour : i \in DOMAIN b.turns /\ b.turns[i] = session.sent[i]

\* So has the persisted row, which a restart puts in the budget's place, unless
\* the restart would take neither its turns nor its session.
HourInv ==
  /\ now \in Nat
  /\ session \in [start : Nat, sent : Seq(Nat)]
  /\ Records(budget)
  /\ ~Foreign(saved) => Records(saved.budget)
  /\ HourlyLimitHolds

LEMMA LastHourIsFinite ==
  ASSUME session \in [start : Nat, sent : Seq(Nat)]
  PROVE  IsFiniteSet(LastHour)
<1>1. Len(session.sent) \in Nat
  OBVIOUS
<1>2. IsFiniteSet(1 .. Len(session.sent))
  BY <1>1, FS_Interval
<1> QED BY <1>2, FS_Subset DEF LastHour

\* decision() drops no turn that still counts.
LEMMA PrunedRecords ==
  ASSUME HourInv
  PROVE  /\ Records(Pruned)
         /\ DOMAIN Pruned.turns =
              {i \in DOMAIN budget.turns : now - budget.turns[i] < Hour}
<1> DEFINE kept == {i \in DOMAIN budget.turns : now - budget.turns[i] < Hour}
<1>1. "turns" \in DOMAIN budget /\ IsFiniteSet(DOMAIN budget.turns)
  BY DEF HourInv, Records
<1>2. /\ Pruned.turns = [i \in kept |-> budget.turns[i]]
      /\ "turns" \in DOMAIN Pruned
  BY <1>1 DEF Pruned, Recent
<1>3. DOMAIN Pruned.turns = kept
  BY <1>2
<1>4. IsFiniteSet(kept)
  BY <1>1, FS_Subset
<1>5. \A i \in LastHour : i \in kept /\ Pruned.turns[i] = session.sent[i]
  BY <1>2 DEF HourInv, Records, LastHour
<1> QED BY <1>2, <1>3, <1>4, <1>5 DEF Records

\* The turns of the last hour are no more than the budget counts.
LEMMA CountBoundsTheHour ==
  ASSUME HourInv
  PROVE  /\ Cardinality(LastHour) \in Nat /\ Count(Pruned.turns) \in Nat
         /\ Cardinality(LastHour) <= Count(Pruned.turns)
<1>1. LastHour \subseteq DOMAIN Pruned.turns /\ IsFiniteSet(DOMAIN Pruned.turns)
  BY PrunedRecords DEF Records
<1>2. IsFiniteSet(LastHour)
  BY LastHourIsFinite DEF HourInv
<1> QED BY <1>1, <1>2, FS_Subset, FS_CardinalityType DEF Count

\* What sends no turn and begins no session, at whatever time.
LEMMA QuietHour ==
  ASSUME HourInv, now' \in Nat, now <= now', UNCHANGED session,
         Records(budget'), Persist \/ UNCHANGED saved
  PROVE  HourInv'
<1>1. session \in [start : Nat, sent : Seq(Nat)] /\ now \in Nat /\ MaxHour \in Nat
      /\ Hour \in Nat
  BY BudgetAssumption DEF HourInv
<1>2. LastHour' \subseteq LastHour
  <2>1. ASSUME NEW i \in 1 .. Len(session.sent), now' - session.sent[i] < Hour
        PROVE  now - session.sent[i] < Hour
    <3>1. session.sent[i] \in Nat
      BY <1>1
    <3> QED BY <1>1, <2>1, <3>1
  <2> QED BY <2>1 DEF LastHour
<1>3. Records(budget)' /\ (~Foreign(saved)' => Records(saved.budget)')
  <2>1. ASSUME NEW b, Records(b)
        PROVE  /\ "turns" \in DOMAIN b
               /\ IsFiniteSet(DOMAIN b.turns)
               /\ \A i \in LastHour' : i \in DOMAIN b.turns /\ b.turns[i] = session'.sent[i]
    BY <1>2, <2>1 DEF Records
  <2>2. saved'.budget = budget' \/ saved' = saved
    BY DEF Persist
  <2>3. ~Foreign(saved)' => Records(saved'.budget)
    BY <2>2 DEF HourInv, Foreign
  <2> QED BY <2>1, <2>3 DEF Records
<1>4. Cardinality(LastHour') <= MaxHour
  <2>1. IsFiniteSet(LastHour)
    BY <1>1, LastHourIsFinite
  <2>2. /\ Cardinality(LastHour') <= Cardinality(LastHour)
        /\ Cardinality(LastHour) \in Nat /\ Cardinality(LastHour') \in Nat
    BY <1>2, <2>1, FS_Subset, FS_CardinalityType
  <2>3. Cardinality(LastHour) <= MaxHour
    BY DEF HourInv, HourlyLimitHolds, LastHour
  <2> QED BY <1>1, <2>2, <2>3
<1>5. HourlyLimitHolds'
  BY <1>4 DEF HourlyLimitHolds, LastHour
<1> QED BY <1>1, <1>3, <1>5 DEF HourInv

\* A turn is sent while there is room for one more, and is recorded and
\* persisted with it.
LEMMA SendKeepsHour ==
  ASSUME HourInv, Allowed, Send, UNCHANGED now
  PROVE  HourInv'
<1> DEFINE old == session.sent
           number == Len(old) + 1
<1>1. /\ now \in Nat /\ old \in Seq(Nat) /\ session.start \in Nat /\ Len(old) \in Nat
      /\ session'.sent = Append(old, now)
      /\ session' \in [start : Nat, sent : Seq(Nat)]
  <2>1. /\ now \in Nat /\ old \in Seq(Nat) /\ session.start \in Nat /\ Len(old) \in Nat
        /\ session \in [start : Nat, sent : Seq(Nat)]
    BY DEF HourInv
  <2>2. Append(old, now) \in Seq(Nat)
    BY <2>1
  <2>3. session' = [session EXCEPT !.sent = Append(old, now)]
    BY DEF Send
  <2> QED BY <2>1, <2>2, <2>3
<1>2. /\ Len(session'.sent) = number
      /\ session'.sent[number] = now
      /\ \A i \in 1 .. Len(old) : session'.sent[i] = old[i]
  BY <1>1
<1>3. LastHour' \subseteq LastHour \cup {number}
  BY <1>1, <1>2 DEF LastHour
<1>4. /\ "turns" \in DOMAIN budget'
      /\ budget'.turns = Recorded(Pruned.turns, number)
  <2>1. budget' = [Pruned EXCEPT !.turns = Recorded(@, number), !.last = now]
    BY DEF Send
  <2>2. "turns" \in DOMAIN Pruned
    BY PrunedRecords DEF Records
  <2> QED BY <2>1, <2>2
<1>5. Records(budget)'
  <2>1. /\ DOMAIN budget'.turns = DOMAIN Pruned.turns \cup {number}
        /\ budget'.turns[number] = now
        /\ \A i \in DOMAIN Pruned.turns : i # number => budget'.turns[i] = Pruned.turns[i]
    BY <1>4 DEF Recorded
  <2>2. IsFiniteSet(DOMAIN budget'.turns)
    BY <2>1, PrunedRecords, FS_AddElement DEF Records
  <2>3. ASSUME NEW i \in LastHour'
        PROVE  i \in DOMAIN budget'.turns /\ budget'.turns[i] = session'.sent[i]
    <3>1. CASE i = number
      BY <1>2, <2>1, <3>1
    <3>2. CASE i \in LastHour /\ i # number
      <4>1. i \in DOMAIN Pruned.turns /\ Pruned.turns[i] = old[i]
        BY <3>2, PrunedRecords DEF Records
      <4>2. session'.sent[i] = old[i]
        BY <1>2, <3>2 DEF LastHour
      <4> QED BY <2>1, <3>2, <4>1, <4>2
    <3> QED BY <1>3, <3>1, <3>2
  <2> QED BY <1>4, <2>2, <2>3 DEF Records
<1>6. Records(saved.budget)'
  <2>1. saved'.budget = budget'
    BY DEF Send, Persist
  <2> QED BY <1>5, <2>1 DEF Records
<1>7. Cardinality(LastHour') <= MaxHour
  <2>1. IsFiniteSet(LastHour) /\ number \notin LastHour
    BY <1>1, LastHourIsFinite DEF LastHour, HourInv
  <2>2. /\ IsFiniteSet(LastHour \cup {number})
        /\ Cardinality(LastHour \cup {number}) = Cardinality(LastHour) + 1
    BY <2>1, FS_AddElement
  <2>3. /\ Cardinality(LastHour') <= Cardinality(LastHour \cup {number})
        /\ Cardinality(LastHour') \in Nat
    BY <1>3, <2>2, FS_Subset, FS_CardinalityType
  <2>4. Cardinality(LastHour) < MaxHour /\ Cardinality(LastHour) \in Nat
    BY CountBoundsTheHour, BudgetAssumption DEF Allowed
  <2> QED BY <2>2, <2>3, <2>4, BudgetAssumption
<1>8. HourlyLimitHolds'
  BY <1>7 DEF HourlyLimitHolds, LastHour
<1> QED BY <1>1, <1>5, <1>6, <1>8 DEF HourInv

LEMMA BrakeKeepsHour ==
  ASSUME HourInv, Brake, UNCHANGED now
  PROVE  HourInv'
BY PrunedRecords, QuietHour DEF Brake, HourInv

LEMMA DispatchKeepsHour ==
  ASSUME HourInv, Dispatch, UNCHANGED now
  PROVE  HourInv'
<1>1. CASE UNCHANGED <<attributes, saved, session>>
  BY <1>1, QuietHour DEF HourInv, attributes
<1>2. CASE Allowed /\ Send
  BY <1>2, SendKeepsHour
<1>3. CASE Brake
  BY <1>3, BrakeKeepsHour
<1> QED BY <1>1, <1>2, <1>3 DEF Dispatch

LEMMA ArmTimerKeepsHour ==
  ASSUME HourInv, ArmTimer, UNCHANGED now
  PROVE  HourInv'
BY PrunedRecords, QuietHour DEF ArmTimer, HourInv

\* A session begins with no turn, in memory; what is on the disk was written
\* with it, or is of no use to a restart.
LEMMA NewSessionKeepsHour ==
  ASSUME HourInv, UNCHANGED now, session' = NewSession,
         "turns" \in DOMAIN budget', budget'.turns = <<>>,
         Persist \/ Foreign(saved)'
  PROVE  HourInv'
<1>1. session' = [start |-> now, sent |-> <<>>] /\ now' = now /\ now \in Nat
  BY DEF NewSession, HourInv
<1>2. LastHour' = {} /\ DOMAIN budget'.turns = {}
  BY <1>1 DEF LastHour
<1>3. IsFiniteSet({}) /\ Cardinality({}) = 0
  BY FS_EmptySet
<1>4. Records(budget)'
  BY <1>2, <1>3 DEF Records
<1>5. ~Foreign(saved)' => Records(saved.budget)'
  <2>1. CASE Persist
    <3>1. saved'.budget = budget'
      BY <2>1 DEF Persist
    <3> QED BY <1>4, <3>1 DEF Records
  <2> QED BY <2>1
<1>6. HourlyLimitHolds'
  <2>1. Cardinality(LastHour') <= MaxHour
    BY <1>2, <1>3, BudgetAssumption
  <2> QED BY <2>1 DEF HourlyLimitHolds, LastHour
<1> QED BY <1>1, <1>4, <1>5, <1>6 DEF HourInv

LEMMA SetProviderKeepsHour ==
  ASSUME HourInv, NEW p, SetProvider(p) \/ NewBudget(p), Persist, UNCHANGED now
  PROVE  HourInv'
<1>1. CASE UNCHANGED <<budget, session>>
  BY <1>1, QuietHour DEF HourInv
<1>2. CASE NewBudget(p)
  BY <1>2, NewSessionKeepsHour DEF NewBudget, FreshBudget
<1> QED BY <1>1, <1>2 DEF SetProvider

LEMMA RestartKeepsHour ==
  ASSUME HourInv, Restart
  PROVE  HourInv'
<1>1. CASE Foreign(saved)
  <2>1. "turns" \in DOMAIN budget' /\ budget'.turns = <<>>
    BY <1>1 DEF Restart, Restored, FreshBudget
  <2>2. Foreign(saved)'
    BY <1>1 DEF Restart, Foreign
  <2> QED BY <1>1, <2>1, <2>2, NewSessionKeepsHour DEF Restart
<1>2. CASE ~Foreign(saved)
  <2>1. budget' = [saved.budget EXCEPT !.blocked = @ \/ saved.guard]
    BY <1>2 DEF Restart, Restored, Restore
  <2>2. Records(budget')
    BY <1>2, <2>1 DEF HourInv, Records
  <2> QED BY <1>2, <2>2, QuietHour DEF Restart, HourInv
<1> QED BY <1>1, <1>2

LEMMA NextKeepsHour ==
  ASSUME HourInv, [Next]_vars
  PROVE  HourInv'
<1>1. CASE SendHoldingLock
  <2>1. CASE Refused
    BY <1>1, <2>1, QuietHour DEF SendHoldingLock, Refused, attributes, HourInv
  <2> QED BY <1>1, <2>1, BrakeKeepsHour, ArmTimerKeepsHour, DispatchKeepsHour
          DEF SendHoldingLock
<1>2. CASE SendWithoutLock
  <2>1. CASE Refused
    BY <1>2, <2>1, QuietHour DEF SendWithoutLock, Refused, attributes, HourInv
  <2>2. CASE UNCHANGED <<saved, session>> /\ budget' = Pruned
    BY <1>2, <2>2, PrunedRecords, QuietHour DEF SendWithoutLock, HourInv
  <2> QED BY <1>2, <2>1, <2>2, BrakeKeepsHour, ArmTimerKeepsHour
          DEF SendWithoutLock
<1>3. CASE DispatchFromMain
  BY <1>3, DispatchKeepsHour DEF DispatchFromMain
<1>4. ASSUME NEW t \in Timers, TimerExpires(t) \/ DispatchFromTimer(t)
      PROVE  HourInv'
  <2>1. CASE TimerExpires(t)
    BY <2>1, QuietHour DEF TimerExpires, HourInv, attributes
  <2>2. CASE DispatchFromTimer(t)
    BY <2>2, DispatchKeepsHour DEF DispatchFromTimer
  <2> QED BY <1>4, <2>1, <2>2
<1>5. ASSUME NEW p \in Providers,
             TakeProvider(p) \/ PromptUnpaused(p) \/ PromptController(p)
      PROVE  HourInv'
  BY <1>5, SetProviderKeepsHour
     DEF TakeProvider, PromptUnpaused, PromptController
<1>6. ASSUME NEW p \in Providers, ProviderSafetySignal(p) PROVE HourInv'
  <2>1. budget' = [budget EXCEPT !.blocked = TRUE]
    BY <1>6 DEF ProviderSafetySignal
  <2>2. Records(budget')
    BY <2>1 DEF HourInv, Records
  <2> QED BY <1>6, <2>2, QuietHour DEF ProviderSafetySignal, HourInv
<1>7. ASSUME NEW p \in Providers, AssistantResponse(p) PROVE HourInv'
  BY <1>7, QuietHour DEF AssistantResponse, HourInv
<1>8. ASSUME NEW p \in BOOLEAN, SetPaused(p) PROVE HourInv'
  BY <1>8, QuietHour DEF SetPaused, HourInv
<1>9. CASE Tick
  BY <1>9, QuietHour DEF Tick, HourInv, attributes
<1>10. CASE ResetSession
  BY <1>10, SetProviderKeepsHour DEF ResetSession
<1>11. CASE Restart
  BY <1>11, RestartKeepsHour
<1>12. CASE UNCHANGED vars
  BY <1>12, QuietHour DEF vars, HourInv, attributes
<1> QED BY <1>1, <1>2, <1>3, <1>4, <1>5, <1>6, <1>7, <1>8, <1>9, <1>10, <1>11,
           <1>12 DEF Next

LEMMA InitHour == Init => HourInv
<1> SUFFICES ASSUME Init PROVE HourInv
  OBVIOUS
<1>1. /\ session = [start |-> 1, sent |-> <<>>] /\ now = 1
      /\ budget = [provider |-> provider, start |-> 1, turns |-> <<>>, last |-> 0,
                   blocked |-> FALSE]
      /\ saved.budget = budget
  BY DEF Init, NewSession, FreshBudget
<1>2. LastHour = {} /\ DOMAIN budget.turns = {} /\ "turns" \in DOMAIN budget
  BY <1>1 DEF LastHour
<1>3. IsFiniteSet({}) /\ Cardinality({}) = 0
  BY FS_EmptySet
<1>4. Records(budget) /\ Records(saved.budget)
  BY <1>1, <1>2, <1>3 DEF Records
<1>5. HourlyLimitHolds
  <2>1. Cardinality(LastHour) <= MaxHour
    BY <1>2, <1>3, BudgetAssumption
  <2> QED BY <2>1 DEF HourlyLimitHolds, LastHour
<1> QED BY <1>1, <1>4, <1>5 DEF HourInv

\* In no hour of a session, wherever the hour begins, are more turns sent than
\* max_turns_per_hour, however prompts, timers, blocks and restarts interleave:
\* decision() is asked again at the last moment, and record_send is persisted
\* before the prompt leaves, so a restart forgets no turn that still counts
\* unless it ends the session, as one that finds another provider's budget does.
THEOREM HourlyLimitAlwaysHolds == Spec => []HourlyLimitHolds
<1>1. HourInv => HourlyLimitHolds
  BY DEF HourInv
<1> QED BY <1>1, InitHour, NextKeepsHour, PTL DEF Spec

-----------------------------------------------------------------------------
\* What a caller learns from a budget b, besides when its session began.
Seen(b) == <<Recent(b.turns), b.blocked>>

\* A budget began with the session, and numbers the turns as the session does.
Numbered(b) ==
  /\ b \in Budgets
  /\ b.start = session.start
  /\ DOMAIN b.turns \subseteq 1 .. Len(session.sent)

\* The persisted row may hold older turns than the budget in memory, and may
\* lack the block a guard has laid on it, but no caller can tell the budget in
\* memory from the one a restart would restore, unless that begins a session.
KeptInv ==
  /\ now \in Nat
  /\ session \in [start : Nat, sent : Seq(Nat)]
  /\ provider \in Providers /\ saved.provider \in Providers
  /\ Numbered(budget)
  /\ ~Foreign(saved) =>
       /\ Numbered(saved.budget)
       /\ Recent(saved.budget.turns) = Recent(budget.turns)
       /\ saved.budget.blocked => budget.blocked
       /\ budget.blocked => saved.budget.blocked \/ saved.guard

\* The step of BudgetPromise, in terms of what a caller learns.
PromiseStep ==
  \/ Promise!PromiseNext
  \/ now' = now /\ session' = session /\ Seen(budget)' = Seen(budget)

LEMMA BudgetFields ==
  ASSUME NEW b \in Budgets
  PROVE  /\ b.provider \in Providers /\ b.start \in Nat /\ b.last \in Nat /\ b.blocked \in BOOLEAN
         /\ b.turns \in [DOMAIN b.turns -> Nat] /\ DOMAIN b.turns \subseteq Nat
<1>1. b.turns \in UNION {[some -> Nat] : some \in SUBSET Nat}
  BY DEF Budgets
<1>2. PICK some \in SUBSET Nat : b.turns \in [some -> Nat]
  BY <1>1
<1> QED BY <1>2 DEF Budgets

\* The recent turns of a list are recent, and are turns of it.
LEMMA RecentTurns ==
  ASSUME NEW b \in Budgets, now \in Nat
  PROVE  /\ Recent(b.turns) \in [DOMAIN Recent(b.turns) -> Nat]
         /\ DOMAIN Recent(b.turns) =
              {i \in DOMAIN b.turns : now - b.turns[i] < Hour}
         /\ \A i \in DOMAIN Recent(b.turns) : Recent(b.turns)[i] = b.turns[i]
         /\ Recent(Recent(b.turns)) = Recent(b.turns)
<1> DEFINE some == {i \in DOMAIN b.turns : now - b.turns[i] < Hour}
<1>1. Recent(b.turns) = [i \in some |-> b.turns[i]]
  BY DEF Recent
<1>2. {i \in some : now - [j \in some |-> b.turns[j]][i] < Hour} = some
  OBVIOUS
<1>3. Recent([i \in some |-> b.turns[i]])
        = [i \in some |-> [j \in some |-> b.turns[j]][i]]
  BY <1>2 DEF Recent
<1>4. [i \in some |-> [j \in some |-> b.turns[j]][i]] = [i \in some |-> b.turns[i]]
  OBVIOUS
<1> QED BY <1>1, <1>3, <1>4, BudgetFields

\* Dropping the old turns is not noticed.
LEMMA PrunedIsNumbered ==
  ASSUME KeptInv
  PROVE  /\ Numbered(Pruned) /\ Seen(Pruned) = Seen(budget)
         /\ Pruned.turns = Recent(budget.turns)
<1>1. budget \in Budgets /\ now \in Nat
  BY DEF KeptInv, Numbered
<1>2. /\ Pruned.turns = Recent(budget.turns) /\ Pruned.start = budget.start
      /\ Pruned.blocked = budget.blocked /\ Pruned.last = budget.last
      /\ Pruned = [provider |-> budget.provider, start |-> budget.start,
                   turns |-> Recent(budget.turns), last |-> budget.last,
                   blocked |-> budget.blocked]
  BY <1>1 DEF Pruned, Budgets
<1>3. /\ DOMAIN Recent(budget.turns) \subseteq DOMAIN budget.turns
      /\ Recent(budget.turns) \in [DOMAIN Recent(budget.turns) -> Nat]
      /\ Recent(Recent(budget.turns)) = Recent(budget.turns)
  BY <1>1, RecentTurns
<1>4. DOMAIN Recent(budget.turns) \in SUBSET Nat
  BY <1>1, <1>3, BudgetFields
<1>5. Recent(budget.turns) \in UNION {[some -> Nat] : some \in SUBSET Nat}
  BY <1>3, <1>4
<1>6. Pruned \in Budgets
  BY <1>1, <1>2, <1>5, BudgetFields DEF Budgets
<1>7. /\ DOMAIN Pruned.turns \subseteq 1 .. Len(session.sent)
      /\ Pruned.start = session.start
  BY <1>2, <1>3 DEF KeptInv, Numbered
<1> QED BY <1>2, <1>3, <1>6, <1>7 DEF Numbered, Seen

\* A step that sends nothing and takes no time is not noticed, or is a block.
LEMMA QuietlyKept ==
  ASSUME KeptInv, UNCHANGED <<now, session>>, provider' \in Providers,
         Numbered(budget'), Recent(budget'.turns) = Recent(budget.turns),
         \/ budget'.blocked = budget.blocked /\ (Persist \/ UNCHANGED saved)
         \/ budget'.blocked = TRUE /\ Persist
         \/ budget'.blocked = (saved.budget.blocked \/ saved.guard)
             /\ ~Foreign(saved) /\ UNCHANGED saved
  PROVE  KeptInv' /\ PromiseStep
<1>1. /\ Numbered(budget)' /\ Recent(budget.turns)' = Recent(budget.turns)
      /\ budget.blocked \in BOOLEAN /\ budget'.blocked \in BOOLEAN
  BY BudgetFields DEF KeptInv, Numbered, Recent
<1>2. saved'.provider \in Providers
  BY DEF Persist, KeptInv
<1>3. ~Foreign(saved)' =>
        /\ Numbered(saved.budget)'
        /\ Recent(saved.budget.turns)' = Recent(budget.turns)'
        /\ saved'.budget.blocked => budget'.blocked
        /\ budget'.blocked => saved'.budget.blocked \/ saved'.guard
  <2>1. CASE Persist
    <3>1. saved'.budget = budget'
      BY <2>1 DEF Persist
    <3> QED BY <1>1, <3>1 DEF Recent
  <2>2. CASE UNCHANGED saved /\ ~Persist
    <3>1. ~Foreign(saved)' => ~Foreign(saved)
      BY <2>2 DEF Foreign
    <3>2. ~Foreign(saved) =>
            /\ Numbered(saved.budget)'
            /\ Recent(saved.budget.turns)' = Recent(budget.turns)'
      BY <1>1, <2>2 DEF KeptInv, Numbered, Recent
    <3>3. ~Foreign(saved) =>
            /\ saved'.budget.blocked => budget'.blocked
            /\ budget'.blocked => saved'.budget.blocked \/ saved'.guard
      BY <2>2 DEF KeptInv
    <3> QED BY <3>1, <3>2, <3>3
  <2> QED BY <2>1, <2>2
<1>4. PromiseStep
  <2>1. CASE budget'.blocked = budget.blocked
    BY <1>1, <2>1 DEF PromiseStep, Seen
  <2>2. CASE budget'.blocked # budget.blocked
    <3>1. budget'.blocked = TRUE
      BY <1>1, <2>2 DEF KeptInv
    <3>2. Promise!Block
      BY <1>1, <3>1 DEF Promise!Block
    <3> QED BY <3>2 DEF PromiseStep, Promise!PromiseNext
  <2> QED BY <2>1, <2>2
<1> QED BY <1>1, <1>2, <1>3, <1>4 DEF KeptInv

LEMMA BrakeKept ==
  ASSUME KeptInv, Brake, UNCHANGED now
  PROVE  KeptInv' /\ PromiseStep
<1>1. /\ Recent(budget'.turns) = Recent(budget.turns)
      /\ budget'.blocked = budget.blocked /\ Numbered(budget')
  BY PrunedIsNumbered DEF Brake, Seen
<1> QED BY <1>1, QuietlyKept DEF Brake, KeptInv

LEMMA ArmTimerKept ==
  ASSUME KeptInv, ArmTimer, UNCHANGED now
  PROVE  KeptInv' /\ PromiseStep
<1>1. /\ Recent(budget'.turns) = Recent(budget.turns)
      /\ budget'.blocked = budget.blocked /\ Numbered(budget')
  BY PrunedIsNumbered DEF ArmTimer, Seen
<1> QED BY <1>1, QuietlyKept DEF ArmTimer, KeptInv

\* A turn that is sent gets a number of its own, counts from now on, and is
\* persisted with the rest.
LEMMA SendKept ==
  ASSUME KeptInv, Allowed, Send, UNCHANGED now
  PROVE  KeptInv' /\ PromiseStep
<1> DEFINE old == Recent(budget.turns)
           number == Len(session.sent) + 1
<1>1. /\ now \in Nat /\ session.sent \in Seq(Nat) /\ Len(session.sent) \in Nat
      /\ session.start \in Nat /\ budget \in Budgets
  BY DEF KeptInv, Numbered
<1>2. /\ session' \in [start : Nat, sent : Seq(Nat)]
      /\ Len(session'.sent) = number /\ session'.start = session.start
  <2>1. session' = [session EXCEPT !.sent = Append(session.sent, now)]
    BY DEF Send
  <2>2. Append(session.sent, now) \in Seq(Nat)
    BY <1>1
  <2>3. session \in [start : Nat, sent : Seq(Nat)]
    BY DEF KeptInv
  <2>4. session'.sent = Append(session.sent, now)
    BY <2>1, <2>3
  <2>5. session' \in [start : Nat, sent : Seq(Nat)]
    BY <2>1, <2>2, <2>3
  <2>6. Len(Append(session.sent, now)) = number
    BY <1>1
  <2>7. session'.start = session.start
    BY <2>1, <2>3
  <2> QED BY <2>4, <2>5, <2>6, <2>7
<1>3. /\ old \in [DOMAIN old -> Nat] /\ DOMAIN old \subseteq 1 .. Len(session.sent)
      /\ \A i \in DOMAIN old : now - old[i] < Hour
  BY <1>1, RecentTurns DEF KeptInv, Numbered
<1>4. budget' = [provider |-> budget.provider, start |-> budget.start,
                 turns |-> Recorded(old, number), last |-> now,
                 blocked |-> budget.blocked]
  <2>1. budget' = [Pruned EXCEPT !.turns = Recorded(@, number), !.last = now]
    BY DEF Send
  <2>2. /\ Pruned \in Budgets /\ Pruned.turns = old
        /\ Pruned.start = budget.start /\ Pruned.blocked = budget.blocked
        /\ Pruned.provider = budget.provider
    BY PrunedIsNumbered DEF Numbered, Seen, Pruned, KeptInv, Budgets
  <2> QED BY <2>1, <2>2 DEF Budgets
<1>5. /\ DOMAIN Recorded(old, number) = DOMAIN old \cup {number}
      /\ Recorded(old, number)[number] = now
      /\ \A i \in DOMAIN old : i # number => Recorded(old, number)[i] = old[i]
      /\ Recorded(old, number) \in [DOMAIN old \cup {number} -> Nat]
  BY <1>1, <1>3 DEF Recorded
<1>6. Recent(Recorded(old, number)) = Recorded(old, number)
  <2> DEFINE all == DOMAIN old \cup {number}
  <2>1. {i \in all : now - Recorded(old, number)[i] < Hour} = all
    BY <1>1, <1>3, <1>5, BudgetAssumption
  <2>2. Recent(Recorded(old, number)) = [i \in all |-> Recorded(old, number)[i]]
    BY <1>5, <2>1 DEF Recent
  <2> QED BY <1>5, <2>2
<1>7. Numbered(budget)' /\ Numbered(saved.budget)'
  <2>1. saved'.budget = budget'
    BY DEF Send, Persist
  <2>6. budget'.start = session'.start
    BY <1>2, <1>4 DEF KeptInv, Numbered
  <2>2. DOMAIN Recorded(old, number) \in SUBSET Nat
    BY <1>1, <1>3, <1>5
  <2>3. Recorded(old, number) \in UNION {[some -> Nat] : some \in SUBSET Nat}
    BY <1>5, <2>2
  <2>4. budget' \in Budgets
    BY <1>1, <1>4, <2>3, BudgetFields DEF Budgets
  <2>5. DOMAIN budget'.turns \subseteq 1 .. number
    BY <1>1, <1>3, <1>4, <1>5
  <2> QED BY <1>2, <2>1, <2>4, <2>5, <2>6 DEF Numbered
<1>8. /\ saved'.budget = budget' /\ provider' \in Providers
      /\ saved'.provider \in Providers
      /\ Recent(saved.budget.turns)' = Recent(budget.turns)'
  BY DEF Send, Persist, KeptInv
<1>9. Promise!SendTurn
  <2>1. Recent(budget.turns)' = Recorded(old, number)
    BY <1>4, <1>6 DEF Recent
  <2>2. number \in DOMAIN Recent(budget.turns)' \ DOMAIN old
    BY <1>1, <1>3, <1>5, <2>1
  <2>3. Recent(budget.turns)'
          = [t \in DOMAIN old \cup {number} |-> IF t = number THEN now ELSE old[t]]
    BY <2>1 DEF Recorded
  <2>4. /\ ~budget.blocked /\ now - budget.start < MaxRuntime
        /\ Cardinality(DOMAIN old) < MaxHour /\ Cardinality(DOMAIN old) < MaxSession
    BY PrunedIsNumbered DEF Allowed, Count
  <2>5. /\ now' = now /\ budget'.blocked = budget.blocked
        /\ session'.start = session.start /\ budget.start = session.start
    BY <1>2, <1>4 DEF KeptInv, Numbered
  <2>6. \A S : Promise!Cardinality(S) = Cardinality(S)
    BY DEF Promise!Cardinality, Cardinality
  <2> QED BY <2>2, <2>3, <2>4, <2>5, <2>6 DEF Promise!SendTurn
<1>10. budget'.blocked \in BOOLEAN
  BY <1>1, <1>4, BudgetFields
<1> QED BY <1>1, <1>2, <1>7, <1>8, <1>9, <1>10
        DEF KeptInv, PromiseStep, Promise!PromiseNext

LEMMA DispatchKept ==
  ASSUME KeptInv, Dispatch, UNCHANGED now
  PROVE  KeptInv' /\ PromiseStep
<1>1. CASE UNCHANGED <<attributes, saved, session>>
  BY <1>1, QuietlyKept DEF KeptInv, attributes
<1>2. CASE Allowed /\ Send
  BY <1>2, SendKept
<1>3. CASE Brake
  BY <1>3, BrakeKept
<1> QED BY <1>1, <1>2, <1>3 DEF Dispatch

\* What still counts a moment later is found among what counts now.
LEMMA OlderTurns ==
  ASSUME NEW b \in Budgets, now \in Nat, now' = now + 1
  PROVE  [i \in {j \in DOMAIN b.turns : now' - b.turns[j] < Hour} |-> b.turns[i]]
           = [i \in {j \in DOMAIN Recent(b.turns) :
                       now' - Recent(b.turns)[j] < Hour} |-> Recent(b.turns)[i]]
<1> DEFINE recent == Recent(b.turns)
           kept == {j \in DOMAIN b.turns : now' - b.turns[j] < Hour}
<1>1. /\ DOMAIN recent = {j \in DOMAIN b.turns : now - b.turns[j] < Hour}
      /\ \A j \in DOMAIN recent : recent[j] = b.turns[j]
  BY RecentTurns
<1>2. \A j \in DOMAIN b.turns : now' - b.turns[j] < Hour => now - b.turns[j] < Hour
  BY BudgetFields, BudgetAssumption
<1>3. {j \in DOMAIN recent : now' - recent[j] < Hour} = kept
  BY <1>1, <1>2
<1>4. \A j \in kept : recent[j] = b.turns[j]
  BY <1>1, <1>2
<1> QED BY <1>3, <1>4

LEMMA TickKept ==
  ASSUME KeptInv, Tick
  PROVE  KeptInv' /\ PromiseStep
<1>1. /\ now \in Nat /\ now' = now + 1
      /\ UNCHANGED <<provider, budget, saved, session>> /\ budget \in Budgets
  BY DEF KeptInv, Tick, Numbered, attributes
<1>2. Recent(budget.turns)'
        = [i \in {j \in DOMAIN Recent(budget.turns) :
                    now' - Recent(budget.turns)[j] < Hour} |->
             Recent(budget.turns)[i]]
  BY <1>1, OlderTurns DEF Recent
<1>3. ~Foreign(saved) =>
        Recent(saved.budget.turns)'
          = [i \in {j \in DOMAIN Recent(saved.budget.turns) :
                      now' - Recent(saved.budget.turns)[j] < Hour} |->
               Recent(saved.budget.turns)[i]]
  BY <1>1, OlderTurns DEF Recent, KeptInv, Numbered
<1>4. ~Foreign(saved) => Recent(saved.budget.turns)' = Recent(budget.turns)'
  BY <1>1, <1>2, <1>3 DEF KeptInv
<1>5. Numbered(budget)' /\ (~Foreign(saved) => Numbered(saved.budget)')
  BY <1>1 DEF KeptInv, Numbered
<1>6. Promise!TimePasses
  BY <1>1, <1>2 DEF Promise!TimePasses
<1>7. Foreign(saved)' = Foreign(saved)
  BY <1>1 DEF Foreign
<1> QED BY <1>1, <1>4, <1>5, <1>6, <1>7
        DEF KeptInv, PromiseStep, Promise!PromiseNext

\* A session begins with a fresh budget, blocked where a guard is set.
LEMMA NewSessionKept ==
  ASSUME KeptInv, UNCHANGED now, session' = NewSession, provider' \in Providers,
         NEW p \in Providers, NEW stopped \in BOOLEAN,
         budget' = [provider |-> p, start |-> now, turns |-> <<>>, last |-> 0,
                    blocked |-> stopped],
         Persist \/ (Foreign(saved) /\ UNCHANGED saved)
  PROVE  KeptInv' /\ PromiseStep
<1>1. /\ now \in Nat /\ now' = now /\ session' = [start |-> now, sent |-> <<>>]
      /\ budget' = [provider |-> p, start |-> now, turns |-> <<>>, last |-> 0,
                    blocked |-> stopped]
  BY DEF KeptInv, NewSession
<1>2. /\ DOMAIN <<>> = {} /\ {} \in SUBSET Nat /\ <<>> \in [{} -> Nat]
  OBVIOUS
<1>3. <<>> \in UNION {[some -> Nat] : some \in SUBSET Nat}
  BY <1>2
<1>4. budget' \in Budgets
  <2>1. now \in Nat /\ 0 \in Nat /\ p \in Providers /\ stopped \in BOOLEAN
    BY <1>1
  <2> QED BY <1>1, <1>3, <2>1 DEF Budgets
<1>5. Numbered(budget)'
  BY <1>1, <1>2, <1>4 DEF Numbered
<1>6. /\ saved'.provider \in Providers
      /\ ~Foreign(saved)' => saved'.budget = budget'
  BY DEF Persist, Foreign, KeptInv
<1>7. DOMAIN Recent(budget.turns)' = {}
  BY <1>1, <1>2 DEF Recent
<1>8. Promise!NewSession
  BY <1>1, <1>7 DEF Promise!NewSession
<1>9. session' \in [start : Nat, sent : Seq(Nat)]
  BY <1>1
<1>10. ~Foreign(saved)' =>
         /\ Numbered(saved.budget)'
         /\ Recent(saved.budget.turns)' = Recent(budget.turns)'
  BY <1>5, <1>6 DEF Numbered, Recent
<1> QED BY <1>1, <1>5, <1>6, <1>8, <1>9, <1>10
        DEF KeptInv, PromiseStep, Promise!PromiseNext

LEMMA SetProviderKept ==
  ASSUME KeptInv, NEW p \in Providers, SetProvider(p) \/ NewBudget(p), Persist,
         provider' \in Providers, UNCHANGED now
  PROVE  KeptInv' /\ PromiseStep
<1>1. CASE UNCHANGED <<budget, session>>
  BY <1>1, QuietlyKept DEF KeptInv
<1>2. CASE NewBudget(p)
  <2>1. budget' = [provider |-> p, start |-> now, turns |-> <<>>, last |-> 0,
                   blocked |-> FALSE]
    BY <1>2 DEF NewBudget, FreshBudget
  <2> QED BY <1>2, <2>1, NewSessionKept DEF NewBudget
<1> QED BY <1>1, <1>2 DEF SetProvider

LEMMA SignalKept ==
  ASSUME KeptInv, NEW p \in Providers, ProviderSafetySignal(p)
  PROVE  KeptInv' /\ PromiseStep
<1>1. /\ budget \in Budgets /\ budget' = [budget EXCEPT !.blocked = TRUE]
      /\ session' = session /\ Persist /\ UNCHANGED now /\ provider' = p
  BY DEF KeptInv, ProviderSafetySignal, Numbered
<1>2. /\ budget'.start = budget.start /\ budget'.turns = budget.turns
      /\ budget'.blocked = TRUE /\ budget' \in Budgets
  BY <1>1 DEF Budgets
<1>3. Numbered(budget')
  BY <1>1, <1>2 DEF KeptInv, Numbered
<1> QED BY <1>1, <1>2, <1>3, QuietlyKept

LEMMA RestartKept ==
  ASSUME KeptInv, Restart
  PROVE  KeptInv' /\ PromiseStep
<1>1. provider' \in Providers /\ now' = now /\ saved' = saved
  BY DEF Restart, KeptInv
<1>2. CASE Foreign(saved)
  <2>1. session' = NewSession
    BY <1>2 DEF Restart
  <2>2. budget' = [provider |-> saved.provider, start |-> now, turns |-> <<>>,
                   last |-> 0, blocked |-> (FALSE \/ saved.guard)]
    BY <1>2 DEF Restart, Restored, FreshBudget
  <2>3. (FALSE \/ saved.guard) \in BOOLEAN
    OBVIOUS
  <2>4. saved.provider \in Providers
    BY DEF KeptInv
  <2> QED BY <1>1, <1>2, <2>1, <2>2, <2>3, <2>4, NewSessionKept
<1>3. CASE ~Foreign(saved)
  <2>1. /\ session' = session
        /\ budget' = [saved.budget EXCEPT
                        !.blocked = saved.budget.blocked \/ saved.guard]
    BY <1>3 DEF Restart, Restored, Restore
  <2>2. saved.budget \in Budgets /\ Numbered(saved.budget)
    BY <1>3 DEF KeptInv, Numbered
  <2>3. /\ budget'.start = saved.budget.start
        /\ budget'.turns = saved.budget.turns
        /\ budget'.blocked = (saved.budget.blocked \/ saved.guard)
        /\ budget' \in Budgets
    BY <2>1, <2>2 DEF Budgets
  <2>4. Numbered(budget') /\ Recent(budget'.turns) = Recent(budget.turns)
    BY <1>3, <2>2, <2>3 DEF KeptInv, Numbered
  <2> QED BY <1>1, <1>3, <2>1, <2>3, <2>4, QuietlyKept
<1> QED BY <1>2, <1>3

LEMMA NextKept ==
  ASSUME KeptInv, [Next]_vars
  PROVE  KeptInv' /\ PromiseStep
<1>1. CASE SendHoldingLock
  <2>1. CASE Refused
    BY <1>1, <2>1, QuietlyKept DEF SendHoldingLock, Refused, attributes, KeptInv
  <2> QED BY <1>1, <2>1, BrakeKept, ArmTimerKept, DispatchKept
          DEF SendHoldingLock
<1>2. CASE SendWithoutLock
  <2>1. CASE Refused
    BY <1>2, <2>1, QuietlyKept DEF SendWithoutLock, Refused, attributes, KeptInv
  <2>2. CASE UNCHANGED <<provider, saved, session>> /\ budget' = Pruned
    <3>1. /\ Recent(budget'.turns) = Recent(budget.turns)
          /\ budget'.blocked = budget.blocked /\ Numbered(budget')
      BY <2>2, PrunedIsNumbered DEF Seen
    <3> QED BY <1>2, <2>2, <3>1, QuietlyKept DEF SendWithoutLock, KeptInv
  <2> QED BY <1>2, <2>1, <2>2, BrakeKept, ArmTimerKept DEF SendWithoutLock
<1>3. CASE DispatchFromMain
  BY <1>3, DispatchKept DEF DispatchFromMain
<1>4. ASSUME NEW t \in Timers, TimerExpires(t) \/ DispatchFromTimer(t)
      PROVE  KeptInv' /\ PromiseStep
  <2>1. CASE TimerExpires(t)
    BY <2>1, QuietlyKept DEF TimerExpires, KeptInv, attributes
  <2>2. CASE DispatchFromTimer(t)
    BY <2>2, DispatchKept DEF DispatchFromTimer
  <2> QED BY <1>4, <2>1, <2>2
<1>5. ASSUME NEW p \in Providers,
             TakeProvider(p) \/ PromptUnpaused(p) \/ PromptController(p)
      PROVE  KeptInv' /\ PromiseStep
  <2>1. SetProvider(p) \/ (provider' = p /\ NewBudget(p))
    BY <1>5 DEF TakeProvider, PromptUnpaused, PromptController
  <2>2. provider' \in Providers
    BY <2>1 DEF SetProvider
  <2> QED BY <1>5, <2>1, <2>2, SetProviderKept
          DEF TakeProvider, PromptUnpaused, PromptController
<1>6. ASSUME NEW p \in Providers, ProviderSafetySignal(p)
      PROVE  KeptInv' /\ PromiseStep
  BY <1>6, SignalKept
<1>7. ASSUME NEW p \in Providers, AssistantResponse(p)
      PROVE  KeptInv' /\ PromiseStep
  BY <1>7, QuietlyKept DEF AssistantResponse, KeptInv
<1>8. ASSUME NEW p \in BOOLEAN, SetPaused(p) PROVE KeptInv' /\ PromiseStep
  BY <1>8, QuietlyKept DEF SetPaused, KeptInv
<1>9. CASE Tick
  BY <1>9, TickKept
<1>10. CASE ResetSession
  BY <1>10, SetProviderKept DEF ResetSession, KeptInv
<1>11. CASE Restart
  BY <1>11, RestartKept
<1>12. CASE UNCHANGED vars
  BY <1>12, QuietlyKept DEF vars, KeptInv, attributes
<1> QED BY <1>1, <1>2, <1>3, <1>4, <1>5, <1>6, <1>7, <1>8, <1>9, <1>10, <1>11,
           <1>12 DEF Next

LEMMA InitKept == Init => KeptInv /\ Promise!PromiseInit
<1> SUFFICES ASSUME Init PROVE KeptInv /\ Promise!PromiseInit
  OBVIOUS
<1>1. /\ session = [start |-> 1, sent |-> <<>>] /\ now = 1
      /\ budget = [provider |-> provider, start |-> 1, turns |-> <<>>, last |-> 0,
                   blocked |-> FALSE]
      /\ saved.budget = budget /\ saved.provider = provider
      /\ provider \in Providers
  BY DEF Init, NewSession, FreshBudget
<1>2. /\ DOMAIN <<>> = {} /\ {} \in SUBSET Nat /\ <<>> \in [{} -> Nat]
  OBVIOUS
<1>3. <<>> \in UNION {[some -> Nat] : some \in SUBSET Nat}
  BY <1>2
<1>4. budget \in Budgets
  <2>1. now \in Nat /\ 0 \in Nat
    BY <1>1
  <2>2. budget = [provider |-> provider, start |-> now, turns |-> <<>>, last |-> 0,
                  blocked |-> FALSE]
    BY <1>1
  <2> QED BY <1>1, <1>3, <2>1, <2>2 DEF Budgets
<1>5. Numbered(budget) /\ Numbered(saved.budget)
  BY <1>1, <1>2, <1>4 DEF Numbered
<1>6. session \in [start : Nat, sent : Seq(Nat)]
  BY <1>1
<1>7. DOMAIN Recent(budget.turns) = {}
  BY <1>1, <1>2 DEF Recent
<1> QED BY <1>1, <1>5, <1>6, <1>7 DEF KeptInv, Promise!PromiseInit

\* The budget keeps its promise: every prompt, timer, pause, change of provider
\* and restart, in every order, is a turn inside the limits, a block, a new
\* session, the passing of time, or nothing its callers can tell.  A restart is
\* the last unless the guard is set, when it may be a block, or the row holds
\* the budget of another provider, when it is a new session.
THEOREM BudgetKeepsPromise == Spec => BudgetPromiseKept
<1>1. Init => KeptInv /\ Promise!PromiseInit
  BY InitKept
<1>2. KeptInv /\ [Next]_vars => KeptInv'
  BY NextKept
<1>3. KeptInv /\ [Next]_vars => [Promise!PromiseNext]_Promise!promiseVars
  BY NextKept DEF PromiseStep, Seen, Promise!promiseVars
<1> QED BY <1>1, <1>2, <1>3, PTL DEF Spec, BudgetPromiseKept, Promise!PromiseSpec

=============================================================================
