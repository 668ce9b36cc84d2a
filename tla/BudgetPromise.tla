----------------------------- MODULE BudgetPromise -----------------------------
(***************************************************************************)
(* What the budget of a session promises whoever asks it for a turn: a     *)
(* turn is sent only inside the limits, it counts for an hour, and nothing *)
(* but time and a new session takes it off the count or lifts a block.     *)
(* There is no crash in this specification: one that is not seen as a block*)
(* or as a new session changes nothing.                                    *)
(***************************************************************************)
EXTENDS Naturals, FiniteSets

CONSTANTS Hour, MaxRuntime, MaxHour, MaxSession

VARIABLES
  clock,
  begun,     \* when the session began
  counted,   \* the turns of the last hour, each with the time it was sent
  blocked    \* the provider wants no more turns

promiseVars == <<clock, begun, counted, blocked>>

PromiseInit == begun = clock /\ DOMAIN counted = {} /\ blocked = FALSE

SendTurn ==
  /\ ~blocked
  /\ clock - begun < MaxRuntime
  /\ Cardinality(DOMAIN counted) < MaxHour
  /\ Cardinality(DOMAIN counted) < MaxSession
  /\ \E turn \in DOMAIN counted' \ DOMAIN counted :
       counted' = [t \in DOMAIN counted \cup {turn} |->
                     IF t = turn THEN clock ELSE counted[t]]
  /\ UNCHANGED <<clock, begun, blocked>>

TimePasses ==
  /\ clock' > clock
  /\ counted' = [t \in {u \in DOMAIN counted : clock' - counted[u] < Hour} |->
                   counted[t]]
  /\ UNCHANGED <<begun, blocked>>

\* Begun by the user, or by a restart under another provider, which may find
\* that provider's guard set.
NewSession ==
  /\ begun' = clock /\ DOMAIN counted' = {} /\ blocked' \in BOOLEAN
  /\ UNCHANGED clock

Block == blocked' = TRUE /\ UNCHANGED <<clock, begun, counted>>

PromiseNext == SendTurn \/ TimePasses \/ NewSession \/ Block

PromiseSpec == PromiseInit /\ [][PromiseNext]_promiseVars

=============================================================================
