------------------------------ MODULE RiskPolicy ------------------------------
(***************************************************************************)
(* The effective risk of a command: classify's local decision, merged with *)
(* the assessment the model sent along, and what the command loop does     *)
(* with it.                                                                *)
(***************************************************************************)
EXTENDS Integers

\* RISK_ORDER: R0 to R4, by rank; -1 is no assessment, or one not understood.
Ranks       == 0 .. 4
Assessments == Ranks \cup {-1}

\* Every decision classify returns.
Classified ==
  {[level |-> "low", rank |-> 0], [level |-> "approval", rank |-> 2],
   [level |-> "approval", rank |-> 3], [level |-> "blocked", rank |-> 4]}

EffectiveRank(local, llm) == IF llm > local.rank THEN llm ELSE local.rank

EffectiveLevel(local, llm) ==
  IF local.level = "blocked" \/ EffectiveRank(local, llm) = 4 THEN "blocked"
  ELSE IF local.level = "approval" \/ EffectiveRank(local, llm) >= 2 THEN "approval"
  ELSE "low"

\* _risk_requires_checkpoint.
NeedsCheckpoint(rank) == rank \in {2, 3}

Severity(level) ==
  IF level = "low" THEN 0 ELSE IF level = "approval" THEN 1 ELSE 2

\* The classes of CommandExecution: a command is "low", "protected" or blocked.
Class(local, llm) ==
  IF EffectiveLevel(local, llm) = "approval" THEN "protected"
  ELSE EffectiveLevel(local, llm)

=============================================================================
