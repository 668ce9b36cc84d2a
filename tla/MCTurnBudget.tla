----------------------------- MODULE MCTurnBudget -----------------------------
(***************************************************************************)
(* Two providers and two timers, each interchangeable with the other: the  *)
(* properties tell neither apart.                                          *)
(***************************************************************************)
EXTENDS TurnBudget, TLC

Symmetry == Permutations(Providers) \cup Permutations(Timers)

=============================================================================
