----------------------------- MODULE MCAgentTurn -----------------------------
(* Model values and bounds for AgentTurn. *)
EXTENDS AgentTurn, TLC

CONSTANTS t1, t2, t3

Ids == Permutations(TurnIds)
=============================================================================
