--------------------------- MODULE MCAgentHistory ---------------------------
(* AgentHistory with two agents, one of which evicts the other.            *)
EXTENDS AgentHistory

CONSTANTS a1, a2

TwoAgents  == {a1, a2}
TwoEndings == {"completed", "cancelled"}
=============================================================================
