--------------------------- MODULE MCAgentRunner ---------------------------
(* AgentRunner on a few agents and workers.                                *)
EXTENDS AgentRunner

CONSTANTS a1, a2, w1, w2

TwoAgents  == {a1, a2}
OneWorker  == {w1}
TwoWorkers == {w1, w2}
=============================================================================
