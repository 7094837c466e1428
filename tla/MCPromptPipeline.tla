-------------------------- MODULE MCPromptPipeline --------------------------
(* PromptPipeline with two prompts in two sessions and one agent. *)
EXTENDS PromptPipeline

CONSTANTS r1, r2, s1, s2, b1

TwoRequests == {r1, r2}
TwoSessions == {s1, s2}
OneAgent    == {b1}
=============================================================================
