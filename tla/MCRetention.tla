---------------------------- MODULE MCRetention ----------------------------
(* Retention with two prompts of one session and an agent event. *)
EXTENDS Retention

CONSTANTS s1, r1, r2, e1

OneSession  == {s1}
TwoPrompts  == {r1, r2}
OneEvent    == {e1}
OffOrOneDay == {0, 1}

\* None, a shorter or longer window of a child, a kept parent.
SomeOverrides ==
    {<< >>,
     [t \in {"prompt_responses"} |-> 2],
     [t \in {"agent_events", "sessions"} |-> 1],
     [t \in {"prompt_requests"} |-> 0]}
=============================================================================
