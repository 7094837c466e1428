--------------------------- MODULE AgentLifecycle ---------------------------
(***************************************************************************)
(* What the background agents promise everyone who looks at them, live or  *)
(* in the audit record (backend/app/orchestration/runner.py, module        *)
(* docstring): an agent is pending, perhaps runs, and ends once; it can    *)
(* fail or complete only while it runs; and every transition leaves its    *)
(* event on the agent's trail in the step that makes it, so the trail      *)
(* starts with "spawned", has one terminal event and nothing after it.     *)
(***************************************************************************)
EXTENDS Sequences

CONSTANT Agents

VARIABLES status, trail

Ends == {"completed", "failed", "cancelled"}

Init ==
    /\ status = [a \in Agents |-> "unknown"]
    /\ trail = [a \in Agents |-> << >>]

Moves(a, from, to, event) ==
    /\ status[a] = from
    /\ status'[a] = to
    /\ trail'[a] = Append(trail[a], event)

Spawned(a)   == Moves(a, "unknown", "pending", "spawned")
Started(a)   == Moves(a, "pending", "running", "started")
Reported(a)  == Moves(a, "running", "running", "progress")
Withdrawn(a) == Moves(a, "pending", "cancelled", "cancelled")
Ended(a)     == \E end \in Ends : Moves(a, "running", end, end)

Stays(a) == status'[a] = status[a] /\ trail'[a] = trail[a]

\* Agents are independent, and one step may move several: a shutdown withdraws
\* every pending agent at once.
Next ==
    \A a \in Agents :
        Spawned(a) \/ Started(a) \/ Reported(a) \/ Withdrawn(a) \/ Ended(a)
        \/ Stays(a)

Spec == Init /\ [][Next]_<<status, trail>>
=============================================================================
