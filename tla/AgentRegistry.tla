--------------------------- MODULE AgentRegistry ---------------------------
(***************************************************************************)
(* The agent half of StateStore (backend/app/state/store.py): the registry *)
(* of background agents, their lifecycle states and the retention window   *)
(* of settled ones.                                                        *)
(*                                                                         *)
(* A mutation holds the store's lock without awaiting anything and emits   *)
(* its events before it returns, so each one is a single step.  Agent ids  *)
(* are UUIDs: an id is registered once.  The operators below are the       *)
(* store's methods; AgentRunner and LiveUpdates build their steps from     *)
(* them, and Next here lets any caller use them in any order.              *)
(***************************************************************************)
EXTENDS Naturals, Sequences, Functions

CONSTANTS
    Agents,
    MaxFinishedAgents,  \* max_finished_agents
    MaxReports          \* bound of the model: updates of one live agent

ASSUME RegistryAssumption ==
    /\ MaxFinishedAgents \in Nat
    /\ MaxReports \in Nat

VARIABLES
    agentState,      \* _AgentRecord.state, or how the id is absent
    taskQueued,      \* _AgentRecord.task_queue is not empty
    progress,        \* progress_fraction: 0 is None, FullProgress is 1.0
    agentError,      \* _AgentRecord.error is set
    updatedAt,       \* _AgentRecord.updated_at, as a count of mutations
    finishedAgents,  \* _finished_agents, oldest settled first
    (* history *)
    settledAs,       \* the terminal state each agent reached
    settledOrder     \* every agent that ever settled, oldest first

registryVars == <<agentState, taskQueued, progress, agentError, updatedAt,
                  finishedAgents, settledAs, settledOrder>>

Terminal == {"completed", "failed", "cancelled"}
Live     == {"pending", "running"}
Absent   == {"unknown", "evicted"}

FullProgress == MaxReports + 1

RegistryInit ==
    /\ agentState = [a \in Agents |-> "unknown"]
    /\ taskQueued = [a \in Agents |-> FALSE]
    /\ progress = [a \in Agents |-> 0]
    /\ agentError = [a \in Agents |-> FALSE]
    /\ updatedAt = [a \in Agents |-> 0]
    /\ finishedAgents = << >>
    /\ settledAs = [a \in Agents |-> "none"]
    /\ settledOrder = << >>

----------------------------------------------------------------------------
(* Mutations *)

Present(a) == agentState[a] \notin Absent

\* update_agent() ignores unknown and settled agents.
Updatable(a) == Present(a) /\ agentState[a] \notin Terminal

RegisterAgent(a) ==
    /\ agentState[a] = "unknown"
    /\ agentState' = [agentState EXCEPT ![a] = "pending"]
    /\ taskQueued' = [taskQueued EXCEPT ![a] = TRUE]
    /\ updatedAt' = [updatedAt EXCEPT ![a] = @ + 1]
    /\ UNCHANGED <<progress, agentError, finishedAgents, settledAs,
                   settledOrder>>

\* update_agent(state="running") clears the queued task.
MarkRunning(a) ==
    /\ Updatable(a)
    /\ agentState' = [agentState EXCEPT ![a] = "running"]
    /\ taskQueued' = [taskQueued EXCEPT ![a] = FALSE]
    /\ updatedAt' = [updatedAt EXCEPT ![a] = @ + 1]
    /\ UNCHANGED <<progress, agentError, finishedAgents, settledAs,
                   settledOrder>>

\* Variant with a fault: fractions above 1.0 are not clamped.
RecordUnclamped(a) ==
    /\ Updatable(a)
    /\ progress' = [progress EXCEPT ![a] = @ + FullProgress + 1]
    /\ updatedAt' = [updatedAt EXCEPT ![a] = @ + 1]
    /\ UNCHANGED <<agentState, taskQueued, agentError, finishedAgents,
                   settledAs, settledOrder>>

\* update_agent(progress_phase=..., progress_fraction=...).
RecordProgress(a) ==
    /\ Updatable(a)
    /\ progress' = [progress EXCEPT ![a] = @ + 1]
    /\ updatedAt' = [updatedAt EXCEPT ![a] = @ + 1]
    /\ UNCHANGED <<agentState, taskQueued, agentError, finishedAgents,
                   settledAs, settledOrder>>

\* Variant with a fault: the window holds one too many.
ExcessOffByOne(q) ==
    IF Len(q) > MaxFinishedAgents + 1 THEN Len(q) - MaxFinishedAgents - 1 ELSE 0

\* How many of the settled agents q is over the retention window.
Excess(q) == IF Len(q) > MaxFinishedAgents THEN Len(q) - MaxFinishedAgents ELSE 0

Evicted(q) == {q[i] : i \in 1 .. Excess(q)}

\* _evict_finished_agents() for the agents of q in turn: the window takes them
\* in and rolls its oldest entries out of the registry.
Retire(q, state) ==
    LET window == finishedAgents \o q IN
    /\ finishedAgents' = SubSeq(window, Excess(window) + 1, Len(window))
    /\ agentState' = [a \in Agents |->
                        IF a \in Evicted(window) THEN "evicted"
                        ELSE IF a \in Range(q) THEN state
                        ELSE agentState[a]]

\* update_agent(state=...) into a terminal state, for the updatable agents of
\* q one after the other.
SettleAgents(q, state, failure) ==
    /\ \A a \in Range(q) : Updatable(a)
    /\ Retire(q, state)
    /\ taskQueued' = [a \in Agents |-> taskQueued[a] /\ a \notin Range(q)]
    /\ progress' = [a \in Agents |->
                      IF a \in Range(q) /\ state = "completed"
                      THEN FullProgress ELSE progress[a]]
    /\ agentError' = [a \in Agents |->
                        agentError[a] \/ (failure /\ a \in Range(q))]
    /\ updatedAt' = [a \in Agents |->
                       IF a \in Range(q) THEN updatedAt[a] + 1 ELSE updatedAt[a]]
    /\ settledAs' = [a \in Agents |->
                       IF a \in Range(q) THEN state ELSE settledAs[a]]
    /\ settledOrder' = settledOrder \o q

SettleAgent(a, state, failure) == SettleAgents(<<a>>, state, failure)

----------------------------------------------------------------------------
(* The registry under arbitrary callers *)

Update(a) ==
    \/ updatedAt[a] <= MaxReports /\ (MarkRunning(a) \/ RecordProgress(a))
    \/ \E state \in Terminal, failure \in BOOLEAN :
         SettleAgent(a, state, failure)

RegistryNext == \E a \in Agents : RegisterAgent(a) \/ Update(a)

RegistrySpec == RegistryInit /\ [][RegistryNext]_registryVars

----------------------------------------------------------------------------
(* Properties *)

RegistryTypeOK ==
    /\ agentState \in [Agents -> Live \union Terminal \union Absent]
    /\ taskQueued \in [Agents -> BOOLEAN]
    /\ progress \in [Agents -> 0 .. FullProgress]
    /\ agentError \in [Agents -> BOOLEAN]
    /\ updatedAt \in [Agents -> Nat]
    /\ finishedAgents \in Seq(Agents)
    /\ settledAs \in [Agents -> Terminal \union {"none"}]
    /\ settledOrder \in Seq(Agents)

(* The retention window and the registry agree: the window lists exactly   *)
(* the settled agents still registered, each once, never more than         *)
(* max_finished_agents, and they are the most recently settled ones - a    *)
(* live agent is never rolled out, a settled one never lingers.            *)
WindowHoldsNewestSettled ==
    /\ Range(finishedAgents) = {a \in Agents : agentState[a] \in Terminal}
    /\ Len(finishedAgents) <= MaxFinishedAgents
    /\ finishedAgents = SubSeq(settledOrder,
                               Len(settledOrder) - Len(finishedAgents) + 1,
                               Len(settledOrder))
    /\ Len(settledOrder) > MaxFinishedAgents
         => Len(finishedAgents) = MaxFinishedAgents
=============================================================================
