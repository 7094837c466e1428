--------------------------- MODULE PromptPipeline ---------------------------
(***************************************************************************)
(* One prompt from POST /api/prompt to its answer: PromptPipeline.run      *)
(* (backend/app/orchestration/pipeline.py), the main graph it shields      *)
(* (orchestration/graph.py and its nodes), the runs in the state store     *)
(* (RunRegistry), the audit events of the request, and the model's gate -  *)
(* ModelTurn, which LlamaRuntime is shown to implement.                    *)
(*                                                                         *)
(* A handler and its graph are two tasks.  run() does not suspend before   *)
(* it awaits the graph, and a node does not suspend before it calls        *)
(* generate(), so these stretches are single steps.  The timer of          *)
(* wait_for() and a cancellation of the handler's task can strike at any   *)
(* moment of the wait; the graph then goes on without its handler.         *)
(*                                                                         *)
(* Background agents appear as calls that use the gate at will.  langgraph *)
(* is external: it runs the nodes in the order of the edges and ends with  *)
(* the exception of a node.                                                *)
(***************************************************************************)
EXTENDS RunRegistry, FiniteSets

CONSTANTS
    BackgroundCalls,         \* background generations
    MaxQueueDepth   \* llm_max_queue_depth, 0 for no busy guard

ASSUME PipelineAssumption ==
    /\ MaxQueueDepth \in Nat
    /\ BackgroundCalls \intersect Requests = {}

VARIABLES
    handler,         \* PromptPipeline.run of each request
    graph,           \* the node its graph is in, or how it ended
    trail,           \* the audit events recorded for it, oldest first
    holder,          \* the gate, see ModelTurn
    foregroundLine,
    backgroundLine

gateVars == <<holder, foregroundLine, backgroundLine>>
vars == <<runVars, handler, graph, trail, gateVars>>

Gate == INSTANCE ModelTurn WITH
    Calls <- Requests \union BackgroundCalls,
    Background <- BackgroundCalls

Init ==
    /\ RunsInit
    /\ handler = [r \in Requests |-> "new"]
    /\ graph = [r \in Requests |-> "none"]
    /\ trail = [r \in Requests |-> << >>]
    /\ Gate!Init

Record(r, events) == trail' = [trail EXCEPT ![r] = @ \o events]

Handler(r, from, to) == handler[r] = from /\ handler' = [handler EXCEPT ![r] = to]

Graph(r, from, to) == graph[r] \in from /\ graph' = [graph EXCEPT ![r] = to]

----------------------------------------------------------------------------
(* Arrival: run() up to the await *)

Busy == MaxQueueDepth # 0 /\ Gate!Depth >= MaxQueueDepth

\* ServiceBusyError, before anything is registered.
Refuse(r) ==
    /\ Busy
    /\ Handler(r, "new", "busy")
    /\ UNCHANGED <<runVars, graph, trail, gateVars>>

\* Variant with a fault: a rejected prompt's run is left in progress.
RejectUnsettled(r) ==
    /\ ~Busy
    /\ Handler(r, "new", "rejected")
    /\ \E s \in Sessions : StartRun(r, s, "governance")
    /\ Record(r, <<"session", "request">>)
    /\ UNCHANGED <<graph, gateVars>>

\* Governance rejects: the run fails at once and the prompt is audited.
Reject(r) ==
    /\ ~Busy
    /\ Handler(r, "new", "rejected")
    /\ \E s \in Sessions : StartAndFailRun(r, s)
    /\ Record(r, <<"session", "request">>)
    /\ UNCHANGED <<graph, gateVars>>

\* Variant with a fault: the session is recorded after the prompt.
AcceptUnordered(r) ==
    /\ ~Busy
    /\ Handler(r, "new", "awaiting")
    /\ \E s \in Sessions : StartRun(r, s, "governance")
    /\ Record(r, <<"request", "session">>)
    /\ Graph(r, {"none"}, "start")
    /\ UNCHANGED gateVars

\* Governance passes: the graph's task is created and awaited.
Accept(r) ==
    /\ ~Busy
    /\ Handler(r, "new", "awaiting")
    /\ \E s \in Sessions : StartRun(r, s, "governance")
    /\ Record(r, <<"session", "request">>)
    /\ Graph(r, {"none"}, "start")
    /\ UNCHANGED gateVars

----------------------------------------------------------------------------
(* The graph *)

Engineer(r) ==
    /\ Graph(r, {"start"}, "engineered")
    /\ EnterPhase(r, "engineering")
    /\ UNCHANGED <<handler, trail, gateVars>>

\* The call of runtime.generate().
Generate(c) == Gate!Take(c) \/ Gate!Join(c)

Review(r) ==
    /\ Graph(r, {"engineered"}, "reviewing")
    /\ EnterPhase(r, "reviewing")
    /\ Generate(r)
    /\ UNCHANGED <<handler, trail>>

\* The detour the review may ask for: the agent is spawned and its event
\* recorded, or the spawn fails and the run goes on without.
SpawnAgent(r) ==
    /\ Graph(r, {"reviewed"}, "spawned")
    /\ EnterPhase(r, "spawning")
    /\ Record(r, <<"agent">>) \/ UNCHANGED trail
    /\ UNCHANGED <<handler, gateVars>>

\* Variant with a fault: the node is not wrapped for phase tracking.
RespondUntracked(r) ==
    /\ Graph(r, {"reviewed", "spawned"}, "responding")
    /\ Generate(r)
    /\ UNCHANGED <<runVars, handler, trail>>

Respond(r) ==
    /\ Graph(r, {"reviewed", "spawned"}, "responding")
    /\ EnterPhase(r, "responding")
    /\ Generate(r)
    /\ UNCHANGED <<handler, trail>>

\* generate() returns and the gate is passed on; respond is the last node.
GenerationReturns(r) ==
    /\ r \in holder
    /\ \/ Graph(r, {"reviewing"}, "reviewed")
       \/ Graph(r, {"responding"}, "done")
    /\ Gate!PassOn
    /\ UNCHANGED <<runVars, handler, trail>>

\* llama.cpp raises.
GenerationCrashes(r) ==
    /\ r \in holder
    /\ Graph(r, {"reviewing", "responding"}, "failed")
    /\ Gate!PassOn
    /\ UNCHANGED <<runVars, handler, trail>>

\* The per-call timer: the graph fails, the inference thread keeps the gate.
GenerationTimesOut(r) ==
    /\ r \in holder
    /\ Graph(r, {"reviewing", "responding"}, "failed")
    /\ UNCHANGED <<runVars, handler, trail, gateVars>>

\* Variant with a fault: only a waiting request has its gate released.
ThreadLeavesIfAwaited(r) ==
    /\ r \in holder
    /\ graph[r] = "failed"
    /\ handler[r] = "awaiting"
    /\ Gate!PassOn
    /\ UNCHANGED <<runVars, handler, graph, trail>>

ThreadLeaves(r) ==
    /\ r \in holder
    /\ graph[r] = "failed"
    /\ Gate!PassOn
    /\ UNCHANGED <<runVars, handler, graph, trail>>

----------------------------------------------------------------------------
(* The handler, awaiting the shielded graph *)

\* complete_run() and the response.
Answer(r) ==
    /\ graph[r] = "done"
    /\ Handler(r, "awaiting", "completed")
    /\ FinishRun(r, "completed")
    /\ Record(r, <<"answer">>)
    /\ UNCHANGED <<graph, gateVars>>

\* fail_run() and the failed response.
FailRequest(r) ==
    /\ Handler(r, "awaiting", "failed")
    /\ FinishRun(r, "failed")
    /\ Record(r, <<"failure">>)
    /\ UNCHANGED <<graph, gateVars>>

GraphFailed(r) == graph[r] = "failed" /\ FailRequest(r)

\* The timer of wait_for(), which may beat a result that is already there.
RequestTimesOut(r) == FailRequest(r)

\* CancelledError passes the handler by: nothing is settled or recorded.
HandlerCancelled(r) ==
    /\ Handler(r, "awaiting", "cancelled")
    /\ UNCHANGED <<runVars, graph, trail, gateVars>>

----------------------------------------------------------------------------
(* Background agents *)

Lining == Range(foregroundLine) \union Range(backgroundLine)

AgentStep(b) ==
    /\ \/ b \notin Lining /\ Generate(b)
       \/ Gate!Withdraw(b)
       \/ b \in holder /\ Gate!PassOn
    /\ UNCHANGED <<runVars, handler, graph, trail>>

----------------------------------------------------------------------------
Node(r) == Engineer(r) \/ Review(r) \/ SpawnAgent(r) \/ Respond(r)

Leave(r) == GenerationReturns(r) \/ GenerationCrashes(r) \/ ThreadLeaves(r)

Wake(r) == Answer(r) \/ GraphFailed(r)

Next ==
    \/ \E r \in Requests :
        \/ Refuse(r) \/ Reject(r) \/ Accept(r)
        \/ Node(r) \/ Leave(r) \/ GenerationTimesOut(r)
        \/ Wake(r) \/ RequestTimesOut(r) \/ HandlerCancelled(r)
    \/ \E b \in BackgroundCalls : AgentStep(b)

Spec == Init /\ [][Next]_vars

(* langgraph schedules the next node, a thread leaves llama.cpp, a result  *)
(* wakes its handler.  No timer and no cancellation is owed.               *)
Fairness ==
    /\ \A r \in Requests :
        WF_vars(Node(r)) /\ WF_vars(Leave(r)) /\ WF_vars(Wake(r))
    /\ \A b \in BackgroundCalls : WF_vars(b \in holder /\ AgentStep(b))

FairSpec == Spec /\ Fairness

----------------------------------------------------------------------------
(* Properties *)

TypeOK ==
    /\ RunsTypeOK
    /\ handler \in [Requests -> {"new", "busy", "rejected", "awaiting",
                                 "completed", "failed", "cancelled"}]
    /\ graph \in [Requests -> {"none", "start", "engineered", "reviewing",
                               "reviewed", "spawned", "responding", "done",
                               "failed"}]
    /\ trail \in [Requests -> Seq({"session", "request", "agent", "answer",
                                   "failure"})]
    /\ holder \subseteq Requests \union BackgroundCalls
    /\ foregroundLine \in Seq(Requests)
    /\ backgroundLine \in Seq(BackgroundCalls)

Has(r, event) == event \in Range(trail[r])

\* What the pipeline promises to leave behind for each answer it gives.
Consistent(r) ==
    CASE handler[r] \in {"new", "busy"} ->
           phase[r] = "unknown" /\ trail[r] = << >>
      [] handler[r] = "rejected" ->
           endedAs[r] = "failed" /\ trail[r] = <<"session", "request">>
      [] handler[r] \in {"awaiting", "cancelled"} ->
           endedAs[r] = "none" /\ ~Has(r, "answer") /\ ~Has(r, "failure")
      [] handler[r] = "completed" ->
           endedAs[r] = "completed" /\ Has(r, "answer") /\ ~Has(r, "failure")
      [] handler[r] = "failed" ->
           endedAs[r] = "failed" /\ Has(r, "failure") /\ ~Has(r, "answer")

(* Whatever beats what - a result, a failure, the request's timer, the     *)
(* generation's - the client's answer, the run in the store and the audit  *)
(* record tell the same story, and a request refused as busy leaves no     *)
(* trace at all (ServiceBusyError: "no run, no session, no audit rows").   *)
AnswerRunAndAuditAgree == TypeOK /\ \A r \in Requests : Consistent(r)

Rank(event) ==
    CASE event = "session" -> 0 [] event = "request" -> 1 [] OTHER -> 2

(* The order in which a request is recorded respects the foreign keys of   *)
(* the audit tables, also when an abandoned graph spawns an agent after    *)
(* its request failed: session, then prompt, then the rest, and at most    *)
(* one response.  AuditService relies on this.                             *)
TrailRespectsKeys ==
    \A r \in Requests :
        /\ \A i, j \in DOMAIN trail[r] :
             /\ i < j => Rank(trail[r][i]) <= Rank(trail[r][j])
             /\ trail[r][i] = trail[r][j] => i = j
        /\ trail[r] # << >> => trail[r][1] = "session" /\ trail[r][2] = "request"

(* The status API is honest about a request in progress: its run is in the *)
(* phase of the node its graph entered last.                               *)
PhaseTracksGraph ==
    \A r \in Requests : handler[r] \in {"awaiting", "cancelled"} =>
        phase[r] = CASE graph[r] = "start"      -> "governance"
                     [] graph[r] = "engineered" -> "engineering"
                     [] graph[r] \in {"reviewing", "reviewed"} -> "reviewing"
                     [] graph[r] = "spawned"    -> "spawning"
                     [] graph[r] \in {"responding", "done"} -> "responding"
                     [] graph[r] = "failed"     ->
                          IF phase[r] = "reviewing" THEN phase[r] ELSE "responding"

(* Every accepted request is answered without any timer's help, and every  *)
(* graph, also one nobody waits for any more, ends and gives the model     *)
(* back: neither an agent nor an abandoned graph keeps it for good.        *)
EveryGraphEnds ==
    \A r \in Requests :
        graph[r] = "start" ~>
            /\ handler[r] # "awaiting"
            /\ graph[r] \in {"done", "failed"}
            /\ r \notin holder
=============================================================================
