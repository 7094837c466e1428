---------------------------- MODULE AgentHistory ----------------------------
(***************************************************************************)
(* What is left of an agent after it is gone: the registry that evicts it  *)
(* (AgentRegistry), the audit trail that keeps its events (AuditTrail,     *)
(* which AuditService is shown to implement), GET /api/agents/{id}, which  *)
(* answers from the one or the other (backend/app/api/routes/agents.py),   *)
(* and the process that starts, stops or dies around them (lifespan() in   *)
(* backend/app/main.py).                                                   *)
(*                                                                         *)
(* How an agent is executed is in AgentRunner; here it keeps to            *)
(* AgentLifecycle, which AgentRunner is shown to implement, except that    *)
(* the pending agents a shutdown cancels are cancelled one by one.  The    *)
(* registry of a process that ended is empty in the next one; what         *)
(* Postgres holds stays.                                                   *)
(***************************************************************************)
EXTENDS AgentRegistry, Lists, FiniteSets

CONSTANTS
    HistoryLimit,  \* limit of fetch_agent_events()
    Endings,       \* bound of the model: the terminal states agents reach
    MaxLosses,     \* bound of the model: events given up
    MaxRestarts    \* bound of the model: how often the process starts again

ASSUME HistoryAssumption ==
    /\ HistoryLimit \in Nat \ {0}
    /\ Endings \subseteq Terminal
    /\ MaxLosses \in Nat
    /\ MaxRestarts \in Nat

VARIABLES
    backlog, stored, given, service,  \* the audit service, see AuditTrail
    process,   \* how far lifespan() is
    restarts,  \* how often the process started again
    stranded,  \* pending agents whose task was cancelled before it ran a line
    inquiry    \* a GET /api/agents/{id} that waits for Postgres

trailVars == <<backlog, stored, given, service>>
vars == <<registryVars, trailVars, process, restarts, stranded, inquiry>>

AgentEvents == [agent : Agents, kind : {"spawned", "started", "progress"} \union Terminal,
                nr : 1 .. MaxReports + 3]

Trail == INSTANCE AuditTrail WITH Events <- AgentEvents

NoInquiry == [agent |-> "none", seen |-> "none"]

Init ==
    /\ RegistryInit
    /\ Trail!Init
    /\ process = "validating"
    /\ restarts = 0
    /\ stranded = {}
    /\ inquiry = NoInquiry

----------------------------------------------------------------------------
(* Agents *)

Faulty == Cardinality(given) < MaxLosses

\* record_agent_event(): the nr-th event of an agent goes with the nr-th change
\* of its record.
Emit(a, kind) ==
    LET e == [agent |-> a, kind |-> kind, nr |-> updatedAt'[a]] IN
    \/ Trail!Accept(e)
    \/ Faulty /\ \E i \in DOMAIN backlog : Trail!AcceptFor(i, e)
    \/ Trail!Refuse(e)

Spawn(a) ==
    /\ process = "serving"
    /\ RegisterAgent(a)
    /\ Emit(a, "spawned")
    /\ UNCHANGED <<process, restarts, stranded, inquiry>>

Start(a) ==
    /\ process = "serving"
    /\ agentState[a] = "pending"
    /\ a \notin stranded
    /\ MarkRunning(a)
    /\ Emit(a, "started")
    /\ UNCHANGED <<process, restarts, stranded, inquiry>>

Report(a) ==
    /\ agentState[a] = "running"
    /\ progress[a] < MaxReports
    /\ RecordProgress(a)
    /\ Emit(a, "progress")
    /\ UNCHANGED <<process, restarts, stranded, inquiry>>

\* Variant with a fault: the event is recorded whether or not the store took
\* the transition.
SettleUnasked(a, state) ==
    /\ Present(a)
    /\ agentState[a] = "pending" => state = "cancelled"
    /\ IF Updatable(a)
       THEN SettleAgent(a, state, state = "failed") ELSE UNCHANGED registryVars
    /\ Emit(a, state)
    /\ UNCHANGED <<process, restarts, stranded, inquiry>>

\* Variant with a fault: a cancellation is not recorded.
SettleUnrecorded(a, state) ==
    /\ Updatable(a)
    /\ agentState[a] = "pending" =>
         state = "cancelled" /\ (a \in stranded => process = "serving")
    /\ SettleAgent(a, state, state = "failed")
    /\ IF state = "cancelled" THEN UNCHANGED trailVars ELSE Emit(a, state)
    /\ UNCHANGED <<process, restarts, stranded, inquiry>>

\* A pending agent can only be cancelled: a stranded one by a user, the others
\* also by the shutdown.
Settle(a, state) ==
    /\ Updatable(a)
    /\ agentState[a] = "pending" =>
         state = "cancelled" /\ (a \in stranded => process = "serving")
    /\ SettleAgent(a, state, state = "failed")
    /\ Emit(a, state)
    /\ UNCHANGED <<process, restarts, stranded, inquiry>>

\* The task of a picked agent is cancelled before its first step.
Strand(a) ==
    /\ agentState[a] = "pending"
    /\ stranded' = stranded \union {a}
    /\ UNCHANGED <<registryVars, trailVars, process, restarts, inquiry>>

----------------------------------------------------------------------------
(* The consumer of the audit queue; of the commits reported as failed only *)
(* those of one event are looked at here.                                  *)

Consume ==
    /\ \/ \E n \in 1 .. Len(backlog) : Trail!Store(n)
       \/ Faulty /\ (Trail!StoreUnnoticed(1) \/ Trail!GiveUp)
    /\ UNCHANGED <<registryVars, process, restarts, stranded, inquiry>>

----------------------------------------------------------------------------
(* lifespan() *)

Moves(from, to) == process = from /\ process' = to

\* validate_settings() or the database finds a problem: nothing is built.
StartupRefused ==
    /\ Moves("validating", "down")
    /\ UNCHANGED <<registryVars, trailVars, restarts, stranded, inquiry>>

\* The engine and the consumer are there; the model is loaded next.
StartsAudit ==
    /\ Moves("validating", "loading")
    /\ UNCHANGED <<registryVars, trailVars, restarts, stranded, inquiry>>

Loaded ==
    /\ Moves("loading", "serving")
    /\ UNCHANGED <<registryVars, trailVars, restarts, stranded, inquiry>>

\* ModelNotFoundError closes the audit service; any other exception of load()
\* leaves it to the end of the process.
LoadFails ==
    /\ \/ Moves("loading", "draining") /\ Trail!Close
       \/ Moves("loading", "killed") /\ UNCHANGED trailVars
    /\ UNCHANGED <<registryVars, restarts, stranded, inquiry>>

\* The finally block, up to the wait in agent_runner.close().  The server lets
\* the requests in flight finish first.
Shutdown ==
    /\ Moves("serving", "stopping")
    /\ inquiry = NoInquiry
    /\ UNCHANGED <<registryVars, trailVars, restarts, stranded, inquiry>>

\* Variant with a fault: the audit service is closed before the runner.
AuditClosedFirst ==
    /\ Moves("stopping", "draining")
    /\ Trail!Close
    /\ UNCHANGED <<registryVars, restarts, stranded, inquiry>>

\* agent_runner.close() returned, audit_service.close() begins.
RunnerClosed ==
    /\ Moves("stopping", "draining")
    /\ \A a \in Agents : Updatable(a) => a \in stranded
    /\ Trail!Close
    /\ UNCHANGED <<registryVars, restarts, stranded, inquiry>>

\* audit_service.close() returned, by itself or by its timeout; the runtime and
\* the engine are torn down.
AuditClosed ==
    /\ Moves("draining", "down")
    /\ Trail!Drained \/ Trail!CutOff
    /\ UNCHANGED <<registryVars, restarts, stranded, inquiry>>

\* The process dies without its shutdown.
Killed ==
    /\ process \in {"serving", "stopping", "draining"}
    /\ process' = "killed"
    /\ UNCHANGED <<registryVars, trailVars, restarts, stranded, inquiry>>

\* The next process starts with an empty registry and an empty queue.
Restart ==
    /\ process \in {"down", "killed"}
    /\ restarts < MaxRestarts
    /\ process' = "validating"
    /\ restarts' = restarts + 1
    /\ agentState' = [a \in Agents |->
                        IF Present(a) THEN "evicted" ELSE agentState[a]]
    /\ taskQueued' = [a \in Agents |-> FALSE]
    /\ finishedAgents' = << >>
    /\ backlog' = << >>
    /\ service' = "open"
    /\ stranded' = {}
    /\ inquiry' = NoInquiry
    /\ UNCHANGED <<progress, agentError, updatedAt, settledAs, settledOrder,
                   stored, given>>

----------------------------------------------------------------------------
(* GET /api/agents/{id} *)

\* fetch_agent_events(): the newest rows of the agent, oldest first.
Fetched(a) ==
    LET rows == Filter(stored, {e \in AgentEvents : e.agent = a}) IN
    IF Len(rows) > HistoryLimit
    THEN SubSeq(rows, Len(rows) - HistoryLimit + 1, Len(rows)) ELSE rows

\* The state of _reconstruct_detail(): every event carries one.
StateOf(kind) ==
    CASE kind = "spawned" -> "pending"
      [] kind \in {"started", "progress"} -> "running"
      [] OTHER -> kind

Rebuilt(a) ==
    IF Fetched(a) = << >> THEN "not found"
    ELSE StateOf(Fetched(a)[Len(Fetched(a))].kind)

\* The handler up to the await: the registry is looked at first.
Asks(a) ==
    /\ process = "serving"
    /\ inquiry = NoInquiry
    /\ agentState[a] # "unknown"
    /\ inquiry' = [agent |-> a, seen |-> IF Present(a) THEN agentState[a] ELSE "absent"]
    /\ UNCHANGED <<registryVars, trailVars, process, restarts, stranded>>

\* What it answers with what Postgres holds by then.  A read that fails makes
\* the answer 503 for an absent agent and leaves out the events of a live one.
Answer == IF inquiry.seen = "absent" THEN Rebuilt(inquiry.agent) ELSE inquiry.seen

Answered ==
    /\ inquiry # NoInquiry
    /\ inquiry' = NoInquiry
    /\ UNCHANGED <<registryVars, trailVars, process, restarts, stranded>>

----------------------------------------------------------------------------
Ends(a) == \E state \in Endings : Settle(a, state)

\* What the runner owes an agent: to start it, to end it, and to cancel it when
\* the process stops.
Executes(a) ==
    \/ Start(a)
    \/ (agentState[a] = "running" \/ process = "stopping") /\ Ends(a)

Lifespan ==
    \/ StartupRefused \/ StartsAudit \/ Loaded \/ LoadFails
    \/ RunnerClosed \/ AuditClosed

Terminated == process \in {"down", "killed"} /\ UNCHANGED vars

Next ==
    \/ process \in {"serving", "stopping"} /\
         \E a \in Agents : Spawn(a) \/ Start(a) \/ Report(a) \/ Ends(a) \/ Strand(a)
    \/ process \notin {"down", "killed"} /\ Consume
    \/ Lifespan \/ Shutdown \/ Killed \/ Restart
    \/ \E a \in Agents : Asks(a)
    \/ Answered
    \/ Terminated

Spec == Init /\ [][Next]_vars

(* The consumer writes what is queued, agents that run end, and a startup  *)
(* or a shutdown that began goes on.  Nobody owes a shutdown, a crash or a *)
(* restart.                                                                *)
Fairness ==
    /\ WF_vars(process \notin {"down", "killed"} /\ Consume)
    /\ \A a \in Agents :
         WF_vars(process \in {"serving", "stopping"} /\ Executes(a))
    /\ WF_vars(Lifespan)

FairSpec == Spec /\ Fairness

----------------------------------------------------------------------------
(* Properties *)

TypeOK ==
    /\ RegistryTypeOK
    /\ backlog \in Seq(AgentEvents)
    /\ stored \in Seq(AgentEvents)
    /\ given \subseteq AgentEvents
    /\ service \in {"open", "closing", "ended"}
    /\ process \in {"validating", "loading", "serving", "stopping", "draining",
                    "down", "killed"}
    /\ restarts \in 0 .. MaxRestarts
    /\ stranded \subseteq Agents
    /\ inquiry \in [agent : Agents,
                    seen : Live \union Terminal \union {"absent"}]
                   \union {NoInquiry}

EndIn(a, events) == \E e \in events : e.agent = a /\ e.kind \in Terminal

(* The durable record never tells an end that was not the agent's, and     *)
(* tells the right one as soon as Postgres has it - whatever was given up, *)
(* stored twice or cut off by the limit of the query, however the agent's  *)
(* end raced its cancellation, and in whichever process it lived.  So does *)
(* every answer of GET /api/agents/{id}.                                   *)
RebuiltAgrees ==
    /\ TypeOK
    /\ \A a \in Agents :
         IF EndIn(a, Range(stored)) THEN Rebuilt(a) = settledAs[a]
         ELSE Rebuilt(a) \notin Terminal
    /\ inquiry # NoInquiry /\ Answer \in Terminal => Answer = settledAs[inquiry.agent]

(* The shutdown keeps every agent's history: the audit service closes only *)
(* when no agent has an event left to record (main.py:149-151), and once   *)
(* it has drained, every end is in Postgres or was given up with a log     *)
(* record.  Only an agent stranded at its pickup has no end to keep.       *)
HistoryOutlivesProcess ==
    /\ service # "open" => \A a \in Agents : Updatable(a) => a \in stranded
    /\ process = "down" /\ backlog = << >> =>
         \A a \in Agents : Present(a) =>
            \/ EndIn(a, Range(stored) \union given)
            \/ a \in stranded

(* An agent that ended is on record sooner or later, also if it is evicted *)
(* first, unless its event was given up or the process went down with it.  *)
EndIsKept ==
    \A a \in Agents :
        agentState[a] \in Terminal ~>
            \/ EndIn(a, Range(stored) \union given)
            \/ process = "killed"
            \/ process = "down" /\ backlog # << >>

(* "404 only when no trace of the agent exists anywhere" (agents.py:177):  *)
(* an agent that was evicted and whose events are still to be written is   *)
(* found.                                                                  *)
EvictedStaysQueryable ==
    inquiry # NoInquiry /\ agentState[inquiry.agent] = "evicted"
    /\ Answer = "not found" =>
        \A i \in DOMAIN backlog : backlog[i].agent # inquiry.agent
=============================================================================
