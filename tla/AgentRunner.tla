---------------------------- MODULE AgentRunner ----------------------------
(***************************************************************************)
(* Background execution of agents: backend/app/orchestration/runner.py on  *)
(* top of the agent registry (AgentRegistry), with the audit events it     *)
(* emits and the reconstruction of an agent from them                      *)
(* (api/routes/agents.py).                                                 *)
(*                                                                         *)
(* The interleaved parties are the callers of spawn() and cancel(), the    *)
(* worker tasks, one execution task per picked agent, the wall-clock timer *)
(* and the shutdown in close().  A store mutation suspends nobody, so the  *)
(* code between two awaits of a party is one action; the waits are: the    *)
(* queue, the first step of a created task, agent.run(), the shielded      *)
(* settle, asyncio.wait() and the two gathers of close().                  *)
(*                                                                         *)
(* agent.run() is external: it reports progress, returns, raises, and      *)
(* unwinds when cancelled - with CancelledError, or with the ValueError    *)
(* that LlamaRuntime makes of it.                                          *)
(***************************************************************************)
EXTENDS AgentRegistry, Lists, FiniteSets

CONSTANTS
    Workers,    \* the worker tasks, agent_workers of them
    WallClock,  \* whether agent_timeout_seconds > 0
    NoAgent     \* a worker that executes nothing

ASSUME RunnerAssumption ==
    /\ WallClock \in BOOLEAN
    /\ NoAgent \notin Agents

VARIABLES
    spawnQueue,       \* _queue
    worker,      \* what each worker task executes: NoAgent while in get()
    stopped,     \* the worker tasks that ended
    task,        \* the execution task of each agent
    signal,      \* cancellations requested of the task and not yet delivered
    closing,     \* how far close() got
    audit,       \* the agent_events recorded for each agent, oldest first
    (* history *)
    accepted     \* the agents some cancel() call returned True for

runnerVars == <<spawnQueue, worker, stopped, task, signal, closing, audit, accepted>>
vars == <<registryVars, runnerVars>>

Init ==
    /\ RegistryInit
    /\ spawnQueue = << >>
    /\ worker = [w \in Workers |-> NoAgent]
    /\ stopped = {}
    /\ task = [a \in Agents |-> "none"]
    /\ signal = [a \in Agents |-> {}]
    /\ closing = "open"
    /\ audit = [a \in Agents |-> << >>]
    /\ accepted = {}

----------------------------------------------------------------------------
\* _running: an entry is made with the task and popped by its worker.
Running == {a \in Agents : \E w \in Workers : worker[w] = a}

Audit(a, event) == audit' = [audit EXCEPT ![a] = Append(@, event)]

\* _settle(): the terminal state in the store and, if the store took it, the
\* audit event.
Settle(a, state, failure) ==
    IF Updatable(a)
    THEN SettleAgent(a, state, failure) /\ Audit(a, state)
    ELSE UNCHANGED <<registryVars, audit>>

TaskEnds(a) == task' = [task EXCEPT ![a] = "ended"]

----------------------------------------------------------------------------
(* spawn() and cancel() *)

Spawn(a) ==
    /\ closing = "open"
    /\ RegisterAgent(a)
    /\ Audit(a, "spawned")
    /\ spawnQueue' = Append(spawnQueue, a)
    /\ UNCHANGED <<worker, stopped, task, signal, closing, accepted>>

\* Variant with a fault: the caller is told it worked, the task is not.
CancelForgotten(a) ==
    /\ Updatable(a)
    /\ a \in Running
    /\ accepted' = accepted \union {a}
    /\ UNCHANGED <<registryVars, spawnQueue, worker, stopped, task, signal, closing,
                   audit>>

\* A registered agent: its task is cancelled, unless it already ended, and the
\* caller is told it worked.
CancelRunning(a) ==
    /\ Updatable(a)
    /\ a \in Running
    /\ signal' = IF task[a] = "ended" THEN signal
                 ELSE [signal EXCEPT ![a] = @ \union {"cancel"}]
    /\ accepted' = accepted \union {a}
    /\ UNCHANGED <<registryVars, spawnQueue, worker, stopped, task, closing, audit>>

\* An agent no worker holds is settled on the spot and left in the queue.
CancelPending(a) ==
    /\ agentState[a] = "pending"
    /\ a \notin Running
    /\ Settle(a, "cancelled", FALSE)
    /\ accepted' = accepted \union {a}
    /\ UNCHANGED <<spawnQueue, worker, stopped, task, signal, closing>>

----------------------------------------------------------------------------
(* Workers *)

\* get(), create_task() and the entry in _running, without an await.
WorkerPicks(w) ==
    /\ w \notin stopped
    /\ worker[w] = NoAgent
    /\ spawnQueue # << >>
    /\ worker' = [worker EXCEPT ![w] = Head(spawnQueue)]
    /\ task' = [task EXCEPT ![Head(spawnQueue)] = "created"]
    /\ spawnQueue' = Tail(spawnQueue)
    /\ UNCHANGED <<registryVars, stopped, signal, closing, audit, accepted>>

\* wait([task]) returns and the entry is popped.
WorkerDone(w) ==
    /\ worker[w] # NoAgent
    /\ task[worker[w]] = "ended"
    /\ worker' = [worker EXCEPT ![w] = NoAgent]
    /\ UNCHANGED <<registryVars, spawnQueue, stopped, task, signal, closing, audit,
                   accepted>>

----------------------------------------------------------------------------
(* One execution: _execute() *)

\* Variant with a fault: "started" is not audited.
ExecStartUnaudited(a) ==
    /\ task[a] = "created"
    /\ signal[a] = {}
    /\ IF Updatable(a)
       THEN MarkRunning(a) /\ task' = [task EXCEPT ![a] = "body"]
       ELSE TaskEnds(a) /\ UNCHANGED registryVars
    /\ UNCHANGED <<spawnQueue, worker, stopped, signal, closing, audit, accepted>>

\* Variant with a fault: no gate, an agent cancelled in the queue runs.
ExecStartUngated(a) ==
    /\ task[a] = "created"
    /\ signal[a] = {}
    /\ IF Updatable(a) THEN MarkRunning(a) ELSE UNCHANGED registryVars
    /\ Audit(a, "started")
    /\ task' = [task EXCEPT ![a] = "body"]
    /\ UNCHANGED <<spawnQueue, worker, stopped, signal, closing, accepted>>

\* The pickup gate, "started" and the call of agent.run(); an agent settled
\* while it was queued is skipped.
ExecStart(a) ==
    /\ task[a] = "created"
    /\ signal[a] = {}
    /\ IF Updatable(a)
       THEN /\ MarkRunning(a)
            /\ Audit(a, "started")
            /\ task' = [task EXCEPT ![a] = "body"]
       ELSE TaskEnds(a) /\ UNCHANGED <<registryVars, audit>>
    /\ UNCHANGED <<spawnQueue, worker, stopped, signal, closing, accepted>>

\* A task cancelled before its first step never enters _execute().
CancelledBeforeStart(a) ==
    /\ task[a] = "created"
    /\ signal[a] # {}
    /\ TaskEnds(a)
    /\ UNCHANGED <<registryVars, spawnQueue, worker, stopped, signal, closing,
                   audit, accepted>>

\* report_progress(): store, then audit.
Report(a) ==
    /\ task[a] = "body"
    /\ progress[a] < MaxReports
    /\ IF Updatable(a) THEN RecordProgress(a) ELSE UNCHANGED registryVars
    /\ Audit(a, "progress")
    /\ UNCHANGED <<spawnQueue, worker, stopped, task, signal, closing, accepted>>

\* agent.run() returns.
Complete(a) ==
    /\ task[a] = "body"
    /\ signal[a] = {}
    /\ Settle(a, "completed", FALSE)
    /\ TaskEnds(a)
    /\ UNCHANGED <<spawnQueue, worker, stopped, signal, closing, accepted>>

\* agent.run() raises: a failed or timed out generation, the step limit, a bug
\* - or, cancelled in the queue of the gate, the ValueError of runtime.py.
Fail(a) ==
    /\ task[a] = "body"
    /\ Settle(a, "failed", TRUE)
    /\ TaskEnds(a)
    /\ UNCHANGED <<spawnQueue, worker, stopped, signal, closing, accepted>>

\* The timer of wait_for() asks the task to cancel itself.
TimerFires(a) ==
    /\ WallClock
    /\ task[a] = "body"
    /\ "timer" \notin signal[a]
    /\ signal' = [signal EXCEPT ![a] = @ \union {"timer"}]
    /\ UNCHANGED <<registryVars, spawnQueue, worker, stopped, task, closing, audit,
                   accepted>>

\* Variant with a fault: the timeout is handled like a cancellation of the
\* runner, which settles nothing.
WallClockTimeoutUnsettled(a) ==
    /\ task[a] = "body"
    /\ signal[a] = {"timer"}
    /\ TaskEnds(a)
    /\ UNCHANGED <<registryVars, spawnQueue, worker, stopped, signal, closing, audit,
                   accepted>>

\* Only the timer asked: wait_for() turns the cancellation into TimeoutError.
WallClockTimeout(a) ==
    /\ task[a] = "body"
    /\ signal[a] = {"timer"}
    /\ Settle(a, "cancelled", TRUE)
    /\ TaskEnds(a)
    /\ UNCHANGED <<spawnQueue, worker, stopped, signal, closing, accepted>>

\* cancel() asked, alone or with the timer: CancelledError reaches _execute(),
\* which creates the shielded settle and awaits it.
CancelDelivered(a) ==
    /\ task[a] = "body"
    /\ "cancel" \in signal[a]
    /\ task' = [task EXCEPT ![a] = "settling"]
    /\ UNCHANGED <<registryVars, spawnQueue, worker, stopped, signal, closing,
                   audit, accepted>>

SettleCancelled(a) ==
    /\ task[a] = "settling"
    /\ Settle(a, "cancelled", FALSE)
    /\ TaskEnds(a)
    /\ UNCHANGED <<spawnQueue, worker, stopped, signal, closing, accepted>>

----------------------------------------------------------------------------
(* close() *)

\* The agents of q an update still reaches, in the order of q.
UpdatableOf(q) == Filter(q, {a \in Agents : Updatable(a)})

\* Variant with a fault: the queue is not drained.
CloseBeginUndrained ==
    /\ closing = "open"
    /\ closing' = "tasks"
    /\ signal' = [a \in Agents |->
                    IF a \in Running /\ task[a] # "ended"
                    THEN signal[a] \union {"cancel"} ELSE signal[a]]
    /\ UNCHANGED <<registryVars, spawnQueue, worker, stopped, task, audit, accepted>>

\* Up to the first gather: the queue is drained and settled, the tasks are
\* cancelled.
CloseBegin ==
    /\ closing = "open"
    /\ closing' = "tasks"
    /\ LET pending == UpdatableOf(spawnQueue) IN
         /\ SettleAgents(pending, "cancelled", FALSE)
         /\ audit' = [a \in Agents |->
                        IF a \in Range(pending)
                        THEN Append(audit[a], "cancelled") ELSE audit[a]]
    /\ spawnQueue' = << >>
    /\ signal' = [a \in Agents |->
                    IF a \in Running /\ task[a] # "ended"
                    THEN signal[a] \union {"cancel"} ELSE signal[a]]
    /\ UNCHANGED <<worker, stopped, task, accepted>>

\* The tasks settled; the workers are cancelled.
CloseTasksDone ==
    /\ closing = "tasks"
    /\ \A a \in Running : task[a] = "ended"
    /\ closing' = "workers"
    /\ UNCHANGED <<registryVars, spawnQueue, worker, stopped, task, signal, audit,
                   accepted>>

\* A cancelled worker leaves its loop, popping its entry on the way out.
WorkerStops(w) ==
    /\ closing = "workers"
    /\ w \notin stopped
    /\ worker' = [worker EXCEPT ![w] = NoAgent]
    /\ stopped' = stopped \union {w}
    /\ UNCHANGED <<registryVars, spawnQueue, task, signal, closing, audit, accepted>>

CloseEnds ==
    /\ closing = "workers"
    /\ stopped = Workers
    /\ closing' = "closed"
    /\ UNCHANGED <<registryVars, spawnQueue, worker, stopped, task, signal, audit,
                   accepted>>

----------------------------------------------------------------------------
\* What the event loop owes the execution of a; agent.run() ends too, since
\* each of its generations does.
ExecStep(a) ==
    \/ ExecStart(a) \/ CancelledBeforeStart(a)
    \/ Complete(a) \/ Fail(a) \/ WallClockTimeout(a)
    \/ CancelDelivered(a) \/ SettleCancelled(a)

WorkerStep(w) == WorkerPicks(w) \/ WorkerDone(w) \/ WorkerStops(w)

CloseStep == CloseTasksDone \/ CloseEnds

Terminated == closing = "closed" /\ UNCHANGED vars

Next ==
    \/ \E a \in Agents :
        \/ Spawn(a) \/ CancelRunning(a) \/ CancelPending(a)
        \/ ExecStep(a) \/ Report(a) \/ TimerFires(a)
    \/ \E w \in Workers : WorkerStep(w)
    \/ CloseBegin \/ CloseStep
    \/ Terminated

Spec == Init /\ [][Next]_vars

Fairness ==
    /\ \A a \in Agents : WF_vars(ExecStep(a))
    /\ \A w \in Workers : WF_vars(WorkerStep(w))
    /\ WF_vars(CloseStep)

FairSpec == Spec /\ Fairness

----------------------------------------------------------------------------
(* GET /api/agents/{id} of an evicted agent: _reconstruct_detail() *)

Rebuilt(a) ==
    LET events == Range(audit[a])
        last   == audit[a][Len(audit[a])]
    IN
    [state    |-> IF audit[a] = << >> THEN "unknown"
                  ELSE CASE last = "spawned"                 -> "pending"
                         [] last \in {"started", "progress"} -> "running"
                         [] OTHER                            -> last,
     progress |-> IF "completed" \in events THEN FullProgress
                  ELSE Cardinality({i \in DOMAIN audit[a] :
                                      audit[a][i] = "progress"}),
     error    |-> "failed" \in events]

\* How the agent is, or was when it left the registry.
Outcome(a) == IF settledAs[a] # "none" THEN settledAs[a] ELSE agentState[a]

\* A pending agent whose task ended before it ran a line.
NeverRan(a) == agentState[a] = "pending" /\ task[a] = "ended"

----------------------------------------------------------------------------
(* Properties *)

Lifecycle == INSTANCE AgentLifecycle WITH
    status <- [a \in Agents |-> Outcome(a)],
    trail <- audit

(* Runner, registry and audit trail together keep the promise of           *)
(* AgentLifecycle.                                                         *)
ImplementsLifecycle == Lifecycle!Spec

TypeOK ==
    /\ RegistryTypeOK
    /\ spawnQueue \in Seq(Agents)
    /\ worker \in [Workers -> Agents \union {NoAgent}]
    /\ stopped \subseteq Workers
    /\ task \in [Agents -> {"none", "created", "body", "settling", "ended"}]
    /\ signal \in [Agents -> SUBSET {"cancel", "timer"}]
    /\ closing \in {"open", "tasks", "workers", "closed"}
    /\ audit \in [Agents -> Seq({"spawned", "started", "progress"}
                                  \union Terminal)]
    /\ accepted \subseteq Agents

(* An agent's full history is reconstructable from its audit events alone: *)
(* at every moment, also long after its eviction, they tell the state and  *)
(* the progress the registry holds or held (runner.py:12-14), and whether  *)
(* it has an error, save for an agent the wall-clock guard stopped, whose  *)
(* event carries none.                                                     *)
AuditRebuildsAgent ==
    \A a \in Agents :
        /\ Rebuilt(a).state = Outcome(a)
        /\ Rebuilt(a).progress = progress[a]
        /\ settledAs[a] # "cancelled" => Rebuilt(a).error = agentError[a]

(* No agent runs twice, and none runs unseen: a live task has exactly one  *)
(* worker, which is what cancel() and close() reach it by; an agent is in  *)
(* state running exactly while its task is in agent.run() or settling; a   *)
(* pending one is queued once or about to start, the ones cancelled before *)
(* their first step excepted.  What the API lists as its task queue says so. *)
WorkIsAccounted ==
    /\ \A v, w \in Workers : worker[v] = worker[w] /\ worker[v] # NoAgent => v = w
    /\ \A a \in Agents :
        /\ task[a] \in {"created", "body", "settling"} => a \in Running
        /\ task[a] \in {"body", "settling"} <=> agentState[a] = "running"
        /\ Cardinality({i \in DOMAIN spawnQueue : spawnQueue[i] = a}) <= 1
        /\ a \in Range(spawnQueue) => task[a] = "none"
        /\ taskQueued[a] <=> agentState[a] = "pending"
        /\ agentState[a] = "pending" =>
             a \in Range(spawnQueue) \/ task[a] = "created" \/ NeverRan(a)

(* cancel() can never observe an agent that is neither queued nor          *)
(* registered (runner.py:201-202).                                         *)
PendingIsReachable ==
    \A a \in Agents :
        agentState[a] = "pending" => a \in Range(spawnQueue) \/ a \in Running

(* A cancellation that was accepted is not overtaken by the result of the  *)
(* agent it cancelled.                                                     *)
AcceptedCancelSticks == \A a \in accepted : settledAs[a] # "completed"

(* Every spawned agent ends, whatever the agents before it did: a crash, a *)
(* timeout or a cancellation never takes the worker with it.               *)
EveryAgentEnds ==
    \A a \in Agents :
        agentState[a] \in Live ~> (settledAs[a] # "none" \/ NeverRan(a))

(* A shutdown ends, whatever the agents are doing when it begins, and then *)
(* nothing is queued, registered or in flight and every agent that ever    *)
(* ran is settled.                                                         *)
ClosesQuietly ==
    closing = "tasks" ~>
        /\ closing = "closed"
        /\ spawnQueue = << >>
        /\ Running = {}
        /\ \A a \in Agents : Updatable(a) => NeverRan(a)
=============================================================================
