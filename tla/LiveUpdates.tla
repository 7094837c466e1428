---------------------------- MODULE LiveUpdates ----------------------------
(***************************************************************************)
(* The agents as a browser shows them: the registry (AgentRegistry), its   *)
(* events on their way to one client (EventStream, BrowserSocket), the     *)
(* client's polling fallback (frontend/src/hooks/useWebSocket.ts) and the  *)
(* reducer that applies both (state/AppState.tsx).                         *)
(*                                                                         *)
(* React commits a change of the socket's status, and restarts the effects *)
(* that depend on it, before the next message or answer is handled.  Runs  *)
(* and sessions go through the same stream and are the subject of          *)
(* ChatUpdates; no agent is beyond the limit of GET /api/agents (100       *)
(* unless the caller asks otherwise).                                      *)
(***************************************************************************)
EXTENDS AgentRegistry, BrowserSocket

CONSTANT MaxPrompts   \* bound of the model: prompts submitted by this client

ASSUME LiveAssumption == MaxPrompts \in Nat

VARIABLES
    known,    \* AppState.agents: the snapshot of each agent, or Unlisted
    poll,     \* the poll of GET /api/agents: is it out, and with which answer
    mount,    \* the sync on mount, likewise
    prompt,   \* a prompt of this client is in flight
    prompts   \* how many it submitted

clientVars == <<known, poll, mount, prompt, prompts>>
vars == <<registryVars, socketVars, clientVars>>

Unlisted == [state |-> "unlisted", updatedAt |-> 0]

\* list_agents(): what the store can tell about each agent.
StoreView == [a \in Agents |->
                IF Present(a)
                THEN [state |-> agentState[a], updatedAt |-> updatedAt[a]]
                ELSE Unlisted]

NothingShown == [a \in Agents |-> Unlisted]

Request(status, list) == [is |-> status, list |-> list]

Idle  == Request("idle", NothingShown)
Asked == Request("asked", NothingShown)

Init ==
    /\ RegistryInit
    /\ SocketInit
    /\ known = NothingShown
    /\ poll = Idle
    /\ mount = Asked
    /\ prompt = FALSE
    /\ prompts = 0

----------------------------------------------------------------------------
(* The agent polling effect *)

\* hasActiveAgents
Active == \E a \in Agents : known[a].state \in Live

Wanted == ~SocketLive /\ (prompt \/ Active)

\* Variant with a fault: the restarted effect still takes the old poll's answer.
RerenderKeepsPoll(otherwise) ==
    poll' = IF poll.is = "idle" /\ Wanted' THEN Asked ELSE otherwise

\* After a change of the client's state: when a dependency of the effect changed
\* it restarts, which disowns the poll in flight and polls at once if wanted.
Rerender(otherwise) ==
    poll' = IF <<SocketLive, prompt, Active>>' = <<SocketLive, prompt, Active>>
            THEN otherwise
            ELSE IF Wanted' THEN Asked ELSE Idle

----------------------------------------------------------------------------
(* The store and its notify hook *)

Updated(a) == [type |-> "agent_updated", agent |-> a, snapshot |-> StoreView'[a]]

\* The event of a settle shows the terminal record, evicted or not.
Settled(a) ==
    [type |-> "agent_updated", agent |-> a,
     snapshot |-> [state |-> settledAs'[a], updatedAt |-> updatedAt'[a]]]

EvictedEvents(q) ==
    [i \in 1 .. Excess(q) |->
       [type |-> "agent_evicted", agent |-> q[i], snapshot |-> Unlisted]]

\* An agent is spawned by the graph of the prompt in flight.
AgentSpawned(a) ==
    /\ prompt
    /\ RegisterAgent(a)
    /\ Publish(<<Updated(a)>>)
    /\ UNCHANGED <<socket, clientVars>>

AgentProgresses(a) ==
    /\ \/ agentState[a] = "pending" /\ MarkRunning(a)
       \/ updatedAt[a] <= MaxReports /\ RecordProgress(a)
    /\ Publish(<<Updated(a)>>)
    /\ UNCHANGED <<socket, clientVars>>

\* Variant with a fault: the evictions are not announced.
AgentSettlesOnly(a) ==
    /\ SettleAgent(a, "completed", FALSE)
    /\ Publish(<<Settled(a)>>)
    /\ UNCHANGED <<socket, clientVars>>

AgentSettles(a) ==
    /\ SettleAgent(a, "completed", FALSE)
    /\ Publish(<<Settled(a)>> \o EvictedEvents(Append(finishedAgents, a)))
    /\ UNCHANGED <<socket, clientVars>>

\* The streaming task forwards the next event.
Forward == Stream /\ UNCHANGED <<registryVars, socket, clientVars>>

----------------------------------------------------------------------------
(* The socket *)

Accept == Accepts(StoreView) /\ UNCHANGED <<registryVars, clientVars>>

Opens ==
    /\ SocketOpens
    /\ UNCHANGED <<registryVars, known, mount, prompt, prompts>>
    /\ Rerender(poll)

\* agents_synced: the server's list replaces the client's.
\* agent_updated: an older snapshot than the one shown is ignored.
\* agent_evicted: the agent is no longer shown.
Apply(shown, body, kind) ==
    IF kind = "snapshot" THEN body
    ELSE CASE body.type = "agent_evicted" ->
                [shown EXCEPT ![body.agent] = Unlisted]
           [] body.type = "agent_updated" ->
                IF shown[body.agent].updatedAt > body.snapshot.updatedAt
                THEN shown
                ELSE [shown EXCEPT ![body.agent] = body.snapshot]

MessageArrives ==
    /\ Receives
    /\ known' = Apply(known, Head(wire).body, Head(wire).type)
    /\ UNCHANGED <<registryVars, mount, prompt, prompts>>
    /\ Rerender(poll)

Closes ==
    /\ SocketCloses
    /\ UNCHANGED <<registryVars, known, mount, prompt, prompts>>
    /\ Rerender(poll)

Retries == Reconnects /\ UNCHANGED <<registryVars, clientVars>>

----------------------------------------------------------------------------
(* Polls, and the prompts that cause them *)

\* A tick of the interval, which exists only while agents could be changing.
PollStarts ==
    /\ poll = Idle
    /\ Wanted
    /\ poll' = Asked
    /\ UNCHANGED <<registryVars, socketVars, known, mount, prompt, prompts>>

PollAnswered ==
    /\ poll = Asked
    /\ poll' = Request("answered", StoreView)
    /\ UNCHANGED <<registryVars, socketVars, known, mount, prompt, prompts>>

PollArrives ==
    /\ poll.is = "answered"
    /\ known' = poll.list
    /\ UNCHANGED <<registryVars, socketVars, mount, prompt, prompts>>
    /\ Rerender(Idle)

\* The one-shot sync on mount: its answer counts if the socket is not open
\* when it arrives.
MountAnswered ==
    /\ mount = Asked
    /\ mount' = Request("answered", StoreView)
    /\ UNCHANGED <<registryVars, socketVars, known, poll, prompt, prompts>>

MountArrives ==
    /\ mount.is = "answered"
    /\ known' = IF SocketLive THEN known ELSE mount.list
    /\ mount' = Idle
    /\ UNCHANGED <<registryVars, socketVars, prompt, prompts>>
    /\ Rerender(poll)

Submit ==
    /\ ~prompt
    /\ prompts < MaxPrompts
    /\ prompt' = TRUE
    /\ prompts' = prompts + 1
    /\ UNCHANGED <<registryVars, socketVars, known, mount>>
    /\ Rerender(poll)

\* The POST returns.
PromptReturns ==
    /\ prompt
    /\ prompt' = FALSE
    /\ UNCHANGED <<registryVars, socketVars, known, mount, prompts>>
    /\ Rerender(poll)

----------------------------------------------------------------------------

Polling == PollStarts \/ PollAnswered \/ PollArrives

Next ==
    \/ \E a \in Agents : AgentSpawned(a) \/ AgentProgresses(a) \/ AgentSettles(a)
    \/ Forward \/ Accept \/ Opens \/ MessageArrives \/ Closes \/ Retries
    \/ Polling \/ MountAnswered \/ MountArrives
    \/ Submit \/ PromptReturns

Spec == Init /\ [][Next]_vars

(* Tasks and timers that are ready run, requests are answered, a socket    *)
(* that is closing closes, and prompts return.  Nobody owes a connection   *)
(* that stays.                                                             *)
Fairness ==
    /\ WF_vars(Forward) /\ WF_vars(MessageArrives)
    /\ WF_vars(Opens) /\ WF_vars(socket # "open" /\ Closes) /\ WF_vars(Retries)
    /\ WF_vars(Polling) /\ WF_vars(MountAnswered \/ MountArrives)
    /\ WF_vars(PromptReturns)

FairSpec == Spec /\ Fairness

----------------------------------------------------------------------------
(* Properties *)

View == [Agents -> [state : Live \union Terminal \union {"unlisted"},
                    updatedAt : Nat]]

TypeOK ==
    /\ RegistryTypeOK
    /\ SocketTypeOK
    /\ known \in View
    /\ {poll, mount} \subseteq [is : {"idle", "asked", "answered"}, list : View]
    /\ prompt \in BOOLEAN
    /\ prompts \in 0 .. MaxPrompts

(* While the socket is open, what the client shows of an agent never goes  *)
(* back in time ("a poll result racing a socket event must not roll an     *)
(* agent backwards", AppState.tsx:256): the poll that was out when it      *)
(* opened is disowned and the sync on mount comes too late to count.  Only *)
(* the snapshot itself may be older, than an answer that arrived between   *)
(* the handshake and onopen; the events behind it make that good           *)
(* (StreamReachesStore).                                                   *)
NoRollbackWhileOpen ==
    [][\/ SocketLive /\ SocketLive' =>
            \A a \in Agents :
               known[a] # Unlisted /\ known'[a] # Unlisted
               => known'[a].updatedAt >= known[a].updatedAt
       \/ MessageArrives /\ Head(wire).type = "snapshot"]_vars

\* What is shown after the messages of arriving, in their order.
After(shown, arriving) ==
    LET upTo[n \in 0 .. Len(arriving)] ==
          IF n = 0 THEN shown
          ELSE Apply(upTo[n - 1], arriving[n].body, arriving[n].type)
    IN  upTo[Len(arriving)]

\* What the client will show once it has arrived.
Upcoming == After(known, OnTheWay)

(* A connected client is never cut off from the truth: what it shows, plus *)
(* what is on the way to it in the order it will arrive, is the registry   *)
(* as it is now - snapshot and stream neither miss a change nor apply one  *)
(* twice - or it is about to be told that events were lost.                *)
StreamReachesStore ==
    /\ TypeOK
    /\ subscribed /\ socket \in {"connecting", "open"} =>
         \/ Upcoming = StoreView
         \/ degraded
         \/ \E i \in DOMAIN wire : wire[i].degraded

(* A connection that stays makes the client show the registry as it ends   *)
(* up, whatever was dropped, reordered with a poll or missed before.       *)
ConnectedClientConverges ==
    <>[](socket = "open") => <>[](known = StoreView)
=============================================================================
