---------------------------- MODULE ChatUpdates ----------------------------
(***************************************************************************)
(* The prompts a browser shows and the phase it shows of each: the runs in *)
(* the store (RunRegistry), their events on the way to one client          *)
(* (EventStream, BrowserSocket), the POST of each prompt                   *)
(* (frontend/src/hooks/usePromptSubmit.ts), the polling fallback           *)
(* (hooks/useWebSocket.ts) and the reducer (state/AppState.tsx).           *)
(*                                                                         *)
(* The client learns the id of a prompt's run from the answer to its POST, *)
(* which comes when the run has ended.  Until then it claims a run it      *)
(* hears of.  A POST whose connection breaks fails on the client and goes  *)
(* on, or even arrives, on the server.                                     *)
(*                                                                         *)
(* What the pipeline does in a run is the subject of PromptPipeline; here  *)
(* a run goes through some of its phases and ends.  React's commits and    *)
(* effects are taken as in LiveUpdates.                                    *)
(***************************************************************************)
EXTENDS BrowserSocket, RunRegistry, Lists, SequencesExt

CONSTANTS
    SessionOf,   \* the session each request belongs to
    session,     \* AppState.sessionId
    SessionList, \* the sessions, in some order
    Steps,       \* the phases told apart, in their order
    MaxPrompts   \* bound of the model: prompts submitted by this client

\* Prompt i of the client causes run i; the other requests are other pages'.
Prompts == 1 .. MaxPrompts

ASSUME ChatAssumption ==
    /\ MaxPrompts \in Nat /\ Prompts = {r \in Requests : SessionOf[r] = session}
    /\ SessionOf \in [Requests -> Sessions] /\ session \in Sessions
    /\ SessionList \in Seq(Sessions) /\ Range(SessionList) = Sessions
    /\ 0 \notin Requests
    /\ Steps \in Seq(LivePhases) /\ Steps[1] = "governance"

VARIABLES
    messages,   \* AppState.messages: the user's
    post,       \* the POST of each prompt, as the server knows it
    poll        \* the poll of runs: is it out, what for, and with which answer

pageVars == <<messages, post, poll>>
chatVars == <<runVars, socketVars, pageVars>>

Prompt(status, claim, shown) ==
    [status |-> status, claim |-> claim, shown |-> shown]

Unclaimed == 0

Pending(m) == m.status = "pending"

Run(r, p) == [id |-> r, phase |-> p]

Request(status, of, runs) == [is |-> status, of |-> of, runs |-> runs]

Idle == Request("idle", Unclaimed, << >>)

ChatInit ==
    /\ RunsInit
    /\ SocketInit
    /\ messages = << >>
    /\ post = [r \in Requests |-> IF r \in Prompts THEN "unsent" ELSE "sent"]
    /\ poll = Idle

----------------------------------------------------------------------------
(* The reducer *)

\* Variant with a fault: only pending messages are looked through for the run.
RunUpdatedPending(shown, run) ==
    LET open == {i \in DOMAIN shown : Pending(shown[i])}
        tied == {i \in open : shown[i].claim = run.id}
        free == {i \in open : shown[i].claim = Unclaimed}
    IN
    CASE tied # {} -> [shown EXCEPT ![Min(tied)].shown = run.phase]
      [] /\ tied = {} /\ free # {}
         /\ SessionOf[run.id] = session
         /\ run.phase \notin TerminalPhases ->
           [shown EXCEPT ![Min(free)] = Prompt("pending", run.id, run.phase)]
      [] OTHER -> shown

\* run_updated: the first message tied to the run shows its phase while it is
\* pending; a run in progress that is tied to none, of the client's session, is
\* claimed for the oldest pending message without one.
RunUpdated(shown, run) ==
    LET tied == {i \in DOMAIN shown : shown[i].claim = run.id}
        free == {i \in DOMAIN shown : Pending(shown[i]) /\ shown[i].claim = Unclaimed}
    IN
    CASE tied # {} ->
           [shown EXCEPT ![Min(tied)].shown = IF Pending(shown[Min(tied)]) THEN run.phase ELSE @]
      [] /\ tied = {} /\ free # {}
         /\ SessionOf[run.id] = session
         /\ run.phase \notin TerminalPhases ->
           [shown EXCEPT ![Min(free)] = Prompt("pending", run.id, run.phase)]
      [] OTHER -> shown

\* What the messages show once the client was told of runs, one after the other.
Replayed(shown, runs) ==
    LET after[n \in 0 .. Len(runs)] ==
          IF n = 0 THEN shown ELSE RunUpdated(after[n - 1], runs[n])
    IN  after[Len(runs)]

\* A message of the socket: a snapshot is replayed, other events are ignored.
RunsTold(message) ==
    IF message.type = "snapshot" THEN message.body
    ELSE IF message.body.type = "run_updated" THEN <<message.body.run>>
    ELSE << >>

----------------------------------------------------------------------------
(* The run polling effect *)

Awaiting == \E i \in DOMAIN messages : Pending(messages[i])

Wanted == ~SocketLive /\ Awaiting

\* Variant with a fault: the session is not looked at.
AskedRunOnly ==
    LET claimed == {i \in DOMAIN messages : Pending(messages[i]) /\ messages[i].claim # Unclaimed}
    IN IF claimed # {} THEN Request("asked", messages[Min(claimed)].claim, << >>) ELSE Idle

\* A poll asks for the run of the pending prompt, and without one for the session.
Asked ==
    LET claimed == {i \in DOMAIN messages : Pending(messages[i]) /\ messages[i].claim # Unclaimed}
    IN Request("asked",
               IF claimed = {} THEN Unclaimed ELSE messages[Min(claimed)].claim,
               << >>)

\* After a change of the client's state, as in LiveUpdates.
Rerender(otherwise) ==
    poll' = IF <<SocketLive, Awaiting>>' = <<SocketLive, Awaiting>> THEN otherwise
            ELSE IF Wanted' THEN Asked' ELSE Idle

PollStarts ==
    /\ poll = Idle
    /\ Wanted
    /\ poll' = Asked
    /\ UNCHANGED <<runVars, socketVars, messages, post>>

RunsOf(s) == [i \in DOMAIN sessionRuns[s] |-> Run(sessionRuns[s][i], phase[sessionRuns[s][i]])]

InProgress == [id : Requests, phase : LivePhases]

\* GET /api/runs/{id}, or GET /api/sessions/{id} and the runs in progress of its
\* answer, newest first; a 404 is as good as no run.
PollAnswered ==
    /\ poll.is = "asked"
    /\ poll' = Request("answered", poll.of,
                 IF poll.of = Unclaimed
                 THEN Filter(Reverse(RunsOf(session)), InProgress)
                 ELSE IF phase[poll.of] \in NoRun THEN << >>
                 ELSE <<Run(poll.of, phase[poll.of])>>)
    /\ UNCHANGED <<runVars, socketVars, messages, post>>

PollArrives ==
    /\ poll.is = "answered"
    /\ messages' = Replayed(messages, poll.runs)
    /\ UNCHANGED <<runVars, socketVars, post>>
    /\ Rerender(Idle)

----------------------------------------------------------------------------
(* The store's events *)

Told(type, r, p) == [type |-> type, run |-> Run(r, p)]

\* Variant with a fault: the snapshot of the run is taken before it changes.
TellsOld(r) == <<Told("run_updated", r, phase[r])>>

\* The run as the mutation leaves it.
Tells(r) == <<Told("run_updated", r, phase'[r])>>

Starting(r) ==
    <<Told("run_updated", r, "received"), Told("session_updated", r, "received"),
      Told("run_updated", r, "governance")>>

\* The terminal event shows the run even if it is rolled out at once.
Ending(r, outcome) ==
    LET window == Append(finishedRuns, r) IN
    <<Told("run_updated", r, outcome)>>
    \o [i \in 1 .. (Len(window) - MaxFinishedRuns) |->
          Told("run_evicted", window[i], endedAs'[window[i]])]

----------------------------------------------------------------------------
(* The server: requests in any order, each with its run *)

Posted(r, from, to) == post[r] = from /\ post' = [post EXCEPT ![r] = to]

\* The busy guard.
PostRefused(r) ==
    /\ Posted(r, "sent", "failed")
    /\ UNCHANGED <<runVars, socketVars, messages, poll>>

PostRejected(r) ==
    /\ Posted(r, "sent", "failed")
    /\ StartAndFailRun(r, SessionOf[r])
    /\ Publish(Starting(r) \o Ending(r, "failed"))
    /\ UNCHANGED <<socket, messages, poll>>

PostAccepted(r) ==
    /\ Posted(r, "sent", "running")
    /\ StartRun(r, SessionOf[r], "governance")
    /\ Publish(Starting(r))
    /\ UNCHANGED <<socket, messages, poll>>

Advance(r) ==
    /\ post[r] = "running"
    /\ \E i, j \in DOMAIN Steps :
         /\ i < j
         /\ phase[r] = Steps[i]
         /\ EnterPhase(r, Steps[j])
    /\ Publish(Tells(r))
    /\ UNCHANGED <<socket, pageVars>>

End(r) ==
    \E outcome \in TerminalPhases :
        /\ Posted(r, "running", outcome)
        /\ FinishRun(r, outcome)
        /\ Publish(Ending(r, outcome))
        /\ UNCHANGED <<socket, messages, poll>>

----------------------------------------------------------------------------
(* The client's side of the POST *)

\* The input is disabled while a prompt is pending.
Submit ==
    /\ ~Awaiting
    /\ Len(messages) < MaxPrompts
    /\ messages' = Append(messages, Prompt("pending", Unclaimed, "none"))
    /\ post' = [post EXCEPT ![Len(messages')] = "sent"]
    /\ UNCHANGED <<runVars, socketVars>>
    /\ Rerender(poll)

Answered(i, m) ==
    /\ Pending(messages[i])
    /\ messages' = [messages EXCEPT ![i] = m]
    /\ UNCHANGED <<runVars, socketVars, post>>
    /\ Rerender(poll)

\* prompt_completed, with the run's id, or prompt_failed.
Reply(i) ==
    \/ post[i] = "completed" /\ Answered(i, Prompt("completed", i, messages[i].shown))
    \/ post[i] = "failed" /\ Answered(i, [messages[i] EXCEPT !.status = "failed"])

\* The connection breaks: the prompt failed, as far as the client knows.
PostBreaks(i) == Answered(i, [messages[i] EXCEPT !.status = "failed"])

----------------------------------------------------------------------------
(* The socket *)

\* list_runs(): the runs of a session in the order they started; runs of other
\* sessions among them change nothing, wherever they stand.
RunList == Joined([i \in DOMAIN SessionList |-> RunsOf(SessionList[i])])

Handshake == Accepts(RunList) /\ UNCHANGED <<runVars, pageVars>>

Forward == Stream /\ UNCHANGED <<runVars, socket, pageVars>>

Opens ==
    /\ SocketOpens
    /\ UNCHANGED <<runVars, messages, post>>
    /\ Rerender(poll)

MessageArrives ==
    /\ Receives
    /\ messages' = Replayed(messages, RunsTold(Head(wire)))
    /\ UNCHANGED <<runVars, post>>
    /\ Rerender(poll)

Closes ==
    /\ SocketCloses
    /\ UNCHANGED <<runVars, messages, post>>
    /\ Rerender(poll)

Retries == Reconnects /\ UNCHANGED <<runVars, pageVars>>

----------------------------------------------------------------------------

Polling == PollStarts \/ PollAnswered \/ PollArrives

ChatNext ==
    \/ \E r \in Requests :
         PostRefused(r) \/ PostRejected(r) \/ PostAccepted(r) \/ Advance(r) \/ End(r)
    \/ \E i \in DOMAIN messages : Reply(i) \/ PostBreaks(i)
    \/ Submit
    \/ Handshake \/ Forward \/ Opens \/ MessageArrives \/ Closes \/ Retries
    \/ Polling

ChatSpec == ChatInit /\ [][ChatNext]_chatVars

(* Tasks and timers that are ready run, polls are answered, and a socket   *)
(* that is closing closes.  Nobody owes a connection that stays, nor a run *)
(* that ends.                                                              *)
ChatFairness ==
    /\ WF_chatVars(Forward) /\ WF_chatVars(MessageArrives)
    /\ WF_chatVars(Opens) /\ WF_chatVars(socket # "open" /\ Closes) /\ WF_chatVars(Retries)
    /\ WF_chatVars(Polling)

ChatFairSpec == ChatSpec /\ ChatFairness

----------------------------------------------------------------------------
(* Properties *)

Shown == LivePhases \union TerminalPhases \union {"none"}

ChatTypeOK ==
    /\ RunsTypeOK
    /\ SocketTypeOK
    /\ messages \in Seq([status : {"pending", "completed", "failed"},
                         claim : {Unclaimed} \union Requests, shown : Shown])
    /\ Len(messages) <= MaxPrompts
    /\ post \in [Requests -> {"unsent", "sent", "running", "completed", "failed"}]
    /\ poll \in [is : {"idle", "asked", "answered"},
                 of : {Unclaimed} \union Requests,
                 runs : Seq([id : Requests, phase : Shown])]

(* A message never shows the run of another page, nor a later prompt's,    *)
(* and no two messages share a run: a message is tied to its own run or to *)
(* that of an earlier prompt, which then failed on the client without ever *)
(* having been tied to it, and an answered message to its own              *)
(* (run_updated in AppState.tsx:201).                                      *)
ClaimsAreHonest ==
    /\ ChatTypeOK
    /\ \A i \in DOMAIN messages :
         LET claim == messages[i].claim IN
         claim # Unclaimed =>
            /\ claim \in 1 .. i
            /\ claim # i => messages[claim].status = "failed" /\ messages[i].status # "completed"
            /\ \A j \in DOMAIN messages : messages[j].claim = claim => j = i

(* "Claim it for the oldest unclaimed pending prompt ... Terminal runs are *)
(* never claimed - they could be older, unrelated runs"                    *)
(* (AppState.tsx:218): the run a pending prompt shows is its own.          *)
ClaimsOwnRun ==
    \A i \in DOMAIN messages :
        Pending(messages[i]) => messages[i].claim \in {Unclaimed, i}

\* The runs everything sent and queued will tell the client of, in that order.
Coming == Joined([i \in DOMAIN OnTheWay |-> RunsTold(OnTheWay[i])])

\* What the client will show once it has arrived.
Upcoming == Replayed(messages, Coming)

(* A connected client is never cut off from the run of its pending prompt: *)
(* with what is on the way to it, in the order it will arrive, the prompt  *)
(* shows the run it is tied to as the store has it, and a prompt whose run *)
(* is in progress is tied to one - or the client is about to be told that  *)
(* events were lost.                                                       *)
StreamReachesRuns ==
    subscribed /\ socket \in {"connecting", "open"} =>
        \/ \A i \in DOMAIN messages :
             LET claim == Upcoming[i].claim IN
             Pending(messages[i]) =>
                /\ claim = Unclaimed => ~Unfinished(i)
                /\ claim # Unclaimed => phase[claim] \in NoRun \union {Upcoming[i].shown}
        \/ degraded
        \/ \E i \in DOMAIN wire : wire[i].degraded

\* The prompt in flight has a run in progress.
LongRun == Awaiting /\ Unfinished(Len(messages))

\* The last prompt shows the run it is tied to as the store has it.
RunIsShown ==
    LET last == messages[Len(messages)] IN
    Awaiting /\ last.claim # Unclaimed /\ phase[last.claim] \in NoRun \union {last.shown}

(* The user sees where a long run is, over a socket that stays and without *)
(* any: by events and snapshots in the one case, by polling the session    *)
(* and then the run in the other (useWebSocket.ts:9).                      *)
LongRunIsShown ==
    /\ <>[]LongRun
    /\ <>[](socket = "open") \/ <>[]~SocketLive
    => <>[]RunIsShown
=============================================================================
