---------------------------- MODULE RunRegistry ----------------------------
(***************************************************************************)
(* The run and session half of StateStore (backend/app/state/store.py):    *)
(* the phase of every prompt run, the runs each session lists, and the     *)
(* retention window of finished runs.                                      *)
(*                                                                         *)
(* As in AgentRegistry every mutation is one uninterrupted piece of code;  *)
(* PromptPipeline builds its steps from these operators.  Request ids are  *)
(* UUIDs: an id is started once.                                           *)
(***************************************************************************)
EXTENDS Naturals, Sequences, Functions

CONSTANTS
    Requests,
    Sessions,
    MaxFinishedRuns     \* max_finished_runs

ASSUME RunsAssumption == MaxFinishedRuns \in Nat

VARIABLES
    phase,         \* _RunRecord.phase, or how the id is absent
    sessionRuns,   \* _SessionRecord.run_ids, oldest first
    finishedRuns,  \* _finished, oldest first
    (* history *)
    endedAs        \* the terminal phase each run reached

runVars == <<phase, sessionRuns, finishedRuns, endedAs>>

TerminalPhases == {"completed", "failed"}
LivePhases     == {"received", "governance", "engineering", "reviewing",
                   "spawning", "responding"}
NoRun          == {"unknown", "evicted"}

RunsInit ==
    /\ phase = [r \in Requests |-> "unknown"]
    /\ sessionRuns = [s \in Sessions |-> << >>]
    /\ finishedRuns = << >>
    /\ endedAs = [r \in Requests |-> "none"]

----------------------------------------------------------------------------
Unfinished(r) == phase[r] \in LivePhases

Listed(r, s) == [sessionRuns EXCEPT ![s] = Append(@, r)]

\* start_run(), and the phase the pipeline enters before it suspends.
StartRun(r, s, entered) ==
    /\ phase' = [phase EXCEPT ![r] = entered]
    /\ sessionRuns' = Listed(r, s)
    /\ UNCHANGED <<finishedRuns, endedAs>>

\* Variant with a fault: ended runs advance too.
EnterPhaseAlways(r, entered) ==
    /\ phase' = [phase EXCEPT ![r] = entered]
    /\ UNCHANGED <<sessionRuns, finishedRuns, endedAs>>

\* update_run_phase(): ended and unknown runs are ignored.
EnterPhase(r, entered) ==
    IF Unfinished(r)
    THEN phase' = [phase EXCEPT ![r] = entered]
         /\ UNCHANGED <<sessionRuns, finishedRuns, endedAs>>
    ELSE UNCHANGED runVars

\* list.remove(): the list without the first r in it.
Removed(list, r) ==
    IF \A i \in DOMAIN list : list[i] # r THEN list
    ELSE LET first == CHOOSE i \in DOMAIN list :
                        list[i] = r /\ \A j \in 1 .. (i - 1) : list[j] # r
         IN  [i \in 1 .. (Len(list) - 1) |-> IF i < first THEN list[i] ELSE list[i + 1]]

\* Variant with a fault: the session keeps listing what was rolled out.
RollWindowListed(window, settled, listing) ==
    LET victim == Head(window) IN
    /\ sessionRuns' = listing
    /\ IF Len(window) > MaxFinishedRuns
       THEN finishedRuns' = Tail(window) /\ phase' = [settled EXCEPT ![victim] = "evicted"]
       ELSE finishedRuns' = window /\ phase' = settled

\* _evict_finished(): a window that was full before r entered loses its oldest run,
\* which leaves the runs and its session's list too.
RollWindow(window, settled, listing) ==
    LET victim == Head(window) IN
    IF Len(window) > MaxFinishedRuns
    THEN /\ finishedRuns' = Tail(window)
         /\ phase' = [settled EXCEPT ![victim] = "evicted"]
         /\ sessionRuns' = [s \in Sessions |-> Removed(listing[s], victim)]
    ELSE /\ finishedRuns' = window
         /\ phase' = settled
         /\ sessionRuns' = listing

\* The terminal transition: the run enters the window of finished ones.
EndRun(r, outcome, listing) ==
    /\ RollWindow(Append(finishedRuns, r), [phase EXCEPT ![r] = outcome], listing)
    /\ endedAs' = [endedAs EXCEPT ![r] = outcome]

\* complete_run() and fail_run(): the first terminal phase wins.
FinishRun(r, outcome) ==
    IF Unfinished(r) THEN EndRun(r, outcome, sessionRuns) ELSE UNCHANGED runVars

\* start_run() and fail_run() of a prompt governance rejects at once.
StartAndFailRun(r, s) == EndRun(r, "failed", Listed(r, s))

----------------------------------------------------------------------------
(* Properties *)

RunsTypeOK ==
    /\ phase \in [Requests -> LivePhases \union TerminalPhases \union NoRun]
    /\ sessionRuns \in [Sessions -> Seq(Requests)]
    /\ finishedRuns \in Seq(Requests)
    /\ endedAs \in [Requests -> TerminalPhases \union {"none"}]

(* The three indexes of the store agree: the sessions list exactly the     *)
(* retained runs, each in one session and once; the window holds exactly   *)
(* the finished ones, at most max_finished_runs; and a run still in        *)
(* progress is never rolled out (_evict_finished).                         *)
IndexesAgree ==
    /\ UNION {Range(sessionRuns[s]) : s \in Sessions}
         = {r \in Requests : phase[r] \notin NoRun}
    /\ \A s, t \in Sessions : \A i \in DOMAIN sessionRuns[s], j \in DOMAIN sessionRuns[t] :
         sessionRuns[s][i] = sessionRuns[t][j]
         => s = t /\ i = j
    /\ Range(finishedRuns) = {r \in Requests : phase[r] \in TerminalPhases}
    /\ Len(finishedRuns) <= MaxFinishedRuns
    /\ \A r \in Requests : phase[r] = "evicted" => endedAs[r] # "none"

(* A run that ended stays ended, with the outcome it ended with: a graph   *)
(* abandoned by a timed out request never resurrects its run               *)
(* (update_run_phase, _tracked in orchestration/graph.py).                 *)
EndedRunIsFinal ==
    [][\A r \in Requests : endedAs[r] # "none" =>
         endedAs'[r] = endedAs[r] /\ phase'[r] \in {endedAs[r], "evicted"}]_runVars
=============================================================================
