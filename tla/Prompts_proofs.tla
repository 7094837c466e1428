--------------------------- MODULE Prompts_proofs ---------------------------
(***************************************************************************)
(* Proofs about prompts and their runs, for any requests, sessions, agents *)
(* and limits.                                                             *)
(*                                                                         *)
(* The first part is about the runs of the store (RunRegistry): each       *)
(* operation keeps the three indexes in agreement.  The second is about    *)
(* PromptPipeline, the third about what a browser shows of the runs        *)
(* (ChatUpdates).                                                          *)
(***************************************************************************)
EXTENDS PromptPipeline, ChatUpdates, State_proofs

----------------------------------------------------------------------------
(* The sessions' lists *)

\* What remove() leaves of a list without repetitions.
LEMMA RemovedDistinct ==
    ASSUME NEW list \in Seq(Requests), NEW r, Distinct(list)
    PROVE  /\ Removed(list, r) \in Seq(Requests)
           /\ Distinct(Removed(list, r))
           /\ Range(Removed(list, r)) = Range(list) \ {r}
  <1>1. Len(list) \in Nat /\ DOMAIN list = 1 .. Len(list)
    BY LenProperties
  <1>2. CASE \A i \in DOMAIN list : list[i] # r
    BY <1>2 DEF Removed, Range
  <1>3. CASE ~ \A i \in DOMAIN list : list[i] # r
    <2> DEFINE first == CHOOSE i \in DOMAIN list :
                          list[i] = r /\ \A j \in 1 .. (i - 1) : list[j] # r
               rest == [i \in 1 .. (Len(list) - 1) |->
                          IF i < first THEN list[i] ELSE list[i + 1]]
    <2>1. PICK k \in DOMAIN list : list[k] = r
      BY <1>3
    <2>2. \A j \in 1 .. (k - 1) : list[j] # r
      BY <1>1, <2>1 DEF Distinct
    <2>3. first \in DOMAIN list /\ list[first] = r
      BY <2>1, <2>2
    <2>4. first = k
      BY <2>1, <2>3 DEF Distinct
    <2>5. Removed(list, r) = rest
      BY <1>3 DEF Removed
    <2> HIDE DEF first
    <2> DEFINE e(i) == IF i < first THEN list[i] ELSE list[i + 1]
    <2>6. rest \in Seq(Requests)
      <3>1. Len(list) - 1 \in Nat
        BY <1>1, <2>1
      <3>2. \A i \in 1 .. (Len(list) - 1) : e(i) \in Requests
        BY <1>1, <2>3, ElementOfSeq
      <3>3. rest = [i \in 1 .. (Len(list) - 1) |-> e(i)]
        OBVIOUS
      <3> HIDE DEF e
      <3>4. QED
        BY <3>1, <3>2, <3>3, IsASeq
    <2>7. DOMAIN rest = 1 .. (Len(list) - 1)
      OBVIOUS
    <2>8. \A i \in DOMAIN rest :
            rest[i] = IF i < first THEN list[i] ELSE list[i + 1]
      OBVIOUS
    <2> HIDE DEF rest
    <2>9. Distinct(rest)
      BY <1>1, <2>3, <2>7, <2>8 DEF Distinct
    <2>10. \A i \in DOMAIN rest : rest[i] \in Range(list) /\ rest[i] # r
      BY <1>1, <2>3, <2>7, <2>8 DEF Distinct, Range
    <2>11. ASSUME NEW i \in DOMAIN list, list[i] # r
           PROVE  list[i] \in Range(rest)
      <3>1. CASE i < first
        <4>1. i \in DOMAIN rest /\ rest[i] = list[i]
          BY <1>1, <2>3, <2>7, <2>8, <3>1
        <4>2. QED
          BY <4>1 DEF Range
      <3>2. CASE i > first
        <4>1. i - 1 \in DOMAIN rest /\ rest[i - 1] = list[i]
          BY <1>1, <2>3, <2>7, <2>8, <3>2
        <4>2. QED
          BY <4>1 DEF Range
      <3>3. QED
        BY <1>1, <2>3, <2>11, <3>1, <3>2
    <2>12. Range(rest) = Range(list) \ {r}
      BY <2>10, <2>11 DEF Range
    <2>13. QED
      BY <2>5, <2>6, <2>9, <2>12
  <1>4. QED
    BY <1>2, <1>3

\* The lists hold the runs R between them, each once and in one list.
Lists(lists, R) ==
    /\ lists \in [Sessions -> Seq(Requests)]
    /\ \A s \in Sessions : Distinct(lists[s])
    /\ \A s, t \in Sessions : \A r \in Range(lists[s]) \intersect Range(lists[t]) : s = t
    /\ \A s \in Sessions : Range(lists[s]) \subseteq R
    /\ \A r \in R : \E s \in Sessions : r \in Range(lists[s])

\* A run started in a session is listed there.
LEMMA ListedLists ==
    ASSUME NEW R, NEW r \in Requests, NEW s \in Sessions,
           Lists(sessionRuns, R), r \notin R
    PROVE  Lists(Listed(r, s), R \union {r})
  <1> DEFINE new == Listed(r, s)
  <1>1. sessionRuns \in [Sessions -> Seq(Requests)]
    BY DEF Lists
  <1>2. /\ Append(sessionRuns[s], r) \in Seq(Requests)
        /\ Distinct(Append(sessionRuns[s], r))
        /\ Range(Append(sessionRuns[s], r)) = Range(sessionRuns[s]) \union {r}
    <2>1. /\ sessionRuns[s] \in Seq(Requests)
          /\ Distinct(sessionRuns[s])
          /\ r \notin Range(sessionRuns[s])
      BY DEF Lists
    <2>2. QED
      BY <2>1, AppendDistinct
  <1>3. /\ new \in [Sessions -> Seq(Requests)]
        /\ new[s] = Append(sessionRuns[s], r)
        /\ \A t \in Sessions \ {s} : new[t] = sessionRuns[t]
    BY <1>1, <1>2 DEF Listed
  <1> HIDE DEF new
  <1>4. \A t \in Sessions :
          Range(new[t]) = Range(sessionRuns[t]) \union (IF t = s THEN {r} ELSE {})
    BY <1>2, <1>3
  <1>5. \A t \in Sessions : Distinct(new[t])
    BY <1>2, <1>3 DEF Lists
  <1>6. QED
    BY <1>3, <1>4, <1>5 DEF Lists, new

\* A run that is rolled out is listed nowhere.
LEMMA RemovedLists ==
    ASSUME NEW R, NEW lists, NEW victim, Lists(lists, R)
    PROVE  Lists([s \in Sessions |-> Removed(lists[s], victim)], R \ {victim})
  <1> DEFINE new == [s \in Sessions |-> Removed(lists[s], victim)]
  <1>1. \A s \in Sessions :
          /\ new[s] \in Seq(Requests)
          /\ Distinct(new[s])
          /\ Range(new[s]) = Range(lists[s]) \ {victim}
    BY RemovedDistinct DEF Lists
  <1>2. new \in [Sessions -> Seq(Requests)]
    BY <1>1
  <1> HIDE DEF new
  <1>3. QED
    BY <1>1, <1>2 DEF Lists, new

----------------------------------------------------------------------------
(* The inductive invariant of the store *)

Retained == {r \in Requests : phase[r] \notin NoRun}

\* The window holds the finished runs, each once.
WindowAgrees ==
    /\ finishedRuns \in Seq(Requests)
    /\ Distinct(finishedRuns)
    /\ Range(finishedRuns) = {r \in Requests : phase[r] \in TerminalPhases}
    /\ Len(finishedRuns) <= MaxFinishedRuns

\* A run has an outcome from the moment it ends.
OutcomesAgree ==
    \A r \in Requests :
        /\ endedAs[r] = "none" <=> phase[r] \in LivePhases \union {"unknown"}
        /\ phase[r] \in TerminalPhases => phase[r] = endedAs[r]

RunsInv ==
    /\ RunsTypeOK
    /\ Lists(sessionRuns, Retained)
    /\ WindowAgrees
    /\ OutcomesAgree

\* The invariant is stronger than what the runs of the model checker look at.
LEMMA RunsInvIndexes == RunsInv => IndexesAgree
  <1> SUFFICES ASSUME RunsInv
               PROVE  IndexesAgree
    OBVIOUS
  <1>1. UNION {Range(sessionRuns[s]) : s \in Sessions}
          = {r \in Requests : phase[r] \notin NoRun}
    BY DEF RunsInv, Lists, Retained
  <1>2. ASSUME NEW s \in Sessions, NEW t \in Sessions,
               NEW i \in DOMAIN sessionRuns[s], NEW j \in DOMAIN sessionRuns[t],
               sessionRuns[s][i] = sessionRuns[t][j]
        PROVE  s = t /\ i = j
    <2>1. sessionRuns[s][i] \in Range(sessionRuns[s]) \intersect Range(sessionRuns[t])
      BY <1>2 DEF Range
    <2>2. s = t
      BY <2>1 DEF RunsInv, Lists
    <2>3. Distinct(sessionRuns[s])
      BY DEF RunsInv, Lists
    <2>4. QED
      BY <1>2, <2>2, <2>3 DEF Distinct
  <1>3. /\ Range(finishedRuns) = {r \in Requests : phase[r] \in TerminalPhases}
        /\ Len(finishedRuns) <= MaxFinishedRuns
    BY DEF RunsInv, WindowAgrees
  <1>4. \A r \in Requests : phase[r] = "evicted" => endedAs[r] # "none"
    BY DEF RunsInv, OutcomesAgree, LivePhases
  <1>5. QED
    BY <1>1, <1>2, <1>3, <1>4 DEF IndexesAgree

\* An empty store.
LEMMA RunsInitInv == RunsInit => RunsInv
  <1> SUFFICES ASSUME RunsInit
               PROVE  RunsInv
    OBVIOUS
  <1>1. << >> \in Seq(Requests) /\ Len(<< >>) = 0 /\ DOMAIN << >> = {}
    BY EmptySeq, LenProperties
  <1>2. Distinct(<< >>) /\ Range(<< >>) = {}
    BY <1>1 DEF Distinct, Range
  <1>3. RunsTypeOK
    BY <1>1 DEF RunsInit, RunsTypeOK, NoRun
  <1>4. Lists(sessionRuns, Retained)
    BY <1>1, <1>2 DEF RunsInit, Lists, Retained, NoRun
  <1>5. WindowAgrees
    BY <1>1, <1>2, RunsAssumption DEF RunsInit, WindowAgrees, TerminalPhases
  <1>6. OutcomesAgree
    BY DEF RunsInit, OutcomesAgree, TerminalPhases
  <1>7. QED
    BY <1>3, <1>4, <1>5, <1>6 DEF RunsInv

\* The invariant is about the store alone.
LEMMA RunsStutter == RunsInv /\ UNCHANGED runVars => RunsInv'
  BY DEF runVars, RunsInv, RunsTypeOK, Lists, Retained, WindowAgrees, OutcomesAgree

\* start_run() of a new id keeps the invariant.
LEMMA StartRunInv ==
    ASSUME RunsInv, NEW r \in Requests, NEW s \in Sessions, NEW entered \in LivePhases,
           phase[r] = "unknown", StartRun(r, s, entered)
    PROVE  RunsInv'
  <1> USE DEF RunsInv
  <1>1. /\ phase' = [phase EXCEPT ![r] = entered]
        /\ sessionRuns' = Listed(r, s)
        /\ UNCHANGED <<finishedRuns, endedAs>>
        /\ phase \in [Requests -> LivePhases \union TerminalPhases \union NoRun]
    BY DEF StartRun, RunsTypeOK
  <1>2. Retained' = Retained \union {r} /\ r \notin Retained
    BY <1>1 DEF Retained, NoRun, LivePhases
  <1>3. Lists(sessionRuns', Retained')
    BY <1>1, <1>2, ListedLists
  <1>4. RunsTypeOK'
    BY <1>1, <1>3 DEF RunsTypeOK, Lists
  <1>5. WindowAgrees'
    BY <1>1 DEF WindowAgrees, TerminalPhases, LivePhases
  <1>6. OutcomesAgree'
    BY <1>1 DEF OutcomesAgree, TerminalPhases, LivePhases
  <1>7. QED
    BY <1>3, <1>4, <1>5, <1>6

\* update_run_phase() moves a run in progress and no other.
LEMMA EnterPhaseInv ==
    ASSUME RunsInv, NEW r \in Requests, NEW entered \in LivePhases, EnterPhase(r, entered)
    PROVE  /\ RunsInv'
           /\ endedAs' = endedAs
           /\ phase'[r] = IF phase[r] \in LivePhases THEN entered ELSE phase[r]
           /\ \A q \in Requests \ {r} : phase'[q] = phase[q]
  <1> USE DEF RunsInv
  <1>1. CASE ~Unfinished(r)
    <2>1. UNCHANGED runVars
      BY <1>1 DEF EnterPhase
    <2>2. RunsInv'
      BY <2>1, RunsStutter
    <2>3. QED
      BY <1>1, <2>1, <2>2 DEF runVars, Unfinished
  <1>2. CASE Unfinished(r)
    <2>1. /\ phase' = [phase EXCEPT ![r] = entered]
          /\ UNCHANGED <<sessionRuns, finishedRuns, endedAs>>
          /\ phase \in [Requests -> LivePhases \union TerminalPhases \union NoRun]
      BY <1>2 DEF EnterPhase, RunsTypeOK
    <2>2. phase[r] \in LivePhases
      BY <1>2 DEF Unfinished
    <2>3. Retained' = Retained
      BY <2>1, <2>2 DEF Retained, NoRun, LivePhases
    <2>4. Lists(sessionRuns', Retained')
      BY <2>1, <2>3
    <2>5. RunsTypeOK'
      BY <2>1 DEF RunsTypeOK
    <2>6. WindowAgrees'
      BY <2>1, <2>2 DEF WindowAgrees, TerminalPhases, LivePhases
    <2>7. OutcomesAgree'
      BY <2>1, <2>2 DEF OutcomesAgree, TerminalPhases, LivePhases
    <2>8. QED
      BY <2>1, <2>2, <2>4, <2>5, <2>6, <2>7
  <1>3. QED
    BY <1>1, <1>2

\* What the end of r leaves of the other runs: a finished one may be rolled out.
OthersStand(r) ==
    \A q \in Requests \ {r} :
        \/ phase'[q] = phase[q]
        \/ phase[q] \in TerminalPhases /\ phase'[q] = "evicted"

\* The end of a run keeps the invariant: it enters the window, and the run
\* that falls out of it is forgotten everywhere.
LEMMA EndRunInv ==
    ASSUME RunsInv, NEW r \in Requests, NEW outcome \in TerminalPhases, NEW listing,
           endedAs[r] = "none", Lists(listing, Retained \union {r}),
           EndRun(r, outcome, listing)
    PROVE  /\ RunsInv'
           /\ endedAs' = [endedAs EXCEPT ![r] = outcome]
           /\ phase'[r] \in {outcome, "evicted"}
           /\ OthersStand(r)
  <1> DEFINE window == Append(finishedRuns, r)
             settled == [phase EXCEPT ![r] = outcome]
             victim == Head(window)
  <1>1. /\ RollWindow(window, settled, listing)
        /\ endedAs' = [endedAs EXCEPT ![r] = outcome]
    BY DEF EndRun
  <1>2. /\ phase \in [Requests -> LivePhases \union TerminalPhases \union NoRun]
        /\ endedAs \in [Requests -> TerminalPhases \union {"none"}]
        /\ phase[r] \in LivePhases \union {"unknown"}
    BY DEF RunsInv, RunsTypeOK, OutcomesAgree
  <1>3. /\ window \in Seq(Requests)
        /\ Distinct(window)
        /\ Range(window) = Range(finishedRuns) \union {r}
        /\ Len(window) = Len(finishedRuns) + 1
        /\ window # << >>
    <2>1. r \notin Range(finishedRuns)
      BY <1>2 DEF RunsInv, WindowAgrees, LivePhases, TerminalPhases
    <2>2. QED
      BY <2>1, AppendDistinct, AppendProperties DEF RunsInv, WindowAgrees
  <1>4. Range(window) = {q \in Requests : settled[q] \in TerminalPhases}
    BY <1>2, <1>3 DEF RunsInv, WindowAgrees
  <1>5. Retained \union {r} = {q \in Requests : settled[q] \notin NoRun}
    BY <1>2 DEF Retained, TerminalPhases, NoRun
  <1>6. Len(finishedRuns) \in Nat /\ Len(finishedRuns) <= MaxFinishedRuns
    BY LenProperties DEF RunsInv, WindowAgrees
  <1>7. /\ settled \in [Requests -> LivePhases \union TerminalPhases \union NoRun]
        /\ \A q \in Requests : settled[q] = IF q = r THEN outcome ELSE phase[q]
        /\ endedAs' \in [Requests -> TerminalPhases \union {"none"}]
        /\ \A q \in Requests : endedAs'[q] = IF q = r THEN outcome ELSE endedAs[q]
    BY <1>1, <1>2
  <1> HIDE DEF window, settled
  <1>8. CASE Len(window) > MaxFinishedRuns
    <2>1. /\ finishedRuns' = Tail(window)
          /\ phase' = [settled EXCEPT ![victim] = "evicted"]
          /\ sessionRuns' = [s \in Sessions |-> Removed(listing[s], victim)]
      BY <1>1, <1>8 DEF RollWindow
    <2>2. /\ victim \in Range(window)
          /\ Tail(window) \in Seq(Requests)
          /\ Distinct(Tail(window))
          /\ Range(Tail(window)) = Range(window) \ {victim}
          /\ Len(Tail(window)) = Len(window) - 1
      BY <1>3, TailDistinct
    <2>3. victim \in Requests /\ settled[victim] \in TerminalPhases
      BY <1>4, <2>2
    <2> HIDE DEF victim
    <2>4. Retained' = (Retained \union {r}) \ {victim}
      BY <1>5, <1>7, <2>1, <2>3 DEF Retained, NoRun
    <2>5. Lists(sessionRuns', Retained')
      BY <2>1, <2>4, RemovedLists
    <2>6. WindowAgrees'
      <3>1. Len(finishedRuns') <= MaxFinishedRuns
        BY <1>3, <1>6, <2>1, <2>2
      <3>2. Range(finishedRuns') = {q \in Requests : phase'[q] \in TerminalPhases}
        BY <1>4, <1>7, <2>1, <2>2, <2>3 DEF TerminalPhases
      <3>3. QED
        BY <2>1, <2>2, <3>1, <3>2 DEF WindowAgrees
    <2>7. RunsTypeOK'
      BY <1>7, <2>1, <2>2, <2>5 DEF RunsTypeOK, Lists, NoRun
    <2>8. OutcomesAgree'
      <3>1. \A q \in Requests : phase'[q] = IF q = victim THEN "evicted" ELSE settled[q]
        BY <1>7, <2>1
      <3>2. endedAs'[victim] \in TerminalPhases
        BY <1>7, <2>3 DEF RunsInv, OutcomesAgree
      <3>3. QED
        BY <1>7, <3>1, <3>2
           DEF RunsInv, OutcomesAgree, TerminalPhases, LivePhases
    <2>9. phase'[r] \in {outcome, "evicted"} /\ OthersStand(r)
      BY <1>7, <2>1, <2>3 DEF OthersStand
    <2>10. QED
      BY <1>1, <2>5, <2>6, <2>7, <2>8, <2>9 DEF RunsInv
  <1>9. CASE ~(Len(window) > MaxFinishedRuns)
    <2>1. /\ finishedRuns' = window
          /\ phase' = settled
          /\ sessionRuns' = listing
      BY <1>1, <1>9 DEF RollWindow
    <2>2. Retained' = Retained \union {r}
      BY <1>5, <2>1 DEF Retained
    <2>3. Lists(sessionRuns', Retained')
      BY <2>1, <2>2
    <2>4. WindowAgrees'
      BY <1>3, <1>4, <1>6, <1>9, <2>1, RunsAssumption DEF WindowAgrees
    <2>5. RunsTypeOK'
      BY <1>3, <1>7, <2>1, <2>3 DEF RunsTypeOK, Lists
    <2>6. OutcomesAgree'
      BY <1>7, <2>1 DEF RunsInv, OutcomesAgree, TerminalPhases, LivePhases
    <2>7. phase'[r] \in {outcome, "evicted"} /\ OthersStand(r)
      BY <1>7, <2>1 DEF OthersStand
    <2>8. QED
      BY <1>1, <2>3, <2>4, <2>5, <2>6, <2>7 DEF RunsInv
  <1>10. QED
    BY <1>8, <1>9

\* complete_run() and fail_run() end a run in progress.
LEMMA FinishRunInv ==
    ASSUME RunsInv, NEW r \in Requests, NEW outcome \in TerminalPhases,
           phase[r] \in LivePhases, FinishRun(r, outcome)
    PROVE  /\ RunsInv'
           /\ endedAs' = [endedAs EXCEPT ![r] = outcome]
           /\ phase'[r] \in {outcome, "evicted"}
           /\ OthersStand(r)
  <1>1. r \in Retained /\ endedAs[r] = "none"
    BY DEF RunsInv, OutcomesAgree, Retained, LivePhases, NoRun
  <1>2. Retained \union {r} = Retained
    BY <1>1
  <1>3. Lists(sessionRuns, Retained \union {r})
    BY <1>2 DEF RunsInv
  <1>4. EndRun(r, outcome, sessionRuns)
    BY DEF FinishRun, Unfinished
  <1>5. QED
    BY <1>1, <1>3, <1>4, EndRunInv

\* start_run() and fail_run() of a rejected prompt.
LEMMA StartAndFailRunInv ==
    ASSUME RunsInv, NEW r \in Requests, NEW s \in Sessions,
           phase[r] = "unknown", StartAndFailRun(r, s)
    PROVE  /\ RunsInv'
           /\ endedAs' = [endedAs EXCEPT ![r] = "failed"]
           /\ phase'[r] \in {"failed", "evicted"}
           /\ OthersStand(r)
  <1>1. r \notin Retained /\ endedAs[r] = "none"
    BY DEF RunsInv, OutcomesAgree, Retained, NoRun
  <1>2. Lists(Listed(r, s), Retained \union {r})
    BY <1>1, ListedLists DEF RunsInv
  <1>3. EndRun(r, "failed", Listed(r, s)) /\ "failed" \in TerminalPhases
    BY DEF StartAndFailRun, TerminalPhases
  <1>4. QED
    BY <1>1, <1>2, <1>3, EndRunInv

----------------------------------------------------------------------------
(* The inductive invariant *)

Events == {"session", "request", "agent", "answer", "failure"}

TasksTypeOK ==
    /\ handler \in [Requests -> {"new", "busy", "rejected", "awaiting",
                                 "completed", "failed", "cancelled"}]
    /\ graph \in [Requests -> {"none", "start", "engineered", "reviewing",
                               "reviewed", "spawned", "responding", "done",
                               "failed"}]
    /\ trail \in [Requests -> Seq(Events)]

GateTypeOK ==
    /\ holder \subseteq Requests \union BackgroundCalls
    /\ foregroundLine \in Seq(Requests)
    /\ backgroundLine \in Seq(BackgroundCalls)

\* A trail opens with the session and the prompt and repeats nothing.
Orderly(q) ==
    /\ Distinct(q)
    /\ q # << >> =>
         /\ Len(q) >= 2
         /\ q[1] = "session"
         /\ q[2] = "request"

\* How far the handler, the graph, the run and the trail of a request can be
\* apart.
Story(r) ==
    /\ handler[r] \in {"new", "busy"} =>
         phase[r] = "unknown" /\ trail[r] = << >> /\ graph[r] = "none"
    /\ handler[r] = "rejected" =>
         /\ endedAs[r] = "failed"
         /\ trail[r] = <<"session", "request">>
         /\ graph[r] = "none"
    /\ handler[r] \in {"awaiting", "cancelled"} =>
         /\ phase[r] \in LivePhases /\ endedAs[r] = "none"
         /\ trail[r] # << >> /\ ~Has(r, "answer") /\ ~Has(r, "failure")
         /\ graph[r] # "none"
    /\ handler[r] = "completed" =>
         /\ endedAs[r] = "completed"
         /\ trail[r] # << >> /\ Has(r, "answer") /\ ~Has(r, "failure")
         /\ graph[r] = "done"
    /\ handler[r] = "failed" =>
         /\ endedAs[r] = "failed"
         /\ trail[r] # << >> /\ Has(r, "failure") /\ ~Has(r, "answer")
         /\ graph[r] # "none"
    /\ Has(r, "agent") => graph[r] \in {"spawned", "responding", "done", "failed"}

\* The phase of a run in progress is that of its graph's last node.
Tracks(r) ==
    handler[r] \in {"awaiting", "cancelled"} =>
        /\ graph[r] = "start" => phase[r] = "governance"
        /\ graph[r] = "engineered" => phase[r] = "engineering"
        /\ graph[r] \in {"reviewing", "reviewed"} => phase[r] = "reviewing"
        /\ graph[r] = "spawned" => phase[r] = "spawning"
        /\ graph[r] \in {"responding", "done"} => phase[r] = "responding"
        /\ graph[r] = "failed" => phase[r] \in {"reviewing", "responding"}

RequestInv(r) == Orderly(trail[r]) /\ Story(r) /\ Tracks(r)

IInv ==
    /\ RunsInv
    /\ TasksTypeOK
    /\ GateTypeOK
    /\ \A r \in Requests : RequestInv(r)

----------------------------------------------------------------------------
(* Trails *)

\* One more event at the end of a trail.
LEMMA RecordOne ==
    ASSUME TasksTypeOK, NEW r \in Requests, NEW e \in {"agent", "answer", "failure"},
           Orderly(trail[r]), trail[r] # << >>, ~Has(r, e), Record(r, <<e>>)
    PROVE  /\ trail' \in [Requests -> Seq(Events)]
           /\ \A q \in Requests \ {r} : trail'[q] = trail[q]
           /\ Orderly(trail'[r])
           /\ trail'[r] # << >>
           /\ \A x \in Events : Has(r, x)' <=> Has(r, x) \/ x = e
  <1>1. trail \in [Requests -> Seq(Events)] /\ trail[r] \in Seq(Events) /\ e \in Events
    BY DEF TasksTypeOK, Events
  <1>2. trail[r] \o <<e>> = Append(trail[r], e)
    BY <1>1, AppendIsConcat
  <1>3. /\ Append(trail[r], e) \in Seq(Events)
        /\ Distinct(Append(trail[r], e))
        /\ Range(Append(trail[r], e)) = Range(trail[r]) \union {e}
        /\ Len(Append(trail[r], e)) = Len(trail[r]) + 1
    BY <1>1, AppendDistinct DEF Orderly, Has
  <1>4. /\ trail' = [trail EXCEPT ![r] = Append(trail[r], e)]
        /\ trail'[r] = Append(trail[r], e)
    BY <1>1, <1>2 DEF Record
  <1>5. /\ trail' \in [Requests -> Seq(Events)]
        /\ \A q \in Requests \ {r} : trail'[q] = trail[q]
    BY <1>1, <1>3, <1>4
  <1>6. /\ Len(trail[r]) >= 2 /\ Len(trail[r]) \in Nat
        /\ trail[r][1] = "session" /\ trail[r][2] = "request"
    BY <1>1, LenProperties DEF Orderly
  <1>7. /\ Append(trail[r], e)[1] = "session"
        /\ Append(trail[r], e)[2] = "request"
        /\ Append(trail[r], e) # << >>
    <2>1. /\ Append(trail[r], e)[1] = trail[r][1]
          /\ Append(trail[r], e)[2] = trail[r][2]
          /\ Append(trail[r], e) # << >>
      BY <1>1, <1>6, AppendProperties
    <2>2. QED
      BY <1>6, <2>1
  <1>8. Orderly(trail'[r]) /\ trail'[r] # << >>
    BY <1>3, <1>4, <1>6, <1>7 DEF Orderly
  <1>9. \A x \in Events : Has(r, x)' <=> Has(r, x) \/ x = e
    BY <1>3, <1>4 DEF Has
  <1>10. QED
    BY <1>5, <1>8, <1>9

\* The session and the prompt open a trail.
LEMMA RecordOpening ==
    ASSUME TasksTypeOK, NEW r \in Requests, trail[r] = << >>,
           Record(r, <<"session", "request">>)
    PROVE  /\ trail' \in [Requests -> Seq(Events)]
           /\ \A q \in Requests \ {r} : trail'[q] = trail[q]
           /\ Orderly(trail'[r])
           /\ trail'[r] = <<"session", "request">>
           /\ trail'[r] # << >>
           /\ \A x \in {"agent", "answer", "failure"} : ~Has(r, x)'
  <1>1. <<"session", "request">> \in Seq(Events)
    BY DEF Events
  <1>2. << >> \o <<"session", "request">> = <<"session", "request">>
    BY <1>1, ConcatEmptySeq
  <1>3. /\ trail' = [trail EXCEPT ![r] = <<"session", "request">>]
        /\ trail \in [Requests -> Seq(Events)]
    BY <1>2 DEF Record, TasksTypeOK
  <1>4. /\ trail' \in [Requests -> Seq(Events)]
        /\ \A q \in Requests \ {r} : trail'[q] = trail[q]
        /\ trail'[r] = <<"session", "request">>
    BY <1>1, <1>3
  <1> DEFINE opening == <<"session", "request">>
  <1>5. DOMAIN opening = 1 .. 2 /\ opening[1] = "session" /\ opening[2] = "request"
        /\ Len(opening) = 2 /\ opening # << >>
    OBVIOUS
  <1>6. Distinct(opening) /\ Range(opening) = {"session", "request"}
    BY <1>5 DEF Distinct, Range
  <1> HIDE DEF opening
  <1>7. trail'[r] = opening
    BY <1>4 DEF opening
  <1>8. Orderly(trail'[r]) /\ trail'[r] # << >>
    BY <1>5, <1>6, <1>7 DEF Orderly
  <1>9. \A x \in {"agent", "answer", "failure"} : ~Has(r, x)'
    BY <1>6, <1>7 DEF Has
  <1>10. QED
    BY <1>4, <1>8, <1>9

----------------------------------------------------------------------------
(* The gate *)

\* Whatever is asked of the gate, the lines keep their types: the prompts are
\* the foreground, the agents the background.
LEMMA GateTypes ==
    ASSUME GateTypeOK, NEW c \in Requests \union BackgroundCalls,
           Generate(c) \/ Gate!Withdraw(c) \/ Gate!PassOn
    PROVE  GateTypeOK'
  <1> USE DEF GateTypeOK
  <1>1. CASE Gate!Take(c)
    BY <1>1 DEF Gate!Take
  <1>2. CASE Gate!Join(c)
    <2>1. CASE c \in BackgroundCalls
      <3>1. /\ backgroundLine' = Append(backgroundLine, c)
            /\ UNCHANGED <<holder, foregroundLine>>
        BY <1>2, <2>1 DEF Gate!Join
      <3>2. QED
        BY <2>1, <3>1, AppendProperties
    <2>2. CASE c \in Requests
      <3>1. /\ foregroundLine' = Append(foregroundLine, c)
            /\ UNCHANGED <<holder, backgroundLine>>
        BY <1>2, <2>2, PipelineAssumption DEF Gate!Join
      <3>2. QED
        BY <2>2, <3>1, AppendProperties
    <2>3. QED
      BY <2>1, <2>2
  <1>3. CASE Gate!Withdraw(c)
    <2>1. \A S : \A q \in Seq(S) : \A i \in DOMAIN q : Gate!Without(q, i) \in Seq(S)
      <3>1. SUFFICES ASSUME NEW S, NEW q \in Seq(S), NEW i \in DOMAIN q
                     PROVE  Gate!Without(q, i) \in Seq(S)
        OBVIOUS
      <3>2. Len(q) \in Nat /\ i \in 1 .. Len(q)
        BY LenProperties
      <3>3. SubSeq(q, 1, i - 1) \in Seq(S)
        <4>1. \A k \in 1 .. (i - 1) : q[k] \in S
          BY <3>2, ElementOfSeq
        <4>2. QED
          BY <3>2, <4>1, SubSeqProperties
      <3>4. SubSeq(q, i + 1, Len(q)) \in Seq(S)
        <4>1. \A k \in (i + 1) .. Len(q) : q[k] \in S
          BY <3>2, ElementOfSeq
        <4>2. QED
          BY <3>2, <4>1, SubSeqProperties
      <3>5. QED
        BY <3>3, <3>4, ConcatProperties DEF Gate!Without
    <2>2. QED
      BY <1>3, <2>1 DEF Gate!Withdraw
  <1>4. CASE Gate!PassOn
    <2>1. \A S : \A q \in Seq(S) : q # << >> => Head(q) \in S /\ Tail(q) \in Seq(S)
      BY HeadTailProperties
    <2>2. CASE foregroundLine # << >>
      <3>1. Head(foregroundLine) \in Requests /\ Tail(foregroundLine) \in Seq(Requests)
        BY <2>1, <2>2
      <3>2. QED
        BY <1>4, <2>2, <3>1 DEF Gate!PassOn
    <2>3. CASE foregroundLine = << >> /\ backgroundLine # << >>
      <3>1. Head(backgroundLine) \in BackgroundCalls /\ Tail(backgroundLine) \in Seq(BackgroundCalls)
        BY <2>1, <2>3
      <3>2. QED
        BY <1>4, <2>3, <3>1 DEF Gate!PassOn
    <2>4. CASE foregroundLine = << >> /\ backgroundLine = << >>
      BY <1>4, <2>4 DEF Gate!PassOn
    <2>5. QED
      BY <2>2, <2>3, <2>4
  <1>5. QED
    BY <1>1, <1>2, <1>3, <1>4 DEF Generate

----------------------------------------------------------------------------
(* Initial states *)

\* Nothing has arrived.
LEMMA InitIInv == Init => IInv
  <1> SUFFICES ASSUME Init
               PROVE  IInv
    OBVIOUS
  <1>1. RunsInv
    BY RunsInitInv DEF Init
  <1>2. \A S : << >> \in Seq(S)
    OBVIOUS
  <1>3. TasksTypeOK
    BY <1>2 DEF Init, TasksTypeOK
  <1>4. GateTypeOK
    BY <1>2 DEF Init, Gate!Init, GateTypeOK
  <1>5. ASSUME NEW r \in Requests
        PROVE  RequestInv(r)
    <2>1. /\ handler[r] = "new" /\ graph[r] = "none" /\ trail[r] = << >>
          /\ phase[r] = "unknown"
      BY DEF Init, RunsInit
    <2>2. DOMAIN trail[r] = {}
      BY <2>1
    <2>3. Range(trail[r]) = {} /\ Distinct(trail[r])
      BY <2>2 DEF Range, Distinct
    <2>4. QED
      BY <2>1, <2>3 DEF RequestInv, Orderly, Story, Tracks, Has
  <1>6. QED
    BY <1>1, <1>3, <1>4, <1>5 DEF IInv

----------------------------------------------------------------------------
(* Steps *)

\* What a step of request r leaves of the others.
Others(r) ==
    /\ OthersStand(r)
    /\ \A q \in Requests \ {r} :
         /\ handler'[q] = handler[q]
         /\ graph'[q] = graph[q]
         /\ trail'[q] = trail[q]
         /\ endedAs'[q] = endedAs[q]

\* A request is not disturbed by the steps of another, which can at most roll
\* its finished run out of the store.
LEMMA OthersKeep ==
    ASSUME NEW r \in Requests, NEW q \in Requests \ {r}, RequestInv(q), Others(r)
    PROVE  RequestInv(q)'
  <1>1. /\ handler'[q] = handler[q]
        /\ graph'[q] = graph[q]
        /\ trail'[q] = trail[q]
        /\ endedAs'[q] = endedAs[q]
    BY DEF Others
  <1>2. phase[q] \notin TerminalPhases => phase'[q] = phase[q]
    BY DEF Others, OthersStand
  <1>3. Orderly(trail'[q])
    BY <1>1 DEF RequestInv
  <1>4. \A x : Has(q, x)' <=> Has(q, x)
    BY <1>1 DEF Has
  <1>5. Story(q)'
    <2>1. phase[q] = "unknown" => phase'[q] = "unknown"
      BY <1>2 DEF TerminalPhases
    <2>2. phase[q] \in LivePhases => phase'[q] \in LivePhases
      BY <1>2 DEF TerminalPhases, LivePhases
    <2>3. Story(q)
      BY DEF RequestInv
    <2>4. QED
      BY <1>1, <1>4, <2>1, <2>2, <2>3 DEF Story
  <1>6. Tracks(q)'
    <2>1. handler[q] \in {"awaiting", "cancelled"} => phase'[q] = phase[q]
      BY <1>2 DEF RequestInv, Story, LivePhases, TerminalPhases
    <2>2. QED
      BY <1>1, <2>1 DEF RequestInv, Tracks
  <1>7. QED
    BY <1>3, <1>5, <1>6 DEF RequestInv

\* So a step of r keeps the invariant if it keeps the types and r's own part.
LEMMA OwnPart ==
    ASSUME IInv, NEW r \in Requests,
           RunsInv', TasksTypeOK', GateTypeOK', RequestInv(r)', Others(r)
    PROVE  IInv'
  <1>1. \A q \in Requests \ {r} : RequestInv(q)'
    BY OthersKeep DEF IInv
  <1>2. \A q \in Requests : RequestInv(q)'
    BY <1>1
  <1>3. QED
    BY <1>2 DEF IInv

\* The invariant does not depend on anything else.
LEMMA Stutter == IInv /\ UNCHANGED vars => IInv'
  <1> SUFFICES ASSUME IInv, UNCHANGED vars
               PROVE  IInv'
    OBVIOUS
  <1>1. UNCHANGED <<phase, sessionRuns, finishedRuns, endedAs>>
        /\ UNCHANGED <<handler, graph, trail, holder, foregroundLine, backgroundLine>>
    BY DEF vars, runVars, gateVars
  <1>2. RunsInv'
    BY RunsStutter DEF IInv, vars
  <1>3. TasksTypeOK' /\ GateTypeOK'
    BY <1>1 DEF IInv, TasksTypeOK, GateTypeOK
  <1>4. \A r \in Requests : RequestInv(r)'
    BY <1>1 DEF IInv, RequestInv, Story, Tracks, Has
  <1>5. QED
    BY <1>2, <1>3, <1>4 DEF IInv

\* An arriving prompt is refused without a trace, rejected with its run ended,
\* or accepted with its run in progress.
LEMMA ArrivalIInv ==
    ASSUME IInv, NEW r \in Requests, Refuse(r) \/ Reject(r) \/ Accept(r)
    PROVE  IInv'
  <1> USE DEF IInv
  <1>1. /\ handler[r] = "new" /\ phase[r] = "unknown"
        /\ trail[r] = << >> /\ graph[r] = "none"
        /\ UNCHANGED gateVars
        /\ RequestInv(r)
    BY DEF Refuse, Reject, Accept, Handler, RequestInv, Story
  <1>2. GateTypeOK'
    BY <1>1 DEF gateVars, GateTypeOK
  <1>3. /\ handler \in [Requests -> {"new", "busy", "rejected", "awaiting",
                                      "completed", "failed", "cancelled"}]
        /\ phase \in [Requests -> LivePhases \union TerminalPhases \union NoRun]
        /\ endedAs \in [Requests -> TerminalPhases \union {"none"}]
    BY DEF TasksTypeOK, RunsInv, RunsTypeOK
  <1>4. CASE Refuse(r)
    <2>1. /\ handler' = [handler EXCEPT ![r] = "busy"]
          /\ UNCHANGED <<phase, sessionRuns, finishedRuns, endedAs, graph, trail>>
      BY <1>4 DEF Refuse, Handler, runVars
    <2>2. RunsInv'
      BY <1>4, RunsStutter DEF Refuse
    <2>3. TasksTypeOK'
      BY <2>1 DEF TasksTypeOK
    <2>4. handler'[r] = "busy"
      BY <1>3, <2>1
    <2>5. RequestInv(r)'
      BY <1>1, <2>1, <2>4 DEF RequestInv, Story, Tracks, Has
    <2>6. Others(r)
      BY <1>3, <2>1 DEF Others, OthersStand
    <2>7. QED
      BY <1>2, <2>2, <2>3, <2>5, <2>6, OwnPart
  <1>5. CASE Reject(r)
    <2>1. PICK s \in Sessions : StartAndFailRun(r, s)
      BY <1>5 DEF Reject
    <2>2. /\ RunsInv'
          /\ endedAs' = [endedAs EXCEPT ![r] = "failed"]
          /\ OthersStand(r)
      BY <1>1, <2>1, StartAndFailRunInv
    <2>3. /\ handler' = [handler EXCEPT ![r] = "rejected"]
          /\ UNCHANGED graph
          /\ Record(r, <<"session", "request">>)
      BY <1>5 DEF Reject, Handler
    <2>4. /\ trail' \in [Requests -> Seq(Events)]
          /\ \A q \in Requests \ {r} : trail'[q] = trail[q]
          /\ Orderly(trail'[r])
          /\ trail'[r] = <<"session", "request">>
          /\ \A x \in {"agent", "answer", "failure"} : ~Has(r, x)'
      BY <1>1, <2>3, RecordOpening
    <2>5. TasksTypeOK'
      BY <2>3, <2>4 DEF TasksTypeOK
    <2>6. handler'[r] = "rejected" /\ endedAs'[r] = "failed" /\ graph'[r] = "none"
      BY <1>1, <1>3, <2>2, <2>3
    <2>7. RequestInv(r)'
      BY <2>4, <2>6 DEF RequestInv, Story, Tracks
    <2>8. Others(r)
      BY <1>3, <2>2, <2>3, <2>4 DEF Others
    <2>9. QED
      BY <1>2, <2>2, <2>5, <2>7, <2>8, OwnPart
  <1>6. CASE Accept(r)
    <2>1. PICK s \in Sessions : StartRun(r, s, "governance")
      BY <1>6 DEF Accept
    <2>2. RunsInv'
      BY <1>1, <2>1, StartRunInv DEF LivePhases
    <2>3. /\ handler' = [handler EXCEPT ![r] = "awaiting"]
          /\ graph' = [graph EXCEPT ![r] = "start"]
          /\ phase' = [phase EXCEPT ![r] = "governance"]
          /\ endedAs' = endedAs
          /\ Record(r, <<"session", "request">>)
      BY <1>6, <2>1 DEF Accept, Handler, Graph, StartRun
    <2>4. /\ trail' \in [Requests -> Seq(Events)]
          /\ \A q \in Requests \ {r} : trail'[q] = trail[q]
          /\ Orderly(trail'[r])
          /\ trail'[r] # << >>
          /\ \A x \in {"agent", "answer", "failure"} : ~Has(r, x)'
      BY <1>1, <2>3, RecordOpening
    <2>5. TasksTypeOK'
      BY <2>3, <2>4 DEF TasksTypeOK
    <2>6. /\ handler'[r] = "awaiting" /\ graph'[r] = "start" /\ phase'[r] = "governance"
          /\ endedAs'[r] = "none"
      BY <1>1, <1>3, <2>3 DEF TasksTypeOK, RunsInv, OutcomesAgree
    <2>7. RequestInv(r)'
      BY <2>4, <2>6 DEF RequestInv, Story, Tracks, LivePhases
    <2>8. Others(r)
      BY <1>3, <2>3, <2>4 DEF Others, OthersStand, TasksTypeOK
    <2>9. QED
      BY <1>2, <2>2, <2>5, <2>7, <2>8, OwnPart
  <1>7. QED
    BY <1>4, <1>5, <1>6

\* A request whose graph exists was accepted.
LEMMA GraphMeansAccepted ==
    ASSUME NEW r \in Requests, TasksTypeOK, Story(r), graph[r] # "none"
    PROVE  /\ handler[r] \in {"awaiting", "cancelled", "completed", "failed"}
           /\ trail[r] # << >>
           /\ handler[r] = "completed" => graph[r] = "done"
  BY DEF Story, TasksTypeOK

\* A step of the graph that records nothing: what the run's phase becomes has
\* to fit what the graph becomes.
LEMMA GraphMoves ==
    ASSUME IInv, NEW r \in Requests, NEW to,
           graph[r] \notin {"none", "done"},
           graph' = [graph EXCEPT ![r] = to],
           UNCHANGED <<handler, trail>>,
           RunsInv', GateTypeOK', TasksTypeOK',
           endedAs' = endedAs,
           \A q \in Requests \ {r} : phase'[q] = phase[q],
           to # "none",
           phase[r] \in LivePhases => phase'[r] \in LivePhases,
           Has(r, "agent") => to \in {"spawned", "responding", "done", "failed"},
           phase[r] \in LivePhases /\ Tracks(r) => Tracks(r)'
    PROVE  IInv'
  <1>1. Orderly(trail[r]) /\ Story(r) /\ Tracks(r) /\ TasksTypeOK
    BY DEF IInv, RequestInv
  <1>2. /\ handler[r] \in {"awaiting", "cancelled", "failed"}
        /\ trail[r] # << >>
    BY <1>1, GraphMeansAccepted
  <1>3. graph'[r] = to /\ \A q \in Requests \ {r} : graph'[q] = graph[q]
    BY <1>1 DEF TasksTypeOK
  <1>4. \A x : Has(r, x)' <=> Has(r, x)
    BY DEF Has
  <1>5. Story(r)'
    BY <1>1, <1>2, <1>3, <1>4 DEF Story
  <1>6. Tracks(r)'
    <2>1. CASE handler[r] \in {"awaiting", "cancelled"}
      <3>1. phase[r] \in LivePhases
        BY <1>1, <2>1 DEF Story
      <3>2. QED
        BY <1>1, <3>1
    <2>2. CASE handler[r] = "failed"
      BY <2>2 DEF Tracks
    <2>3. QED
      BY <1>2, <2>1, <2>2
  <1>7. RequestInv(r)'
    BY <1>1, <1>5, <1>6 DEF RequestInv
  <1>8. Others(r)
    BY <1>3 DEF Others, OthersStand
  <1>9. QED
    BY <1>7, <1>8, OwnPart

\* The nodes of the graph, with or without a handler that waits for it.
LEMMA NodeIInv ==
    ASSUME IInv, NEW r \in Requests, Node(r)
    PROVE  IInv'
  <1> DEFINE Enters(p) == /\ RunsInv'
                          /\ endedAs' = endedAs
                          /\ phase'[r] = IF phase[r] \in LivePhases THEN p ELSE phase[r]
                          /\ \A q \in Requests \ {r} : phase'[q] = phase[q]
  <1>1. \A p \in LivePhases : EnterPhase(r, p) => Enters(p)
    BY EnterPhaseInv DEF IInv
  <1>2. /\ Orderly(trail[r]) /\ Story(r) /\ Tracks(r)
        /\ TasksTypeOK /\ GateTypeOK
    BY DEF IInv, RequestInv
  <1>3. CASE Engineer(r)
    <2>1. /\ graph[r] = "start"
          /\ graph' = [graph EXCEPT ![r] = "engineered"]
          /\ UNCHANGED <<handler, trail, holder, foregroundLine, backgroundLine>>
          /\ EnterPhase(r, "engineering")
      BY <1>3 DEF Engineer, Graph, gateVars
    <2>2. Enters("engineering")
      BY <1>1, <2>1 DEF LivePhases
    <2>3. TasksTypeOK' /\ GateTypeOK'
      BY <1>2, <2>1 DEF TasksTypeOK, GateTypeOK
    <2>4. graph'[r] = "engineered"
      BY <1>2, <2>1 DEF TasksTypeOK
    <2>5. phase[r] \in LivePhases => Tracks(r)'
      BY <2>2, <2>4 DEF Tracks
    <2>6. ~Has(r, "agent")
      BY <1>2, <2>1 DEF Story
    <2>7. QED
      BY <2>1, <2>2, <2>3, <2>5, <2>6, GraphMoves DEF LivePhases
  <1>4. CASE Review(r)
    <2>1. /\ graph[r] = "engineered"
          /\ graph' = [graph EXCEPT ![r] = "reviewing"]
          /\ UNCHANGED <<handler, trail>>
          /\ EnterPhase(r, "reviewing")
          /\ Generate(r)
      BY <1>4 DEF Review, Graph
    <2>2. Enters("reviewing")
      BY <1>1, <2>1 DEF LivePhases
    <2>3. TasksTypeOK' /\ GateTypeOK'
      BY <1>2, <2>1, GateTypes DEF TasksTypeOK
    <2>4. graph'[r] = "reviewing"
      BY <1>2, <2>1 DEF TasksTypeOK
    <2>5. phase[r] \in LivePhases => Tracks(r)'
      BY <2>2, <2>4 DEF Tracks
    <2>6. ~Has(r, "agent")
      BY <1>2, <2>1 DEF Story
    <2>7. QED
      BY <2>1, <2>2, <2>3, <2>5, <2>6, GraphMoves DEF LivePhases
  <1>5. CASE Respond(r)
    <2>1. /\ graph[r] \in {"reviewed", "spawned"}
          /\ graph' = [graph EXCEPT ![r] = "responding"]
          /\ UNCHANGED <<handler, trail>>
          /\ EnterPhase(r, "responding")
          /\ Generate(r)
      BY <1>5 DEF Respond, Graph
    <2>2. Enters("responding")
      BY <1>1, <2>1 DEF LivePhases
    <2>3. TasksTypeOK' /\ GateTypeOK'
      BY <1>2, <2>1, GateTypes DEF TasksTypeOK
    <2>4. graph'[r] = "responding"
      BY <1>2, <2>1 DEF TasksTypeOK
    <2>5. phase[r] \in LivePhases => Tracks(r)'
      BY <2>2, <2>4 DEF Tracks
    <2>6. QED
      BY <2>1, <2>2, <2>3, <2>5, GraphMoves DEF LivePhases
  <1>6. CASE SpawnAgent(r)
    <2>1. /\ graph[r] = "reviewed"
          /\ graph' = [graph EXCEPT ![r] = "spawned"]
          /\ UNCHANGED <<handler, holder, foregroundLine, backgroundLine>>
          /\ EnterPhase(r, "spawning")
          /\ Record(r, <<"agent">>) \/ UNCHANGED trail
      BY <1>6 DEF SpawnAgent, Graph, gateVars
    <2>2. Enters("spawning")
      BY <1>1, <2>1 DEF LivePhases
    <2>3. graph'[r] = "spawned" /\ \A q \in Requests \ {r} : graph'[q] = graph[q]
      BY <1>2, <2>1 DEF TasksTypeOK
    <2>4. phase[r] \in LivePhases => Tracks(r)'
      BY <2>2, <2>3 DEF Tracks
    <2>5. GateTypeOK'
      BY <1>2, <2>1 DEF GateTypeOK
    <2>6. ~Has(r, "agent")
      BY <1>2, <2>1 DEF Story
    <2>7. CASE UNCHANGED trail
      <3>1. TasksTypeOK'
        BY <1>2, <2>1, <2>7 DEF TasksTypeOK
      <3>2. QED
        BY <2>1, <2>2, <2>4, <2>5, <2>6, <2>7, <3>1, GraphMoves DEF LivePhases
    <2>8. CASE Record(r, <<"agent">>)
      <3>1. /\ handler[r] \in {"awaiting", "cancelled", "failed"}
            /\ trail[r] # << >>
        BY <1>2, <2>1, GraphMeansAccepted
      <3>2. /\ trail' \in [Requests -> Seq(Events)]
            /\ \A q \in Requests \ {r} : trail'[q] = trail[q]
            /\ Orderly(trail'[r])
            /\ trail'[r] # << >>
            /\ \A x \in Events : Has(r, x)' <=> Has(r, x) \/ x = "agent"
        BY <1>2, <2>6, <2>8, <3>1, RecordOne
      <3>3. TasksTypeOK'
        BY <1>2, <2>1, <3>2 DEF TasksTypeOK
      <3>4. Story(r)'
        <4>1. \A x \in {"answer", "failure"} : Has(r, x)' <=> Has(r, x)
          BY <3>2 DEF Events
        <4>2. phase[r] \in LivePhases => phase'[r] \in LivePhases
          BY <2>2 DEF LivePhases
        <4>3. QED
          BY <1>2, <2>1, <2>2, <2>3, <3>1, <3>2, <4>1, <4>2 DEF Story
      <3>5. Tracks(r)'
        <4>1. CASE handler[r] = "failed"
          BY <2>1, <4>1 DEF Tracks
        <4>2. CASE handler[r] # "failed"
          BY <1>2, <2>4, <3>1, <4>2 DEF Story
        <4>3. QED
          BY <4>1, <4>2
      <3>6. Others(r)
        BY <2>1, <2>2, <2>3, <3>2 DEF Others, OthersStand
      <3>7. QED
        BY <2>2, <2>5, <3>2, <3>3, <3>4, <3>5, <3>6, OwnPart DEF RequestInv
    <2>9. QED
      BY <2>1, <2>7, <2>8
  <1>7. QED
    BY <1>3, <1>4, <1>5, <1>6 DEF Node

\* A generation ends, in one of its ways, or the gate is passed on late.
LEMMA GenerationIInv ==
    ASSUME IInv, NEW r \in Requests, Leave(r) \/ GenerationTimesOut(r)
    PROVE  IInv'
  <1>1. /\ Orderly(trail[r]) /\ Story(r) /\ Tracks(r)
        /\ RunsInv /\ TasksTypeOK /\ GateTypeOK
    BY DEF IInv, RequestInv
  <1>2. /\ UNCHANGED <<runVars, handler, trail>>
        /\ UNCHANGED gateVars \/ Gate!PassOn
    BY DEF Leave, GenerationReturns, GenerationCrashes, ThreadLeaves, GenerationTimesOut
  <1>3. RunsInv' /\ endedAs' = endedAs /\ phase' = phase
    BY <1>1, <1>2, RunsStutter DEF runVars
  <1>4. GateTypeOK'
    <2>1. CASE UNCHANGED gateVars
      BY <1>1, <2>1 DEF GateTypeOK, gateVars
    <2>2. CASE Gate!PassOn
      BY <1>1, <2>2, GateTypes
    <2>3. QED
      BY <1>2, <2>1, <2>2
  <1>5. ASSUME NEW from, NEW to, Graph(r, {from}, to),
               <<from, to>> \in {<<"reviewing", "reviewed">>, <<"reviewing", "failed">>,
                                 <<"responding", "done">>, <<"responding", "failed">>}
        PROVE  IInv'
    <2>1. graph[r] = from /\ graph' = [graph EXCEPT ![r] = to]
      BY <1>5 DEF Graph
    <2>2. /\ from \in {"reviewing", "responding"}
          /\ to \in {"reviewed", "done", "failed"}
          /\ from = "reviewing" => to \in {"reviewed", "failed"}
          /\ from = "responding" => to \in {"done", "failed"}
      BY <1>5
    <2>3. TasksTypeOK'
      BY <1>1, <1>2, <2>1, <2>2 DEF TasksTypeOK
    <2>4. graph'[r] = to
      BY <1>1, <2>1 DEF TasksTypeOK
    <2>5. Tracks(r)'
      BY <1>1, <1>2, <1>3, <2>1, <2>2, <2>4 DEF Tracks
    <2>6. Has(r, "agent") => to \in {"spawned", "responding", "done", "failed"}
      BY <1>1, <2>1, <2>2 DEF Story
    <2>7. QED
      BY <1>2, <1>3, <1>4, <2>1, <2>2, <2>3, <2>5, <2>6, GraphMoves
  <1>6. CASE GenerationReturns(r)
    BY <1>5, <1>6 DEF GenerationReturns
  <1>7. CASE GenerationCrashes(r) \/ GenerationTimesOut(r)
    <2>1. Graph(r, {"reviewing"}, "failed") \/ Graph(r, {"responding"}, "failed")
      BY <1>7 DEF GenerationCrashes, GenerationTimesOut, Graph
    <2>2. QED
      BY <1>5, <2>1
  <1>8. CASE ThreadLeaves(r)
    <2>1. graph' = graph
      BY <1>8 DEF ThreadLeaves
    <2>2. TasksTypeOK'
      BY <1>1, <1>2, <2>1 DEF TasksTypeOK
    <2>3. RequestInv(r)'
      BY <1>1, <1>2, <1>3, <2>1 DEF RequestInv, Story, Tracks, Has
    <2>4. Others(r)
      BY <1>2, <1>3, <2>1 DEF Others, OthersStand
    <2>5. QED
      BY <1>3, <1>4, <2>2, <2>3, <2>4, OwnPart
  <1>9. QED
    BY <1>6, <1>7, <1>8 DEF Leave

\* A handler settles its run and records the outcome.
LEMMA SettledIInv ==
    ASSUME IInv, NEW r \in Requests, NEW outcome \in TerminalPhases, NEW e,
           outcome = "completed" => e = "answer" /\ graph[r] = "done",
           outcome = "failed" => e = "failure",
           Handler(r, "awaiting", outcome), FinishRun(r, outcome), Record(r, <<e>>),
           UNCHANGED <<graph, gateVars>>
    PROVE  IInv'
  <1>1. /\ Orderly(trail[r]) /\ Story(r) /\ RunsInv /\ TasksTypeOK /\ GateTypeOK
        /\ handler[r] = "awaiting" /\ handler' = [handler EXCEPT ![r] = outcome]
        /\ outcome \in {"completed", "failed"} /\ e \in {"answer", "failure"}
    BY DEF IInv, RequestInv, Handler, TerminalPhases
  <1>2. /\ phase[r] \in LivePhases /\ trail[r] # << >> /\ graph[r] # "none"
        /\ ~Has(r, "answer") /\ ~Has(r, "failure")
    BY <1>1 DEF Story
  <1>3. /\ RunsInv'
        /\ endedAs' = [endedAs EXCEPT ![r] = outcome]
        /\ OthersStand(r)
    BY <1>1, <1>2, FinishRunInv
  <1>4. /\ trail' \in [Requests -> Seq(Events)]
        /\ \A q \in Requests \ {r} : trail'[q] = trail[q]
        /\ Orderly(trail'[r])
        /\ trail'[r] # << >>
        /\ \A x \in Events : Has(r, x)' <=> Has(r, x) \/ x = e
    BY <1>1, <1>2, RecordOne
  <1>5. /\ handler'[r] = outcome /\ endedAs'[r] = outcome
        /\ \A q \in Requests \ {r} : handler'[q] = handler[q] /\ endedAs'[q] = endedAs[q]
    BY <1>1, <1>3 DEF TasksTypeOK, RunsInv, RunsTypeOK
  <1>6. TasksTypeOK' /\ GateTypeOK'
    BY <1>1, <1>4 DEF TasksTypeOK, GateTypeOK, gateVars
  <1>7. RequestInv(r)'
    <2>1. /\ Has(r, "agent")' <=> Has(r, "agent")
          /\ Has(r, "answer")' <=> e = "answer"
          /\ Has(r, "failure")' <=> e = "failure"
      BY <1>1, <1>2, <1>4 DEF Events
    <2>2. Story(r)'
      BY <1>1, <1>2, <1>4, <1>5, <2>1 DEF Story
    <2>3. Tracks(r)'
      BY <1>1, <1>5 DEF Tracks
    <2>4. QED
      BY <1>4, <2>2, <2>3 DEF RequestInv
  <1>8. Others(r)
    BY <1>3, <1>4, <1>5 DEF Others
  <1>9. QED
    BY <1>3, <1>6, <1>7, <1>8, OwnPart

\* Whatever ends the handler's wait.
LEMMA HandlerIInv ==
    ASSUME IInv, NEW r \in Requests, Wake(r) \/ RequestTimesOut(r) \/ HandlerCancelled(r)
    PROVE  IInv'
  <1>1. CASE Answer(r)
    BY <1>1, SettledIInv DEF Answer, TerminalPhases
  <1>2. CASE FailRequest(r)
    BY <1>2, SettledIInv DEF FailRequest, TerminalPhases
  <1>3. CASE HandlerCancelled(r)
    <2>1. /\ handler[r] = "awaiting" /\ handler' = [handler EXCEPT ![r] = "cancelled"]
          /\ UNCHANGED <<runVars, graph, trail, gateVars>>
          /\ RunsInv /\ TasksTypeOK /\ GateTypeOK /\ RequestInv(r)
      BY <1>3 DEF HandlerCancelled, Handler, IInv
    <2>2. RunsInv' /\ TasksTypeOK' /\ GateTypeOK'
      BY <2>1, RunsStutter DEF TasksTypeOK, GateTypeOK, gateVars
    <2>3. /\ handler'[r] = "cancelled"
          /\ \A q \in Requests \ {r} : handler'[q] = handler[q]
      BY <2>1 DEF TasksTypeOK
    <2>4. RequestInv(r)'
      BY <2>1, <2>3 DEF RequestInv, Story, Tracks, Has, runVars
    <2>5. Others(r)
      BY <2>1, <2>3 DEF Others, OthersStand, runVars
    <2>6. QED
      BY <2>2, <2>4, <2>5, OwnPart
  <1>4. QED
    BY <1>1, <1>2, <1>3 DEF Wake, GraphFailed, RequestTimesOut

\* Background agents disturb nothing but the gate.
LEMMA AgentIInv ==
    ASSUME IInv, NEW b \in BackgroundCalls, AgentStep(b)
    PROVE  IInv'
  <1>1. /\ UNCHANGED <<runVars, handler, graph, trail>>
        /\ Generate(b) \/ Gate!Withdraw(b) \/ Gate!PassOn
    BY DEF AgentStep
  <1>2. GateTypeOK'
    BY <1>1, GateTypes DEF IInv
  <1>3. RunsInv' /\ TasksTypeOK'
    BY <1>1, RunsStutter DEF IInv, TasksTypeOK
  <1>4. \A r \in Requests : RequestInv(r)'
    BY <1>1 DEF IInv, RequestInv, Story, Tracks, Has, runVars
  <1>5. QED
    BY <1>2, <1>3, <1>4 DEF IInv

\* The invariant is inductive.
LEMMA NextIInv == IInv /\ [Next]_vars => IInv'
  <1> SUFFICES ASSUME IInv, [Next]_vars
               PROVE  IInv'
    OBVIOUS
  <1>1. ASSUME NEW r \in Requests, Refuse(r) \/ Reject(r) \/ Accept(r)
        PROVE  IInv'
    BY <1>1, ArrivalIInv
  <1>2. ASSUME NEW r \in Requests, Node(r)
        PROVE  IInv'
    BY <1>2, NodeIInv
  <1>3. ASSUME NEW r \in Requests, Leave(r) \/ GenerationTimesOut(r)
        PROVE  IInv'
    BY <1>3, GenerationIInv
  <1>4. ASSUME NEW r \in Requests, Wake(r) \/ RequestTimesOut(r) \/ HandlerCancelled(r)
        PROVE  IInv'
    BY <1>4, HandlerIInv
  <1>5. ASSUME NEW b \in BackgroundCalls, AgentStep(b)
        PROVE  IInv'
    BY <1>5, AgentIInv
  <1>6. CASE UNCHANGED vars
    BY <1>6, Stutter
  <1>7. QED
    BY <1>1, <1>2, <1>3, <1>4, <1>5, <1>6 DEF Next

\* Every reachable state satisfies the invariant.
THEOREM Invariance == Spec => []IInv
  BY InitIInv, NextIInv, PTL DEF Spec

----------------------------------------------------------------------------
(* What follows from it *)

\* The types of the pipeline's variables.
LEMMA IInvTypes == IInv => TypeOK
  BY DEF IInv, RunsInv, TasksTypeOK, GateTypeOK, TypeOK, Events

\* The client's answer, the run in the store and the audit record of every
\* request tell the same story, whatever beats what (PromptPipeline.run).
THEOREM AnswersAgree == Spec => []AnswerRunAndAuditAgree
  <1>1. IInv => AnswerRunAndAuditAgree
    <2> SUFFICES ASSUME IInv, NEW r \in Requests
                 PROVE  Consistent(r)
      BY IInvTypes DEF AnswerRunAndAuditAgree
    <2>1. Story(r) /\ TasksTypeOK
      BY DEF IInv, RequestInv
    <2>2. QED
      BY <2>1 DEF Story, TasksTypeOK, Consistent
  <1>2. QED
    BY <1>1, Invariance, PTL

\* The trail of a request can be written to the audit tables in its order:
\* every event finds the rows its foreign keys name (audit/models.py).
THEOREM TrailsOrdered == Spec => []TrailRespectsKeys
  <1>1. IInv => TrailRespectsKeys
    <2> SUFFICES ASSUME IInv, NEW r \in Requests
                 PROVE  /\ \A i, j \in DOMAIN trail[r] :
                             /\ i < j => Rank(trail[r][i]) <= Rank(trail[r][j])
                             /\ trail[r][i] = trail[r][j] => i = j
                        /\ trail[r] # << >> => trail[r][1] = "session" /\ trail[r][2] = "request"
      BY DEF TrailRespectsKeys
    <2>1. Orderly(trail[r]) /\ trail[r] \in Seq(Events)
      BY DEF IInv, RequestInv, TasksTypeOK
    <2>2. Len(trail[r]) \in Nat /\ DOMAIN trail[r] = 1 .. Len(trail[r])
      BY <2>1, LenProperties
    <2>3. ASSUME NEW i \in DOMAIN trail[r], NEW j \in DOMAIN trail[r], i < j
          PROVE  Rank(trail[r][i]) <= Rank(trail[r][j])
      <3>1. trail[r] # << >>
        BY <2>1, <2>2, EmptySeq
      <3>2. Len(trail[r]) >= 2 /\ trail[r][1] = "session" /\ trail[r][2] = "request"
        BY <2>1, <3>1 DEF Orderly
      <3>3. \A k \in DOMAIN trail[r] : k > 2 => trail[r][k] \notin {"session", "request"}
        BY <2>1, <2>2, <3>2 DEF Orderly, Distinct
      <3>4. CASE i = 1
        BY <3>2, <3>4 DEF Rank
      <3>5. CASE i = 2
        BY <2>2, <2>3, <3>2, <3>3, <3>5 DEF Rank
      <3>6. CASE i > 2
        BY <2>2, <2>3, <3>3, <3>6 DEF Rank
      <3>7. QED
        BY <2>2, <3>4, <3>5, <3>6
    <2>4. QED
      BY <2>1, <2>3 DEF Orderly, Distinct
  <1>2. QED
    BY <1>1, Invariance, PTL

\* The status API shows the phase of the node the graph entered last
\* (_tracked in graph.py).
THEOREM PhasesTrack == Spec => []PhaseTracksGraph
  <1>1. IInv => PhaseTracksGraph
    <2> SUFFICES ASSUME IInv, NEW r \in Requests,
                        handler[r] \in {"awaiting", "cancelled"}
                 PROVE  phase[r] = CASE graph[r] = "start"      -> "governance"
                                     [] graph[r] = "engineered" -> "engineering"
                                     [] graph[r] \in {"reviewing", "reviewed"} -> "reviewing"
                                     [] graph[r] = "spawned"    -> "spawning"
                                     [] graph[r] \in {"responding", "done"} -> "responding"
                                     [] graph[r] = "failed"     ->
                                          IF phase[r] = "reviewing" THEN phase[r]
                                          ELSE "responding"
      BY DEF PhaseTracksGraph
    <2>1. Tracks(r) /\ Story(r) /\ TasksTypeOK
      BY DEF IInv, RequestInv
    <2>2. graph[r] \in {"start", "engineered", "reviewing", "reviewed", "spawned",
                        "responding", "done", "failed"}
      BY <2>1 DEF Story, TasksTypeOK
    <2>3. QED
      BY <2>1, <2>2 DEF Tracks
  <1>2. QED
    BY <1>1, Invariance, PTL

\* The three indexes of the state store agree (_evict_finished).
THEOREM StoreIndexesAgree == Spec => []IndexesAgree
  <1>1. IInv => IndexesAgree
    BY RunsInvIndexes DEF IInv
  <1>2. QED
    BY <1>1, Invariance, PTL

\* No step changes the outcome of a run that has one.
LEMMA OutcomeStays ==
    ASSUME IInv, [Next]_vars, NEW q \in Requests, endedAs[q] # "none"
    PROVE  endedAs'[q] = endedAs[q]
  <1>1. endedAs \in [Requests -> TerminalPhases \union {"none"}] /\ OutcomesAgree
    BY DEF IInv, RunsInv, RunsTypeOK
  <1>2. ASSUME NEW r \in Requests, NEW p, EnterPhase(r, p)
        PROVE  endedAs' = endedAs
    BY <1>2 DEF EnterPhase, runVars
  <1>3. ASSUME NEW r \in Requests, NEW outcome, FinishRun(r, outcome)
        PROVE  endedAs'[q] = endedAs[q]
    <2>1. Unfinished(r) => r # q
      BY <1>1 DEF Unfinished, OutcomesAgree
    <2>2. QED
      BY <1>1, <1>3, <2>1 DEF FinishRun, EndRun, runVars
  <1>4. ASSUME NEW r \in Requests, Reject(r)
        PROVE  endedAs'[q] = endedAs[q]
    <2>1. handler[r] = "new"
      BY <1>4 DEF Reject, Handler
    <2>2. phase[r] = "unknown"
      BY <2>1 DEF IInv, RequestInv, Story
    <2>3. r # q
      BY <1>1, <2>2 DEF OutcomesAgree
    <2>4. PICK s \in Sessions : EndRun(r, "failed", Listed(r, s))
      BY <1>4 DEF Reject, StartAndFailRun
    <2>5. QED
      BY <1>1, <2>3, <2>4 DEF EndRun
  <1>5. ASSUME NEW r \in Requests, Refuse(r) \/ Accept(r)
        PROVE  endedAs' = endedAs
    BY <1>5 DEF Refuse, Accept, StartRun, runVars
  <1>6. ASSUME NEW r \in Requests, Node(r)
        PROVE  endedAs' = endedAs
    BY <1>2, <1>6 DEF Node, Engineer, Review, SpawnAgent, Respond
  <1>7. ASSUME NEW r \in Requests,
               Leave(r) \/ GenerationTimesOut(r) \/ HandlerCancelled(r)
        PROVE  endedAs' = endedAs
    BY <1>7 DEF Leave, GenerationReturns, GenerationCrashes, ThreadLeaves,
                GenerationTimesOut, HandlerCancelled, runVars
  <1>8. ASSUME NEW r \in Requests, Wake(r) \/ RequestTimesOut(r)
        PROVE  endedAs'[q] = endedAs[q]
    BY <1>3, <1>8 DEF Wake, Answer, GraphFailed, RequestTimesOut, FailRequest
  <1>9. ASSUME NEW b \in BackgroundCalls, AgentStep(b)
        PROVE  endedAs' = endedAs
    BY <1>9 DEF AgentStep, runVars
  <1>10. CASE UNCHANGED vars
    BY <1>10 DEF vars, runVars
  <1>11. QED
    BY <1>4, <1>5, <1>6, <1>7, <1>8, <1>9, <1>10 DEF Next

\* A graph abandoned by its request never resurrects the request's run
\* (update_run_phase, _finish_run in state/store.py).
THEOREM EndedRunsStay == Spec => EndedRunIsFinal
  <1>1. IInv /\ IInv' /\ [Next]_vars
          => [\A r \in Requests : endedAs[r] # "none" =>
                endedAs'[r] = endedAs[r] /\ phase'[r] \in {endedAs[r], "evicted"}]_runVars
    <2> SUFFICES ASSUME IInv, IInv', [Next]_vars, NEW r \in Requests, endedAs[r] # "none"
                 PROVE  endedAs'[r] = endedAs[r] /\ phase'[r] \in {endedAs[r], "evicted"}
      OBVIOUS
    <2>1. endedAs'[r] = endedAs[r]
      BY OutcomeStays
    <2>2. phase'[r] \in TerminalPhases \union {"evicted"}
      BY <2>1 DEF IInv, RunsInv, RunsTypeOK, OutcomesAgree, NoRun
    <2>3. phase'[r] \in TerminalPhases => phase'[r] = endedAs'[r]
      BY DEF IInv, RunsInv, OutcomesAgree
    <2>4. QED
      BY <2>1, <2>2, <2>3
  <1>2. QED
    BY <1>1, Invariance, PTL DEF Spec, EndedRunIsFinal

----------------------------------------------------------------------------
(* The runs on the way *)

\* What may be told of a run while the client has K messages: it is no later prompt's.
Hearable(K) ==
    {run \in [id : Requests, phase : LivePhases \union TerminalPhases] :
       run.id \in Prompts => run.id <= K}

Saying(K) == [type : {"run_updated", "session_updated", "run_evicted"}, run : Hearable(K)]

Carried(K) ==
    [type : {"snapshot"}, body : Seq(Hearable(K)), degraded : {FALSE}]
    \union [type : {"event"}, body : Saying(K), degraded : BOOLEAN]

\* Events of these runs are carried by these messages.
LEMMA CarriedCarries ==
    ASSUME NEW K
    PROVE  Carries(Carried(K), Saying(K))
  BY DEF Carries, Carried, Event

\* A message tells of runs a page with K prompts may hear of.
LEMMA RunsToldType ==
    ASSUME NEW K, NEW m \in Carried(K)
    PROVE  RunsTold(m) \in Seq(Hearable(K))
  <1>1. CASE m.type = "snapshot"
    BY <1>1 DEF Carried, RunsTold
  <1>2. CASE m.type # "snapshot"
    <2>1. m.body \in Saying(K)
      BY <1>2 DEF Carried
    <2>2. m.body.run \in Hearable(K)
      BY <2>1 DEF Saying
    <2>3. <<m.body.run>> \in Seq(Hearable(K)) /\ << >> \in Seq(Hearable(K))
      BY <2>2
    <2>4. QED
      BY <1>2, <2>3 DEF RunsTold
  <1>3. QED
    BY <1>1, <1>2

\* The flag of an event does not matter.
LEMMA RunsToldFlag ==
    ASSUME NEW b, NEW d
    PROVE  RunsTold(Event(b, d)) = RunsTold(Event(b, FALSE))
  BY DEF RunsTold, Event

Tellings(w) == [i \in DOMAIN w |-> RunsTold(w[i])]

\* What each message of a list tells.
LEMMA TellingsType ==
    ASSUME NEW K, NEW w \in Seq(Carried(K))
    PROVE  /\ Tellings(w) \in Seq(Seq(Hearable(K)))
           /\ Len(Tellings(w)) = Len(w)
           /\ \A i \in 1 .. Len(w) : Tellings(w)[i] = RunsTold(w[i])
  <1> DEFINE e(i) == RunsTold(w[i])
  <1>1. Len(w) \in Nat /\ DOMAIN w = 1 .. Len(w)
    BY LenProperties
  <1>2. \A i \in 1 .. Len(w) : e(i) \in Seq(Hearable(K))
    BY ElementOfSeq, RunsToldType
  <1>3. Tellings(w) = [i \in 1 .. Len(w) |-> e(i)]
    BY <1>1 DEF Tellings
  <1>4. Tellings(w) \in Seq(Seq(Hearable(K)))
    <2> HIDE DEF e
    <2>1. QED
      BY <1>1, <1>2, <1>3, IsASeq
  <1>5. QED
    BY <1>1, <1>3, <1>4, LenProperties

\* It is known message by message.
LEMMA TellingsConcat ==
    ASSUME NEW K, NEW v \in Seq(Carried(K)), NEW w \in Seq(Carried(K))
    PROVE  Tellings(v \o w) = Tellings(v) \o Tellings(w)
  <1>1. PICK x \in Seq(Carried(K)) : x = v \o w
    BY ConcatProperties
  <1>2. /\ Len(v) \in Nat /\ Len(w) \in Nat
        /\ Len(x) = Len(v) + Len(w)
        /\ \A i \in 1 .. Len(v) : x[i] = v[i]
        /\ \A i \in 1 .. Len(w) : x[Len(v) + i] = w[i]
    BY <1>1, ConcatAt
  <1>3. PICK t \in Seq(Seq(Hearable(K))) :
          t = Tellings(x) /\ Len(t) = Len(x) /\ \A i \in 1 .. Len(x) : t[i] = RunsTold(x[i])
    BY TellingsType
  <1>4. PICK p \in Seq(Seq(Hearable(K))) :
          p = Tellings(v) /\ Len(p) = Len(v) /\ \A i \in 1 .. Len(v) : p[i] = RunsTold(v[i])
    BY TellingsType
  <1>5. PICK q \in Seq(Seq(Hearable(K))) :
          q = Tellings(w) /\ Len(q) = Len(w) /\ \A i \in 1 .. Len(w) : q[i] = RunsTold(w[i])
    BY TellingsType
  <1>6. \A i \in 1 .. Len(p) : t[i] = p[i]
    BY <1>2, <1>3, <1>4
  <1>7. \A i \in 1 .. Len(q) : t[Len(p) + i] = q[i]
    <2> SUFFICES ASSUME NEW i \in 1 .. Len(w)
                 PROVE  t[Len(v) + i] = q[i]
      BY <1>4, <1>5
    <2>1. Len(v) + i \in 1 .. Len(x) /\ x[Len(v) + i] = w[i]
      BY <1>2
    <2>2. QED
      BY <1>3, <1>5, <2>1
  <1>8. Len(t) = Len(p) + Len(q)
    BY <1>2, <1>3, <1>4, <1>5
  <1>9. t = p \o q
    BY <1>6, <1>7, <1>8, IsConcat
  <1>10. QED
    BY <1>1, <1>3, <1>4, <1>5, <1>9, Zenon

\* The runs that messages tell of.
ToldIn(w) == Joined(Tellings(w))

\* What two lists tell, one after the other.
LEMMA ToldConcat ==
    ASSUME NEW K, NEW v \in Seq(Carried(K)), NEW w \in Seq(Carried(K))
    PROVE  /\ ToldIn(v) \in Seq(Hearable(K))
           /\ ToldIn(w) \in Seq(Hearable(K))
           /\ ToldIn(v \o w) = ToldIn(v) \o ToldIn(w)
  <1>1. Tellings(v) \in Seq(Seq(Hearable(K))) /\ Tellings(w) \in Seq(Seq(Hearable(K)))
    BY TellingsType
  <1>2. Joined(Tellings(v) \o Tellings(w)) = Joined(Tellings(v)) \o Joined(Tellings(w))
    BY <1>1, JoinedConcat
  <1>3. Joined(Tellings(v)) \in Seq(Hearable(K)) /\ Joined(Tellings(w)) \in Seq(Hearable(K))
    BY <1>1, JoinedSeq
  <1>4. Tellings(v \o w) = Tellings(v) \o Tellings(w)
    BY TellingsConcat
  <1>5. QED
    BY <1>2, <1>3, <1>4, Zenon DEF ToldIn

\* What one message tells.
LEMMA ToldOne ==
    ASSUME NEW K, NEW m \in Carried(K)
    PROVE  ToldIn(<<m>>) = RunsTold(m)
  <1>1. Tellings(<<m>>) = <<RunsTold(m)>>
    BY DEF Tellings
  <1>2. RunsTold(m) \in Seq(Hearable(K))
    BY RunsToldType
  <1>3. Joined(<<RunsTold(m)>>) = RunsTold(m)
    BY <1>2, JoinedOne
  <1>4. QED
    BY <1>1, <1>3, Zenon DEF ToldIn

\* The events in a queue.
Queued(q) == [i \in DOMAIN q |-> Event(q[i].body, FALSE)]

\* The queue as the messages it will become.
LEMMA QueuedType ==
    ASSUME NEW K, NEW q \in Seq(Entry(Saying(K)))
    PROVE  /\ Queued(q) \in Seq(Carried(K))
           /\ Len(Queued(q)) = Len(q)
           /\ \A i \in 1 .. Len(q) : Queued(q)[i] = Event(q[i].body, FALSE)
  <1> DEFINE e(i) == Event(q[i].body, FALSE)
  <1>1. Len(q) \in Nat /\ DOMAIN q = 1 .. Len(q)
    BY LenProperties
  <1>2. \A i \in 1 .. Len(q) : e(i) \in Carried(K)
    <2>1. ASSUME NEW i \in 1 .. Len(q)
          PROVE  q[i].body \in Saying(K)
      <3>1. q[i] \in Entry(Saying(K))
        BY ElementOfSeq
      <3>2. QED
        BY <3>1 DEF Entry
    <2>2. QED
      BY <2>1, CarriedCarries DEF Carries
  <1>3. Queued(q) = [i \in 1 .. Len(q) |-> e(i)]
    BY <1>1 DEF Queued
  <1>4. Queued(q) \in Seq(Carried(K))
    <2> HIDE DEF e
    <2>1. QED
      BY <1>1, <1>2, <1>3, IsASeq
  <1>5. PICK t \in Seq(Carried(K)) : t = Queued(q)
    BY <1>4
  <1> HIDE DEF e
  <1>6. DOMAIN t = 1 .. Len(q) /\ \A i \in 1 .. Len(q) : t[i] = e(i)
    BY <1>3, <1>5
  <1>7. Len(t) \in Nat /\ DOMAIN t = 1 .. Len(t)
    BY LenProperties
  <1>8. Len(t) = Len(q)
    BY <1>1, <1>6, <1>7
  <1>9. QED
    BY <1>5, <1>6, <1>8 DEF e

\* It is known event by event.
LEMMA QueuedConcat ==
    ASSUME NEW K, NEW v \in Seq(Entry(Saying(K))), NEW w \in Seq(Entry(Saying(K)))
    PROVE  Queued(v \o w) = Queued(v) \o Queued(w)
  <1>1. PICK x \in Seq(Entry(Saying(K))) : x = v \o w
    BY ConcatProperties
  <1>2. /\ Len(v) \in Nat /\ Len(w) \in Nat
        /\ Len(x) = Len(v) + Len(w)
        /\ \A i \in 1 .. Len(v) : x[i] = v[i]
        /\ \A i \in 1 .. Len(w) : x[Len(v) + i] = w[i]
    BY <1>1, ConcatAt
  <1>3. PICK t \in Seq(Carried(K)) :
          t = Queued(x) /\ Len(t) = Len(x) /\ \A i \in 1 .. Len(x) : t[i] = Event(x[i].body, FALSE)
    BY QueuedType
  <1>4. PICK p \in Seq(Carried(K)) :
          p = Queued(v) /\ Len(p) = Len(v) /\ \A i \in 1 .. Len(v) : p[i] = Event(v[i].body, FALSE)
    BY QueuedType
  <1>5. PICK q \in Seq(Carried(K)) :
          q = Queued(w) /\ Len(q) = Len(w) /\ \A i \in 1 .. Len(w) : q[i] = Event(w[i].body, FALSE)
    BY QueuedType
  <1>6. \A i \in 1 .. Len(p) : t[i] = p[i]
    <2> SUFFICES ASSUME NEW i \in 1 .. Len(v)
                 PROVE  t[i] = p[i]
      BY <1>4
    <2>1. i \in 1 .. Len(x) /\ x[i] = v[i]
      BY <1>2
    <2>2. QED
      BY <1>3, <1>4, <2>1
  <1>7. \A i \in 1 .. Len(q) : t[Len(p) + i] = q[i]
    <2> SUFFICES ASSUME NEW i \in 1 .. Len(w)
                 PROVE  t[Len(v) + i] = q[i]
      BY <1>4, <1>5
    <2>1. Len(v) + i \in 1 .. Len(x) /\ x[Len(v) + i] = w[i]
      BY <1>2
    <2>2. QED
      BY <1>3, <1>5, <2>1
  <1>8. Len(t) = Len(p) + Len(q)
    BY <1>2, <1>3, <1>4, <1>5
  <1>9. t = p \o q
    BY <1>6, <1>7, <1>8, IsConcat
  <1>10. QED
    BY <1>1, <1>3, <1>4, <1>5, <1>9, Zenon

\* One event becomes one message.
LEMMA QueuedOne ==
    ASSUME NEW K, NEW e \in Entry(Saying(K))
    PROVE  Queued(<<e>>) = <<Event(e.body, FALSE)>>
  <1>1. PICK q \in Seq(Entry(Saying(K))) : q = <<e>>
    BY OneProperties
  <1>2. Len(q) = 1 /\ q[1] = e
    BY <1>1, OneProperties
  <1>3. /\ Queued(q) \in Seq(Carried(K))
        /\ Len(Queued(q)) = Len(q)
        /\ \A i \in 1 .. Len(q) : Queued(q)[i] = Event(q[i].body, FALSE)
    BY QueuedType
  <1>4. 1 \in 1 .. Len(q)
    BY <1>2
  <1>5. Len(Queued(q)) = 1 /\ Queued(q)[1] = Event(q[1].body, FALSE)
    BY <1>2, <1>3, <1>4
  <1>6. Queued(q) = <<Queued(q)[1]>>
    BY <1>3, <1>5, IsOne
  <1>7. QED
    BY <1>1, <1>2, <1>5, <1>6, Zenon

\* The runs that the messages w and the events q behind them tell of.
ComingOf(w, q) == ToldIn(w \o Queued(q))

\* Coming, written over wire and queue.
LEMMA ComingIs ==
    /\ Coming = ComingOf(wire, queue)
    /\ Coming' = ComingOf(wire', queue')
  <1>1. OnTheWay = wire \o Queued(queue) /\ OnTheWay' = wire' \o Queued(queue')
    BY DEF OnTheWay, Queued
  <1>2. Coming = Joined(Tellings(OnTheWay)) /\ Coming' = Joined(Tellings(OnTheWay'))
    BY DEF Coming, Tellings
  <1>3. QED
    BY <1>1, <1>2, Zenon DEF ComingOf, ToldIn

\* It is what the wire tells, and then what the queue tells.
LEMMA ComingParts ==
    ASSUME NEW K, NEW w \in Seq(Carried(K)), NEW q \in Seq(Entry(Saying(K)))
    PROVE  /\ ToldIn(w) \in Seq(Hearable(K))
           /\ ToldIn(Queued(q)) \in Seq(Hearable(K))
           /\ ComingOf(w, q) = ToldIn(w) \o ToldIn(Queued(q))
           /\ ComingOf(w, q) \in Seq(Hearable(K))
  <1>1. Queued(q) \in Seq(Carried(K))
    BY QueuedType
  <1>2. /\ ToldIn(w) \in Seq(Hearable(K))
        /\ ToldIn(Queued(q)) \in Seq(Hearable(K))
        /\ ToldIn(w \o Queued(q)) = ToldIn(w) \o ToldIn(Queued(q))
    BY <1>1, ToldConcat
  <1>3. ToldIn(w) \o ToldIn(Queued(q)) \in Seq(Hearable(K))
    BY <1>2, ConcatProperties
  <1>4. QED
    BY <1>2, <1>3, Zenon DEF ComingOf

\* Forwarding an event changes nothing.
LEMMA ComingForwards ==
    ASSUME NEW K, NEW w \in Seq(Carried(K)), NEW q \in Seq(Entry(Saying(K))), q # << >>,
           NEW d \in BOOLEAN
    PROVE  ComingOf(Append(w, Event(Head(q).body, d)), Tail(q)) = ComingOf(w, q)
  <1>1. /\ Head(q) \in Entry(Saying(K))
        /\ Tail(q) \in Seq(Entry(Saying(K)))
        /\ <<Head(q)>> \o Tail(q) = q
    BY HeadTailProperties
  <1>2. PICK e \in Entry(Saying(K)), r \in Seq(Entry(Saying(K))) :
          e = Head(q) /\ r = Tail(q) /\ q = <<e>> \o r
    BY <1>1, Zenon
  <1>3. PICK b \in Saying(K) : b = e.body
    BY DEF Entry
  <1>4. PICK m \in Carried(K), k \in Carried(K) : m = Event(b, d) /\ k = Event(b, FALSE)
    BY CarriedCarries DEF Carries
  <1>5. PICK v \in Seq(Carried(K)) : v = Append(w, m) /\ v = w \o <<m>>
    <2>1. Append(w, m) \in Seq(Carried(K))
      BY AppendProperties
    <2>2. Append(w, m) = w \o <<m>>
      BY AppendIsConcat
    <2>3. QED
      BY <2>1, <2>2, Zenon
  <1>6. <<m>> \in Seq(Carried(K)) /\ <<k>> \in Seq(Carried(K)) /\ <<e>> \in Seq(Entry(Saying(K)))
    OBVIOUS
  <1>7. /\ ToldIn(w) \in Seq(Hearable(K))
        /\ ToldIn(<<m>>) \in Seq(Hearable(K))
        /\ ToldIn(w \o <<m>>) = ToldIn(w) \o ToldIn(<<m>>)
    BY <1>6, ToldConcat
  <1>8. ToldIn(<<m>>) = RunsTold(m) /\ ToldIn(<<k>>) = RunsTold(k) /\ RunsTold(m) = RunsTold(k)
    BY <1>4, ToldOne, RunsToldFlag
  <1>9. ComingOf(v, r) = ToldIn(v) \o ToldIn(Queued(r)) /\ ToldIn(Queued(r)) \in Seq(Hearable(K))
    BY ComingParts
  <1>10. ComingOf(w, q) = ToldIn(w) \o ToldIn(Queued(q))
    BY ComingParts
  <1>11. Queued(<<e>> \o r) = Queued(<<e>>) \o Queued(r)
    BY <1>6, QueuedConcat
  <1>12. Queued(<<e>>) = <<k>>
    BY <1>3, <1>4, QueuedOne
  <1>13. Queued(r) \in Seq(Carried(K))
    BY QueuedType
  <1>14. ToldIn(<<k>> \o Queued(r)) = ToldIn(<<k>>) \o ToldIn(Queued(r))
    BY <1>6, <1>13, ToldConcat
  <1>15. ToldIn(Queued(q)) = ToldIn(<<m>>) \o ToldIn(Queued(r))
    BY <1>2, <1>8, <1>11, <1>12, <1>14, Zenon
  <1>16. (ToldIn(w) \o ToldIn(<<m>>)) \o ToldIn(Queued(r))
           = ToldIn(w) \o (ToldIn(<<m>>) \o ToldIn(Queued(r)))
    <2>1. PICK x \in Seq(Hearable(K)), y \in Seq(Hearable(K)), z \in Seq(Hearable(K)) :
            x = ToldIn(w) /\ y = ToldIn(<<m>>) /\ z = ToldIn(Queued(r))
      BY <1>7, <1>9
    <2>2. (x \o y) \o z = x \o (y \o z)
      BY ConcatAssociative, SMTT(30)
    <2>3. QED
      BY <2>1, <2>2, Zenon
  <1>17. ComingOf(v, r) = ComingOf(w, q)
    BY <1>5, <1>7, <1>9, <1>10, <1>15, <1>16, Zenon
  <1>18. QED
    BY <1>2, <1>3, <1>4, <1>5, <1>17, Zenon

\* A message arrives.
LEMMA ComingArrives ==
    ASSUME NEW K, NEW w \in Seq(Carried(K)), NEW q \in Seq(Entry(Saying(K))), w # << >>
    PROVE  /\ RunsTold(Head(w)) \in Seq(Hearable(K))
           /\ ComingOf(Tail(w), q) \in Seq(Hearable(K))
           /\ ComingOf(w, q) = RunsTold(Head(w)) \o ComingOf(Tail(w), q)
  <1>1. /\ Head(w) \in Carried(K)
        /\ Tail(w) \in Seq(Carried(K))
        /\ <<Head(w)>> \o Tail(w) = w
    BY HeadTailProperties
  <1>2. PICK m \in Carried(K), v \in Seq(Carried(K)) :
          m = Head(w) /\ v = Tail(w) /\ w = <<m>> \o v
    BY <1>1, Zenon
  <1>3. <<m>> \in Seq(Carried(K))
    OBVIOUS
  <1>4. ToldIn(<<m>> \o v) = ToldIn(<<m>>) \o ToldIn(v)
    BY <1>3, ToldConcat
  <1>5. ToldIn(<<m>>) = RunsTold(m) /\ RunsTold(m) \in Seq(Hearable(K))
    BY ToldOne, RunsToldType
  <1>6. ComingOf(w, q) = ToldIn(w) \o ToldIn(Queued(q))
    BY ComingParts
  <1>7. /\ ToldIn(v) \in Seq(Hearable(K))
        /\ ToldIn(Queued(q)) \in Seq(Hearable(K))
        /\ ComingOf(v, q) = ToldIn(v) \o ToldIn(Queued(q))
        /\ ComingOf(v, q) \in Seq(Hearable(K))
    BY ComingParts
  <1>8. (RunsTold(m) \o ToldIn(v)) \o ToldIn(Queued(q))
          = RunsTold(m) \o (ToldIn(v) \o ToldIn(Queued(q)))
    <2>1. PICK x \in Seq(Hearable(K)), y \in Seq(Hearable(K)), z \in Seq(Hearable(K)) :
            x = RunsTold(m) /\ y = ToldIn(v) /\ z = ToldIn(Queued(q))
      BY <1>5, <1>7
    <2>2. (x \o y) \o z = x \o (y \o z)
      BY ConcatAssociative, SMTT(30)
    <2>3. QED
      BY <2>1, <2>2, Zenon
  <1>9. ComingOf(w, q) = RunsTold(m) \o ComingOf(v, q)
    BY <1>2, <1>4, <1>5, <1>6, <1>7, <1>8, Zenon
  <1>10. QED
    BY <1>2, <1>5, <1>7, <1>9, Zenon

\* Events are queued.
LEMMA ComingGrows ==
    ASSUME NEW K, NEW w \in Seq(Carried(K)), NEW q \in Seq(Entry(Saying(K))),
           NEW s \in Seq(Entry(Saying(K)))
    PROVE  /\ ToldIn(Queued(s)) \in Seq(Hearable(K))
           /\ ComingOf(w, q) \in Seq(Hearable(K))
           /\ ComingOf(w, q \o s) = ComingOf(w, q) \o ToldIn(Queued(s))
  <1>1. PICK t \in Seq(Entry(Saying(K))) : t = q \o s
    BY ConcatProperties
  <1>2. Queued(q) \in Seq(Carried(K)) /\ Queued(s) \in Seq(Carried(K))
    BY QueuedType
  <1>3. Queued(q \o s) = Queued(q) \o Queued(s)
    BY QueuedConcat
  <1>4. /\ ToldIn(Queued(q)) \in Seq(Hearable(K))
        /\ ToldIn(Queued(s)) \in Seq(Hearable(K))
        /\ ToldIn(Queued(q) \o Queued(s)) = ToldIn(Queued(q)) \o ToldIn(Queued(s))
    BY <1>2, ToldConcat
  <1>5. /\ ToldIn(w) \in Seq(Hearable(K))
        /\ ComingOf(w, q) = ToldIn(w) \o ToldIn(Queued(q))
        /\ ComingOf(w, q) \in Seq(Hearable(K))
    BY ComingParts
  <1>6. ComingOf(w, t) = ToldIn(w) \o ToldIn(Queued(t))
    BY ComingParts
  <1>7. (ToldIn(w) \o ToldIn(Queued(q))) \o ToldIn(Queued(s))
          = ToldIn(w) \o (ToldIn(Queued(q)) \o ToldIn(Queued(s)))
    <2>1. PICK x \in Seq(Hearable(K)), y \in Seq(Hearable(K)), z \in Seq(Hearable(K)) :
            x = ToldIn(w) /\ y = ToldIn(Queued(q)) /\ z = ToldIn(Queued(s))
      BY <1>4, <1>5
    <2>2. (x \o y) \o z = x \o (y \o z)
      BY ConcatAssociative, SMTT(30)
    <2>3. QED
      BY <2>1, <2>2, Zenon
  <1>8. QED
    BY <1>1, <1>3, <1>4, <1>5, <1>6, <1>7, Zenon

----------------------------------------------------------------------------
(* The page *)

ChatMessage == [status : {"pending", "completed", "failed"},
                claim : {Unclaimed} \union Requests, shown : Shown]

\* What ClaimsAreHonest says, of any messages m.
Honest(m) ==
    \A i \in DOMAIN m :
        m[i].claim # Unclaimed =>
            /\ m[i].claim \in 1 .. i
            /\ m[i].claim # i => /\ m[m[i].claim].status = "failed"
                                 /\ m[i].status # "completed"
            /\ \A j \in DOMAIN m : m[j].claim = m[i].claim => j = i

Page(m) ==
    /\ m \in Seq(ChatMessage) /\ Len(m) <= MaxPrompts
    /\ \A i \in DOMAIN m : Pending(m[i]) => i = Len(m)
    /\ \A i \in DOMAIN m : m[i].status = "completed" => m[i].claim = i
    /\ Honest(m)

Claimable(run) == SessionOf[run.id] = session /\ run.phase \notin TerminalPhases

\* The least of one number.
LEMMA MinOfOne ==
    ASSUME NEW k \in Nat, NEW S, S = {k}
    PROVE  Min(S) = k
  BY DEF Min

\* m with message i tied to the run and showing it.
Tied(m, i, run) == [m EXCEPT ![i] = Prompt("pending", run.id, run.phase)]

Ignores(m, run) ==
    \A i \in DOMAIN m : Pending(m[i]) =>
        /\ m[i].claim # run.id
        /\ m[i].claim = Unclaimed /\ Claimable(run) =>
             \E j \in DOMAIN m : m[j].claim = run.id

Ties(m, i, run) ==
    /\ Pending(m[i])
    /\ m[i].claim \in {Unclaimed, run.id}
    /\ m[i].claim = Unclaimed => Claimable(run)
    /\ \A j \in DOMAIN m : m[j].claim = run.id => j = i

\* What the reducer does with a run: nothing, or the pending message is tied to it.
LEMMA RunUpdatedIs ==
    ASSUME ChatAssumption, NEW m, Page(m), NEW run \in Hearable(Len(m))
    PROVE  \/ RunUpdated(m, run) = m /\ Ignores(m, run)
           \/ \E i \in DOMAIN m : Ties(m, i, run) /\ RunUpdated(m, run) = Tied(m, i, run)
  <1> DEFINE tied == {i \in DOMAIN m : m[i].claim = run.id}
             free == {i \in DOMAIN m : Pending(m[i]) /\ m[i].claim = Unclaimed}
             res == RunUpdated(m, run)
  <1>1. res = CASE tied # {} ->
                     [m EXCEPT ![Min(tied)].shown =
                                 IF Pending(m[Min(tied)]) THEN run.phase ELSE @]
                [] /\ tied = {} /\ free # {}
                   /\ SessionOf[run.id] = session
                   /\ run.phase \notin TerminalPhases ->
                     [m EXCEPT ![Min(free)] = Prompt("pending", run.id, run.phase)]
                [] OTHER -> m
    BY DEF RunUpdated
  <1>2. /\ m \in Seq(ChatMessage) /\ DOMAIN m = 1 .. Len(m) /\ Len(m) \in Nat
        /\ \A i \in DOMAIN m : m[i] \in ChatMessage
        /\ m \in [DOMAIN m -> ChatMessage]
    BY LenProperties, ElementOfSeq DEF Page
  <1>3. run.id \in Requests /\ run.id # Unclaimed
    BY DEF Hearable, ChatAssumption, Unclaimed
  <1>4. \A i, j \in DOMAIN m : m[i].claim = run.id /\ m[j].claim = run.id => i = j
    BY <1>3 DEF Page, Honest
  <1>5. CASE tied # {}
    <2>1. PICK k \in DOMAIN m : m[k].claim = run.id
      BY <1>5
    <2>2. tied = {k}
      BY <1>4, <2>1
    <2>3. k \in Nat
      BY <1>2
    <2>4. Min(tied) = k
      BY <2>2, <2>3, MinOfOne
    <2>5. res = [m EXCEPT ![k].shown = IF Pending(m[k]) THEN run.phase ELSE @]
      <3> HIDE DEF tied, free, res
      <3>1. QED
        BY <1>1, <1>5, <2>4
    <2>6. m[k] \in ChatMessage
      BY <1>2
    <2>7. CASE Pending(m[k])
      <3>1. [m[k] EXCEPT !.shown = run.phase] = Prompt("pending", run.id, run.phase)
        BY <2>1, <2>6, <2>7 DEF ChatMessage, Prompt, Pending
      <3>2. res = [m EXCEPT ![k].shown = run.phase]
        BY <2>5, <2>7
      <3>3. res = Tied(m, k, run)
        <4> HIDE DEF tied, free, res
        <4>1. QED
          BY <3>1, <3>2, Zenon DEF Tied
      <3>4. Ties(m, k, run)
        BY <1>3, <1>4, <2>1, <2>7 DEF Ties
      <3>5. QED
        BY <3>3, <3>4
    <2>8. CASE ~Pending(m[k])
      <3>1. res = [m EXCEPT ![k].shown = m[k].shown]
        BY <2>5, <2>8
      <3>2. [m[k] EXCEPT !.shown = m[k].shown] = m[k]
        BY <2>6 DEF ChatMessage
      <3>3. res = m
        <4> HIDE DEF tied, free, res
        <4>1. QED
          BY <1>2, <3>1, <3>2
      <3>4. Ignores(m, run)
        BY <1>4, <2>1, <2>8 DEF Ignores
      <3>5. QED
        BY <3>3, <3>4
    <2>9. QED
      BY <2>7, <2>8
  <1>6. CASE tied = {}
    <2>1. \A i \in DOMAIN m : m[i].claim # run.id
      BY <1>6
    <2>2. CASE free # {} /\ Claimable(run)
      <3>1. PICK k \in DOMAIN m : Pending(m[k]) /\ m[k].claim = Unclaimed
        BY <2>2
      <3>2. free = {k}
        BY <3>1 DEF Page
      <3>3. k \in Nat
        BY <1>2
      <3>4. Min(free) = k
        BY <3>2, <3>3, MinOfOne
      <3>5. res = [m EXCEPT ![Min(free)] = Prompt("pending", run.id, run.phase)]
        <4>1. ~(tied # {})
          BY <1>6
        <4> HIDE DEF tied, free, res
        <4>2. QED
          BY <1>1, <1>6, <2>2, <4>1 DEF Claimable
      <3>6. res = Tied(m, k, run)
        <4> HIDE DEF tied, free, res
        <4>1. QED
          BY <3>4, <3>5, Zenon DEF Tied
      <3>7. Ties(m, k, run)
        BY <2>1, <2>2, <3>1 DEF Ties
      <3>8. QED
        BY <3>6, <3>7
    <2>3. CASE ~(free # {} /\ Claimable(run))
      <3>1. res = m
        <4> HIDE DEF tied, free, res
        <4>1. QED
          BY <1>1, <1>6, <2>3 DEF Claimable
      <3>2. Ignores(m, run)
        BY <2>1, <2>3 DEF Ignores
      <3>3. QED
        BY <3>1, <3>2
    <2>4. QED
      BY <2>2, <2>3
  <1>7. QED
    BY <1>5, <1>6

\* The page stays in order.
LEMMA TiedPage ==
    ASSUME ChatAssumption, NEW m, Page(m), NEW run \in Hearable(Len(m)),
           NEW i \in DOMAIN m, Ties(m, i, run)
    PROVE  /\ Page(Tied(m, i, run))
           /\ Len(Tied(m, i, run)) = Len(m)
           /\ \A j \in DOMAIN m : j # i => Tied(m, i, run)[j] = m[j]
           /\ Tied(m, i, run)[i] = Prompt("pending", run.id, run.phase)
  <1> DEFINE line == Prompt("pending", run.id, run.phase)
  <1>1. /\ m \in Seq(ChatMessage) /\ DOMAIN m = 1 .. Len(m) /\ Len(m) \in Nat
        /\ \A j \in DOMAIN m : m[j] \in ChatMessage
    BY LenProperties, ElementOfSeq DEF Page
  <1>2. /\ run.id \in Requests /\ run.id # Unclaimed /\ run.phase \in Shown
        /\ run.id \in Prompts => run.id <= Len(m)
    BY DEF Hearable, ChatAssumption, Unclaimed, Shown
  <1>3. line \in ChatMessage
    BY <1>2 DEF ChatMessage, Prompt
  <1>4. PICK u \in Seq(ChatMessage) : u = Tied(m, i, run)
    BY <1>1, <1>3, ExceptSeq DEF Tied
  <1>5. /\ Len(u) = Len(m)
        /\ \A j \in 1 .. Len(m) : u[j] = IF j = i THEN line ELSE m[j]
    BY <1>1, <1>3, <1>4, ExceptSeq DEF Tied
  <1>6. DOMAIN u = DOMAIN m
    BY <1>1, <1>5, LenProperties
  <1>7. u[i] = line /\ \A j \in DOMAIN m : j # i => u[j] = m[j]
    BY <1>1, <1>5
  <1>8. line.status = "pending" /\ line.claim = run.id
    BY DEF Prompt
  <1> HIDE DEF line
  <1>9. i = Len(m)
    BY DEF Page, Ties
  <1>10. \A j \in DOMAIN u : Pending(u[j]) => j = Len(u)
    BY <1>5, <1>6, <1>7, <1>9 DEF Page
  <1>11. \A j \in DOMAIN u : u[j].status = "completed" => u[j].claim = j
    BY <1>6, <1>7, <1>8 DEF Page
  <1>12. run.id \in 1 .. i
    <2>1. CASE m[i].claim = Unclaimed
      <3>1. run.id \in Prompts
        BY <1>2, <2>1 DEF Ties, Claimable, ChatAssumption
      <3>2. QED
        BY <1>2, <1>9, <3>1 DEF Prompts
    <2>2. CASE m[i].claim # Unclaimed
      BY <2>2 DEF Ties, Page, Honest
    <2>3. QED
      BY <2>1, <2>2
  <1>13. run.id # i => m[run.id].status = "failed"
    <2> SUFFICES ASSUME run.id # i
                 PROVE  m[run.id].status = "failed"
      OBVIOUS
    <2>1. run.id \in DOMAIN m /\ run.id # Len(m)
      BY <1>1, <1>9, <1>12
    <2>2. m[run.id].status # "pending"
      BY <2>1 DEF Page, Pending
    <2>3. m[run.id].status # "completed"
      BY <2>1 DEF Page, Ties
    <2>4. m[run.id] \in ChatMessage
      BY <1>1, <2>1
    <2>5. QED
      BY <2>2, <2>3, <2>4 DEF ChatMessage
  <1>14. Honest(u)
    <2> SUFFICES ASSUME NEW j \in DOMAIN m, u[j].claim # Unclaimed
                 PROVE  /\ u[j].claim \in 1 .. j
                        /\ u[j].claim # j => /\ u[u[j].claim].status = "failed"
                                             /\ u[j].status # "completed"
                        /\ \A k \in DOMAIN m : u[k].claim = u[j].claim => k = j
      BY <1>6 DEF Honest
    <2>1. CASE j = i
      <3>1. u[j].claim = run.id /\ u[j].status = "pending"
        BY <1>7, <1>8, <2>1
      <3>2. run.id # i => run.id \in DOMAIN m /\ u[run.id] = m[run.id]
        BY <1>1, <1>7, <1>9, <1>12
      <3>3. \A k \in DOMAIN m : u[k].claim = run.id => k = i
        BY <1>7 DEF Ties
      <3>4. QED
        BY <1>12, <1>13, <2>1, <3>1, <3>2, <3>3
    <2>2. CASE j # i
      <3>1. u[j] = m[j] /\ m[j].claim # Unclaimed
        BY <1>7, <2>2
      <3>2. /\ m[j].claim \in 1 .. j
            /\ m[j].claim # j => /\ m[m[j].claim].status = "failed"
                                 /\ m[j].status # "completed"
            /\ \A k \in DOMAIN m : m[k].claim = m[j].claim => k = j
        BY <3>1 DEF Page, Honest
      <3>3. m[j].claim \in DOMAIN m /\ m[j].claim # i
        BY <1>1, <1>9, <2>2, <3>2
      <3>4. u[m[j].claim] = m[m[j].claim]
        BY <1>7, <3>3
      <3>5. m[j].claim # run.id
        BY <2>2 DEF Ties
      <3>6. \A k \in DOMAIN m : u[k].claim = m[j].claim => k = j
        BY <1>7, <1>8, <3>2, <3>5
      <3>7. QED
        BY <3>1, <3>2, <3>4, <3>6
    <2>3. QED
      BY <2>1, <2>2
  <1>15. Page(u)
    BY <1>5, <1>10, <1>11, <1>14 DEF Page
  <1>16. QED
    BY <1>4, <1>5, <1>7, <1>15 DEF line

----------------------------------------------------------------------------
(* Replayed *)

\* after is what the definition of Replayed computes, for the first n runs.
Replays(shown, runs, after, n) ==
    after = [k \in 0 .. n |->
               IF k = 0 THEN shown ELSE RunUpdated(after[k - 1], runs[k])]

\* What after is at k.
LEMMA ReplaysAt ==
    ASSUME NEW shown, NEW runs, NEW after, NEW n \in Nat, Replays(shown, runs, after, n),
           NEW k \in 0 .. n
    PROVE  after[k] = IF k = 0 THEN shown ELSE RunUpdated(after[k - 1], runs[k])
  BY DEF Replays

\* The recursion defines something.
LEMMA ReplaysExists ==
    ASSUME NEW shown, NEW runs
    PROVE  \A n \in Nat : \E after : Replays(shown, runs, after, n)
  <1> DEFINE G == {n \in Nat : \E after : Replays(shown, runs, after, n)}
  <1>1. 0 \in G
    <2>1. Replays(shown, runs, [k \in 0 .. 0 |-> shown], 0)
      BY DEF Replays
    <2>2. QED
      BY <2>1
  <1>2. ASSUME NEW n \in Nat, n \in G
        PROVE  n + 1 \in G
    <2>1. PICK after : Replays(shown, runs, after, n)
      BY <1>2
    <2> DEFINE last == RunUpdated(after[n], runs[n + 1])
               more == [k \in 0 .. n + 1 |-> IF k = n + 1 THEN last ELSE after[k]]
    <2>2. \A k \in 0 .. n + 1 :
            more[k] = IF k = 0 THEN shown ELSE RunUpdated(more[k - 1], runs[k])
      <3> TAKE k \in 0 .. n + 1
      <3>1. k # 0 => more[k - 1] = after[k - 1]
        OBVIOUS
      <3>2. CASE k = n + 1
        <4>1. k # 0 /\ more[k] = last /\ more[k - 1] = after[n] /\ runs[k] = runs[n + 1]
          BY <3>1, <3>2
        <4> HIDE DEF more
        <4>2. QED
          BY <4>1, Zenon
      <3>3. CASE k # n + 1
        <4>1. more[k] = after[k] /\ k \in 0 .. n
          BY <3>3
        <4> HIDE DEF more
        <4>2. QED
          BY <2>1, <3>1, <4>1, ReplaysAt
      <3>4. QED
        BY <3>2, <3>3
    <2>3. more = [k \in 0 .. n + 1 |-> more[k]]
      OBVIOUS
    <2>4. Replays(shown, runs, more, n + 1)
      <3> HIDE DEF more
      <3>1. QED
        BY <2>2, <2>3 DEF Replays
    <2>5. QED
      BY <2>4
  <1> HIDE DEF G
  <1>3. \A n \in Nat : n \in G
    BY <1>1, <1>2, NatSetInduction
  <1>4. QED
    BY <1>3 DEF G

\* Replayed ends as the function of its definition does.
LEMMA ReplayedIs ==
    ASSUME NEW U, NEW shown, NEW runs \in Seq(U)
    PROVE  \E after : /\ Replays(shown, runs, after, Len(runs))
                      /\ Replayed(shown, runs) = after[Len(runs)]
  <1> DEFINE after == CHOOSE after : Replays(shown, runs, after, Len(runs))
  <1>1. Replays(shown, runs, after, Len(runs))
    BY ReplaysExists, LenProperties
  <1>2. Replayed(shown, runs) = after[Len(runs)]
    BY DEF Replayed, Replays
  <1>3. QED
    BY <1>1, <1>2

\* Among the first k runs the last about the run of this message tells what it shows.
LastHeard(runs, k, line) ==
    \E l \in 1 .. k :
        /\ runs[l].id = line.claim /\ runs[l].phase = line.shown
        /\ \A j \in 1 .. k : j > l => runs[j].id # line.claim

\* What the first k runs have made of message i of m, a pending one.
Hears(m, runs, k, u, i) ==
    /\ u[i].claim # Unclaimed =>
         \/ u[i] = m[i] /\ \A l \in 1 .. k : runs[l].id # u[i].claim
         \/ LastHeard(runs, k, u[i])
    /\ u[i].claim = Unclaimed =>
         /\ m[i].claim = Unclaimed
         /\ \A l \in 1 .. k : runs[l].id = i => runs[l].phase \in TerminalPhases

After(m, runs, k, u) ==
    /\ Page(u) /\ Len(u) = Len(m)
    /\ \A i \in DOMAIN m : Pending(u[i]) <=> Pending(m[i])
    /\ \A i \in DOMAIN m : Pending(m[i]) => Hears(m, runs, k, u, i)

\* The next run is about another: the last heard of this one stays.
LEMMA LastHeardStays ==
    ASSUME NEW runs, NEW k \in Nat, NEW line, LastHeard(runs, k, line),
           runs[k + 1].id # line.claim
    PROVE  LastHeard(runs, k + 1, line)
  <1>1. PICK l \in 1 .. k :
          /\ runs[l].id = line.claim /\ runs[l].phase = line.shown
          /\ \A j \in 1 .. k : j > l => runs[j].id # line.claim
    BY DEF LastHeard
  <1>2. \A j \in 1 .. k + 1 : j \in 1 .. k \/ j = k + 1
    OBVIOUS
  <1>3. \A j \in 1 .. k + 1 : j > l => runs[j].id # line.claim
    BY <1>1, <1>2
  <1>4. l \in 1 .. k + 1
    OBVIOUS
  <1>5. QED
    BY <1>1, <1>3, <1>4 DEF LastHeard

\* The next run is this one, as it is shown.
LEMMA LastHeardNow ==
    ASSUME NEW runs, NEW k \in Nat, NEW line,
           runs[k + 1].id = line.claim, runs[k + 1].phase = line.shown
    PROVE  LastHeard(runs, k + 1, line)
  <1>1. k + 1 \in 1 .. k + 1 /\ \A j \in 1 .. k + 1 : ~(j > k + 1)
    OBVIOUS
  <1>2. QED
    BY <1>1 DEF LastHeard

\* One more run.
LEMMA AfterStep ==
    ASSUME ChatAssumption, NEW m, Page(m), NEW runs, NEW k \in Nat, NEW u, After(m, runs, k, u),
           runs[k + 1] \in Hearable(Len(m))
    PROVE  After(m, runs, k + 1, RunUpdated(u, runs[k + 1]))
  <1>1. /\ DOMAIN m = 1 .. Len(m) /\ DOMAIN u = DOMAIN m
        /\ Page(u) /\ Len(u) = Len(m) /\ Len(m) \in Nat
    BY LenProperties DEF After, Page
  <1>2. PICK run \in Hearable(Len(u)) : run = runs[k + 1]
    BY <1>1
  <1>3. \A l \in 1 .. k + 1 : l \in 1 .. k \/ l = k + 1
    OBVIOUS
  <1>4. CASE RunUpdated(u, run) = u /\ Ignores(u, run)
    <2>1. ASSUME NEW i \in DOMAIN m, Pending(m[i])
          PROVE  Hears(m, runs, k + 1, u, i)
      <3>1. Pending(u[i]) /\ Hears(m, runs, k, u, i)
        BY <2>1 DEF After
      <3>2. u[i].claim # run.id
        BY <1>1, <1>4, <3>1 DEF Ignores
      <3>3. CASE u[i].claim # Unclaimed
        <4>1. CASE u[i] = m[i] /\ \A l \in 1 .. k : runs[l].id # u[i].claim
          BY <1>2, <1>3, <3>2, <3>3, <4>1 DEF Hears
        <4>2. CASE LastHeard(runs, k, u[i])
          <5>1. LastHeard(runs, k + 1, u[i])
            BY <1>2, <3>2, <4>2, LastHeardStays
          <5>2. QED
            BY <3>3, <5>1 DEF Hears
        <4>3. QED
          BY <3>1, <3>3, <4>1, <4>2 DEF Hears
      <3>4. CASE u[i].claim = Unclaimed
        <4>1. run.id = i => run.phase \in TerminalPhases
          <5> SUFFICES ASSUME run.id = i, run.phase \notin TerminalPhases
                       PROVE  FALSE
            OBVIOUS
          <5>1. i \in Prompts /\ SessionOf[i] = session
            BY <1>1 DEF After, Page, Prompts, ChatAssumption
          <5>2. PICK j \in DOMAIN u : u[j].claim = i
            BY <1>1, <1>4, <3>1, <3>4, <5>1 DEF Ignores, Claimable
          <5>3. i \in 1 .. j /\ j # i
            BY <1>1, <1>2, <3>4, <5>2 DEF Page, Honest, Hearable, ChatAssumption, Unclaimed
          <5>4. i = Len(u) /\ j <= Len(u)
            BY <1>1, <3>1 DEF Page
          <5>5. QED
            BY <1>1, <5>3, <5>4
        <4>2. QED
          BY <1>2, <1>3, <3>1, <3>4, <4>1 DEF Hears
      <3>5. QED
        BY <3>3, <3>4
    <2>2. QED
      BY <1>2, <1>4, <2>1 DEF After
  <1>5. ASSUME NEW i \in DOMAIN u, Ties(u, i, run), RunUpdated(u, run) = Tied(u, i, run)
        PROVE  After(m, runs, k + 1, RunUpdated(u, run))
    <2>1. PICK v : v = Tied(u, i, run)
      OBVIOUS
    <2>2. /\ Page(v) /\ Len(v) = Len(u)
          /\ \A j \in DOMAIN u : j # i => v[j] = u[j]
          /\ v[i] = Prompt("pending", run.id, run.phase)
      BY <1>1, <1>5, <2>1, TiedPage
    <2>3. Pending(u[i]) /\ Pending(v[i]) /\ v[i].claim = run.id /\ v[i].shown = run.phase
      BY <1>5, <2>2 DEF Ties, Pending, Prompt
    <2>4. \A j \in DOMAIN m : Pending(v[j]) <=> Pending(m[j])
      BY <1>1, <2>2, <2>3 DEF After
    <2>5. ASSUME NEW j \in DOMAIN m, Pending(m[j])
          PROVE  Hears(m, runs, k + 1, v, j)
      <3>1. j = i
        BY <1>1, <2>3, <2>5 DEF After, Page
      <3>2. LastHeard(runs, k + 1, v[i])
        BY <1>2, <2>3, LastHeardNow
      <3>3. run.id # Unclaimed
        BY <1>2 DEF Hearable, ChatAssumption, Unclaimed
      <3>4. QED
        BY <2>3, <3>1, <3>2, <3>3 DEF Hears
    <2>6. After(m, runs, k + 1, v)
      BY <1>1, <2>2, <2>4, <2>5 DEF After
    <2>7. QED
      BY <1>5, <2>1, <2>6, Zenon
  <1>6. \/ RunUpdated(u, run) = u /\ Ignores(u, run)
        \/ \E i \in DOMAIN u : Ties(u, i, run) /\ RunUpdated(u, run) = Tied(u, i, run)
    BY <1>1, RunUpdatedIs
  <1>7. QED
    BY <1>2, <1>4, <1>5, <1>6, Zenon

\* So it is after all of them.
LEMMA ReplayedAfter ==
    ASSUME ChatAssumption, NEW m, Page(m), NEW runs \in Seq(Hearable(Len(m)))
    PROVE  After(m, runs, Len(runs), Replayed(m, runs))
  <1>1. PICK n \in Nat : n = Len(runs)
    BY LenProperties
  <1>2. PICK after : Replays(m, runs, after, n) /\ Replayed(m, runs) = after[n]
    BY <1>1, ReplayedIs
  <1> DEFINE G == {k \in Nat : k <= n => After(m, runs, k, after[k])}
  <1>3. 0 \in G
    <2>1. after[0] = m
      BY <1>2, ReplaysAt
    <2>2. \A i \in DOMAIN m : Hears(m, runs, 0, m, i)
      BY DEF Hears
    <2>3. After(m, runs, 0, m)
      BY <2>2 DEF After
    <2>4. QED
      BY <2>1, <2>3
  <1>4. ASSUME NEW k \in Nat, k \in G
        PROVE  k + 1 \in G
    <2> SUFFICES ASSUME k + 1 <= n
                 PROVE  After(m, runs, k + 1, after[k + 1])
      OBVIOUS
    <2>1. After(m, runs, k, after[k])
      BY <1>4
    <2>2. runs[k + 1] \in Hearable(Len(m))
      <3>1. k + 1 \in 1 .. Len(runs)
        BY <1>1
      <3>2. QED
        BY <3>1, ElementOfSeq
    <2>3. PICK h \in 0 .. n : h = k + 1
      OBVIOUS
    <2>4. h # 0 /\ h - 1 = k
      BY <2>3
    <2>5. after[h] = RunUpdated(after[h - 1], runs[h])
      BY <1>2, <2>4, ReplaysAt
    <2>6. after[k + 1] = RunUpdated(after[k], runs[k + 1])
      BY <2>3, <2>4, <2>5
    <2>7. After(m, runs, k + 1, RunUpdated(after[k], runs[k + 1]))
      BY <2>1, <2>2, AfterStep
    <2>8. QED
      BY <2>6, <2>7, Zenon
  <1> HIDE DEF G
  <1>5. \A k \in Nat : k \in G
    BY <1>3, <1>4, NatSetInduction
  <1>6. After(m, runs, n, after[n])
    BY <1>5 DEF G
  <1>7. QED
    BY <1>1, <1>2, <1>6

----------------------------------------------------------------------------
(* What is shown and what is on the way *)

\* What is told of a run is how the store has it, if it still has it.
Current(run) == phase[run.id] \in NoRun \union {run.phase}

Mentions(list, r) == \E k \in DOMAIN list : list[k].id = r

\* The last that a list tells of a run is how the store has it.
LastIsCurrent(list) ==
    \A k \in DOMAIN list :
        (\A l \in DOMAIN list : l > k => list[l].id # list[k].id) => Current(list[k])

\* The pending message of m shows its run as the store has it or list mentions the
\* run, and list mentions the run of its own if it is in progress and it has none.
Reaches(m, list) ==
    \A i \in DOMAIN m : Pending(m[i]) =>
        /\ m[i].claim # Unclaimed =>
             Mentions(list, m[i].claim) \/ Current(Run(m[i].claim, m[i].shown))
        /\ m[i].claim = Unclaimed /\ Unfinished(i) => Mentions(list, i)

\* A run in progress has not ended and is still there.
LEMMA PhasesApart == LivePhases \intersect (NoRun \union TerminalPhases) = {}
  BY DEF LivePhases, NoRun, TerminalPhases

\* Entry k of the list is the last of its first n about r.
LastAbout(list, n, r, k) == list[k].id = r /\ \A l \in 1 .. n : l > k => list[l].id # r

Mentioned(list, n, r) == \E k \in 1 .. n : list[k].id = r

\* What is mentioned is mentioned a last time.
LEMMA LastMention ==
    ASSUME NEW list, NEW n \in Nat, NEW r, Mentioned(list, n, r)
    PROVE  \E k \in 1 .. n : LastAbout(list, n, r, k)
  <1>0. PICK j \in 1 .. n : list[j].id = r
    BY DEF Mentioned
  <1> DEFINE T == {d \in Nat : d < n /\ list[n - d].id = r}
  <1>1. n - j \in T
    <2>1. n - j \in Nat /\ n - j < n /\ n - (n - j) = j
      OBVIOUS
    <2>2. QED
      BY <1>0, <2>1
  <1>2. PICK d \in T : \A e \in T : d <= e
    BY <1>1, LeastElement
  <1>3. PICK k \in 1 .. n : k = n - d
    BY <1>2
  <1>4. ASSUME NEW l \in 1 .. n, l > k, list[l].id = r
        PROVE  FALSE
    <2>1. n - l \in Nat /\ n - l < d /\ n - l < n /\ n - (n - l) = l
      BY <1>2, <1>3, <1>4
    <2>2. n - l \in T
      BY <1>4, <2>1
    <2>3. QED
      BY <1>2, <2>1, <2>2
  <1>5. list[k].id = r
    BY <1>2, <1>3
  <1>6. QED
    BY <1>4, <1>5 DEF LastAbout

\* The first runs of the list arrive.
LEMMA Arriving ==
    ASSUME ChatAssumption, NEW m, Page(m),
           NEW first \in Seq(Hearable(Len(m))), NEW rest \in Seq(Hearable(Len(m))),
           LastIsCurrent(first \o rest), Reaches(m, first \o rest)
    PROVE  /\ Page(Replayed(m, first))
           /\ Len(Replayed(m, first)) = Len(m)
           /\ \A i \in DOMAIN m : Pending(Replayed(m, first)[i]) <=> Pending(m[i])
           /\ LastIsCurrent(rest)
           /\ Reaches(Replayed(m, first), rest)
  <1>1. PICK all \in Seq(Hearable(Len(m))) : all = first \o rest
    BY ConcatProperties
  <1>2. PICK a \in Nat, b \in Nat : a = Len(first) /\ b = Len(rest)
    BY LenProperties
  <1>3. /\ Len(all) = a + b
        /\ \A i \in 1 .. a : all[i] = first[i]
        /\ \A i \in 1 .. b : all[a + i] = rest[i]
    BY <1>1, <1>2, ConcatAt
  <1>4. DOMAIN all = 1 .. a + b /\ DOMAIN first = 1 .. a /\ DOMAIN rest = 1 .. b
    BY <1>2, <1>3, LenProperties
  <1>5. PICK u : u = Replayed(m, first)
    OBVIOUS
  <1>6. After(m, first, a, u)
    BY <1>2, <1>5, ReplayedAfter
  <1>7. DOMAIN u = DOMAIN m
    BY <1>6, LenProperties DEF After, Page
  <1>8. LastIsCurrent(all) /\ Reaches(m, all)
    BY <1>1
  <1>9. \A r : Mentions(all, r) => Mentions(rest, r) \/ \E k \in 1 .. a : first[k].id = r
    <2> SUFFICES ASSUME NEW r, NEW k \in 1 .. a + b, all[k].id = r, ~(k \in 1 .. a)
                 PROVE  Mentions(rest, r)
      BY <1>3, <1>4 DEF Mentions
    <2>1. PICK j \in 1 .. b : k = a + j
      <3>1. k - a \in 1 .. b /\ k = a + (k - a)
        OBVIOUS
      <3>2. QED
        BY <3>1
    <2>2. QED
      BY <1>3, <1>4, <2>1 DEF Mentions
  <1>10. LastIsCurrent(rest)
    <2> SUFFICES ASSUME NEW k \in 1 .. b,
                        \A l \in 1 .. b : l > k => rest[l].id # rest[k].id
                 PROVE  Current(rest[k])
      BY <1>4 DEF LastIsCurrent
    <2>1. a + k \in 1 .. a + b /\ all[a + k] = rest[k]
      BY <1>3
    <2>2. ASSUME NEW l \in 1 .. a + b, l > a + k
          PROVE  all[l].id # all[a + k].id
      <3>1. PICK j \in 1 .. b : l = a + j
        <4>1. l - a \in 1 .. b /\ l = a + (l - a)
          BY <2>2
        <4>2. QED
          BY <4>1
      <3>2. j > k
        BY <2>2, <3>1
      <3>3. QED
        BY <1>3, <2>1, <3>1, <3>2
    <2>3. Current(all[a + k])
      BY <1>4, <1>8, <2>1, <2>2 DEF LastIsCurrent
    <2>4. QED
      BY <2>1, <2>3
  <1>11. ASSUME NEW k \in 1 .. a, ~Mentions(rest, first[k].id),
                \A l \in 1 .. a : l > k => first[l].id # first[k].id
         PROVE  Current(first[k])
    <2>1. k \in 1 .. a + b /\ all[k] = first[k]
      BY <1>3
    <2>2. ASSUME NEW l \in 1 .. a + b, l > k
          PROVE  all[l].id # all[k].id
      <3>1. CASE l \in 1 .. a
        BY <1>3, <1>11, <2>1, <2>2, <3>1
      <3>2. CASE ~(l \in 1 .. a)
        <4>1. PICK j \in 1 .. b : l = a + j
          <5>1. l - a \in 1 .. b /\ l = a + (l - a)
            BY <3>2
          <5>2. QED
            BY <5>1
        <4>2. QED
          BY <1>3, <1>4, <1>11, <2>1, <4>1 DEF Mentions
      <3>3. QED
        BY <3>1, <3>2
    <2>3. Current(all[k])
      BY <1>4, <1>8, <2>1, <2>2 DEF LastIsCurrent
    <2>4. QED
      BY <2>1, <2>3
  <1>12. ASSUME NEW i \in DOMAIN m, Pending(u[i])
         PROVE  /\ u[i].claim # Unclaimed =>
                     Mentions(rest, u[i].claim) \/ Current(Run(u[i].claim, u[i].shown))
                /\ u[i].claim = Unclaimed /\ Unfinished(i) => Mentions(rest, i)
    <2>1. Pending(m[i]) /\ Hears(m, first, a, u, i)
      BY <1>6, <1>12 DEF After
    <2>2. ASSUME u[i].claim # Unclaimed, ~Mentions(rest, u[i].claim)
          PROVE  Current(Run(u[i].claim, u[i].shown))
      <3>1. CASE u[i] = m[i] /\ \A l \in 1 .. a : first[l].id # u[i].claim
        <4>1. ~Mentions(all, m[i].claim)
          BY <1>9, <2>2, <3>1
        <4>2. QED
          BY <1>8, <2>1, <2>2, <3>1, <4>1 DEF Reaches
      <3>2. CASE LastHeard(first, a, u[i])
        <4>1. PICK k \in 1 .. a :
                /\ first[k].id = u[i].claim /\ first[k].phase = u[i].shown
                /\ \A j \in 1 .. a : j > k => first[j].id # u[i].claim
          BY <3>2 DEF LastHeard
        <4>2. Current(first[k])
          BY <1>11, <2>2, <4>1
        <4>3. QED
          BY <4>1, <4>2 DEF Current, Run
      <3>3. QED
        BY <2>1, <2>2, <3>1, <3>2 DEF Hears
    <2>3. ASSUME u[i].claim = Unclaimed, Unfinished(i), ~Mentions(rest, i)
          PROVE  FALSE
      <3>1. /\ m[i].claim = Unclaimed
            /\ \A l \in 1 .. a : first[l].id = i => first[l].phase \in TerminalPhases
        BY <2>1, <2>3 DEF Hears
      <3>2. Mentions(all, i)
        BY <1>8, <2>1, <2>3, <3>1 DEF Reaches
      <3>3. PICK j \in 1 .. a : first[j].id = i
        BY <1>9, <2>3, <3>2
      <3>4. PICK k \in 1 .. a :
              first[k].id = i /\ \A l \in 1 .. a : l > k => first[l].id # i
        <4>1. Mentioned(first, a, i)
          BY <3>3 DEF Mentioned
        <4>2. PICK k \in 1 .. a : LastAbout(first, a, i, k)
          BY <4>1, LastMention
        <4>3. QED
          BY <4>2 DEF LastAbout
      <3>5. Current(first[k])
        BY <1>11, <2>3, <3>4
      <3>6. first[k].phase \in TerminalPhases
        BY <3>1, <3>4
      <3>7. phase[i] \in NoRun \union TerminalPhases
        BY <3>4, <3>5, <3>6 DEF Current
      <3>8. QED
        BY <2>3, <3>7, PhasesApart DEF Unfinished
    <2>4. QED
      BY <2>2, <2>3
  <1>13. QED
    BY <1>5, <1>6, <1>7, <1>10, <1>12 DEF After, Reaches

----------------------------------------------------------------------------
(* What a publication tells *)

\* The events of a publication as the messages they become.
Plain(bodies) == [i \in DOMAIN bodies |-> Event(bodies[i], FALSE)]

\* The messages of a publication.
LEMMA PlainType ==
    ASSUME NEW K, NEW bodies \in Seq(Saying(K))
    PROVE  /\ Plain(bodies) \in Seq(Carried(K))
           /\ Len(Plain(bodies)) = Len(bodies)
           /\ \A i \in 1 .. Len(bodies) : Plain(bodies)[i] = Event(bodies[i], FALSE)
  <1> DEFINE e(i) == Event(bodies[i], FALSE)
  <1>1. Len(bodies) \in Nat /\ DOMAIN bodies = 1 .. Len(bodies)
    BY LenProperties
  <1>2. \A i \in 1 .. Len(bodies) : e(i) \in Carried(K)
    BY ElementOfSeq, CarriedCarries DEF Carries
  <1>3. Plain(bodies) = [i \in 1 .. Len(bodies) |-> e(i)]
    BY <1>1 DEF Plain
  <1>4. Plain(bodies) \in Seq(Carried(K))
    <2> HIDE DEF e
    <2>1. QED
      BY <1>1, <1>2, <1>3, IsASeq
  <1>5. PICK t \in Seq(Carried(K)) : t = Plain(bodies)
    BY <1>4
  <1> HIDE DEF e
  <1>6. DOMAIN t = 1 .. Len(bodies) /\ \A i \in 1 .. Len(bodies) : t[i] = e(i)
    BY <1>3, <1>5
  <1>7. Len(t) \in Nat /\ DOMAIN t = 1 .. Len(t)
    BY LenProperties
  <1>8. Len(t) = Len(bodies)
    BY <1>1, <1>6, <1>7
  <1>9. QED
    BY <1>5, <1>6, <1>8 DEF e

\* They are known event by event.
LEMMA PlainConcat ==
    ASSUME NEW K, NEW v \in Seq(Saying(K)), NEW w \in Seq(Saying(K))
    PROVE  Plain(v \o w) = Plain(v) \o Plain(w)
  <1>1. PICK x \in Seq(Saying(K)) : x = v \o w
    BY ConcatProperties
  <1>2. /\ Len(v) \in Nat /\ Len(w) \in Nat
        /\ Len(x) = Len(v) + Len(w)
        /\ \A i \in 1 .. Len(v) : x[i] = v[i]
        /\ \A i \in 1 .. Len(w) : x[Len(v) + i] = w[i]
    BY <1>1, ConcatAt
  <1>3. PICK t \in Seq(Carried(K)) :
          t = Plain(x) /\ Len(t) = Len(x) /\ \A i \in 1 .. Len(x) : t[i] = Event(x[i], FALSE)
    BY PlainType
  <1>4. PICK p \in Seq(Carried(K)) :
          p = Plain(v) /\ Len(p) = Len(v) /\ \A i \in 1 .. Len(v) : p[i] = Event(v[i], FALSE)
    BY PlainType
  <1>5. PICK q \in Seq(Carried(K)) :
          q = Plain(w) /\ Len(q) = Len(w) /\ \A i \in 1 .. Len(w) : q[i] = Event(w[i], FALSE)
    BY PlainType
  <1>6. \A i \in 1 .. Len(p) : t[i] = p[i]
    <2> SUFFICES ASSUME NEW i \in 1 .. Len(v)
                 PROVE  t[i] = p[i]
      BY <1>4
    <2>1. i \in 1 .. Len(x) /\ x[i] = v[i]
      BY <1>2
    <2>2. QED
      BY <1>3, <1>4, <2>1
  <1>7. \A i \in 1 .. Len(q) : t[Len(p) + i] = q[i]
    <2> SUFFICES ASSUME NEW i \in 1 .. Len(w)
                 PROVE  t[Len(v) + i] = q[i]
      BY <1>4, <1>5
    <2>1. Len(v) + i \in 1 .. Len(x) /\ x[Len(v) + i] = w[i]
      BY <1>2
    <2>2. QED
      BY <1>3, <1>5, <2>1
  <1>8. Len(t) = Len(p) + Len(q)
    BY <1>2, <1>3, <1>4, <1>5
  <1>9. t = p \o q
    BY <1>6, <1>7, <1>8, IsConcat
  <1>10. QED
    BY <1>1, <1>3, <1>4, <1>5, <1>9, Zenon

\* The runs that a publication tells of.
SaidIn(bodies) == ToldIn(Plain(bodies))

\* What two publications tell, one after the other.
LEMMA SaidConcat ==
    ASSUME NEW K, NEW v \in Seq(Saying(K)), NEW w \in Seq(Saying(K))
    PROVE  /\ SaidIn(v) \in Seq(Hearable(K))
           /\ SaidIn(w) \in Seq(Hearable(K))
           /\ SaidIn(v \o w) = SaidIn(v) \o SaidIn(w)
  <1>1. Plain(v) \in Seq(Carried(K)) /\ Plain(w) \in Seq(Carried(K))
    BY PlainType
  <1>2. /\ ToldIn(Plain(v)) \in Seq(Hearable(K))
        /\ ToldIn(Plain(w)) \in Seq(Hearable(K))
        /\ ToldIn(Plain(v) \o Plain(w)) = ToldIn(Plain(v)) \o ToldIn(Plain(w))
    BY <1>1, ToldConcat
  <1>3. Plain(v \o w) = Plain(v) \o Plain(w)
    BY PlainConcat
  <1>4. QED
    BY <1>2, <1>3, Zenon DEF SaidIn

\* Of one event, only run_updated tells of a run.
LEMMA SaidOne ==
    ASSUME NEW K, NEW b \in Saying(K)
    PROVE  /\ <<b>> \in Seq(Saying(K))
           /\ b.type = "run_updated" => SaidIn(<<b>>) = <<b.run>>
           /\ b.type # "run_updated" => SaidIn(<<b>>) = << >>
  <1>1. <<b>> \in Seq(Saying(K)) /\ Len(<<b>>) = 1 /\ <<b>>[1] = b
    BY OneProperties
  <1>2. PICK q \in Seq(Saying(K)) : q = <<b>> /\ Len(q) = 1 /\ q[1] = b
    BY <1>1
  <1>3. PICK t \in Seq(Carried(K)) :
          /\ t = Plain(q) /\ Len(t) = Len(q)
          /\ \A i \in 1 .. Len(q) : t[i] = Event(q[i], FALSE)
    BY PlainType
  <1>4. Len(t) = 1 /\ t[1] = Event(b, FALSE)
    <2>1. 1 \in 1 .. Len(q)
      BY <1>2
    <2>2. QED
      BY <1>2, <1>3, <2>1
  <1>5. t = <<t[1]>> /\ t[1] \in Carried(K)
    BY <1>4, IsOne
  <1>6. ToldIn(<<t[1]>>) = RunsTold(t[1])
    BY <1>5, ToldOne
  <1>7. SaidIn(<<b>>) = RunsTold(Event(b, FALSE))
    BY <1>2, <1>3, <1>4, <1>5, <1>6, Zenon DEF SaidIn
  <1>8. QED
    BY <1>1, <1>7 DEF RunsTold, Event

\* Bodies that are no run's update tell nothing.
LEMMA SaidNothing ==
    ASSUME NEW K, NEW bodies \in Seq(Saying(K)),
           \A i \in 1 .. Len(bodies) : bodies[i].type # "run_updated"
    PROVE  SaidIn(bodies) = << >>
  <1>1. PICK t \in Seq(Carried(K)) :
          /\ t = Plain(bodies) /\ Len(t) = Len(bodies)
          /\ \A i \in 1 .. Len(bodies) : t[i] = Event(bodies[i], FALSE)
    BY PlainType
  <1>2. PICK n \in Nat : n = Len(t) /\ DOMAIN t = 1 .. n
    BY LenProperties
  <1>3. \A i \in 1 .. n : RunsTold(t[i]) = << >>
    BY <1>1, <1>2 DEF RunsTold, Event
  <1>4. Tellings(t) = [i \in 1 .. n |-> << >>]
    BY <1>2, <1>3 DEF Tellings
  <1>5. << >> \in Seq({})
    OBVIOUS
  <1>6. Tellings(t) \in Seq(Seq({}))
    <2> DEFINE e(i) == << >>
    <2>1. \A i \in 1 .. n : e(i) \in Seq({})
      BY <1>5
    <2>2. Tellings(t) = [i \in 1 .. n |-> e(i)]
      BY <1>4
    <2> HIDE DEF e
    <2>3. QED
      BY <2>1, <2>2, IsASeq
  <1>7. PICK s \in Seq({}) : s = Joined(Tellings(t))
    BY <1>6, JoinedSeq
  <1>8. s = << >>
    <2>1. Len(s) \in Nat /\ \A i \in 1 .. Len(s) : s[i] \in {}
      BY LenProperties, ElementOfSeq
    <2>2. Len(s) = 0
      BY <2>1
    <2>3. QED
      BY <2>2, EmptySeq
  <1>9. QED
    BY <1>1, <1>7, <1>8, Zenon DEF SaidIn, ToldIn

----------------------------------------------------------------------------
(* What the store's publications tell *)

\* A list that tells of one run only, at last that it is in phase p.
TellsOnly(list, r, p) ==
    /\ list # << >>
    /\ \A k \in 1 .. Len(list) : list[k].id = r
    /\ list[Len(list)].phase = p

\* Of two such lists the second has the last word.
LEMMA TellsOnlyMore ==
    ASSUME NEW U, NEW v \in Seq(U), NEW w \in Seq(U), NEW r, NEW x, NEW y,
           TellsOnly(v, r, x), TellsOnly(w, r, y)
    PROVE  TellsOnly(v \o w, r, y)
  <1>1. PICK t \in Seq(U) : t = v \o w
    BY ConcatProperties
  <1>2. PICK a \in Nat, b \in Nat : a = Len(v) /\ b = Len(w)
    BY LenProperties
  <1>3. /\ Len(t) = a + b
        /\ \A i \in 1 .. a : t[i] = v[i]
        /\ \A i \in 1 .. b : t[a + i] = w[i]
    BY <1>1, <1>2, ConcatAt
  <1>4. b > 0
    BY <1>2, EmptySeq DEF TellsOnly
  <1>5. \A k \in 1 .. a + b : t[k].id = r
    <2> SUFFICES ASSUME NEW k \in 1 .. a + b
                 PROVE  t[k].id = r
      OBVIOUS
    <2>1. CASE k <= a
      BY <1>2, <1>3, <2>1 DEF TellsOnly
    <2>2. CASE k > a
      <3>1. PICK j \in 1 .. b : k = a + j
        <4>1. k - a \in 1 .. b /\ k = a + (k - a)
          BY <2>2
        <4>2. QED
          BY <4>1
      <3>2. QED
        BY <1>2, <1>3, <3>1 DEF TellsOnly
    <2>3. QED
      BY <2>1, <2>2
  <1>6. t[a + b].phase = y
    BY <1>2, <1>3, <1>4 DEF TellsOnly
  <1>7. t # << >>
    BY <1>3, <1>4, EmptySeq
  <1>8. TellsOnly(t, r, y)
    BY <1>3, <1>5, <1>6, <1>7 DEF TellsOnly
  <1>9. QED
    BY <1>1, <1>8, Zenon

\* A publication that tells of one run only.
Says(K, bodies, r, p) ==
    bodies \in Seq(Saying(K)) /\ TellsOnly(SaidIn(bodies), r, p)

\* run_updated tells of its run.
LEMMA SaysUpdate ==
    ASSUME NEW K, NEW r, NEW p, Run(r, p) \in Hearable(K)
    PROVE  Says(K, <<Told("run_updated", r, p)>>, r, p)
  <1>1. PICK b \in Saying(K) : b = Told("run_updated", r, p)
    BY DEF Saying, Told
  <1>2. b.type = "run_updated" /\ b.run = Run(r, p)
    BY <1>1 DEF Told
  <1>3. <<b>> \in Seq(Saying(K)) /\ SaidIn(<<b>>) = <<Run(r, p)>>
    BY <1>2, SaidOne
  <1>4. TellsOnly(<<Run(r, p)>>, r, p)
    <2>1. PICK t \in Seq(Hearable(K)) : t = <<Run(r, p)>> /\ Len(t) = 1 /\ t[1] = Run(r, p)
      BY OneProperties
    <2>2. t # << >>
      BY <2>1, EmptySeq
    <2>3. TellsOnly(t, r, p)
      BY <2>1, <2>2 DEF TellsOnly, Run
    <2>4. QED
      BY <2>1, <2>3, Zenon
  <1>5. QED
    BY <1>1, <1>3, <1>4, Zenon DEF Says

\* Of two such publications the second has the last word.
LEMMA SaysOn ==
    ASSUME NEW K, NEW v, NEW w, NEW r, NEW x, NEW y, Says(K, v, r, x), Says(K, w, r, y)
    PROVE  Says(K, v \o w, r, y)
  <1>1. PICK a \in Seq(Saying(K)), b \in Seq(Saying(K)) : a = v /\ b = w
    BY DEF Says
  <1>2. /\ SaidIn(a) \in Seq(Hearable(K)) /\ SaidIn(b) \in Seq(Hearable(K))
        /\ SaidIn(a \o b) = SaidIn(a) \o SaidIn(b)
    BY SaidConcat
  <1>3. TellsOnly(SaidIn(a), r, x) /\ TellsOnly(SaidIn(b), r, y)
    BY <1>1 DEF Says
  <1>4. TellsOnly(SaidIn(a) \o SaidIn(b), r, y)
    BY <1>2, <1>3, TellsOnlyMore
  <1>5. a \o b \in Seq(Saying(K))
    BY ConcatProperties
  <1>6. QED
    BY <1>1, <1>2, <1>4, <1>5, Zenon DEF Says

\* What tells of no run changes nothing.
LEMMA SaysAside ==
    ASSUME NEW K, NEW v, NEW w \in Seq(Saying(K)), NEW r, NEW x, Says(K, v, r, x),
           SaidIn(w) = << >>
    PROVE  Says(K, v \o w, r, x)
  <1>1. PICK a \in Seq(Saying(K)) : a = v
    BY DEF Says
  <1>2. SaidIn(a) \in Seq(Hearable(K)) /\ SaidIn(a \o w) = SaidIn(a) \o SaidIn(w)
    BY SaidConcat
  <1>3. SaidIn(a) \o << >> = SaidIn(a)
    <2>1. PICK s \in Seq(Hearable(K)) : s = SaidIn(a)
      BY <1>2
    <2>2. s \o << >> = s
      BY ConcatEmptySeq
    <2>3. QED
      BY <2>1, <2>2, Zenon
  <1>4. a \o w \in Seq(Saying(K))
    BY ConcatProperties
  <1>5. QED
    BY <1>1, <1>2, <1>3, <1>4, Zenon DEF Says

\* The request may be mentioned to a page with K prompts.
Known(K, r) == r \in Requests /\ (r \in Prompts => r <= K)

\* What is known may be heard of, in any phase.
LEMMA KnownHearable ==
    ASSUME NEW K, NEW r, Known(K, r), NEW p \in LivePhases \union TerminalPhases
    PROVE  Run(r, p) \in Hearable(K)
  BY DEF Known, Hearable, Run

\* Where the phases told at the start and at a failure belong.
LEMMA SomePhases ==
    /\ "received" \in LivePhases /\ "governance" \in LivePhases /\ "failed" \in TerminalPhases
  BY DEF LivePhases, TerminalPhases

\* A run that starts is told of as being in governance.
LEMMA StartingSays ==
    ASSUME NEW K, NEW r, Known(K, r)
    PROVE  Says(K, Starting(r), r, "governance")
  <1>1. Run(r, "received") \in Hearable(K) /\ Run(r, "governance") \in Hearable(K)
    BY SomePhases, KnownHearable
  <1>2. /\ Says(K, <<Told("run_updated", r, "received")>>, r, "received")
        /\ Says(K, <<Told("run_updated", r, "governance")>>, r, "governance")
    BY <1>1, SaysUpdate
  <1>3. PICK b \in Saying(K) : b = Told("session_updated", r, "received")
    BY <1>1 DEF Saying, Told
  <1>4. <<b>> \in Seq(Saying(K)) /\ SaidIn(<<b>>) = << >>
    <2>1. b.type # "run_updated"
      BY <1>3 DEF Told
    <2>2. QED
      BY <2>1, SaidOne
  <1>5. Says(K, <<Told("run_updated", r, "received")>> \o <<b>>, r, "received")
    BY <1>2, <1>4, SaysAside
  <1>6. Says(K, (<<Told("run_updated", r, "received")>> \o <<b>>)
                \o <<Told("run_updated", r, "governance")>>, r, "governance")
    BY <1>2, <1>5, SaysOn
  <1>7. Starting(r) = (<<Told("run_updated", r, "received")>> \o <<b>>)
                      \o <<Told("run_updated", r, "governance")>>
    BY <1>3 DEF Starting
  <1>8. QED
    BY <1>6, <1>7, Zenon

\* Nobody but the page itself can have started the runs of its prompts.
StartedKnown(K) == \A q \in Requests : phase[q] # "unknown" => Known(K, q)

\* A run that ended was known.
LEMMA TerminalNotUnknown == "unknown" \notin TerminalPhases
  BY DEF TerminalPhases

\* What the window of finished runs loses at the end of r.
Evictions(r) ==
    LET window == Append(finishedRuns, r) IN
    [i \in 1 .. (Len(window) - MaxFinishedRuns) |->
       Told("run_evicted", window[i], endedAs'[window[i]])]

\* The page is told of evictions and does not listen.
LEMMA EvictionsTellNothing ==
    ASSUME NEW K, NEW r, Known(K, r), NEW outcome \in TerminalPhases, RunsInv,
           StartedKnown(K), endedAs' = [endedAs EXCEPT ![r] = outcome]
    PROVE  Evictions(r) \in Seq(Saying(K)) /\ SaidIn(Evictions(r)) = << >>
  <1>1. finishedRuns \in Seq(Requests) /\ r \in Requests
    BY DEF RunsInv, RunsTypeOK, Known
  <1>2. PICK window \in Seq(Requests) : window = Append(finishedRuns, r)
    BY <1>1, AppendProperties
  <1>3. PICK n \in Nat : n = Len(finishedRuns) /\ DOMAIN finishedRuns = 1 .. n
    BY <1>1, LenProperties
  <1>4. /\ Len(window) = n + 1
        /\ \A i \in 1 .. n : window[i] = finishedRuns[i]
        /\ window[n + 1] = r
    BY <1>1, <1>2, <1>3, AppendProperties
  <1>5. ASSUME NEW i \in 1 .. n + 1
        PROVE  Known(K, window[i]) /\ endedAs'[window[i]] \in TerminalPhases
    <2>0. endedAs \in [Requests -> TerminalPhases \union {"none"}]
      BY DEF RunsInv, RunsTypeOK
    <2>1. CASE i = n + 1
      BY <1>1, <1>4, <2>0, <2>1
    <2>2. CASE i \in 1 .. n
      <3>1. PICK q \in Requests : q = finishedRuns[i] /\ q = window[i]
        BY <1>1, <1>3, <1>4, <2>2, ElementOfSeq
      <3>2. q \in Range(finishedRuns)
        BY <1>3, <2>2, <3>1 DEF Range
      <3>3. phase[q] \in TerminalPhases /\ phase[q] = endedAs[q]
        BY <3>2 DEF RunsInv, WindowAgrees, OutcomesAgree
      <3>4. phase[q] # "unknown"
        BY <3>3, TerminalNotUnknown
      <3>5. Known(K, q)
        BY <3>4 DEF StartedKnown
      <3>6. endedAs'[q] \in TerminalPhases
        BY <2>0, <3>3
      <3>7. QED
        BY <3>1, <3>5, <3>6
    <2>3. QED
      BY <2>1, <2>2
  <1> DEFINE e(i) == Told("run_evicted", window[i], endedAs'[window[i]])
  <1>6. PICK m \in Nat : m <= n + 1 /\ 1 .. m = 1 .. (n + 1 - MaxFinishedRuns)
    <2>1. MaxFinishedRuns \in Nat
      BY RunsAssumption
    <2>2. CASE n + 1 >= MaxFinishedRuns
      <3>1. PICK m \in Nat : m = n + 1 - MaxFinishedRuns
        BY <2>1, <2>2
      <3>2. m <= n + 1 /\ 1 .. m = 1 .. (n + 1 - MaxFinishedRuns)
        BY <2>1, <3>1
      <3>3. QED
        BY <3>2, Zenon
    <2>3. CASE n + 1 < MaxFinishedRuns
      <3>1. 0 <= n + 1 /\ 1 .. 0 = 1 .. (n + 1 - MaxFinishedRuns) /\ 0 \in Nat
        BY <2>1, <2>3
      <3>2. QED
        BY <3>1, Zenon
    <2>4. n + 1 >= MaxFinishedRuns \/ n + 1 < MaxFinishedRuns
      BY <2>1
    <2>5. QED
      BY <2>2, <2>3, <2>4, Zenon
  <1>7. Evictions(r) = [i \in 1 .. m |-> e(i)]
    <2>1. Evictions(r) = [i \in 1 .. (Len(window) - MaxFinishedRuns) |-> e(i)]
      BY <1>2 DEF Evictions
    <2>2. 1 .. m = 1 .. (Len(window) - MaxFinishedRuns)
      <3>1. Len(window) - MaxFinishedRuns = n + 1 - MaxFinishedRuns
        BY <1>4, RunsAssumption
      <3>2. QED
        BY <1>6, <3>1, Zenon
    <2> HIDE DEF e
    <2>3. QED
      BY <2>1, <2>2
  <1>8. \A i \in 1 .. m : e(i) \in Saying(K) /\ e(i).type # "run_updated"
    <2> SUFFICES ASSUME NEW i \in 1 .. m
                 PROVE  e(i) \in Saying(K) /\ e(i).type # "run_updated"
      OBVIOUS
    <2>1. i \in 1 .. n + 1
      BY <1>6
    <2>2. Run(window[i], endedAs'[window[i]]) \in Hearable(K)
      BY <1>5, <2>1, KnownHearable
    <2>3. QED
      BY <2>2 DEF Told, Saying
  <1> HIDE DEF e
  <1>9. Evictions(r) \in Seq(Saying(K))
    BY <1>6, <1>7, <1>8, IsASeq
  <1>10. PICK t \in Seq(Saying(K)) : t = Evictions(r)
    BY <1>9
  <1>11. \A i \in 1 .. Len(t) : t[i].type # "run_updated"
    <2>1. DOMAIN t = 1 .. m /\ \A i \in 1 .. m : t[i] = e(i)
      BY <1>7, <1>10
    <2>2. DOMAIN t = 1 .. Len(t)
      BY LenProperties
    <2>3. QED
      BY <1>8, <2>1, <2>2
  <1>12. SaidIn(t) = << >>
    BY <1>11, SaidNothing
  <1>13. QED
    BY <1>10, <1>12, Zenon

\* A run that ends is told of with its outcome.
LEMMA EndingSays ==
    ASSUME NEW K, NEW r, Known(K, r), NEW outcome \in TerminalPhases, RunsInv,
           StartedKnown(K), endedAs' = [endedAs EXCEPT ![r] = outcome]
    PROVE  Says(K, Ending(r, outcome), r, outcome)
  <1>1. Run(r, outcome) \in Hearable(K)
    BY KnownHearable
  <1>2. Says(K, <<Told("run_updated", r, outcome)>>, r, outcome)
    BY <1>1, SaysUpdate
  <1>3. Evictions(r) \in Seq(Saying(K)) /\ SaidIn(Evictions(r)) = << >>
    BY EvictionsTellNothing
  <1>4. Says(K, <<Told("run_updated", r, outcome)>> \o Evictions(r), r, outcome)
    BY <1>2, <1>3, SaysAside
  <1>5. Ending(r, outcome) = <<Told("run_updated", r, outcome)>> \o Evictions(r)
    BY DEF Ending, Evictions
  <1>6. QED
    BY <1>4, <1>5, Zenon

\* So is one that starts and fails at once.
LEMMA RejectingSays ==
    ASSUME NEW K, NEW r, Known(K, r), NEW outcome \in TerminalPhases, RunsInv,
           StartedKnown(K), endedAs' = [endedAs EXCEPT ![r] = outcome]
    PROVE  Says(K, Starting(r) \o Ending(r, outcome), r, outcome)
  <1>1. Says(K, Starting(r), r, "governance")
    BY StartingSays
  <1>2. Says(K, Ending(r, outcome), r, outcome)
    BY EndingSays
  <1>3. QED
    BY <1>1, <1>2, SaysOn

\* A run that goes on is told of in its new phase.
LEMMA TellsSays ==
    ASSUME NEW K, NEW r, Known(K, r), phase'[r] \in LivePhases \union TerminalPhases
    PROVE  Says(K, Tells(r), r, phase'[r])
  <1>1. PICK p \in LivePhases \union TerminalPhases : p = phase'[r]
    OBVIOUS
  <1>2. Says(K, <<Told("run_updated", r, p)>>, r, p)
    BY KnownHearable, SaysUpdate
  <1>3. QED
    BY <1>1, <1>2, Zenon DEF Tells

----------------------------------------------------------------------------
(* The store's mutations *)

LEMMA StampedPlain ==
    ASSUME NEW B, seq \in Nat, NEW bodies \in Seq(B)
    PROVE  Queued(Stamped(bodies)) = Plain(bodies)
  <1>1. PICK n \in Nat : n = Len(bodies) /\ DOMAIN bodies = 1 .. n
    BY LenProperties
  <1>2. Stamped(bodies) = [i \in 1 .. n |-> [seq |-> seq + i, body |-> bodies[i]]]
    BY <1>1 DEF Stamped
  <1>3. DOMAIN Stamped(bodies) = 1 .. n /\ \A i \in 1 .. n : Stamped(bodies)[i].body = bodies[i]
    BY <1>2
  <1>4. PICK s : s = Stamped(bodies) /\ DOMAIN s = 1 .. n /\ \A i \in 1 .. n : s[i].body = bodies[i]
    BY <1>3
  <1>5. Queued(s) = Plain(bodies)
    BY <1>1, <1>4 DEF Queued, Plain
  <1>6. QED
    BY <1>4, <1>5

\* A publication comes after everything that is on its way.
LEMMA PublishGrows ==
    ASSUME NEW K \in Nat, StreamInv(Saying(K), Carried(K)),
           NEW bodies \in Seq(Saying(K)), Publish(bodies)
    PROVE  /\ StreamInv(Saying(K), Carried(K))'
           /\ wire' = wire /\ subscribed' = subscribed
           /\ subscribed /\ ~degraded' =>
                /\ ~degraded
                /\ Coming \in Seq(Hearable(K))
                /\ SaidIn(bodies) \in Seq(Hearable(K))
                /\ Coming' = Coming \o SaidIn(bodies)
  <1>1. StreamInv(Saying(K), Carried(K))'
    BY PublishInv
  <1>2. wire' = wire /\ subscribed' = subscribed
    BY DEF Publish
  <1>3. ASSUME subscribed, ~degraded'
        PROVE  /\ ~degraded
               /\ Coming \in Seq(Hearable(K))
               /\ SaidIn(bodies) \in Seq(Hearable(K))
               /\ Coming' = Coming \o SaidIn(bodies)
    <2>1. ~degraded /\ queue' = queue \o Stamped(bodies)
      BY <1>3, PublishKeeps
    <2>2. seq \in Nat /\ wire \in Seq(Carried(K)) /\ queue \in Seq(Entry(Saying(K)))
      BY DEF StreamInv, StreamTypes
    <2>3. PICK s \in Seq(Entry(Saying(K))) : s = Stamped(bodies)
      BY <2>2, StampedProperties
    <2>4. Queued(s) = Plain(bodies)
      BY <2>2, <2>3, StampedPlain
    <2>5. /\ ToldIn(Queued(s)) \in Seq(Hearable(K))
          /\ ComingOf(wire, queue) \in Seq(Hearable(K))
          /\ ComingOf(wire, queue \o s) = ComingOf(wire, queue) \o ToldIn(Queued(s))
      BY <2>2, ComingGrows
    <2>6. Coming = ComingOf(wire, queue) /\ Coming' = ComingOf(wire', queue')
      BY ComingIs
    <2>7. ToldIn(Queued(s)) = SaidIn(bodies)
      BY <2>4, Zenon DEF SaidIn
    <2>8. Coming' = ComingOf(wire, queue \o s)
      BY <1>2, <2>1, <2>3, <2>6, Zenon
    <2>9. QED
      BY <2>1, <2>5, <2>6, <2>7, <2>8, Zenon
  <1>4. QED
    BY <1>1, <1>2, <1>3

Covers(list) == \A r \in Requests : phase[r] \notin NoRun => Mentions(list, r)

\* The step takes r to p, if it is not forgotten at once, and may forget others.
Takes(r, p) == phase'[r] \in NoRun \union {p} /\ OthersStand(r)

\* An evicted run is in no phase.
LEMMA EvictedIsNoRun ==
    "evicted" \in NoRun /\ LivePhases \intersect NoRun = {} /\ TerminalPhases \intersect NoRun = {}
  BY DEF NoRun, LivePhases, TerminalPhases

\* The store takes run r to phase p and says so: what is on the way stays right.
LEMMA MutationReaches ==
    ASSUME ChatAssumption, NEW K, NEW m, Page(m), NEW r \in Requests, NEW p,
           NEW sofar \in Seq(Hearable(K)), NEW more \in Seq(Hearable(K)),
           TellsOnly(more, r, p), Takes(r, p),
           LastIsCurrent(sofar), Reaches(m, sofar)
    PROVE  /\ LastIsCurrent(sofar \o more)'
           /\ Reaches(m, sofar \o more)'
           /\ Covers(sofar) => Covers(sofar \o more)'
  <1>1. PICK all \in Seq(Hearable(K)) : all = sofar \o more
    BY ConcatProperties
  <1>2. PICK a \in Nat, b \in Nat : a = Len(sofar) /\ b = Len(more)
    BY LenProperties
  <1>3. /\ Len(all) = a + b
        /\ \A i \in 1 .. a : all[i] = sofar[i]
        /\ \A i \in 1 .. b : all[a + i] = more[i]
    BY <1>1, <1>2, ConcatAt
  <1>4. DOMAIN all = 1 .. a + b /\ DOMAIN sofar = 1 .. a /\ DOMAIN more = 1 .. b
    BY <1>2, <1>3, LenProperties
  <1>5. b > 0 /\ (\A k \in 1 .. b : more[k].id = r) /\ more[b].phase = p
    BY <1>2, EmptySeq DEF TellsOnly
  <1>6. all[a + b].id = r /\ all[a + b].phase = p /\ a + b \in 1 .. a + b
    <2>1. b \in 1 .. b
      BY <1>5
    <2>2. all[a + b] = more[b]
      BY <1>3, <2>1
    <2>3. more[b].id = r /\ more[b].phase = p
      BY <1>5, <2>1
    <2>4. QED
      BY <2>1, <2>2, <2>3
  <1>7. Mentions(all, r)
    BY <1>4, <1>6 DEF Mentions
  <1>8. \A q : Mentions(sofar, q) => Mentions(all, q)
    <2> SUFFICES ASSUME NEW q, NEW k \in 1 .. a, sofar[k].id = q
                 PROVE  Mentions(all, q)
      BY <1>4 DEF Mentions
    <2>1. k \in 1 .. a + b /\ all[k].id = q
      BY <1>3
    <2>2. QED
      BY <1>4, <2>1 DEF Mentions
  <1>9. \A run : run.id \in Requests \ {r} /\ Current(run) => Current(run)'
    <2> SUFFICES ASSUME NEW run, run.id \in Requests \ {r}, Current(run)
                 PROVE  Current(run)'
      OBVIOUS
    <2>1. phase[run.id] \in NoRun \union {run.phase}
      BY DEF Current
    <2>2. phase'[run.id] = phase[run.id] \/ phase'[run.id] = "evicted"
      BY DEF Takes, OthersStand
    <2>3. phase'[run.id] \in NoRun \union {run.phase}
      BY <2>1, <2>2, EvictedIsNoRun
    <2>4. QED
      BY <2>3 DEF Current
  <1>10. LastIsCurrent(all)'
    <2> SUFFICES ASSUME NEW k \in 1 .. a + b,
                        \A l \in 1 .. a + b : l > k => all[l].id # all[k].id
                 PROVE  Current(all[k])'
      BY <1>4 DEF LastIsCurrent
    <2>1. CASE all[k].id = r
      <3>1. k = a + b
        BY <1>6, <2>1
      <3>2. QED
        BY <1>6, <2>1, <3>1 DEF Takes, Current
    <2>2. CASE all[k].id # r
      <3>1. k \in 1 .. a
        <4>1. CASE k > a
          <5>1. k - a \in 1 .. b /\ k = a + (k - a)
            BY <4>1
          <5>2. PICK j \in 1 .. b : k = a + j
            BY <5>1
          <5>3. QED
            BY <1>3, <1>5, <2>2, <5>2
        <4>2. QED
          BY <4>1
      <3>2. \A l \in 1 .. a : l > k => sofar[l].id # sofar[k].id
        <4> SUFFICES ASSUME NEW l \in 1 .. a, l > k
                     PROVE  sofar[l].id # sofar[k].id
          OBVIOUS
        <4>1. l \in 1 .. a + b
          OBVIOUS
        <4>2. QED
          BY <1>3, <3>1, <4>1
      <3>3. Current(sofar[k])
        BY <1>4, <3>1, <3>2 DEF LastIsCurrent
      <3>4. all[k] = sofar[k] /\ all[k].id \in Requests
        <4>1. all[k] \in Hearable(K)
          BY <1>3, ElementOfSeq
        <4>2. QED
          BY <1>3, <3>1, <4>1 DEF Hearable
      <3>5. QED
        BY <1>9, <2>2, <3>3, <3>4
    <2>3. QED
      BY <2>1, <2>2
  <1>11. Reaches(m, all)'
    <2> SUFFICES ASSUME NEW i \in DOMAIN m, Pending(m[i])
                 PROVE  /\ m[i].claim # Unclaimed =>
                             \/ Mentions(all, m[i].claim)
                             \/ Current(Run(m[i].claim, m[i].shown))'
                        /\ m[i].claim = Unclaimed /\ Unfinished(i)' => Mentions(all, i)
      BY DEF Reaches, Mentions, Pending, Unclaimed, Run
    <2>1. /\ m[i].claim # Unclaimed =>
               Mentions(sofar, m[i].claim) \/ Current(Run(m[i].claim, m[i].shown))
          /\ m[i].claim = Unclaimed /\ Unfinished(i) => Mentions(sofar, i)
      BY DEF Reaches
    <2>2. ASSUME m[i].claim # Unclaimed, ~Mentions(all, m[i].claim)
          PROVE  Current(Run(m[i].claim, m[i].shown))'
      <3>1. Current(Run(m[i].claim, m[i].shown))
        BY <1>8, <2>1, <2>2
      <3>2. m[i].claim \in Requests \ {r}
        <4>1. m[i] \in ChatMessage
          BY ElementOfSeq, LenProperties DEF Page
        <4>2. QED
          BY <1>7, <2>2, <4>1 DEF ChatMessage
      <3>3. QED
        BY <1>9, <3>1, <3>2 DEF Run
    <2>3. ASSUME m[i].claim = Unclaimed, Unfinished(i)', i # r
          PROVE  Mentions(all, i)
      <3>1. i \in Requests
        BY LenProperties DEF Page, ChatAssumption, Prompts
      <3>2. phase'[i] = phase[i]
        BY <2>3, <3>1, EvictedIsNoRun DEF Takes, OthersStand, Unfinished
      <3>3. QED
        BY <1>8, <2>1, <2>3, <3>2 DEF Unfinished
    <2>4. QED
      BY <1>7, <2>2, <2>3
  <1>12. Covers(sofar) => Covers(all)'
    <2> SUFFICES ASSUME Covers(sofar), NEW q \in Requests, phase'[q] \notin NoRun, q # r
                 PROVE  Mentions(all, q)
      BY <1>7 DEF Covers, Mentions
    <2>1. phase'[q] = phase[q]
      BY EvictedIsNoRun DEF Takes, OthersStand
    <2>2. QED
      BY <1>8, <2>1 DEF Covers
  <1>13. QED
    BY <1>1, <1>10, <1>11, <1>12

----------------------------------------------------------------------------
(* The inductive invariant *)

\* A run exists from the moment its POST arrived, is in progress while the pipeline
\* runs, and the prompts sent are those on the page.
PostsAgree ==
    /\ post \in [Requests -> {"unsent", "sent", "running", "completed", "failed"}]
    /\ \A r \in Requests :
         /\ post[r] \in {"unsent", "sent"} => phase[r] = "unknown"
         /\ post[r] = "running" => phase[r] \in LivePhases
         /\ r \in Prompts => (post[r] = "unsent" <=> r > Len(messages))

\* What the client is told is of runs it may know.
HearsOnly(K) ==
    /\ StreamInv(Saying(K), Carried(K))
    /\ poll \in [is : {"idle", "asked", "answered"}, of : {Unclaimed} \union Requests,
                 runs : Seq(Hearable(K))]

HearsOfItself == \E K \in Nat : K = Len(messages) /\ HearsOnly(K)

SocketAgrees ==
    /\ SocketLive => poll = Idle
    /\ socket = "closed" => ~subscribed

\* Nothing is lost between the store and the client.
Connected ==
    /\ subscribed /\ socket \in {"connecting", "open"}
    /\ ~degraded /\ \A i \in DOMAIN wire : ~wire[i].degraded

\* What a connected client will be told last of a run is how it is, the one that is
\* still connecting will be told of all, and the page will be up to date.
Reached ==
    Connected =>
        /\ LastIsCurrent(Coming)
        /\ socket = "connecting" => Covers(Coming)
        /\ Reaches(messages, Coming)

ChatInv ==
    /\ RunsInv
    /\ SocketTypeOK
    /\ Page(messages)
    /\ PostsAgree
    /\ HearsOfItself
    /\ SocketAgrees
    /\ Reached

----------------------------------------------------------------------------
(* The server's steps *)

\* A mutation of the store, as the client's side sees it.
LEMMA StoreStep ==
    ASSUME ChatAssumption, ChatInv, NEW K \in Nat, K = Len(messages),
           NEW r \in Requests, NEW p, NEW bodies, Says(K, bodies, r, p), Takes(r, p),
           Publish(bodies), UNCHANGED <<socket, messages, poll>>
    PROVE  /\ SocketTypeOK' /\ Page(messages)' /\ HearsOfItself' /\ SocketAgrees'
           /\ Reached'
  <1>1. HearsOnly(K)
    BY DEF ChatInv, HearsOfItself
  <1>2. bodies \in Seq(Saying(K)) /\ TellsOnly(SaidIn(bodies), r, p)
    BY DEF Says
  <1>3. StreamInv(Saying(K), Carried(K))
    BY <1>1 DEF HearsOnly
  <1>4. /\ StreamInv(Saying(K), Carried(K))'
        /\ wire' = wire /\ subscribed' = subscribed
        /\ subscribed /\ ~degraded' =>
             /\ ~degraded
             /\ Coming \in Seq(Hearable(K))
             /\ SaidIn(bodies) \in Seq(Hearable(K))
             /\ Coming' = Coming \o SaidIn(bodies)
    BY <1>2, <1>3, PublishGrows
  <1>5. HearsOnly(K)' /\ K = Len(messages')
    BY <1>1, <1>4 DEF HearsOnly
  <1>6. HearsOfItself'
    BY <1>5 DEF HearsOfItself
  <1>7. SocketTypeOK' /\ SocketAgrees'
    BY <1>4 DEF ChatInv, SocketTypeOK, SocketAgrees, SocketLive, Idle, Request, Unclaimed
  <1>8. Page(messages) /\ Page(messages)'
    <2>1. Page(messages)
      BY DEF ChatInv
    <2>2. QED
      BY <2>1
  <1>9. Reached'
    <2> SUFFICES ASSUME Connected'
                 PROVE  /\ LastIsCurrent(Coming)'
                        /\ socket' = "connecting" => Covers(Coming)'
                        /\ Reaches(messages, Coming)'
      BY DEF Reached
    <2>1. /\ Connected
          /\ Coming \in Seq(Hearable(K))
          /\ SaidIn(bodies) \in Seq(Hearable(K))
          /\ Coming' = Coming \o SaidIn(bodies)
      BY <1>4 DEF Connected
    <2>2. /\ LastIsCurrent(Coming)
          /\ socket = "connecting" => Covers(Coming)
          /\ Reaches(messages, Coming)
      BY <2>1 DEF ChatInv, Reached
    <2>3. PICK sofar \in Seq(Hearable(K)), more \in Seq(Hearable(K)) :
            sofar = Coming /\ more = SaidIn(bodies)
      BY <2>1
    <2>4. PICK m : m = messages
      OBVIOUS
    <2>5. /\ LastIsCurrent(sofar) /\ Reaches(m, sofar) /\ TellsOnly(more, r, p) /\ Page(m)
          /\ socket = "connecting" => Covers(sofar)
      BY <1>2, <1>8, <2>2, <2>3, <2>4
    <2>6. /\ LastIsCurrent(sofar \o more)'
          /\ Reaches(m, sofar \o more)'
          /\ Covers(sofar) => Covers(sofar \o more)'
      BY <2>5, MutationReaches
    <2>7. PICK all : all = sofar \o more
      OBVIOUS
    <2>8. LastIsCurrent(all)' /\ Reaches(m, all)' /\ (socket = "connecting" => Covers(all)')
      BY <2>5, <2>6, <2>7
    <2>9. Coming' = all /\ messages' = m /\ socket' = socket
      BY <2>1, <2>3, <2>4, <2>7
    <2>10. QED
      BY <2>8, <2>9 DEF LastIsCurrent, Reaches, Covers
  <1>10. QED
    BY <1>6, <1>7, <1>8, <1>9

\* A request whose POST was sent may be mentioned to the page.
LEMMA SentKnown ==
    ASSUME ChatAssumption, PostsAgree, NEW K \in Nat, K = Len(messages),
           NEW r \in Requests, post[r] # "unsent"
    PROVE  Known(K, r)
  BY DEF PostsAgree, Known, Prompts, ChatAssumption

\* Runs exist of requests that were sent, prompts of the page among them.
LEMMA StartedAreKnown ==
    ASSUME ChatAssumption, PostsAgree, NEW K \in Nat, K = Len(messages)
    PROVE  StartedKnown(K)
  <1> SUFFICES ASSUME NEW q \in Requests, phase[q] # "unknown"
               PROVE  Known(K, q)
    BY DEF StartedKnown
  <1>1. post[q] # "unsent"
    BY DEF PostsAgree
  <1>2. QED
    BY <1>1, SentKnown

\* A step about r that leaves the other posts alone.
LEMMA PostStep ==
    ASSUME PostsAgree, NEW r \in Requests,
           NEW to \in {"running", "completed", "failed"}, post[r] # "unsent",
           post' = [post EXCEPT ![r] = to], UNCHANGED messages,
           to = "running" => phase'[r] \in LivePhases, OthersStand(r)
    PROVE  PostsAgree'
  <1>1. post' \in [Requests -> {"unsent", "sent", "running", "completed", "failed"}]
    BY DEF PostsAgree
  <1>2. ASSUME NEW q \in Requests
        PROVE  /\ post'[q] \in {"unsent", "sent"} => phase'[q] = "unknown"
               /\ post'[q] = "running" => phase'[q] \in LivePhases
               /\ q \in Prompts => (post'[q] = "unsent" <=> q > Len(messages'))
    <2>1. CASE q = r
      <3>1. post'[q] = to
        BY <2>1 DEF PostsAgree
      <3>2. q \in Prompts => ~(q > Len(messages'))
        BY <2>1 DEF PostsAgree
      <3>3. QED
        BY <2>1, <3>1, <3>2
    <2>2. CASE q # r
      <3>1. post'[q] = post[q]
        BY <2>2 DEF PostsAgree
      <3>2. \/ phase'[q] = phase[q]
            \/ phase[q] \in TerminalPhases
        BY <2>2 DEF OthersStand
      <3>3. TerminalPhases \intersect (LivePhases \union {"unknown"}) = {}
        BY DEF TerminalPhases, LivePhases
      <3>4. QED
        BY <3>1, <3>2, <3>3 DEF PostsAgree
    <2>3. QED
      BY <2>1, <2>2
  <1>3. QED
    BY <1>1, <1>2 DEF PostsAgree

\* Each request has a session.
LEMMA SessionOfRun ==
    ASSUME ChatAssumption, NEW r \in Requests
    PROVE  SessionOf[r] \in Sessions
  BY DEF ChatAssumption

\* A run is accepted,
LEMMA PostAcceptedInv ==
    ASSUME ChatAssumption, ChatInv, NEW r \in Requests, PostAccepted(r)
    PROVE  ChatInv'
  <1>1. PICK K \in Nat : K = Len(messages)
    BY DEF ChatInv, HearsOfItself
  <1>2. /\ RunsInv /\ PostsAgree /\ post[r] = "sent" /\ phase[r] = "unknown"
        /\ "governance" \in LivePhases
    BY SomePhases DEF ChatInv, PostAccepted, Posted, PostsAgree
  <1>3. StartRun(r, SessionOf[r], "governance")
    BY DEF PostAccepted
  <1>4. RunsInv'
    BY <1>2, <1>3, SessionOfRun, StartRunInv
  <1>5. phase' = [phase EXCEPT ![r] = "governance"] /\ phase \in [Requests -> LivePhases \union TerminalPhases \union NoRun]
    BY <1>2, <1>3 DEF StartRun, RunsInv, RunsTypeOK
  <1>6. phase'[r] = "governance" /\ OthersStand(r)
    BY <1>5 DEF OthersStand
  <1>7. PostsAgree'
    BY <1>2, <1>6, PostStep DEF PostAccepted, Posted
  <1>8. Says(K, Starting(r), r, "governance")
    BY <1>1, <1>2, SentKnown, StartingSays
  <1>9. Takes(r, "governance") /\ Publish(Starting(r)) /\ UNCHANGED <<socket, messages, poll>>
    BY <1>6 DEF Takes, PostAccepted
  <1>10. /\ SocketTypeOK' /\ Page(messages)' /\ HearsOfItself' /\ SocketAgrees'
         /\ Reached'
    BY <1>1, <1>8, <1>9, StoreStep
  <1>11. QED
    BY <1>4, <1>7, <1>10 DEF ChatInv

\* or rejected by the intake,
LEMMA PostRejectedInv ==
    ASSUME ChatAssumption, ChatInv, NEW r \in Requests, PostRejected(r)
    PROVE  ChatInv'
  <1>1. PICK K \in Nat : K = Len(messages)
    BY DEF ChatInv, HearsOfItself
  <1>2. /\ RunsInv /\ PostsAgree /\ post[r] = "sent" /\ phase[r] = "unknown"
        /\ "failed" \in TerminalPhases
    BY SomePhases DEF ChatInv, PostRejected, Posted, PostsAgree
  <1>3. StartAndFailRun(r, SessionOf[r])
    BY DEF PostRejected
  <1>4. /\ RunsInv'
        /\ endedAs' = [endedAs EXCEPT ![r] = "failed"]
        /\ phase'[r] \in {"failed", "evicted"}
        /\ OthersStand(r)
    BY <1>2, <1>3, SessionOfRun, StartAndFailRunInv
  <1>5. PostsAgree'
    BY <1>2, <1>4, PostStep DEF PostRejected, Posted
  <1>6. Known(K, r) /\ StartedKnown(K)
    BY <1>1, <1>2, SentKnown, StartedAreKnown
  <1>7. Says(K, Starting(r) \o Ending(r, "failed"), r, "failed")
    BY <1>2, <1>4, <1>6, RejectingSays
  <1>8. /\ Takes(r, "failed") /\ Publish(Starting(r) \o Ending(r, "failed"))
        /\ UNCHANGED <<socket, messages, poll>>
    BY <1>4, EvictedIsNoRun DEF Takes, PostRejected
  <1>9. /\ SocketTypeOK' /\ Page(messages)' /\ HearsOfItself' /\ SocketAgrees'
        /\ Reached'
    BY <1>1, <1>7, <1>8, StoreStep
  <1>10. QED
    BY <1>4, <1>5, <1>9 DEF ChatInv

\* or it ends,
LEMMA EndInv ==
    ASSUME ChatAssumption, ChatInv, NEW r \in Requests, End(r)
    PROVE  ChatInv'
  <1>1. PICK K \in Nat : K = Len(messages)
    BY DEF ChatInv, HearsOfItself
  <1>2. PICK outcome \in TerminalPhases :
          /\ Posted(r, "running", outcome)
          /\ FinishRun(r, outcome)
          /\ Publish(Ending(r, outcome))
          /\ UNCHANGED <<socket, messages, poll>>
    BY DEF End
  <1>3. RunsInv /\ PostsAgree /\ post[r] = "running" /\ phase[r] \in LivePhases
    BY <1>2 DEF ChatInv, Posted, PostsAgree
  <1>4. /\ RunsInv'
        /\ endedAs' = [endedAs EXCEPT ![r] = outcome]
        /\ phase'[r] \in {outcome, "evicted"}
        /\ OthersStand(r)
    BY <1>2, <1>3, FinishRunInv
  <1>5. outcome \in {"running", "completed", "failed"} /\ outcome # "running"
    BY DEF TerminalPhases
  <1>6. PostsAgree'
    BY <1>2, <1>3, <1>4, <1>5, PostStep DEF Posted
  <1>7. Known(K, r) /\ StartedKnown(K)
    BY <1>1, <1>3, SentKnown, StartedAreKnown
  <1>8. Says(K, Ending(r, outcome), r, outcome)
    BY <1>3, <1>4, <1>7, EndingSays
  <1>9. Takes(r, outcome)
    BY <1>4, EvictedIsNoRun DEF Takes
  <1>10. /\ SocketTypeOK' /\ Page(messages)' /\ HearsOfItself' /\ SocketAgrees'
         /\ Reached'
    BY <1>1, <1>2, <1>8, <1>9, StoreStep
  <1>11. QED
    BY <1>4, <1>6, <1>10 DEF ChatInv

\* or goes on.
LEMMA AdvanceInv ==
    ASSUME ChatAssumption, ChatInv, NEW r \in Requests, Advance(r)
    PROVE  ChatInv'
  <1>1. PICK K \in Nat : K = Len(messages)
    BY DEF ChatInv, HearsOfItself
  <1>2. RunsInv /\ PostsAgree /\ post[r] = "running" /\ phase[r] \in LivePhases
    BY DEF ChatInv, Advance, PostsAgree
  <1>3. PICK entered \in LivePhases : EnterPhase(r, entered)
    <2>1. \A i \in DOMAIN Steps : Steps[i] \in LivePhases
      BY LenProperties, ElementOfSeq DEF ChatAssumption
    <2>2. QED
      BY <2>1 DEF Advance
  <1>4. /\ RunsInv'
        /\ phase'[r] = IF phase[r] \in LivePhases THEN entered ELSE phase[r]
        /\ \A q \in Requests \ {r} : phase'[q] = phase[q]
    BY <1>2, <1>3, EnterPhaseInv
  <1>5. phase'[r] = entered /\ OthersStand(r)
    BY <1>2, <1>4 DEF OthersStand
  <1>6. PostsAgree'
    <2>1. UNCHANGED <<post, messages>>
      BY DEF Advance, pageVars
    <2>2. QED
      BY <1>2, <1>4, <1>5, <2>1 DEF PostsAgree
  <1>7. Says(K, Tells(r), r, entered)
    <2>1. Known(K, r)
      BY <1>1, <1>2, SentKnown
    <2>2. QED
      BY <1>5, <2>1, TellsSays
  <1>8. Takes(r, entered) /\ Publish(Tells(r)) /\ UNCHANGED <<socket, messages, poll>>
    BY <1>5 DEF Takes, Advance, pageVars
  <1>9. /\ SocketTypeOK' /\ Page(messages)' /\ HearsOfItself' /\ SocketAgrees'
        /\ Reached'
    BY <1>1, <1>7, <1>8, StoreStep
  <1>10. QED
    BY <1>4, <1>6, <1>9 DEF ChatInv

----------------------------------------------------------------------------
(* The poll *)

\* A poll that brings runs a page with K prompts may know.
Polls(K) ==
    [is : {"idle", "asked", "answered"}, of : {Unclaimed} \union Requests,
     runs : Seq(Hearable(K))]

AskedOf(m) ==
    LET claimed == {i \in DOMAIN m : Pending(m[i]) /\ m[i].claim # Unclaimed}
    IN Request("asked", IF claimed = {} THEN Unclaimed ELSE m[Min(claimed)].claim, << >>)

\* Asked, of the messages before and after a step.
LEMMA AskedIs == Asked = AskedOf(messages) /\ Asked' = AskedOf(messages')
  BY DEF Asked, AskedOf

\* No poll is out.
LEMMA IdlePolls ==
    ASSUME NEW K
    PROVE  Idle \in Polls(K)
  <1>1. << >> \in Seq(Hearable(K))
    BY EmptySeq
  <1>2. QED
    BY <1>1 DEF Idle, Request, Polls

\* A poll that was sent asks for a run the page may ask for.
LEMMA AskedPolls ==
    ASSUME ChatAssumption, NEW K, NEW m, Page(m)
    PROVE  AskedOf(m) \in Polls(K)
  <1>1. PICK claimed : claimed = {i \in DOMAIN m : Pending(m[i]) /\ m[i].claim # Unclaimed}
    OBVIOUS
  <1>2. PICK n \in Nat : n = Len(m) /\ DOMAIN m = 1 .. n
    BY LenProperties DEF Page
  <1>3. ASSUME claimed # {}
        PROVE  m[Min(claimed)].claim \in Requests
    <2>1. claimed = {n} /\ n \in DOMAIN m
      BY <1>1, <1>2, <1>3 DEF Page
    <2>2. Min(claimed) = n
      BY <2>1, MinOfOne
    <2>3. m[n] \in ChatMessage /\ m[n].claim # Unclaimed
      BY <1>1, <1>2, <2>1, ElementOfSeq DEF Page
    <2>4. QED
      BY <2>2, <2>3 DEF ChatMessage
  <1>4. PICK of \in {Unclaimed} \union Requests :
          of = IF claimed = {} THEN Unclaimed ELSE m[Min(claimed)].claim
    BY <1>3
  <1>5. AskedOf(m) = Request("asked", of, << >>)
    BY <1>1, <1>4, Zenon DEF AskedOf
  <1>6. << >> \in Seq(Hearable(K))
    BY EmptySeq
  <1>7. QED
    BY <1>5, <1>6 DEF Request, Polls

\* After a render the poll is what the step leaves, a new one, or none; none while
\* the socket is live.
LEMMA Rerendered ==
    ASSUME ChatAssumption, NEW K, Page(messages'), NEW x \in Polls(K), Rerender(x),
           SocketLive => x = Idle
    PROVE  poll' \in Polls(K) /\ (SocketLive' => poll' = Idle)
  <1>1. Asked' \in Polls(K)
    <2>1. PICK m : m = messages'
      OBVIOUS
    <2>2. AskedOf(m) \in Polls(K)
      BY <2>1, AskedPolls
    <2>3. QED
      BY <2>1, <2>2, AskedIs, Zenon
  <1>2. poll' \in {x, Idle, Asked'}
    BY DEF Rerender
  <1>3. poll' \in Polls(K)
    BY <1>1, <1>2, IdlePolls
  <1>4. ASSUME SocketLive'
        PROVE  poll' = Idle
    <2>1. CASE <<SocketLive, Awaiting>>' = <<SocketLive, Awaiting>>
      <3>1. SocketLive' = SocketLive
        BY <2>1
      <3>2. SocketLive
        BY <1>4, <3>1, Zenon
      <3>3. x = Idle
        BY <3>2
      <3>4. QED
        BY <2>1, <3>3 DEF Rerender
    <2>2. CASE ~(<<SocketLive, Awaiting>>' = <<SocketLive, Awaiting>>)
      <3>1. ~Wanted'
        BY <1>4 DEF Wanted
      <3>2. QED
        BY <2>2, <3>1, Zenon DEF Rerender
    <2>3. QED
      BY <2>1, <2>2
  <1>5. QED
    BY <1>3, <1>4

----------------------------------------------------------------------------
(* Steps that leave the stream alone *)

LEMMA StreamRests ==
    ASSUME UNCHANGED streamVars
    PROVE  /\ UNCHANGED <<subscribed, degraded, wire, queue>>
           /\ Coming' = Coming
           /\ \A K : StreamInv(Saying(K), Carried(K)) => StreamInv(Saying(K), Carried(K))'
  <1>1. UNCHANGED <<subscribed, degraded, wire, queue>>
    BY DEF streamVars
  <1>2. Coming' = Coming
    BY <1>1, ComingIs, Zenon
  <1>3. ASSUME NEW K, StreamInv(Saying(K), Carried(K))
        PROVE  StreamInv(Saying(K), Carried(K))'
    BY <1>3, StreamStutter
  <1>4. QED
    BY <1>1, <1>2, <1>3

\* Nothing happens to the store.
LEMMA StoreRests ==
    ASSUME RunsInv, UNCHANGED runVars
    PROVE  /\ RunsInv' /\ phase' = phase
           /\ \A list, m : /\ LastIsCurrent(list) => LastIsCurrent(list)'
                           /\ Covers(list) => Covers(list)'
                           /\ Reaches(m, list) => Reaches(m, list)'
  <1>1. RunsInv' /\ phase' = phase
    BY RunsStutter DEF runVars
  <1>2. QED
    BY <1>1 DEF LastIsCurrent, Covers, Reaches, Current, Mentions, Unfinished

\* The busy guard touches no run.
LEMMA PostRefusedInv ==
    ASSUME ChatAssumption, ChatInv, NEW r \in Requests, PostRefused(r)
    PROVE  ChatInv'
  <1>1. PICK K \in Nat : K = Len(messages) /\ HearsOnly(K)
    BY DEF ChatInv, HearsOfItself
  <1>2. UNCHANGED <<runVars, streamVars, socket, messages, poll>>
    BY DEF PostRefused, socketVars
  <1>3. /\ RunsInv' /\ phase' = phase
        /\ \A list, m : /\ LastIsCurrent(list) => LastIsCurrent(list)'
                        /\ Covers(list) => Covers(list)'
                        /\ Reaches(m, list) => Reaches(m, list)'
    BY <1>2, StoreRests DEF ChatInv
  <1>4. /\ UNCHANGED <<subscribed, degraded, wire, queue>>
        /\ Coming' = Coming
        /\ StreamInv(Saying(K), Carried(K))'
    BY <1>1, <1>2, StreamRests DEF HearsOnly
  <1>5. HearsOfItself'
    <2>1. HearsOnly(K)' /\ K = Len(messages')
      BY <1>1, <1>2, <1>4 DEF HearsOnly
    <2>2. QED
      BY <2>1 DEF HearsOfItself
  <1>6. PostsAgree'
    <2>1. PostsAgree /\ post[r] = "sent" /\ post' = [post EXCEPT ![r] = "failed"]
      BY DEF ChatInv, PostRefused, Posted
    <2>2. OthersStand(r)
      BY <1>3 DEF OthersStand
    <2>3. QED
      BY <1>2, <2>1, <2>2, PostStep
  <1>7. SocketTypeOK' /\ Page(messages)' /\ SocketAgrees'
    BY <1>2, <1>4 DEF ChatInv, SocketTypeOK, SocketAgrees, SocketLive, Idle, Request,
       Unclaimed
  <1>8. Reached'
    <2> SUFFICES ASSUME Connected'
                 PROVE  /\ LastIsCurrent(Coming)'
                        /\ socket' = "connecting" => Covers(Coming)'
                        /\ Reaches(messages, Coming)'
      BY DEF Reached
    <2>1. Connected
      BY <1>2, <1>4 DEF Connected
    <2>2. PICK list, m : list = Coming /\ m = messages
      OBVIOUS
    <2>3. LastIsCurrent(list) /\ (socket = "connecting" => Covers(list)) /\ Reaches(m, list)
      BY <2>1, <2>2 DEF ChatInv, Reached
    <2>4. LastIsCurrent(list)' /\ (socket = "connecting" => Covers(list)') /\ Reaches(m, list)'
      BY <1>3, <2>3
    <2>5. Coming' = list /\ messages' = m /\ socket' = socket
      BY <1>2, <1>4, <2>2
    <2>6. QED
      BY <2>4, <2>5 DEF LastIsCurrent, Reaches, Covers
  <1>9. QED
    BY <1>3, <1>5, <1>6, <1>7, <1>8 DEF ChatInv

----------------------------------------------------------------------------
(* The parts of the invariant after a step of the client *)

LEMMA ReachedAnew ==
    ASSUME phase' = phase, NEW list, NEW m, Coming' = list, messages' = m,
           LastIsCurrent(list), socket' = "connecting" => Covers(list), Reaches(m, list)
    PROVE  Reached'
  <1>1. LastIsCurrent(list)' /\ (socket' = "connecting" => Covers(list)') /\ Reaches(m, list)'
    BY DEF LastIsCurrent, Covers, Reaches, Current, Mentions, Unfinished
  <1>2. LastIsCurrent(Coming)' /\ (socket' = "connecting" => Covers(Coming)')
    BY <1>1 DEF LastIsCurrent, Covers
  <1>3. Reaches(messages, Coming)'
    BY <1>1 DEF Reaches
  <1>4. QED
    BY <1>2, <1>3 DEF Reached

\* Neither store, page nor what is on the way changes.
LEMMA ReachedStays ==
    ASSUME Reached, UNCHANGED <<phase, messages>>, Coming' = Coming, Connected' => Connected,
           socket' = "connecting" => socket = "connecting"
    PROVE  Reached'
  <1>1. CASE Connected'
    <2>1. /\ LastIsCurrent(Coming)
          /\ socket' = "connecting" => Covers(Coming)
          /\ Reaches(messages, Coming)
      BY <1>1 DEF Reached
    <2>2. PICK list, m : list = Coming /\ m = messages
      OBVIOUS
    <2>3. /\ phase' = phase /\ Coming' = list /\ messages' = m
          /\ LastIsCurrent(list)
          /\ socket' = "connecting" => Covers(list)
          /\ Reaches(m, list)
      BY <2>1, <2>2
    <2>4. QED
      BY <2>3, ReachedAnew
  <1>2. CASE ~Connected'
    BY <1>2 DEF Reached
  <1>3. QED
    BY <1>1, <1>2

\* Neither runs nor POSTs change.
LEMMA PostsRest ==
    ASSUME PostsAgree, UNCHANGED <<phase, post>>, Len(messages') = Len(messages)
    PROVE  PostsAgree'
  BY DEF PostsAgree

\* Put together for as many prompts as there are.
LEMMA HearsAgain ==
    ASSUME NEW K \in Nat, K = Len(messages'), StreamInv(Saying(K), Carried(K))',
           poll' \in Polls(K)
    PROVE  HearsOfItself'
  <1>1. HearsOnly(K)'
    BY DEF HearsOnly, Polls
  <1>2. QED
    BY <1>1 DEF HearsOfItself

----------------------------------------------------------------------------
(* The POST, as the client sees it *)

LEMMA AnsweredPage ==
    ASSUME ChatAssumption, NEW m, Page(m), NEW i \in DOMAIN m, Pending(m[i]), NEW line,
           \/ line = Prompt("completed", i, m[i].shown)
           \/ line = [m[i] EXCEPT !.status = "failed"]
    PROVE  /\ Page([m EXCEPT ![i] = line])
           /\ Len([m EXCEPT ![i] = line]) = Len(m)
           /\ \A j \in DOMAIN m : ~Pending([m EXCEPT ![i] = line][j])
  <1>1. PICK n \in Nat : n = Len(m) /\ DOMAIN m = 1 .. n
    BY LenProperties DEF Page
  <1>2. m \in Seq(ChatMessage) /\ n <= MaxPrompts /\ i = n
    BY <1>1 DEF Page
  <1>3. m[i] \in ChatMessage
    BY <1>1, <1>2, ElementOfSeq
  <1>4. i \in Requests
    BY <1>1, <1>2 DEF ChatAssumption, Prompts
  <1>5. /\ line \in ChatMessage
        /\ line.status \in {"completed", "failed"}
        /\ line.status = "completed" => line.claim = i
        /\ line.status = "failed" => line.claim = m[i].claim
    BY <1>3, <1>4 DEF Prompt, ChatMessage
  <1>6. PICK u : u = [m EXCEPT ![i] = line]
    OBVIOUS
  <1>7. u \in Seq(ChatMessage) /\ Len(u) = n /\ DOMAIN u = 1 .. n
    BY <1>1, <1>2, <1>5, <1>6, ExceptSeq, LenProperties
  <1>8. u[i] = line /\ \A j \in 1 .. n : j # i => u[j] = m[j]
    BY <1>1, <1>6
  <1>9. \A j \in 1 .. n : ~Pending(u[j])
    BY <1>1, <1>2, <1>5, <1>8 DEF Page, Pending
  <1>10. \A j \in 1 .. n : u[j].status = "completed" => u[j].claim = j
    BY <1>1, <1>2, <1>5, <1>8 DEF Page
  <1>11. \A j \in 1 .. n : u[j].claim # Unclaimed =>
            (u[j].claim = i /\ j = i) \/ u[j].claim = m[j].claim
    BY <1>2, <1>5, <1>8
  <1>12. ASSUME NEW j \in 1 .. n, u[j].claim # Unclaimed
         PROVE  /\ u[j].claim \in 1 .. j
                /\ u[j].claim # j => /\ u[u[j].claim].status = "failed"
                                     /\ u[j].status # "completed"
                /\ \A k \in 1 .. n : u[k].claim = u[j].claim => k = j
    <2>1. \A k \in 1 .. n : m[k].claim # Unclaimed =>
            /\ m[k].claim \in 1 .. k
            /\ m[k].claim # k => m[m[k].claim].status = "failed"
            /\ \A l \in 1 .. n : m[l].claim = m[k].claim => l = k
      BY <1>1 DEF Page, Honest
    <2>2. u[j].claim \in 1 .. j
      BY <1>11, <1>12, <2>1
    <2>3. ASSUME u[j].claim # j
          PROVE  u[u[j].claim].status = "failed" /\ u[j].status # "completed"
      <3>1. PICK c \in 1 .. n : c = u[j].claim /\ c < j
        BY <2>2, <2>3
      <3>2. c = m[j].claim /\ c # i
        BY <1>2, <1>11, <1>12, <2>3, <3>1
      <3>3. m[c].status = "failed" /\ u[c] = m[c]
        BY <1>8, <1>12, <2>1, <2>3, <3>1, <3>2
      <3>4. QED
        BY <1>10, <2>3, <3>1, <3>3
    <2>4. ASSUME NEW k \in 1 .. n, u[k].claim = u[j].claim
          PROVE  k = j
      <3>1. CASE j = i
        <4>1. CASE u[j].claim = i
          <5>1. k = i
            BY <1>2, <1>11, <1>12, <2>1, <2>4, <4>1
          <5>2. QED
            BY <3>1, <5>1
        <4>2. CASE u[j].claim # i
          BY <1>11, <1>12, <2>1, <2>4, <4>2
        <4>3. QED
          BY <4>1, <4>2
      <3>2. CASE j # i
        <4>1. u[j].claim # i
          BY <1>2, <2>2, <3>2
        <4>2. QED
          BY <1>11, <1>12, <2>1, <2>4, <4>1
      <3>3. QED
        BY <3>1, <3>2
    <2>5. QED
      BY <2>2, <2>3, <2>4
  <1>13. Honest(u)
    BY <1>7, <1>12 DEF Honest
  <1>14. Page(u)
    BY <1>2, <1>7, <1>9, <1>10, <1>13 DEF Page
  <1>15. QED
    BY <1>1, <1>6, <1>7, <1>9, <1>14

\* A POST is answered, or breaks.
LEMMA AnsweredInv ==
    ASSUME ChatAssumption, ChatInv, NEW i \in DOMAIN messages, NEW line, Answered(i, line),
           \/ line = Prompt("completed", i, messages[i].shown)
           \/ line = [messages[i] EXCEPT !.status = "failed"]
    PROVE  ChatInv'
  <1>1. PICK K \in Nat : K = Len(messages) /\ HearsOnly(K)
    BY DEF ChatInv, HearsOfItself
  <1>2. /\ Pending(messages[i]) /\ messages' = [messages EXCEPT ![i] = line]
        /\ UNCHANGED <<runVars, streamVars, socket, post>>
        /\ Rerender(poll)
    BY DEF Answered, socketVars
  <1>3. RunsInv' /\ phase' = phase
    BY <1>2, StoreRests DEF ChatInv
  <1>4. /\ UNCHANGED <<subscribed, degraded, wire, queue>>
        /\ Coming' = Coming
        /\ StreamInv(Saying(K), Carried(K))'
    BY <1>1, <1>2, StreamRests DEF HearsOnly
  <1>5. PICK m : m = messages
    OBVIOUS
  <1>6. PICK u : u = [m EXCEPT ![i] = line]
    OBVIOUS
  <1>7. messages' = u
    BY <1>2, <1>5, <1>6
  <1>8. Page(u) /\ Len(u) = K /\ (\A j \in DOMAIN m : ~Pending(u[j])) /\ DOMAIN u = DOMAIN m
    <2>1. /\ Page(m) /\ i \in DOMAIN m /\ Pending(m[i]) /\ Len(m) = K
          /\ \/ line = Prompt("completed", i, m[i].shown)
             \/ line = [m[i] EXCEPT !.status = "failed"]
      BY <1>1, <1>2, <1>5 DEF ChatInv
    <2>2. /\ Page([m EXCEPT ![i] = line])
          /\ Len([m EXCEPT ![i] = line]) = Len(m)
          /\ \A j \in DOMAIN m : ~Pending([m EXCEPT ![i] = line][j])
      BY <2>1, AnsweredPage
    <2>3. QED
      BY <1>6, <2>1, <2>2
  <1>9. Page(messages')
    BY <1>7, <1>8
  <1>10. poll' \in Polls(K) /\ (SocketLive' => poll' = Idle)
    <2>1. poll \in Polls(K) /\ (SocketLive => poll = Idle)
      BY <1>1 DEF HearsOnly, Polls, ChatInv, SocketAgrees
    <2>2. QED
      BY <1>2, <1>9, <2>1, Rerendered
  <1>11. HearsOfItself'
    BY <1>4, <1>7, <1>8, <1>10, HearsAgain
  <1>12. PostsAgree'
    BY <1>1, <1>2, <1>3, <1>7, <1>8, PostsRest DEF ChatInv
  <1>13. SocketTypeOK' /\ SocketAgrees'
    BY <1>2, <1>4, <1>10 DEF ChatInv, SocketTypeOK, SocketAgrees, Idle, Request, Unclaimed
  <1>14. Reached'
    <2>1. CASE Connected'
      <3>1. Connected
        BY <1>2, <1>4, <2>1 DEF Connected
      <3>2. PICK list : list = Coming
        OBVIOUS
      <3>3. LastIsCurrent(list) /\ (socket' = "connecting" => Covers(list))
        BY <1>2, <3>1, <3>2 DEF ChatInv, Reached
      <3>4. Reaches(u, list)
        BY <1>8 DEF Reaches
      <3>5. Coming' = list
        BY <1>4, <3>2
      <3>6. QED
        BY <1>3, <1>7, <3>3, <3>4, <3>5, ReachedAnew
    <2>2. CASE ~Connected'
      BY <2>2 DEF Reached
    <2>3. QED
      BY <2>1, <2>2
  <1>15. QED
    BY <1>3, <1>9, <1>11, <1>12, <1>13, <1>14 DEF ChatInv

\* The answers of the server are such answers.
LEMMA ReplyInv ==
    ASSUME ChatAssumption, ChatInv, NEW i \in DOMAIN messages, Reply(i) \/ PostBreaks(i)
    PROVE  ChatInv'
  <1>1. PICK line :
          /\ Answered(i, line)
          /\ \/ line = Prompt("completed", i, messages[i].shown)
             \/ line = [messages[i] EXCEPT !.status = "failed"]
    BY DEF Reply, PostBreaks
  <1>2. QED
    BY <1>1, AnsweredInv

----------------------------------------------------------------------------
(* A prompt *)

LEMMA SeqMore ==
    ASSUME NEW S, NEW T, S \subseteq T
    PROVE  Seq(S) \subseteq Seq(T)
  <1> SUFFICES ASSUME NEW q \in Seq(S)
               PROVE  q \in Seq(T)
    OBVIOUS
  <1>1. PICK n \in Nat : n = Len(q)
    BY LenProperties
  <1>2. \A i \in 1 .. n : q[i] \in T
    BY <1>1, ElementOfSeq
  <1>3. q = [i \in 1 .. n |-> q[i]]
    BY <1>1, LenProperties
  <1> DEFINE e(i) == q[i]
  <1>4. q = [i \in 1 .. n |-> e(i)] /\ \A i \in 1 .. n : e(i) \in T
    BY <1>2, <1>3
  <1> HIDE DEF e
  <1>5. QED
    BY <1>4, IsASeq

\* A page with one prompt more may know more.
LEMMA HearsMore ==
    ASSUME NEW K \in Nat
    PROVE  /\ Saying(K) \subseteq Saying(K + 1)
           /\ Carried(K) \subseteq Carried(K + 1)
           /\ Polls(K) \subseteq Polls(K + 1)
  <1>1. Hearable(K) \subseteq Hearable(K + 1)
    <2> SUFFICES ASSUME NEW run \in Hearable(K), run.id \in Prompts
                 PROVE  run.id <= K + 1
      BY DEF Hearable
    <2>1. run.id <= K /\ run.id \in Int
      BY DEF Hearable, Prompts
    <2>2. QED
      BY <2>1
  <1>2. Seq(Hearable(K)) \subseteq Seq(Hearable(K + 1))
    BY <1>1, SeqMore
  <1>3. QED
    BY <1>1, <1>2 DEF Saying, Carried, Polls

\* A page with one prompt more may hear of more.
LEMMA StreamMore ==
    ASSUME NEW K \in Nat, StreamInv(Saying(K), Carried(K)), UNCHANGED streamVars
    PROVE  StreamInv(Saying(K + 1), Carried(K + 1))'
  <1>1. Entry(Saying(K)) \subseteq Entry(Saying(K + 1)) /\ Carried(K) \subseteq Carried(K + 1)
    BY HearsMore DEF Entry
  <1>2. /\ Seq(Entry(Saying(K))) \subseteq Seq(Entry(Saying(K + 1)))
        /\ Seq(Carried(K)) \subseteq Seq(Carried(K + 1))
    BY <1>1, SeqMore
  <1>3. StreamTypes(Saying(K + 1), Carried(K + 1))
    BY <1>2 DEF StreamInv, StreamTypes
  <1>4. StreamInv(Saying(K + 1), Carried(K + 1))
    BY <1>3 DEF StreamInv
  <1>5. QED
    BY <1>4, StreamStutter

\* The page with one prompt more, once none is pending.
LEMMA SubmittedPage ==
    ASSUME ChatAssumption, NEW m, Page(m), Len(m) < MaxPrompts,
           \A i \in DOMAIN m : ~Pending(m[i])
    PROVE  LET u == Append(m, Prompt("pending", Unclaimed, "none")) IN
           /\ Page(u) /\ Len(u) = Len(m) + 1
           /\ DOMAIN u = 1 .. Len(m) + 1
           /\ u[Len(m) + 1] = Prompt("pending", Unclaimed, "none")
           /\ \A i \in 1 .. Len(m) : ~Pending(u[i])
  <1>1. PICK n \in Nat : n = Len(m) /\ DOMAIN m = 1 .. n /\ m \in Seq(ChatMessage)
    BY LenProperties DEF Page
  <1>2. PICK line \in ChatMessage : line = Prompt("pending", Unclaimed, "none")
    BY DEF Prompt, ChatMessage, Shown
  <1>3. PICK u \in Seq(ChatMessage) : u = Append(m, line)
    BY <1>1, AppendProperties
  <1>4. /\ Len(u) = n + 1 /\ DOMAIN u = 1 .. n + 1
        /\ \A i \in 1 .. n : u[i] = m[i]
        /\ u[n + 1] = line
    BY <1>1, <1>3, AppendProperties, LenProperties
  <1>5. line.claim = Unclaimed /\ line.status = "pending"
    BY <1>2 DEF Prompt
  <1>6. \A i \in 1 .. n : ~Pending(u[i])
    BY <1>1, <1>4
  <1>7. \A i \in 1 .. n + 1 : Pending(u[i]) => i = n + 1
    BY <1>6
  <1>8. \A i \in 1 .. n + 1 : i \in 1 .. n \/ i = n + 1
    OBVIOUS
  <1>9. \A i \in 1 .. n + 1 : u[i].status = "completed" => u[i].claim = i
    BY <1>1, <1>4, <1>5, <1>8 DEF Page
  <1>10. Honest(u)
    <2> SUFFICES ASSUME NEW i \in 1 .. n + 1, u[i].claim # Unclaimed
                 PROVE  /\ u[i].claim \in 1 .. i
                        /\ u[i].claim # i => /\ u[u[i].claim].status = "failed"
                                             /\ u[i].status # "completed"
                        /\ \A j \in 1 .. n + 1 : u[j].claim = u[i].claim => j = i
      BY <1>4 DEF Honest
    <2>1. i \in 1 .. n /\ u[i] = m[i]
      BY <1>4, <1>5, <1>8
    <2>2. /\ m[i].claim \in 1 .. i
          /\ m[i].claim # i => m[m[i].claim].status = "failed" /\ m[i].status # "completed"
          /\ \A j \in 1 .. n : m[j].claim = m[i].claim => j = i
      BY <1>1, <2>1 DEF Page, Honest
    <2>3. u[i].claim \in 1 .. n /\ u[u[i].claim] = m[m[i].claim]
      BY <1>4, <2>1, <2>2
    <2>4. ASSUME NEW j \in 1 .. n + 1, u[j].claim = u[i].claim
          PROVE  j = i
      <3>1. j \in 1 .. n /\ u[j] = m[j]
        BY <1>4, <1>5, <1>8, <2>4
      <3>2. QED
        BY <2>1, <2>2, <2>4, <3>1
    <2>5. QED
      BY <2>1, <2>2, <2>3, <2>4
  <1>11. Page(u)
    BY <1>1, <1>4, <1>7, <1>9, <1>10 DEF Page
  <1>12. QED
    BY <1>1, <1>2, <1>3, <1>4, <1>6, <1>11, Zenon

\* A prompt is submitted.
LEMMA SubmitInv ==
    ASSUME ChatAssumption, ChatInv, Submit
    PROVE  ChatInv'
  <1>1. PICK K \in Nat : K = Len(messages) /\ HearsOnly(K)
    BY DEF ChatInv, HearsOfItself
  <1>2. /\ ~Awaiting /\ K < MaxPrompts
        /\ messages' = Append(messages, Prompt("pending", Unclaimed, "none"))
        /\ post' = [post EXCEPT ![Len(messages')] = "sent"]
        /\ UNCHANGED <<runVars, streamVars, socket>>
        /\ Rerender(poll)
    BY <1>1 DEF Submit, socketVars
  <1>3. RunsInv' /\ phase' = phase
    BY <1>2, StoreRests DEF ChatInv
  <1>4. /\ UNCHANGED <<subscribed, degraded, wire, queue>>
        /\ Coming' = Coming
        /\ StreamInv(Saying(K + 1), Carried(K + 1))'
    <2>1. StreamInv(Saying(K), Carried(K))
      BY <1>1 DEF HearsOnly
    <2>2. QED
      BY <1>2, <2>1, StreamRests, StreamMore
  <1>5. PICK m : m = messages
    OBVIOUS
  <1>6. PICK u : u = Append(m, Prompt("pending", Unclaimed, "none"))
    OBVIOUS
  <1>7. messages' = u
    BY <1>2, <1>5, <1>6
  <1>8. /\ Page(u) /\ Len(u) = K + 1 /\ DOMAIN u = 1 .. K + 1
        /\ u[K + 1] = Prompt("pending", Unclaimed, "none")
        /\ \A i \in 1 .. K : ~Pending(u[i])
    <2>1. Page(m) /\ Len(m) = K /\ Len(m) < MaxPrompts /\ \A i \in DOMAIN m : ~Pending(m[i])
      BY <1>1, <1>2, <1>5 DEF ChatInv, Awaiting
    <2>2. QED
      BY <1>6, <2>1, SubmittedPage
  <1>9. Page(messages')
    BY <1>7, <1>8
  <1>10. poll' \in Polls(K + 1) /\ (SocketLive' => poll' = Idle)
    <2>1. poll \in Polls(K) /\ (SocketLive => poll = Idle)
      BY <1>1 DEF HearsOnly, Polls, ChatInv, SocketAgrees
    <2>2. poll \in Polls(K + 1)
      BY <2>1, HearsMore
    <2>3. QED
      BY <1>2, <1>9, <2>1, <2>2, Rerendered
  <1>11. HearsOfItself'
    <2>1. PICK k \in Nat : k = K + 1
      OBVIOUS
    <2>2. QED
      BY <1>4, <1>7, <1>8, <1>10, <2>1, HearsAgain
  <1>12. K + 1 \in Prompts /\ K + 1 \in Requests
    BY <1>2 DEF Prompts, ChatAssumption
  <1>13. PostsAgree
    BY DEF ChatInv
  <1>14. post[K + 1] = "unsent" /\ phase[K + 1] = "unknown"
    BY <1>1, <1>12, <1>13 DEF PostsAgree
  <1>15. PostsAgree'
    <2>1. post' = [post EXCEPT ![K + 1] = "sent"] /\ Len(messages') = K + 1
      BY <1>2, <1>7, <1>8
    <2>2. post' \in [Requests -> {"unsent", "sent", "running", "completed", "failed"}]
      BY <1>13, <2>1 DEF PostsAgree
    <2>3. ASSUME NEW r \in Requests
          PROVE  /\ post'[r] \in {"unsent", "sent"} => phase'[r] = "unknown"
                 /\ post'[r] = "running" => phase'[r] \in LivePhases
                 /\ r \in Prompts => (post'[r] = "unsent" <=> r > Len(messages'))
      <3>1. CASE r = K + 1
        <4>1. post'[r] = "sent" /\ phase'[r] = "unknown" /\ ~(r > K + 1)
          BY <1>3, <1>12, <1>13, <1>14, <2>1, <3>1 DEF PostsAgree
        <4>2. QED
          BY <2>1, <4>1
      <3>2. CASE r # K + 1
        <4>1. post'[r] = post[r] /\ phase'[r] = phase[r]
          BY <1>3, <1>13, <2>1, <3>2 DEF PostsAgree
        <4>2. r \in Prompts => (r > K + 1 <=> r > K)
          BY <3>2 DEF Prompts
        <4>3. QED
          BY <1>1, <1>13, <2>1, <4>1, <4>2 DEF PostsAgree
      <3>3. QED
        BY <3>1, <3>2
    <2>4. QED
      BY <2>2, <2>3 DEF PostsAgree
  <1>16. SocketTypeOK' /\ SocketAgrees'
    BY <1>2, <1>4, <1>10 DEF ChatInv, SocketTypeOK, SocketAgrees, Idle, Request, Unclaimed
  <1>17. Reached'
    <2>1. CASE Connected'
      <3>1. Connected
        BY <1>2, <1>4, <2>1 DEF Connected
      <3>2. PICK list : list = Coming
        OBVIOUS
      <3>3. LastIsCurrent(list) /\ (socket' = "connecting" => Covers(list))
        BY <1>2, <3>1, <3>2 DEF ChatInv, Reached
      <3>4. Reaches(u, list)
        <4> SUFFICES ASSUME NEW i \in DOMAIN u, Pending(u[i])
                     PROVE  u[i].claim = Unclaimed /\ ~Unfinished(i)
          BY DEF Reaches
        <4>1. i = K + 1
          BY <1>8
        <4>2. u[i].claim = Unclaimed
          BY <1>8, <4>1 DEF Prompt
        <4>3. "unknown" \notin LivePhases
          BY DEF LivePhases
        <4>4. QED
          BY <1>14, <4>1, <4>2, <4>3 DEF Unfinished
      <3>5. Coming' = list
        BY <1>4, <3>2
      <3>6. QED
        BY <1>3, <1>7, <3>3, <3>4, <3>5, ReachedAnew
    <2>2. CASE ~Connected'
      BY <2>2 DEF Reached
    <2>3. QED
      BY <2>1, <2>2
  <1>18. QED
    BY <1>3, <1>9, <1>11, <1>15, <1>16, <1>17 DEF ChatInv

----------------------------------------------------------------------------
(* What is somewhere in lists *)

\* What is in either of two lists is in the one behind the other.
LEMMA ContainsConcat ==
    ASSUME NEW S, NEW p \in Seq(S), NEW q \in Seq(S), NEW x, Contains(p, x) \/ Contains(q, x)
    PROVE  Contains(p \o q, x)
  <1>1. PICK t \in Seq(S) : t = p \o q
    BY ConcatProperties
  <1>2. PICK a \in Nat, b \in Nat : a = Len(p) /\ b = Len(q)
    BY LenProperties
  <1>3. /\ Len(t) = a + b
        /\ \A i \in 1 .. a : t[i] = p[i]
        /\ \A i \in 1 .. b : t[a + i] = q[i]
    BY <1>1, <1>2, ConcatAt
  <1>4. CASE Contains(p, x)
    <2>1. PICK k \in 1 .. a : p[k] = x
      BY <1>2, <1>4 DEF Contains
    <2>2. k \in 1 .. a + b /\ t[k] = x
      BY <1>3, <2>1
    <2>3. QED
      BY <1>1, <1>3, <2>2 DEF Contains
  <1>5. CASE Contains(q, x)
    <2>1. PICK k \in 1 .. b : q[k] = x
      BY <1>2, <1>5 DEF Contains
    <2>2. a + k \in 1 .. a + b /\ t[a + k] = x
      BY <1>3, <2>1
    <2>3. QED
      BY <1>1, <1>3, <2>2 DEF Contains
  <1>6. QED
    BY <1>4, <1>5

SomeContains(lists, x) == \E i \in 1 .. Len(lists) : Contains(lists[i], x)

\* What is in one of the lists is in them all one behind the other.
LEMMA JoinedContains ==
    ASSUME NEW S, NEW x
    PROVE  \A lists \in Seq(Seq(S)) : SomeContains(lists, x) => Contains(Joined(lists), x)
  <1> DEFINE G == {lists \in Seq(Seq(S)) : SomeContains(lists, x) => Contains(Joined(lists), x)}
  <1>1. << >> \in G
    <2>1. << >> \in Seq(Seq(S)) /\ Len(<< >>) = 0
      BY EmptySeq
    <2>2. ~SomeContains(<< >>, x)
      BY <2>1 DEF SomeContains
    <2>3. QED
      BY <2>1, <2>2
  <1>2. ASSUME NEW lists \in Seq(Seq(S)), NEW e \in Seq(S), lists \in G
        PROVE  Append(lists, e) \in G
    <2>1. PICK n \in Nat : n = Len(lists)
      BY LenProperties
    <2>2. PICK more \in Seq(Seq(S)) :
            /\ more = Append(lists, e) /\ Len(more) = n + 1
            /\ (\A i \in 1 .. n : more[i] = lists[i]) /\ more[n + 1] = e
      BY <2>1, AppendProperties
    <2>3. PICK p \in Seq(S) : p = Joined(lists)
      BY JoinedSeq
    <2>4. Joined(more) = p \o e
      BY <2>2, <2>3, JoinedAppend
    <2>5. ASSUME SomeContains(more, x)
          PROVE  Contains(p, x) \/ Contains(e, x)
      <3>1. PICK i \in 1 .. n + 1 : Contains(more[i], x)
        BY <2>2, <2>5 DEF SomeContains
      <3>2. CASE i = n + 1
        BY <2>2, <3>1, <3>2
      <3>3. CASE i # n + 1
        <4>1. i \in 1 .. n /\ more[i] = lists[i]
          BY <2>2, <3>3
        <4>2. SomeContains(lists, x)
          BY <2>1, <3>1, <4>1 DEF SomeContains
        <4>3. QED
          BY <1>2, <2>3, <4>2
      <3>4. QED
        BY <3>2, <3>3
    <2>6. SomeContains(more, x) => Contains(p \o e, x)
      BY <2>5, ContainsConcat
    <2>7. SomeContains(more, x) => Contains(Joined(more), x)
      BY <2>4, <2>6
    <2>8. QED
      BY <2>2, <2>7
  <1> HIDE DEF G
  <1>3. \A lists \in Seq(Seq(S)) : lists \in G
    BY <1>1, <1>2, ListInduction
  <1>4. QED
    BY <1>3 DEF G

----------------------------------------------------------------------------
(* What the store answers *)

Existing == {Run(r, phase[r]) : r \in Retained}

\* Every run that exists may be heard of.
LEMMA ExistingHearable ==
    ASSUME RunsInv, NEW K, StartedKnown(K)
    PROVE  Existing \subseteq Hearable(K)
  <1> SUFFICES ASSUME NEW r \in Retained
               PROVE  Run(r, phase[r]) \in Hearable(K)
    BY DEF Existing
  <1>1. r \in Requests /\ phase[r] \in LivePhases \union TerminalPhases
    BY DEF Retained, RunsInv, RunsTypeOK
  <1>2. phase[r] # "unknown"
    BY <1>1 DEF LivePhases, TerminalPhases
  <1>3. Known(K, r)
    BY <1>1, <1>2 DEF StartedKnown
  <1>4. QED
    BY <1>1, <1>3, KnownHearable

\* The runs of a session, each as it is.
LEMMA RunsOfType ==
    ASSUME RunsInv, NEW s \in Sessions
    PROVE  /\ RunsOf(s) \in Seq(Existing)
           /\ \A r \in Range(sessionRuns[s]) : Contains(RunsOf(s), Run(r, phase[r]))
  <1>1. PICK ids \in Seq(Requests) : ids = sessionRuns[s] /\ Range(ids) \subseteq Retained
    BY DEF RunsInv, RunsTypeOK, Lists
  <1>2. PICK n \in Nat : n = Len(ids) /\ DOMAIN ids = 1 .. n
    BY LenProperties
  <1> DEFINE e(i) == Run(ids[i], phase[ids[i]])
  <1>3. \A i \in 1 .. n : e(i) \in Existing
    BY <1>1, <1>2 DEF Existing, Range
  <1>4. RunsOf(s) = [i \in 1 .. n |-> e(i)]
    BY <1>1, <1>2 DEF RunsOf
  <1>5. RunsOf(s) \in Seq(Existing)
    <2> HIDE DEF e
    <2>1. QED
      BY <1>3, <1>4, IsASeq
  <1>6. PICK t \in Seq(Existing) : t = RunsOf(s)
    BY <1>5
  <1>7. Len(t) = n /\ \A i \in 1 .. n : t[i] = Run(ids[i], phase[ids[i]])
    <2>1. DOMAIN t = 1 .. n /\ \A i \in 1 .. n : t[i] = Run(ids[i], phase[ids[i]])
      BY <1>4, <1>6
    <2>2. Len(t) \in Nat /\ DOMAIN t = 1 .. Len(t)
      BY LenProperties
    <2>3. QED
      BY <2>1, <2>2
  <1>8. ASSUME NEW r \in Range(ids)
        PROVE  Contains(t, Run(r, phase[r]))
    <2>1. PICK i \in 1 .. n : ids[i] = r
      BY <1>2 DEF Range
    <2>2. QED
      BY <1>7, <2>1 DEF Contains
  <1>9. QED
    BY <1>1, <1>6, <1>8

\* The snapshot lists every retained run as it is.
LEMMA RunListType ==
    ASSUME ChatAssumption, RunsInv
    PROVE  /\ RunList \in Seq(Existing)
           /\ \A r \in Retained : Contains(RunList, Run(r, phase[r]))
  <1>1. SessionList \in Seq(Sessions) /\ Range(SessionList) = Sessions
    BY DEF ChatAssumption
  <1>2. PICK n \in Nat : n = Len(SessionList) /\ DOMAIN SessionList = 1 .. n
    BY <1>1, LenProperties
  <1> DEFINE e(i) == RunsOf(SessionList[i])
  <1>3. \A i \in 1 .. n : SessionList[i] \in Sessions
    BY <1>1, <1>2, ElementOfSeq
  <1>4. \A i \in 1 .. n : e(i) \in Seq(Existing)
    BY <1>3, RunsOfType
  <1>5. PICK lists : lists = [i \in 1 .. n |-> e(i)]
    OBVIOUS
  <1>6. RunList = Joined(lists)
    BY <1>2, <1>5 DEF RunList
  <1>7. lists \in Seq(Seq(Existing))
    <2> HIDE DEF e
    <2>1. QED
      BY <1>4, <1>5, IsASeq
  <1>8. Len(lists) = n /\ \A i \in 1 .. n : lists[i] = RunsOf(SessionList[i])
    <2>1. DOMAIN lists = 1 .. n /\ \A i \in 1 .. n : lists[i] = RunsOf(SessionList[i])
      BY <1>5
    <2>2. Len(lists) \in Nat /\ DOMAIN lists = 1 .. Len(lists)
      BY <1>7, LenProperties
    <2>3. QED
      BY <2>1, <2>2
  <1>9. RunList \in Seq(Existing)
    BY <1>6, <1>7, JoinedSeq
  <1>10. ASSUME NEW r \in Retained
         PROVE  Contains(RunList, Run(r, phase[r]))
    <2>1. PICK s \in Sessions : r \in Range(sessionRuns[s])
      BY DEF RunsInv, Lists
    <2>2. PICK i \in 1 .. n : SessionList[i] = s
      BY <1>1, <1>2 DEF Range
    <2>3. Contains(RunsOf(s), Run(r, phase[r]))
      BY <2>1, RunsOfType
    <2>4. SomeContains(lists, Run(r, phase[r]))
      BY <1>8, <2>2, <2>3 DEF SomeContains
    <2>5. QED
      BY <1>6, <1>7, <2>4, JoinedContains
  <1>11. QED
    BY <1>9, <1>10

\* The snapshot tells how every run is.
LEMMA RunListCurrent ==
    ASSUME ChatAssumption, RunsInv
    PROVE  LastIsCurrent(RunList) /\ Covers(RunList)
  <1>1. PICK list \in Seq(Existing) :
          list = RunList /\ \A r \in Retained : Contains(list, Run(r, phase[r]))
    BY RunListType
  <1>2. PICK n \in Nat : n = Len(list) /\ DOMAIN list = 1 .. n
    BY LenProperties
  <1>3. \A k \in 1 .. n : Current(list[k])
    <2> SUFFICES ASSUME NEW k \in 1 .. n
                 PROVE  Current(list[k])
      OBVIOUS
    <2>1. list[k] \in Existing
      BY <1>2, ElementOfSeq
    <2>2. QED
      BY <2>1 DEF Existing, Current, Run
  <1>4. LastIsCurrent(list)
    BY <1>2, <1>3 DEF LastIsCurrent
  <1>5. ASSUME NEW r \in Requests, phase[r] \notin NoRun
        PROVE  Mentions(list, r)
    <2>1. r \in Retained
      BY <1>5 DEF Retained
    <2>2. PICK k \in 1 .. n : list[k] = Run(r, phase[r])
      BY <1>1, <1>2, <2>1 DEF Contains
    <2>3. list[k].id = r
      BY <2>2 DEF Run
    <2>4. QED
      BY <1>2, <2>3 DEF Mentions
  <1>6. Covers(list)
    BY <1>5 DEF Covers
  <1>7. QED
    BY <1>1, <1>4, <1>6

\* A page that will hear of every run will be up to date.
LEMMA CoversReaches ==
    ASSUME ChatAssumption, NEW m, Page(m), NEW list, Covers(list)
    PROVE  Reaches(m, list)
  <1> SUFFICES ASSUME NEW i \in DOMAIN m, Pending(m[i])
               PROVE  /\ m[i].claim # Unclaimed =>
                           \/ Mentions(list, m[i].claim)
                           \/ Current(Run(m[i].claim, m[i].shown))
                      /\ m[i].claim = Unclaimed /\ Unfinished(i) => Mentions(list, i)
    BY DEF Reaches
  <1>1. m[i] \in ChatMessage
    BY ElementOfSeq, LenProperties DEF Page
  <1>2. ASSUME m[i].claim # Unclaimed, ~Mentions(list, m[i].claim)
        PROVE  Current(Run(m[i].claim, m[i].shown))
    <2>1. m[i].claim \in Requests
      BY <1>1, <1>2 DEF ChatMessage
    <2>2. phase[m[i].claim] \in NoRun
      BY <1>2, <2>1 DEF Covers
    <2>3. QED
      BY <2>2 DEF Current, Run
  <1>3. ASSUME Unfinished(i)
        PROVE  Mentions(list, i)
    <2>1. i \in Requests
      BY LenProperties DEF Page, ChatAssumption, Prompts
    <2>2. phase[i] \notin NoRun
      BY <1>3, EvictedIsNoRun DEF Unfinished
    <2>3. QED
      BY <2>1, <2>2 DEF Covers
  <1>4. QED
    BY <1>2, <1>3

----------------------------------------------------------------------------
(* The socket *)

LEMMA HandshakeInv ==
    ASSUME ChatAssumption, ChatInv, Handshake
    PROVE  ChatInv'
  <1>1. PICK K \in Nat : K = Len(messages) /\ HearsOnly(K)
    BY DEF ChatInv, HearsOfItself
  <1>2. /\ socket = "connecting" /\ Connect(RunList)
        /\ UNCHANGED <<runVars, socket, messages, post, poll>>
    BY DEF Handshake, Accepts, pageVars
  <1>3. RunsInv /\ RunsInv' /\ phase' = phase
    BY <1>2, StoreRests DEF ChatInv
  <1>4. StartedKnown(K)
    BY <1>1, StartedAreKnown DEF ChatInv
  <1>5. PICK list \in Seq(Hearable(K)) : list = RunList
    BY <1>3, <1>4, RunListType, ExistingHearable, SeqMore
  <1>6. LastIsCurrent(list) /\ Covers(list)
    BY <1>3, <1>5, RunListCurrent
  <1>7. PICK snap \in Carried(K) : snap = Snapshot(list)
    BY DEF Snapshot, Carried
  <1>8. Connect(list)
    BY <1>2, <1>5
  <1>9. StreamInv(Saying(K), Carried(K))'
    BY <1>1, <1>7, <1>8, ConnectInv DEF HearsOnly
  <1>10. HearsOfItself'
    <2>1. poll' \in Polls(K) /\ K = Len(messages')
      BY <1>1, <1>2 DEF HearsOnly, Polls
    <2>2. QED
      BY <1>9, <2>1, HearsAgain
  <1>11. PostsAgree'
    BY <1>2, <1>3, PostsRest DEF ChatInv
  <1>12. SocketTypeOK' /\ SocketAgrees' /\ Page(messages)'
    <2>1. socket' = "connecting" /\ messages' = messages
      BY <1>2
    <2>2. QED
      BY <2>1 DEF ChatInv, SocketTypeOK, SocketAgrees, SocketLive
  <1>13. Coming' = list
    <2>1. wire' = <<snap>> /\ queue' = << >>
      BY <1>7, <1>8 DEF Connect
    <2>2. <<snap>> \in Seq(Carried(K)) /\ << >> \in Seq(Entry(Saying(K)))
      BY OneProperties, EmptySeq
    <2>3. ComingOf(<<snap>>, << >>) = ToldIn(<<snap>>) \o ToldIn(Queued(<< >>))
      BY <2>2, ComingParts
    <2>4. ToldIn(<<snap>>) = list
      <3>1. RunsTold(snap) = list
        BY <1>7 DEF RunsTold, Snapshot
      <3>2. QED
        BY <3>1, ToldOne
    <2>5. ToldIn(Queued(<< >>)) = << >>
      <3>1. Queued(<< >>) = << >> /\ Tellings(<< >>) = << >>
        BY DEF Queued, Tellings
      <3>2. QED
        BY <3>1, JoinedEmpty, Zenon DEF ToldIn
    <2>6. list \o << >> = list
      BY ConcatEmptySeq
    <2>7. QED
      BY <2>1, <2>3, <2>4, <2>5, <2>6, ComingIs, Zenon
  <1>14. Reached'
    <2>1. PICK m : m = messages
      OBVIOUS
    <2>2. Reaches(m, list)
      BY <1>6, <2>1, CoversReaches DEF ChatInv
    <2>3. messages' = m
      BY <1>2, <2>1
    <2>4. QED
      BY <1>3, <1>6, <1>13, <2>2, <2>3, ReachedAnew
  <1>15. QED
    BY <1>3, <1>10, <1>11, <1>12, <1>14 DEF ChatInv

\* An event is sent,
LEMMA ForwardInv ==
    ASSUME ChatAssumption, ChatInv, Forward
    PROVE  ChatInv'
  <1>1. PICK K \in Nat : K = Len(messages) /\ HearsOnly(K)
    BY DEF ChatInv, HearsOfItself
  <1>2. Stream /\ UNCHANGED <<runVars, socket, messages, post, poll>>
    BY DEF Forward, pageVars
  <1>3. RunsInv' /\ phase' = phase
    BY <1>2, StoreRests DEF ChatInv
  <1>4. StreamInv(Saying(K), Carried(K))
    BY <1>1 DEF HearsOnly
  <1>5. StreamInv(Saying(K), Carried(K))'
    BY <1>2, <1>4, CarriedCarries, StreamStepInv
  <1>6. /\ queue' = Tail(queue)
        /\ wire' = Append(wire, Event(Head(queue).body, degraded))
        /\ UNCHANGED <<seq, subscribed, afterSeq>>
    BY <1>2, <1>4, StreamSends
  <1>7. /\ wire \in Seq(Carried(K)) /\ queue \in Seq(Entry(Saying(K))) /\ queue # << >>
        /\ degraded \in BOOLEAN
    BY <1>2, <1>4 DEF StreamInv, StreamTypes, Stream
  <1>8. Coming' = Coming
    <2>1. ComingOf(Append(wire, Event(Head(queue).body, degraded)), Tail(queue))
            = ComingOf(wire, queue)
      BY <1>7, ComingForwards
    <2>2. QED
      BY <1>6, <2>1, ComingIs, Zenon
  <1>9. HearsOfItself'
    <2>1. poll' \in Polls(K) /\ K = Len(messages')
      BY <1>1, <1>2 DEF HearsOnly, Polls
    <2>2. QED
      BY <1>5, <2>1, HearsAgain
  <1>10. PostsAgree'
    BY <1>2, <1>3, PostsRest DEF ChatInv
  <1>11. SocketTypeOK' /\ SocketAgrees' /\ Page(messages)'
    BY <1>2, <1>6 DEF ChatInv, SocketTypeOK, SocketAgrees, SocketLive, Idle, Request,
       Unclaimed
  <1>12. ASSUME Connected'
         PROVE  Connected
    <2>1. PICK e \in Entry(Saying(K)) : e = Head(queue)
      BY <1>7, HeadTailProperties
    <2>2. PICK msg \in Carried(K) : msg = Event(e.body, degraded)
      BY <1>7, CarriedCarries DEF Carries, Entry
    <2>3. wire' = Append(wire, msg)
      BY <1>6, <2>1, <2>2
    <2>4. PICK n \in Nat : n = Len(wire) /\ DOMAIN wire = 1 .. n
      BY <1>7, LenProperties
    <2>5. PICK w \in Seq(Carried(K)) :
            /\ w = wire' /\ Len(w) = n + 1 /\ DOMAIN w = 1 .. n + 1
            /\ (\A i \in 1 .. n : w[i] = wire[i]) /\ w[n + 1] = msg
      <3>1. PICK w \in Seq(Carried(K)) : w = Append(wire, msg)
        BY <1>7, AppendProperties
      <3>2. Len(w) = n + 1 /\ (\A i \in 1 .. n : w[i] = wire[i]) /\ w[n + 1] = msg
        BY <1>7, <2>4, <3>1, AppendProperties
      <3>3. DOMAIN w = 1 .. n + 1
        BY <3>2, LenProperties
      <3>4. QED
        BY <2>3, <3>1, <3>2, <3>3
    <2>6. \A i \in 1 .. n + 1 : ~w[i].degraded
      BY <1>12, <2>5 DEF Connected
    <2>7. \A i \in 1 .. n : ~wire[i].degraded
      BY <2>5, <2>6
    <2>8. ~msg.degraded
      BY <2>5, <2>6
    <2>9. ~degraded
      BY <2>2, <2>8, Zenon DEF Event
    <2>10. QED
      BY <1>2, <1>6, <1>12, <2>4, <2>7, <2>9 DEF Connected
  <1>13. Reached'
    BY <1>2, <1>3, <1>8, <1>12, ReachedStays DEF ChatInv
  <1>14. QED
    BY <1>3, <1>9, <1>10, <1>11, <1>13 DEF ChatInv

\* the socket opens,
LEMMA OpensInv ==
    ASSUME ChatAssumption, ChatInv, Opens
    PROVE  ChatInv'
  <1>1. PICK K \in Nat : K = Len(messages) /\ HearsOnly(K)
    BY DEF ChatInv, HearsOfItself
  <1>2. /\ socket = "connecting" /\ socket' = "open"
        /\ UNCHANGED <<runVars, streamVars, messages, post>>
        /\ Rerender(poll)
    BY DEF Opens, SocketOpens
  <1>3. RunsInv' /\ phase' = phase
    BY <1>2, StoreRests DEF ChatInv
  <1>4. /\ UNCHANGED <<subscribed, degraded, wire, queue>>
        /\ Coming' = Coming
        /\ StreamInv(Saying(K), Carried(K))'
    BY <1>1, <1>2, StreamRests DEF HearsOnly
  <1>5. Page(messages) /\ Page(messages')
    <2>1. Page(messages) /\ messages' = messages
      BY <1>2 DEF ChatInv
    <2>2. QED
      BY <2>1
  <1>6. poll' \in Polls(K) /\ (SocketLive' => poll' = Idle)
    <2>1. poll \in Polls(K) /\ (SocketLive => poll = Idle)
      BY <1>1 DEF HearsOnly, Polls, ChatInv, SocketAgrees
    <2>2. QED
      BY <1>2, <1>5, <2>1, Rerendered
  <1>7. HearsOfItself'
    BY <1>1, <1>2, <1>4, <1>6, HearsAgain
  <1>8. PostsAgree'
    BY <1>2, <1>3, PostsRest DEF ChatInv
  <1>9. SocketTypeOK' /\ SocketAgrees'
    BY <1>2, <1>6 DEF SocketTypeOK, SocketAgrees, Idle, Request, Unclaimed
  <1>10. Reached'
    <2>1. Connected' => Connected
      BY <1>2, <1>4 DEF Connected
    <2>2. QED
      BY <1>2, <1>3, <1>4, <2>1, ReachedStays DEF ChatInv
  <1>11. QED
    BY <1>3, <1>5, <1>7, <1>8, <1>9, <1>10 DEF ChatInv

\* closes,
LEMMA ClosesInv ==
    ASSUME ChatAssumption, ChatInv, Closes
    PROVE  ChatInv'
  <1>1. PICK K \in Nat : K = Len(messages) /\ HearsOnly(K)
    BY DEF ChatInv, HearsOfItself
  <1>2. /\ socket' = "closed" /\ Offline /\ subscribed' = FALSE
        /\ UNCHANGED <<runVars, messages, post>>
        /\ Rerender(poll)
    BY DEF Closes, SocketCloses, Offline
  <1>3. RunsInv' /\ phase' = phase
    BY <1>2, StoreRests DEF ChatInv
  <1>4. StreamInv(Saying(K), Carried(K))'
    BY <1>1, <1>2, OfflineInv DEF HearsOnly
  <1>5. Page(messages) /\ Page(messages')
    <2>1. Page(messages) /\ messages' = messages
      BY <1>2 DEF ChatInv
    <2>2. QED
      BY <2>1
  <1>6. poll' \in Polls(K) /\ (SocketLive' => poll' = Idle)
    <2>1. poll \in Polls(K) /\ (SocketLive => poll = Idle)
      BY <1>1 DEF HearsOnly, Polls, ChatInv, SocketAgrees
    <2>2. QED
      BY <1>2, <1>5, <2>1, Rerendered
  <1>7. HearsOfItself'
    BY <1>1, <1>2, <1>4, <1>6, HearsAgain
  <1>8. PostsAgree'
    BY <1>2, <1>3, PostsRest DEF ChatInv
  <1>9. SocketTypeOK' /\ SocketAgrees'
    BY <1>2, <1>6 DEF SocketTypeOK, SocketAgrees, Idle, Request, Unclaimed
  <1>10. Reached'
    BY <1>2 DEF Reached, Connected
  <1>11. QED
    BY <1>3, <1>5, <1>7, <1>8, <1>9, <1>10 DEF ChatInv

\* and is opened anew.
LEMMA RetriesInv ==
    ASSUME ChatAssumption, ChatInv, Retries
    PROVE  ChatInv'
  <1>1. PICK K \in Nat : K = Len(messages) /\ HearsOnly(K)
    BY DEF ChatInv, HearsOfItself
  <1>2. /\ socket = "closed" /\ socket' = "connecting"
        /\ UNCHANGED <<runVars, streamVars, messages, post, poll>>
    BY DEF Retries, Reconnects, pageVars
  <1>3. RunsInv' /\ phase' = phase
    BY <1>2, StoreRests DEF ChatInv
  <1>4. /\ UNCHANGED <<subscribed, degraded, wire, queue>>
        /\ StreamInv(Saying(K), Carried(K))'
    BY <1>1, <1>2, StreamRests DEF HearsOnly
  <1>5. HearsOfItself'
    <2>1. poll' \in Polls(K) /\ K = Len(messages')
      BY <1>1, <1>2 DEF HearsOnly, Polls
    <2>2. QED
      BY <1>4, <2>1, HearsAgain
  <1>6. PostsAgree'
    BY <1>2, <1>3, PostsRest DEF ChatInv
  <1>7. SocketTypeOK' /\ SocketAgrees' /\ Page(messages)'
    <2>1. socket' = "connecting" /\ messages' = messages
      BY <1>2
    <2>2. QED
      BY <2>1 DEF ChatInv, SocketTypeOK, SocketAgrees, SocketLive
  <1>8. Reached'
    <2>1. ~subscribed'
      BY <1>2, <1>4 DEF ChatInv, SocketAgrees
    <2>2. QED
      BY <2>1 DEF Reached, Connected
  <1>9. QED
    BY <1>3, <1>5, <1>6, <1>7, <1>8 DEF ChatInv

\* A message arrives: what it told of is no longer on the way but shown.
LEMMA MessageArrivesInv ==
    ASSUME ChatAssumption, ChatInv, MessageArrives
    PROVE  ChatInv'
  <1>1. PICK K \in Nat : K = Len(messages) /\ HearsOnly(K)
    BY DEF ChatInv, HearsOfItself
  <1>2. /\ socket = "open" /\ Receive
        /\ socket' = IF Head(wire).degraded THEN "closing" ELSE socket
        /\ messages' = Replayed(messages, RunsTold(Head(wire)))
        /\ UNCHANGED <<runVars, post>>
        /\ Rerender(poll)
    BY DEF MessageArrives, Receives
  <1>3. RunsInv' /\ phase' = phase
    BY <1>2, StoreRests DEF ChatInv
  <1>4. StreamInv(Saying(K), Carried(K)) /\ StreamInv(Saying(K), Carried(K))'
    BY <1>1, <1>2, ReceiveInv DEF HearsOnly
  <1>5. /\ wire \in Seq(Carried(K)) /\ queue \in Seq(Entry(Saying(K))) /\ wire # << >>
        /\ wire' = Tail(wire) /\ UNCHANGED <<subscribed, queue, degraded>>
    BY <1>2, <1>4 DEF StreamInv, StreamTypes, Receive
  <1>6. PICK first \in Seq(Hearable(K)), rest \in Seq(Hearable(K)) :
          /\ first = RunsTold(Head(wire)) /\ rest = ComingOf(Tail(wire), queue)
          /\ ComingOf(wire, queue) = first \o rest
    <2>1. /\ RunsTold(Head(wire)) \in Seq(Hearable(K))
          /\ ComingOf(Tail(wire), queue) \in Seq(Hearable(K))
          /\ ComingOf(wire, queue) = RunsTold(Head(wire)) \o ComingOf(Tail(wire), queue)
      BY <1>5, ComingArrives
    <2>2. QED
      BY <2>1, Zenon
  <1>7. Coming = first \o rest /\ Coming' = rest
    BY <1>5, <1>6, ComingIs, Zenon
  <1>8. PICK m : m = messages
    OBVIOUS
  <1>9. PICK u : u = Replayed(m, first)
    OBVIOUS
  <1>10. messages' = u
    BY <1>2, <1>6, <1>8, <1>9
  <1>11. Page(m) /\ Len(m) = K
    BY <1>1, <1>8 DEF ChatInv
  <1>12. Page(u) /\ Len(u) = K
    <2>1. After(m, first, Len(first), Replayed(m, first))
      BY <1>11, ReplayedAfter
    <2>2. QED
      BY <1>9, <1>11, <2>1 DEF After
  <1>13. Page(messages')
    BY <1>10, <1>12
  <1>14. poll' \in Polls(K) /\ (SocketLive' => poll' = Idle)
    <2>1. poll \in Polls(K) /\ (SocketLive => poll = Idle)
      BY <1>1 DEF HearsOnly, Polls, ChatInv, SocketAgrees
    <2>2. QED
      BY <1>2, <1>13, <2>1, Rerendered
  <1>15. HearsOfItself'
    BY <1>4, <1>10, <1>12, <1>14, HearsAgain
  <1>16. PostsAgree'
    BY <1>1, <1>2, <1>3, <1>10, <1>12, PostsRest DEF ChatInv
  <1>17. socket' \in {"open", "closing"}
    BY <1>2
  <1>18. SocketTypeOK' /\ SocketAgrees'
    BY <1>14, <1>17 DEF SocketTypeOK, SocketAgrees, Idle, Request, Unclaimed
  <1>19. Reached'
    <2>1. CASE Connected'
      <3>1. socket' = "open" /\ ~Head(wire).degraded
        BY <1>2, <2>1 DEF Connected
      <3>2. Connected
        <4>1. /\ Tail(wire) \in Seq(Carried(K)) /\ Len(Tail(wire)) = Len(wire) - 1
              /\ \A i \in 1 .. Len(wire) - 1 : Tail(wire)[i] = wire[i + 1]
          BY <1>5, HeadTailProperties
        <4>2. PICK n \in Nat : n = Len(wire) /\ DOMAIN wire = 1 .. n /\ n > 0
          BY <1>5, LenProperties, EmptySeq
        <4>3. DOMAIN Tail(wire) = 1 .. n - 1 /\ \A i \in 1 .. n - 1 : Tail(wire)[i] = wire[i + 1]
          BY <4>1, <4>2, LenProperties
        <4>4. \A i \in 1 .. n - 1 : ~wire[i + 1].degraded
          BY <1>5, <2>1, <4>3 DEF Connected
        <4>5. ~wire[1].degraded
          BY <1>5, <3>1, HeadTailProperties
        <4>6. ASSUME NEW i \in 1 .. n
              PROVE  ~wire[i].degraded
          <5>1. CASE i = 1
            BY <4>5, <5>1
          <5>2. CASE i # 1
            <6>1. i - 1 \in 1 .. n - 1 /\ (i - 1) + 1 = i
              BY <5>2
            <6>2. ~wire[(i - 1) + 1].degraded
              BY <4>4, <6>1
            <6>3. QED
              BY <6>1, <6>2
          <5>3. QED
            BY <5>1, <5>2
        <4>7. QED
          BY <1>2, <1>5, <2>1, <4>2, <4>6 DEF Connected
      <3>3. LastIsCurrent(first \o rest) /\ Reaches(m, first \o rest)
        BY <1>7, <1>8, <3>2 DEF ChatInv, Reached
      <3>4. LastIsCurrent(rest) /\ Reaches(Replayed(m, first), rest)
        BY <1>11, <3>3, Arriving
      <3>5. LastIsCurrent(rest) /\ Reaches(u, rest)
        BY <1>9, <3>4
      <3>6. socket' # "connecting"
        BY <3>1
      <3>7. QED
        BY <1>3, <1>7, <1>10, <3>5, <3>6, ReachedAnew
    <2>2. CASE ~Connected'
      BY <2>2 DEF Reached
    <2>3. QED
      BY <2>1, <2>2
  <1>20. QED
    BY <1>3, <1>13, <1>15, <1>16, <1>18, <1>19 DEF ChatInv

----------------------------------------------------------------------------
(* The poll *)

\* A step of the poll alone.
LEMMA PollStep ==
    ASSUME ChatAssumption, ChatInv, NEW K \in Nat, K = Len(messages), poll' \in Polls(K),
           ~SocketLive, UNCHANGED <<runVars, socketVars, messages, post>>
    PROVE  ChatInv'
  <1>1. HearsOnly(K) /\ UNCHANGED <<runVars, streamVars, socket, messages, post>>
    BY DEF ChatInv, HearsOfItself, socketVars
  <1>2. RunsInv' /\ phase' = phase
    BY <1>1, StoreRests DEF ChatInv
  <1>3. /\ UNCHANGED <<subscribed, degraded, wire, queue>>
        /\ Coming' = Coming
        /\ StreamInv(Saying(K), Carried(K))'
    BY <1>1, StreamRests DEF HearsOnly
  <1>4. HearsOfItself'
    <2>1. K = Len(messages')
      BY <1>1
    <2>2. QED
      BY <1>3, <2>1, HearsAgain
  <1>5. PostsAgree'
    BY <1>1, <1>2, PostsRest DEF ChatInv
  <1>6. SocketTypeOK' /\ SocketAgrees' /\ Page(messages)'
    <2>1. socket' = socket /\ messages' = messages
      BY <1>1
    <2>2. QED
      BY <1>3, <2>1 DEF ChatInv, SocketTypeOK, SocketAgrees, SocketLive
  <1>7. Reached'
    <2>1. Connected' => Connected
      BY <1>1, <1>3 DEF Connected
    <2>2. QED
      BY <1>1, <1>2, <1>3, <2>1, ReachedStays DEF ChatInv
  <1>8. QED
    BY <1>2, <1>4, <1>5, <1>6, <1>7 DEF ChatInv

\* A poll is sent,
LEMMA PollStartsInv ==
    ASSUME ChatAssumption, ChatInv, PollStarts
    PROVE  ChatInv'
  <1>1. PICK K \in Nat : K = Len(messages) /\ HearsOnly(K)
    BY DEF ChatInv, HearsOfItself
  <1>2. PICK m : m = messages /\ Page(m)
    BY DEF ChatInv
  <1>3. AskedOf(m) \in Polls(K)
    BY <1>2, AskedPolls
  <1>4. poll' = AskedOf(m)
    BY <1>2, AskedIs DEF PollStarts
  <1>5. poll' \in Polls(K)
    BY <1>3, <1>4
  <1>6. ~SocketLive /\ UNCHANGED <<runVars, socketVars, messages, post>>
    BY DEF PollStarts, Wanted
  <1>7. QED
    BY <1>1, <1>5, <1>6, PollStep

\* A list backwards.
LEMMA ReverseSeq ==
    ASSUME NEW U, NEW q \in Seq(U)
    PROVE  Reverse(q) \in Seq(U)
  <1> DEFINE e(i) == q[(Len(q) - i) + 1]
  <1>1. PICK n \in Nat : n = Len(q)
    BY LenProperties
  <1>2. \A i \in 1 .. n : e(i) \in U
    BY <1>1, ElementOfSeq
  <1>3. Reverse(q) = [i \in 1 .. n |-> e(i)]
    BY <1>1 DEF Reverse
  <1> HIDE DEF e
  <1>4. QED
    BY <1>2, <1>3, IsASeq

\* answered by the store as it is then,
LEMMA PollAnsweredInv ==
    ASSUME ChatAssumption, ChatInv, PollAnswered
    PROVE  ChatInv'
  <1>1. PICK K \in Nat : K = Len(messages) /\ HearsOnly(K)
    BY DEF ChatInv, HearsOfItself
  <1>2. PICK of \in {Unclaimed} \union Requests : of = poll.of
    BY <1>1 DEF HearsOnly
  <1>3. PICK runs :
          /\ runs = IF of = Unclaimed
                    THEN Filter(Reverse(RunsOf(session)), InProgress)
                    ELSE IF phase[of] \in NoRun THEN << >> ELSE <<Run(of, phase[of])>>
          /\ poll' = Request("answered", of, runs)
    BY <1>2 DEF PollAnswered
  <1>4. runs \in Seq(Existing)
    <2>1. CASE of = Unclaimed
      <3>1. RunsOf(session) \in Seq(Existing)
        BY RunsOfType DEF ChatInv, ChatAssumption
      <3>2. Reverse(RunsOf(session)) \in Seq(Existing)
        BY <3>1, ReverseSeq
      <3>3. Filter(Reverse(RunsOf(session)), InProgress) \in Seq(Existing)
        BY <3>2, FilterSeq
      <3>4. QED
        BY <1>3, <2>1, <3>3
    <2>2. CASE of # Unclaimed /\ phase[of] \notin NoRun
      <3>1. Run(of, phase[of]) \in Existing
        BY <2>2 DEF Existing, Retained
      <3>2. <<Run(of, phase[of])>> \in Seq(Existing)
        BY <3>1, OneProperties
      <3>3. QED
        BY <1>3, <2>2, <3>2
    <2>3. CASE of # Unclaimed /\ phase[of] \in NoRun
      <3>1. << >> \in Seq(Existing)
        BY EmptySeq
      <3>2. QED
        BY <1>3, <2>3, <3>1
    <2>4. QED
      BY <2>1, <2>2, <2>3
  <1>5. runs \in Seq(Hearable(K))
    <2>1. StartedKnown(K)
      BY <1>1, StartedAreKnown DEF ChatInv
    <2>2. QED
      BY <1>4, <2>1, ExistingHearable, SeqMore DEF ChatInv
  <1>6. poll' \in Polls(K)
    BY <1>3, <1>5 DEF Request, Polls
  <1>7. ~SocketLive /\ UNCHANGED <<runVars, socketVars, messages, post>>
    BY DEF PollAnswered, ChatInv, SocketAgrees, Idle, Request
  <1>8. QED
    BY <1>1, <1>6, <1>7, PollStep

\* and shown; meanwhile the socket may have connected, but not opened.
LEMMA PollArrivesInv ==
    ASSUME ChatAssumption, ChatInv, PollArrives
    PROVE  ChatInv'
  <1>0. PICK m : m = messages
    OBVIOUS
  <1>1. PICK K \in Nat : K = Len(messages) /\ HearsOnly(K)
    BY DEF ChatInv, HearsOfItself
  <1>2. /\ messages' = Replayed(messages, poll.runs)
        /\ UNCHANGED <<runVars, streamVars, socket, post>>
        /\ Rerender(Idle)
    BY DEF PollArrives, socketVars
  <1>3. RunsInv' /\ phase' = phase
    BY <1>2, StoreRests DEF ChatInv
  <1>4. /\ UNCHANGED <<subscribed, degraded, wire, queue>>
        /\ Coming' = Coming
        /\ StreamInv(Saying(K), Carried(K))'
    BY <1>1, <1>2, StreamRests DEF HearsOnly
  <1>5. PICK runs \in Seq(Hearable(K)) : m = messages /\ runs = poll.runs
    BY <1>0, <1>1 DEF HearsOnly
  <1>6. PICK u : u = Replayed(m, runs)
    OBVIOUS
  <1>7. messages' = u
    BY <1>2, <1>5, <1>6
  <1>8. Page(u) /\ Len(u) = K
    <2>1. Page(m) /\ Len(m) = K
      BY <1>1, <1>5 DEF ChatInv
    <2>2. After(m, runs, Len(runs), Replayed(m, runs))
      BY <2>1, ReplayedAfter
    <2>3. QED
      BY <1>6, <2>1, <2>2 DEF After
  <1>9. Page(messages')
    BY <1>7, <1>8
  <1>10. poll' \in Polls(K) /\ (SocketLive' => poll' = Idle)
    BY <1>2, <1>9, IdlePolls, Rerendered
  <1>11. HearsOfItself'
    BY <1>4, <1>7, <1>8, <1>10, HearsAgain
  <1>12. PostsAgree'
    BY <1>1, <1>2, <1>3, <1>7, <1>8, PostsRest DEF ChatInv
  <1>13. SocketTypeOK' /\ SocketAgrees'
    BY <1>2, <1>4, <1>10 DEF ChatInv, SocketTypeOK, SocketAgrees, Idle, Request, Unclaimed
  <1>14. Reached'
    <2>1. CASE Connected'
      <3>1. Connected
        BY <1>2, <1>4, <2>1 DEF Connected
      <3>2. socket = "connecting"
        BY <3>1 DEF PollArrives, ChatInv, SocketAgrees, Idle, Request, Connected, SocketLive
      <3>3. PICK list : list = Coming
        OBVIOUS
      <3>4. LastIsCurrent(list) /\ Covers(list)
        BY <3>1, <3>2, <3>3 DEF ChatInv, Reached
      <3>5. Reaches(u, list)
        BY <1>8, <3>4, CoversReaches
      <3>6. Coming' = list
        BY <1>4, <3>3
      <3>7. QED
        BY <1>3, <1>7, <3>4, <3>5, <3>6, ReachedAnew
    <2>2. CASE ~Connected'
      BY <2>2 DEF Reached
    <2>3. QED
      BY <2>1, <2>2
  <1>15. QED
    BY <1>3, <1>9, <1>11, <1>12, <1>13, <1>14 DEF ChatInv

\* At first nothing runs and nothing is shown.
LEMMA ChatInitInv ==
    ASSUME ChatAssumption, ChatInit
    PROVE  ChatInv
  <1>1. RunsInv /\ phase = [r \in Requests |-> "unknown"]
    BY RunsInitInv DEF ChatInit, RunsInit
  <1>2. socket = "connecting" /\ ~subscribed /\ StreamInit
    BY DEF ChatInit, SocketInit, StreamInit
  <1>3. messages = << >> /\ poll = Idle
        /\ post = [r \in Requests |-> IF r \in Prompts THEN "unsent" ELSE "sent"]
    BY DEF ChatInit
  <1>4. PICK m \in Seq(ChatMessage) : m = << >> /\ Len(m) = 0 /\ DOMAIN m = {}
    <2>1. PICK m \in Seq(ChatMessage) : m = << >>
      BY EmptySeq
    <2>2. Len(m) = 0
      BY <2>1, EmptySeq
    <2>3. DOMAIN m = {}
      BY <2>2, LenProperties
    <2>4. QED
      BY <2>1, <2>2, <2>3
  <1>5. Page(messages)
    <2>1. Len(m) <= MaxPrompts
      BY <1>4 DEF ChatAssumption
    <2>2. Page(m)
      BY <1>4, <2>1 DEF Page, Honest
    <2>3. QED
      BY <1>3, <1>4, <2>2
  <1>6. Len(messages) = 0
    BY <1>3, <1>4
  <1>7. PostsAgree
    <2>1. ASSUME NEW r \in Requests
          PROVE  /\ post[r] \in {"unsent", "sent"} /\ phase[r] = "unknown"
                 /\ r \in Prompts => r > 0 /\ post[r] = "unsent"
      BY <1>1, <1>3 DEF Prompts
    <2>2. post \in [Requests -> {"unsent", "sent", "running", "completed", "failed"}]
      BY <1>3
    <2>3. QED
      BY <1>6, <2>1, <2>2 DEF PostsAgree
  <1>8. HearsOfItself
    <2>1. StreamInv(Saying(0), Carried(0))
      BY <1>2, StreamInitInv
    <2>2. poll \in Polls(0)
      BY <1>3, IdlePolls
    <2>3. HearsOnly(0) /\ 0 \in Nat
      BY <2>1, <2>2 DEF HearsOnly, Polls
    <2>4. QED
      BY <1>6, <2>3 DEF HearsOfItself
  <1>9. SocketTypeOK /\ SocketAgrees /\ Reached
    BY <1>2 DEF SocketTypeOK, SocketAgrees, SocketLive, Reached, Connected
  <1>10. QED
    BY <1>1, <1>5, <1>7, <1>8, <1>9 DEF ChatInv

\* Nothing of it depends on anything else.
LEMMA ChatStutter ==
    ASSUME ChatAssumption, ChatInv, UNCHANGED chatVars
    PROVE  ChatInv'
  <1>1. PICK K \in Nat : K = Len(messages) /\ HearsOnly(K)
    BY DEF ChatInv, HearsOfItself
  <1>2. UNCHANGED <<runVars, streamVars, socket, messages, post, poll>>
    BY DEF chatVars, socketVars, pageVars
  <1>3. RunsInv' /\ phase' = phase
    BY <1>2, StoreRests DEF ChatInv
  <1>4. /\ UNCHANGED <<subscribed, degraded, wire, queue>>
        /\ Coming' = Coming
        /\ StreamInv(Saying(K), Carried(K))'
    BY <1>1, <1>2, StreamRests DEF HearsOnly
  <1>5. HearsOfItself'
    <2>1. poll' \in Polls(K) /\ K = Len(messages')
      BY <1>1, <1>2 DEF HearsOnly, Polls
    <2>2. QED
      BY <1>4, <2>1, HearsAgain
  <1>6. PostsAgree'
    BY <1>2, <1>3, PostsRest DEF ChatInv
  <1>7. SocketTypeOK' /\ SocketAgrees' /\ Page(messages)'
    BY <1>2, <1>4 DEF ChatInv, SocketTypeOK, SocketAgrees, SocketLive, Idle, Request,
       Unclaimed
  <1>8. Reached'
    <2>1. Connected' => Connected
      BY <1>2, <1>4 DEF Connected
    <2>2. QED
      BY <1>2, <1>3, <1>4, <2>1, ReachedStays DEF ChatInv
  <1>9. QED
    BY <1>3, <1>5, <1>6, <1>7, <1>8 DEF ChatInv

\* Every step keeps the invariant.
LEMMA ChatNextInv ==
    ASSUME ChatAssumption, ChatInv, [ChatNext]_chatVars
    PROVE  ChatInv'
  <1>1. CASE \E r \in Requests : PostRefused(r) \/ PostRejected(r) \/ PostAccepted(r) \/ Advance(r) \/ End(r)
    BY <1>1, PostRefusedInv, PostRejectedInv, PostAcceptedInv, AdvanceInv, EndInv
  <1>2. CASE \E i \in DOMAIN messages : Reply(i) \/ PostBreaks(i)
    BY <1>2, ReplyInv
  <1>3. CASE Submit
    BY <1>3, SubmitInv
  <1>4. CASE Handshake
    BY <1>4, HandshakeInv
  <1>5. CASE Forward
    BY <1>5, ForwardInv
  <1>6. CASE Opens
    BY <1>6, OpensInv
  <1>7. CASE MessageArrives
    BY <1>7, MessageArrivesInv
  <1>8. CASE Closes
    BY <1>8, ClosesInv
  <1>9. CASE Retries
    BY <1>9, RetriesInv
  <1>10. CASE Polling
    BY <1>10, PollStartsInv, PollAnsweredInv, PollArrivesInv DEF Polling
  <1>11. CASE UNCHANGED chatVars
    BY <1>11, ChatStutter
  <1>12. QED
    BY <1>1, <1>2, <1>3, <1>4, <1>5, <1>6, <1>7, <1>8, <1>9, <1>10, <1>11 DEF ChatNext

\* Every step of the server, the network and the page keeps the invariant.
THEOREM ChatInvariance == ChatSpec => []ChatInv
  <1>1. ChatInit => ChatInv
    BY ChatAssumption, ChatInitInv
  <1>2. ChatInv /\ [ChatNext]_chatVars => ChatInv'
    BY ChatAssumption, ChatNextInv
  <1>3. QED
    BY <1>1, <1>2, PTL DEF ChatSpec

\* The invariant is stronger than what the runs of the model checker look at.
LEMMA ChatInvTypes == ChatInv => ChatTypeOK
  <1> SUFFICES ASSUME ChatInv
               PROVE  ChatTypeOK
    OBVIOUS
  <1>1. PICK K \in Nat : K = Len(messages) /\ HearsOnly(K)
    BY DEF ChatInv, HearsOfItself
  <1>2. Hearable(K) \subseteq [id : Requests, phase : Shown]
    BY DEF Hearable, Shown
  <1>3. Seq(Hearable(K)) \subseteq Seq([id : Requests, phase : Shown])
    BY <1>2, SeqMore
  <1>4. poll \in [is : {"idle", "asked", "answered"}, of : {Unclaimed} \union Requests,
                  runs : Seq([id : Requests, phase : Shown])]
    BY <1>1, <1>3 DEF HearsOnly
  <1>5. QED
    BY <1>4 DEF ChatInv, RunsInv, Page, ChatMessage, PostsAgree, ChatTypeOK

\* The invariant is what honesty needs,
LEMMA ChatInvHonest == ChatInv => ClaimsAreHonest
  <1>1. ChatInv => ChatTypeOK /\ Honest(messages)
    BY ChatInvTypes DEF ChatInv, Page
  <1>2. QED
    BY <1>1 DEF Honest, ClaimsAreHonest

\* A page shows no run of another page and no two messages one run, for any
\* prompts, requests and sessions.
THEOREM MessagesClaimHonestly == ChatSpec => []ClaimsAreHonest
  <1>1. QED
    BY ChatInvariance, ChatInvHonest, PTL

\* and, once everything on the way is replayed, what a connected page needs.
LEMMA ChatInvReaches ==
    ASSUME ChatAssumption, ChatInv
    PROVE  StreamReachesRuns
  <1> SUFFICES ASSUME Connected, NEW i \in DOMAIN messages, Pending(messages[i])
               PROVE  LET claim == Upcoming[i].claim IN
                      /\ claim = Unclaimed => ~Unfinished(i)
                      /\ claim # Unclaimed => phase[claim] \in NoRun \union {Upcoming[i].shown}
    BY DEF StreamReachesRuns, Connected
  <1>1. PICK K \in Nat : K = Len(messages) /\ HearsOnly(K)
    BY DEF ChatInv, HearsOfItself
  <1>2. PICK m : m = messages /\ Page(m) /\ Len(m) = K
    BY <1>1 DEF ChatInv
  <1>3. PICK list \in Seq(Hearable(K)) : list = Coming
    <2>1. wire \in Seq(Carried(K)) /\ queue \in Seq(Entry(Saying(K)))
      BY <1>1 DEF HearsOnly, StreamInv, StreamTypes
    <2>2. ComingOf(wire, queue) \in Seq(Hearable(K))
      BY <2>1, ComingParts
    <2>3. QED
      BY <2>2, ComingIs
  <1>4. << >> \in Seq(Hearable(K)) /\ list \o << >> = list
    BY EmptySeq, ConcatEmptySeq
  <1>5. LastIsCurrent(list) /\ Reaches(m, list)
    BY <1>2, <1>3 DEF ChatInv, Reached
  <1>6. LastIsCurrent(list \o << >>) /\ Reaches(m, list \o << >>)
    BY <1>4, <1>5
  <1>7. PICK u : u = Replayed(m, list)
    OBVIOUS
  <1>8. Page(u) /\ Len(u) = Len(m) /\ Reaches(u, << >>)
        /\ \A j \in DOMAIN m : Pending(u[j]) <=> Pending(m[j])
    BY <1>2, <1>4, <1>6, <1>7, Arriving
  <1>9. Upcoming = u
    BY <1>2, <1>3, <1>7 DEF Upcoming
  <1>10. i \in DOMAIN u /\ Pending(u[i])
    BY <1>2, <1>8, LenProperties DEF Page
  <1>11. ~Mentions(<< >>, i) /\ ~Mentions(<< >>, u[i].claim)
    BY DEF Mentions
  <1>12. /\ u[i].claim # Unclaimed => Current(Run(u[i].claim, u[i].shown))
         /\ u[i].claim = Unclaimed => ~Unfinished(i)
    BY <1>8, <1>10, <1>11 DEF Reaches
  <1>13. QED
    BY <1>9, <1>12 DEF Current, Run

\* A connected page is never cut off from the run of its prompt, for any number of
\* prompts, any queue and any order of what happens.
THEOREM StreamReachesEveryRun == ChatSpec => []StreamReachesRuns
  <1>1. ChatInv => StreamReachesRuns
    BY ChatAssumption, ChatInvReaches
  <1>2. QED
    BY <1>1, ChatInvariance, PTL
=============================================================================
