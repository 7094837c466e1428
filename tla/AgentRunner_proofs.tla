------------------------- MODULE AgentRunner_proofs -------------------------
(***************************************************************************)
(* Proofs about the agent runner (AgentRunner): that a live task and an    *)
(* agent in progress account for each other, that an accepted cancellation *)
(* is not overtaken by a result, that the audit record alone tells what    *)
(* became of every agent, and that the runner implements AgentLifecycle.   *)
(*                                                                         *)
(* One lemma per action says two things at once: the step keeps Struct,    *)
(* what registry, queue, workers and tasks have to do with each other, and *)
(* every agent makes one of the moves of its lifecycle or none.  The audit *)
(* record and the refinement then depend on the moves only.                *)
(***************************************************************************)
EXTENDS AgentRunner, State_proofs, FiniteSetTheorems

----------------------------------------------------------------------------
(* The inductive invariant *)

LiveTask == {"created", "body", "settling"}

\* Where an agent is: in the queue, with a worker, or through.
Placed(a) ==
    /\ a \in Running => task[a] # "none"
    /\ task[a] \in LiveTask => a \in Running
    /\ task[a] \in {"body", "settling"} <=> agentState[a] = "running"
    /\ a \in Range(spawnQueue) => task[a] = "none" /\ agentState[a] # "unknown"
    /\ agentState[a] = "unknown" => task[a] = "none"
    /\ taskQueued[a] <=> agentState[a] = "pending"
    /\ agentState[a] = "pending" =>
         a \in Range(spawnQueue) \/ task[a] \in {"created", "ended"}

\* What an accepted cancellation leaves behind until the agent is settled.
Recalled(a) ==
    a \in accepted =>
      /\ settledAs[a] # "completed"
      /\ settledAs[a] = "none" => "cancel" \in signal[a] \/ task[a] = "ended"

\* An agent is queued once and held by one worker; once close() began nothing
\* is queued, and once it stops the workers no task is live.
Queueing ==
    /\ Distinct(spawnQueue)
    /\ \A v, w \in Workers : worker[v] = worker[w] /\ worker[v] # NoAgent => v = w
    /\ closing # "open" => spawnQueue = << >>
    /\ closing \in {"workers", "closed"} => \A a \in Agents : task[a] \notin LiveTask

Struct ==
    /\ RegistryInv
    /\ TypeOK
    /\ Queueing
    /\ \A a \in Agents : Placed(a) /\ Recalled(a)

\* The audit record tells what became of an agent.
Told(a) ==
    /\ Rebuilt(a).state = Outcome(a)
    /\ Rebuilt(a).progress = progress[a]
    /\ settledAs[a] # "cancelled" => Rebuilt(a).error = agentError[a]
    /\ "completed" \in Range(audit[a]) => settledAs[a] = "completed"

IInv == Struct /\ \A a \in Agents : Told(a)

----------------------------------------------------------------------------
(* What a step is to an agent *)

\* The step leaves the agent where it is; the window may drop it.
Same(a) ==
    /\ \/ agentState'[a] = agentState[a]
       \/ agentState[a] \in Terminal /\ agentState'[a] = "evicted"
    /\ settledAs'[a] = settledAs[a]
    /\ taskQueued'[a] = taskQueued[a]
    /\ progress'[a] = progress[a]
    /\ agentError'[a] = agentError[a]
    /\ task'[a] = task[a]
    /\ signal'[a] = signal[a]
    /\ audit'[a] = audit[a]
    /\ a \in Running' <=> a \in Running
    /\ a \in Range(spawnQueue)' <=> a \in Range(spawnQueue)
    /\ a \in accepted' <=> a \in accepted

\* What the agent is to its observers stays.
Quiet(a) ==
    /\ Outcome(a)' = Outcome(a)
    /\ settledAs'[a] = settledAs[a]
    /\ progress'[a] = progress[a]
    /\ agentError'[a] = agentError[a]
    /\ audit'[a] = audit[a]

\* It moves on without settling, which event tells.
Advances(a, from, to, event) ==
    /\ Outcome(a) = from
    /\ Outcome(a)' = to
    /\ settledAs'[a] = settledAs[a]
    /\ progress'[a] = IF event = "progress" THEN progress[a] + 1 ELSE progress[a]
    /\ agentError'[a] = agentError[a]
    /\ audit'[a] = Append(audit[a], event)

\* It settles.
Settles(a, from, end) ==
    /\ Outcome(a) = from
    /\ Outcome(a)' = end
    /\ settledAs[a] = "none"
    /\ settledAs'[a] = end
    /\ progress'[a] = IF end = "completed" THEN FullProgress ELSE progress[a]
    /\ end = "completed" => agentError'[a] = agentError[a]
    /\ end = "failed" => agentError'[a] = TRUE
    /\ audit'[a] = Append(audit[a], end)

Moves(a) ==
    \/ Quiet(a)
    \/ Advances(a, "unknown", "pending", "spawned")
    \/ Advances(a, "pending", "running", "started")
    \/ Advances(a, "running", "running", "progress")
    \/ Settles(a, "pending", "cancelled")
    \/ \E end \in Terminal : Settles(a, "running", end)

\* An agent left where it is stays in order.
LEMMA SameKeeps ==
    ASSUME NEW a \in Agents, SettledOnce(a), Placed(a), Recalled(a), Same(a)
    PROVE  Placed(a)' /\ Recalled(a)' /\ Quiet(a)
  <1>1. Placed(a)'
    BY DEF Placed, Same, Terminal
  <1>2. Recalled(a)'
    BY DEF Recalled, Same
  <1>3. Outcome(a)' = Outcome(a)
    BY DEF Outcome, Same, SettledOnce, Terminal
  <1>4. QED
    BY <1>1, <1>2, <1>3 DEF Quiet, Same

\* So a step of one agent is in order if it is for that agent.
LEMMA OneMoves ==
    ASSUME Struct, NEW a \in Agents,
           RegistryInv', TypeOK', Queueing', Placed(a)', Recalled(a)', Moves(a),
           \A b \in Agents \ {a} : Same(b)
    PROVE  Struct' /\ \A b \in Agents : Moves(b)
  <1>1. ASSUME NEW b \in Agents
        PROVE  Placed(b)' /\ Recalled(b)' /\ Moves(b)
    <2>1. CASE b = a
      BY <2>1
    <2>2. CASE b # a
      BY <2>2, SameKeeps DEF Struct, RegistryInv, Moves
    <2>3. QED
      BY <2>1, <2>2
  <1>2. QED
    BY <1>1 DEF Struct

\* And a step of no agent is in order.
LEMMA NoneMoves ==
    ASSUME Struct, RegistryInv', TypeOK', Queueing', \A b \in Agents : Same(b)
    PROVE  Struct' /\ \A b \in Agents : Moves(b)
  <1>1. ASSUME NEW b \in Agents
        PROVE  Placed(b)' /\ Recalled(b)' /\ Moves(b)
    BY SameKeeps DEF Struct, RegistryInv, Moves
  <1>2. QED
    BY <1>1 DEF Struct

----------------------------------------------------------------------------
(* The list close() settles *)

\* The updatable agents of a list without repetitions, each once.
LEMMA UpdatableOfProperties ==
    ASSUME NEW q \in Seq(Agents), Distinct(q)
    PROVE  /\ UpdatableOf(q) \in Seq(Agents)
           /\ Distinct(UpdatableOf(q))
           /\ Range(UpdatableOf(q)) = {a \in Range(q) : Updatable(a)}
  <1> DEFINE S == {a \in Agents : Updatable(a)}
  <1>1. Filter(q, S) \in Seq(Agents) /\ Distinct(Filter(q, S))
    BY FilterSeq, FilterDistinct
  <1>2. Range(Filter(q, S)) = Range(q) \intersect S
    BY FilterRange
  <1>3. Range(q) \subseteq Agents
    BY RangeOfSeq
  <1> HIDE DEF S
  <1>4. QED
    BY <1>1, <1>2, <1>3 DEF UpdatableOf, S

----------------------------------------------------------------------------
(* The audit record *)

Events == {"spawned", "started", "progress"} \union Terminal

Reports(trail) == {i \in DOMAIN trail : trail[i] = "progress"}

\* A record that one more event is appended to.
LEMMA AppendEvent ==
    ASSUME NEW trail \in Seq(Events), NEW e \in Events
    PROVE  /\ Append(trail, e) # << >>
           /\ Append(trail, e)[Len(Append(trail, e))] = e
           /\ Range(Append(trail, e)) = Range(trail) \union {e}
           /\ Cardinality(Reports(Append(trail, e))) =
                IF e = "progress" THEN Cardinality(Reports(trail)) + 1
                ELSE Cardinality(Reports(trail))
  <1> DEFINE more == Append(trail, e)
             n == Len(trail)
  <1>1. n \in Nat /\ DOMAIN trail = 1 .. n
    BY LenProperties
  <1>2. /\ more \in Seq(Events)
        /\ Len(more) = n + 1
        /\ \A i \in 1 .. n : more[i] = trail[i]
        /\ more[n + 1] = e
    BY AppendProperties
  <1>3. DOMAIN more = 1 .. (n + 1)
    BY <1>2, LenProperties
  <1>4. more # << >>
    <2> HIDE DEF more
    <2>1. QED
      BY <1>1, <1>2, EmptySeq
  <1>5. more[Len(more)] = e
    BY <1>2
  <1> HIDE DEF more
  <1>6. Range(more) = Range(trail) \union {e}
    <2>1. \A i \in DOMAIN more : more[i] \in Range(trail) \union {e}
      BY <1>1, <1>2, <1>3 DEF Range
    <2>2. \A i \in DOMAIN trail : trail[i] \in Range(more)
      BY <1>1, <1>2, <1>3 DEF Range
    <2>3. e \in Range(more)
      BY <1>1, <1>2, <1>3 DEF Range
    <2>4. QED
      BY <2>1, <2>2, <2>3 DEF Range
  <1>7. IsFiniteSet(Reports(trail))
    <2>1. IsFiniteSet(1 .. n)
      BY <1>1, FS_Interval
    <2>2. Reports(trail) \subseteq 1 .. n
      BY <1>1 DEF Reports
    <2>3. QED
      BY <2>1, <2>2, FS_Subset
  <1>8. Cardinality(Reports(more)) =
          IF e = "progress" THEN Cardinality(Reports(trail)) + 1
          ELSE Cardinality(Reports(trail))
    <2>1. CASE e = "progress"
      <3>1. Reports(more) = Reports(trail) \union {n + 1}
        BY <1>1, <1>2, <1>3, <2>1 DEF Reports
      <3>2. n + 1 \notin Reports(trail)
        BY <1>1 DEF Reports
      <3>3. QED
        BY <1>7, <2>1, <3>1, <3>2, FS_AddElement
    <2>2. CASE e # "progress"
      <3>1. Reports(more) = Reports(trail)
        BY <1>1, <1>2, <1>3, <2>2 DEF Reports
      <3>2. QED
        BY <2>2, <3>1
    <2>3. QED
      BY <2>1, <2>2
  <1>9. QED
    BY <1>4, <1>5, <1>6, <1>8 DEF more

\* A move that its event tells, and no move at all, keep the record true.
LEMMA MovesTold ==
    ASSUME NEW a \in Agents, audit[a] \in Seq(Events), Moves(a), Told(a)
    PROVE  Told(a)'
  <1>1. CASE Quiet(a)
    BY <1>1 DEF Quiet, Told, Rebuilt
  <1>2. ASSUME NEW e \in Events, audit'[a] = Append(audit[a], e)
        PROVE  /\ Rebuilt(a).progress =
                    IF "completed" \in Range(audit[a]) THEN FullProgress
                    ELSE Cardinality(Reports(audit[a]))
               /\ Rebuilt(a).error = ("failed" \in Range(audit[a]))
               /\ Rebuilt(a)'.state = CASE e = "spawned" -> "pending"
                                        [] e \in {"started", "progress"} -> "running"
                                        [] OTHER -> e
               /\ Range(audit'[a]) = Range(audit[a]) \union {e}
               /\ Rebuilt(a)'.progress =
                    IF "completed" \in Range(audit'[a]) THEN FullProgress
                    ELSE IF e = "progress" THEN Cardinality(Reports(audit[a])) + 1
                    ELSE Cardinality(Reports(audit[a]))
               /\ Rebuilt(a)'.error = ("failed" \in Range(audit'[a]))
    <2>1. /\ audit'[a] # << >>
          /\ audit'[a][Len(audit'[a])] = e
          /\ Range(audit'[a]) = Range(audit[a]) \union {e}
          /\ Cardinality(Reports(audit'[a])) =
               IF e = "progress" THEN Cardinality(Reports(audit[a])) + 1
               ELSE Cardinality(Reports(audit[a]))
      BY <1>2, AppendEvent
    <2>2. QED
      BY <2>1 DEF Rebuilt, Reports
  <1>3. ASSUME NEW from, NEW to, NEW event,
               \/ <<from, to, event>> = <<"unknown", "pending", "spawned">>
               \/ <<from, to, event>> = <<"pending", "running", "started">>
               \/ <<from, to, event>> = <<"running", "running", "progress">>,
               Advances(a, from, to, event)
        PROVE  Told(a)'
    BY <1>2, <1>3 DEF Advances, Told, Outcome, Events, Terminal
  <1>4. ASSUME NEW from, NEW end \in Terminal, Settles(a, from, end)
        PROVE  Told(a)'
    <2>1. audit'[a] = Append(audit[a], end) /\ end \in Events
      BY <1>4 DEF Settles, Events
    <2>2. /\ Rebuilt(a).progress =
               IF "completed" \in Range(audit[a]) THEN FullProgress
               ELSE Cardinality(Reports(audit[a]))
          /\ Rebuilt(a).error = ("failed" \in Range(audit[a]))
          /\ Range(audit'[a]) = Range(audit[a]) \union {end}
          /\ Rebuilt(a)'.error = ("failed" \in Range(audit'[a]))
      BY <1>2, <2>1
    <2>3. Rebuilt(a)'.state = end
      BY <1>2, <2>1 DEF Terminal
    <2>4. Rebuilt(a)'.progress =
            IF "completed" \in Range(audit'[a]) THEN FullProgress
            ELSE Cardinality(Reports(audit[a]))
      BY <1>2, <2>1 DEF Terminal
    <2>5. "completed" \notin Range(audit[a])
      BY <1>4 DEF Settles, Told
    <2>6. Rebuilt(a)'.progress = progress'[a]
      BY <1>4, <2>2, <2>4, <2>5 DEF Settles, Told
    <2>7. end # "cancelled" => Rebuilt(a)'.error = agentError'[a]
      <3>1. CASE end = "completed"
        <4>1. agentError'[a] = agentError[a] /\ Rebuilt(a).error = agentError[a]
          BY <1>4, <3>1 DEF Settles, Told
        <4>2. "failed" \in Range(audit'[a]) <=> "failed" \in Range(audit[a])
          BY <2>2, <3>1
        <4>3. Rebuilt(a)'.error = Rebuilt(a).error
          BY <2>2, <4>2
        <4>4. QED
          BY <4>1, <4>3
      <3>2. CASE end = "failed"
        <4>1. agentError'[a] = TRUE
          BY <1>4, <3>2 DEF Settles
        <4>2. "failed" \in Range(audit'[a])
          BY <2>2, <3>2
        <4>3. Rebuilt(a)'.error = TRUE
          BY <2>2, <4>2
        <4>4. QED
          BY <4>1, <4>3
      <3>3. QED
        BY <3>1, <3>2 DEF Terminal
    <2>8. QED
      BY <1>4, <2>2, <2>3, <2>5, <2>6, <2>7 DEF Settles, Told
  <1>5. QED
    BY <1>1, <1>3, <1>4 DEF Moves, Terminal

----------------------------------------------------------------------------
(* Steps of the runner that leave registry and audit record alone *)

LEMMA CancelRunningKeeps ==
    ASSUME Struct, NEW a \in Agents, CancelRunning(a)
    PROVE  Struct' /\ \A b \in Agents : Moves(b)
  <1>1. RegistryInv' /\ UNCHANGED registryVars
    BY RegistryStutter DEF Struct, CancelRunning
  <1>2. TypeOK'
    BY <1>1 DEF Struct, TypeOK, CancelRunning, RegistryInv
  <1>3. Queueing'
    BY DEF Struct, Queueing, CancelRunning
  <1>4. Running' = Running
    BY DEF Running, CancelRunning
  <1>5. settledAs[a] = "none"
    BY DEF CancelRunning, Struct, RegistryInv, SettledOnce, Updatable, Present,
           Absent, Terminal
  <1>6. Placed(a)' /\ Recalled(a)' /\ Moves(a)
    <2>1. Placed(a)'
      BY <1>1, <1>4 DEF Struct, Placed, CancelRunning, registryVars
    <2>2. task[a] = "ended" \/ "cancel" \in signal'[a]
      BY DEF CancelRunning, Struct, TypeOK
    <2>3. Recalled(a)'
      BY <1>1, <1>5, <2>2 DEF Recalled, CancelRunning, registryVars
    <2>4. Quiet(a)
      BY <1>1 DEF Quiet, Outcome, CancelRunning, registryVars
    <2>5. QED
      BY <2>1, <2>3, <2>4 DEF Moves
  <1>7. \A b \in Agents \ {a} : Same(b)
    BY <1>1, <1>4 DEF Struct, TypeOK, Same, CancelRunning, registryVars
  <1>8. QED
    BY <1>1, <1>2, <1>3, <1>6, <1>7, OneMoves

LEMMA WorkerPicksKeeps ==
    ASSUME Struct, NEW w \in Workers, WorkerPicks(w)
    PROVE  Struct' /\ \A b \in Agents : Moves(b)
  <1>0. PICK a \in Agents : a = Head(spawnQueue)
    <2>1. spawnQueue \in Seq(Agents) /\ spawnQueue # << >>
      BY DEF Struct, TypeOK, WorkerPicks
    <2>2. QED
      BY <2>1, HeadTailProperties
  <1>1. RegistryInv' /\ UNCHANGED registryVars
    BY RegistryStutter DEF Struct, WorkerPicks
  <1>2. /\ spawnQueue \in Seq(Agents) /\ spawnQueue # << >> /\ Distinct(spawnQueue)
        /\ a \in Range(spawnQueue)
        /\ spawnQueue' = Tail(spawnQueue) /\ spawnQueue' \in Seq(Agents) /\ Distinct(spawnQueue')
        /\ Range(spawnQueue)' = Range(spawnQueue) \ {a}
    <2>1. spawnQueue \in Seq(Agents) /\ spawnQueue # << >> /\ Distinct(spawnQueue)
      BY DEF Struct, TypeOK, Queueing, WorkerPicks
    <2>2. spawnQueue' = Tail(spawnQueue)
      BY DEF WorkerPicks
    <2>3. QED
      BY <1>0, <2>1, <2>2, TailDistinct
  <1>3. /\ worker' = [worker EXCEPT ![w] = a] /\ worker[w] = NoAgent
        /\ task' = [task EXCEPT ![a] = "created"]
        /\ UNCHANGED <<stopped, signal, closing, audit, accepted>>
    BY <1>0 DEF WorkerPicks
  <1>4. task[a] = "none" /\ a \notin Running /\ closing = "open"
    BY <1>2 DEF Struct, Placed, Queueing
  <1>5. TypeOK'
    BY <1>1, <1>2, <1>3 DEF Struct, TypeOK, RegistryInv
  <1>6. Running' = Running \union {a}
    BY <1>2, <1>3, RunnerAssumption DEF Running, Struct, TypeOK
  <1>7. \A v \in Workers : worker[v] # a
    BY <1>2, <1>4 DEF Running
  <1>8. Queueing'
    <2>1. ASSUME NEW v \in Workers, NEW u \in Workers,
                 worker'[v] = worker'[u], worker'[v] # NoAgent
          PROVE  v = u
      BY <1>3, <1>7, <2>1 DEF Struct, Queueing, TypeOK
    <2>2. QED
      BY <1>2, <1>3, <1>4, <2>1 DEF Queueing
  <1>9. task'[a] = "created"
    BY <1>2, <1>3 DEF Struct, TypeOK
  <1>10. Placed(a)' /\ Recalled(a)' /\ Moves(a)
    <2>1. agentState[a] # "running" /\ agentState[a] # "unknown"
      BY <1>2, <1>4 DEF Struct, Placed
    <2>2. Placed(a)'
      BY <1>1, <1>2, <1>6, <1>9, <2>1 DEF Struct, Placed, registryVars, LiveTask
    <2>3. Recalled(a)'
      BY <1>1, <1>2, <1>3, <1>4 DEF Struct, Recalled, registryVars
    <2>4. Quiet(a)
      BY <1>1, <1>3 DEF Quiet, Outcome, registryVars
    <2>5. QED
      BY <2>2, <2>3, <2>4 DEF Moves
  <1>11. \A b \in Agents \ {a} : Same(b)
    BY <1>1, <1>2, <1>3, <1>6 DEF Struct, TypeOK, Same, registryVars
  <1>12. QED
    BY <1>1, <1>2, <1>5, <1>8, <1>10, <1>11, OneMoves

\* What a worker gives up is an execution that ended.
LEMMA WorkerFreed ==
    ASSUME Struct, NEW w \in Workers,
           worker' = [worker EXCEPT ![w] = NoAgent],
           worker[w] # NoAgent => task[worker[w]] \notin LiveTask,
           stopped' \subseteq Workers,
           UNCHANGED <<registryVars, spawnQueue, task, signal, closing, audit, accepted>>
    PROVE  Struct' /\ \A b \in Agents : Moves(b)
  <1>1. RegistryInv' /\ UNCHANGED registryVars
    BY RegistryStutter DEF Struct
  <1>2. TypeOK'
    BY <1>1 DEF Struct, TypeOK, RegistryInv
  <1>3. Queueing'
    BY DEF Struct, Queueing, TypeOK
  <1>4. \A v \in Workers : worker'[v] = IF v = w THEN NoAgent ELSE worker[v]
    BY DEF Struct, TypeOK
  <1>5. ASSUME NEW b \in Agents
        PROVE  Placed(b)' /\ Recalled(b)' /\ Moves(b)
    <2>1. b \in Running' => b \in Running
      BY <1>4, RunnerAssumption DEF Running
    <2>2. b \in Running /\ task[b] \in LiveTask => b \in Running'
      BY <1>4 DEF Running
    <2>3. Placed(b)'
      BY <1>1, <2>1, <2>2 DEF Struct, Placed, registryVars
    <2>4. Recalled(b)'
      BY <1>1 DEF Struct, Recalled, registryVars
    <2>5. Quiet(b)
      BY <1>1 DEF Quiet, Outcome, registryVars
    <2>6. QED
      BY <2>3, <2>4, <2>5 DEF Moves
  <1>6. QED
    BY <1>1, <1>2, <1>3, <1>5 DEF Struct

LEMMA WorkerDoneKeeps ==
    ASSUME Struct, NEW w \in Workers, WorkerDone(w)
    PROVE  Struct' /\ \A b \in Agents : Moves(b)
  <1>1. task[worker[w]] \notin LiveTask /\ stopped' \subseteq Workers
    BY DEF WorkerDone, LiveTask, Struct, TypeOK
  <1>2. QED
    BY <1>1, WorkerFreed DEF WorkerDone

LEMMA WorkerStopsKeeps ==
    ASSUME Struct, NEW w \in Workers, WorkerStops(w)
    PROVE  Struct' /\ \A b \in Agents : Moves(b)
  <1>1. worker[w] # NoAgent => task[worker[w]] \notin LiveTask
    BY DEF WorkerStops, Struct, TypeOK, Queueing
  <1>2. stopped' \subseteq Workers
    BY DEF WorkerStops, Struct, TypeOK
  <1>3. QED
    BY <1>1, <1>2, WorkerFreed DEF WorkerStops

\* close() goes on to its next stage.
LEMMA CloseAdvances ==
    ASSUME Struct, closing # "open", closing' \in {"workers", "closed"},
           \A a \in Agents : task[a] \notin LiveTask,
           UNCHANGED <<registryVars, spawnQueue, worker, stopped, task, signal, audit,
                       accepted>>
    PROVE  Struct' /\ \A b \in Agents : Moves(b)
  <1>1. RegistryInv' /\ UNCHANGED registryVars
    BY RegistryStutter DEF Struct
  <1>2. TypeOK'
    BY <1>1 DEF Struct, TypeOK, RegistryInv
  <1>3. Queueing'
    BY DEF Struct, Queueing
  <1>4. \A b \in Agents : Same(b)
    BY <1>1 DEF Same, Running, registryVars
  <1>5. QED
    BY <1>1, <1>2, <1>3, <1>4, NoneMoves

LEMMA CloseStepKeeps ==
    ASSUME Struct, CloseStep
    PROVE  Struct' /\ \A b \in Agents : Moves(b)
  <1>1. CASE CloseTasksDone
    <2>1. \A a \in Agents : task[a] \notin LiveTask
      BY <1>1 DEF CloseTasksDone, Struct, Placed, LiveTask
    <2>2. QED
      BY <1>1, <2>1, CloseAdvances DEF CloseTasksDone
  <1>2. CASE CloseEnds
    <2>1. \A a \in Agents : task[a] \notin LiveTask
      BY <1>2 DEF CloseEnds, Struct, Queueing
    <2>2. QED
      BY <1>2, <2>1, CloseAdvances DEF CloseEnds
  <1>3. QED
    BY <1>1, <1>2 DEF CloseStep

\* The task of an agent goes on to another stage without a word to anyone, or
\* is asked to cancel itself.
LEMMA TaskGoesOn ==
    ASSUME Struct, NEW a \in Agents, NEW stage, NEW asked,
           \/ task[a] = "created" /\ stage = "ended"
           \/ task[a] = "body" /\ stage \in {"body", "settling"},
           asked \subseteq {"cancel", "timer"}, signal[a] \subseteq asked,
           task' = [task EXCEPT ![a] = stage],
           signal' = [signal EXCEPT ![a] = asked],
           UNCHANGED <<registryVars, spawnQueue, worker, stopped, closing, audit, accepted>>
    PROVE  Struct' /\ \A b \in Agents : Moves(b)
  <1>1. RegistryInv' /\ UNCHANGED registryVars
    BY RegistryStutter DEF Struct
  <1>2. TypeOK'
    BY <1>1 DEF Struct, TypeOK, RegistryInv
  <1>3. Queueing'
    BY DEF Struct, Queueing, TypeOK, LiveTask
  <1>4. Running' = Running
    BY DEF Running
  <1>5. task'[a] = stage /\ signal'[a] = asked
    BY DEF Struct, TypeOK
  <1>6. Placed(a)' /\ Recalled(a)' /\ Moves(a)
    <2>1. Placed(a)'
      BY <1>1, <1>4, <1>5 DEF Struct, Placed, registryVars, LiveTask
    <2>2. Recalled(a)'
      BY <1>1, <1>5 DEF Struct, Recalled, registryVars
    <2>3. Quiet(a)
      BY <1>1 DEF Quiet, Outcome, registryVars
    <2>4. QED
      BY <2>1, <2>2, <2>3 DEF Moves
  <1>7. \A b \in Agents \ {a} : Same(b)
    BY <1>1, <1>4 DEF Struct, TypeOK, Same, registryVars
  <1>8. QED
    BY <1>1, <1>2, <1>3, <1>6, <1>7, OneMoves

LEMMA CancelledBeforeStartKeeps ==
    ASSUME Struct, NEW a \in Agents, CancelledBeforeStart(a)
    PROVE  Struct' /\ \A b \in Agents : Moves(b)
  <1>1. signal' = [signal EXCEPT ![a] = signal[a]]
        /\ signal[a] \subseteq {"cancel", "timer"}
    BY DEF CancelledBeforeStart, Struct, TypeOK
  <1>2. QED
    BY <1>1, TaskGoesOn DEF CancelledBeforeStart, TaskEnds

LEMMA CancelDeliveredKeeps ==
    ASSUME Struct, NEW a \in Agents, CancelDelivered(a)
    PROVE  Struct' /\ \A b \in Agents : Moves(b)
  <1>1. signal' = [signal EXCEPT ![a] = signal[a]]
        /\ signal[a] \subseteq {"cancel", "timer"}
    BY DEF CancelDelivered, Struct, TypeOK
  <1>2. QED
    BY <1>1, TaskGoesOn DEF CancelDelivered

LEMMA TimerFiresKeeps ==
    ASSUME Struct, NEW a \in Agents, TimerFires(a)
    PROVE  Struct' /\ \A b \in Agents : Moves(b)
  <1>1. task' = [task EXCEPT ![a] = "body"]
    BY DEF TimerFires, Struct, TypeOK
  <1>2. PICK asked : asked = signal[a] \union {"timer"}
    OBVIOUS
  <1>3. /\ asked \subseteq {"cancel", "timer"} /\ signal[a] \subseteq asked
        /\ signal' = [signal EXCEPT ![a] = asked]
    BY <1>2 DEF TimerFires, Struct, TypeOK
  <1>4. QED
    BY <1>1, <1>3, TaskGoesOn DEF TimerFires

----------------------------------------------------------------------------
(* Steps of one agent that registry and audit record follow *)

\* An event on the trail of one agent.
LEMMA AuditTyped ==
    ASSUME Struct, NEW a \in Agents, NEW e \in Events, Audit(a, e)
    PROVE  /\ audit' \in [Agents -> Seq({"spawned", "started", "progress"}
                                          \union Terminal)]
           /\ audit'[a] = Append(audit[a], e)
           /\ \A b \in Agents \ {a} : audit'[b] = audit[b]
  <1>1. audit[a] \in Seq(Events)
    BY DEF Struct, TypeOK, Events
  <1>2. Append(audit[a], e) \in Seq(Events)
    BY <1>1, AppendProperties
  <1> HIDE DEF Events
  <1>3. audit \in [Agents -> Seq(Events)]
    BY DEF Struct, TypeOK, Events
  <1>4. /\ audit' \in [Agents -> Seq(Events)]
        /\ audit'[a] = Append(audit[a], e)
        /\ \A b \in Agents \ {a} : audit'[b] = audit[b]
    BY <1>2, <1>3 DEF Audit
  <1>5. QED
    BY <1>4 DEF Events

LEMMA SpawnKeeps ==
    ASSUME Struct, NEW a \in Agents, Spawn(a)
    PROVE  Struct' /\ \A b \in Agents : Moves(b)
  <1>1. RegistryInv'
    BY RegisterAgentInv DEF Struct, Spawn
  <1>2. /\ audit' \in [Agents -> Seq({"spawned", "started", "progress"}
                                       \union Terminal)]
        /\ audit'[a] = Append(audit[a], "spawned")
        /\ \A b \in Agents \ {a} : audit'[b] = audit[b]
    BY AuditTyped DEF Spawn, Events
  <1>3. agentState[a] = "unknown" /\ task[a] = "none" /\ a \notin Range(spawnQueue)
    BY DEF Spawn, RegisterAgent, Struct, Placed
  <1>4. /\ spawnQueue' \in Seq(Agents) /\ Distinct(spawnQueue')
        /\ Range(spawnQueue') = Range(spawnQueue) \union {a}
    BY <1>3, AppendDistinct DEF Spawn, Struct, TypeOK, Queueing
  <1>5. TypeOK'
    BY <1>1, <1>2, <1>4 DEF Struct, TypeOK, Spawn, RegistryInv
  <1>6. Queueing'
    BY <1>4 DEF Struct, Queueing, Spawn
  <1>7. Running' = Running
    BY DEF Running, Spawn
  <1>8. settledAs[a] = "none" /\ a \notin Running
    BY <1>3 DEF Struct, RegistryInv, SettledOnce, Placed, Terminal
  <1>9. agentState'[a] = "pending" /\ taskQueued'[a] = TRUE
    BY DEF Struct, RegistryInv, RegistryTypeOK, Spawn, RegisterAgent
  <1>10. Placed(a)' /\ Recalled(a)' /\ Moves(a)
    <2>1. Placed(a)'
      BY <1>3, <1>4, <1>7, <1>8, <1>9 DEF Placed, LiveTask, Spawn
    <2>2. Recalled(a)'
      BY DEF Struct, Recalled, Spawn, RegisterAgent
    <2>3. Advances(a, "unknown", "pending", "spawned")
      BY <1>2, <1>3, <1>8, <1>9 DEF Advances, Outcome, Spawn, RegisterAgent
    <2>4. QED
      BY <2>1, <2>2, <2>3 DEF Moves
  <1>11. \A b \in Agents \ {a} : Same(b)
    BY <1>2, <1>4, <1>7
       DEF Same, Spawn, RegisterAgent, Struct, RegistryInv, RegistryTypeOK
  <1>12. QED
    BY <1>1, <1>5, <1>6, <1>10, <1>11, OneMoves

LEMMA ExecStartKeeps ==
    ASSUME Struct, NEW a \in Agents, ExecStart(a)
    PROVE  Struct' /\ \A b \in Agents : Moves(b)
  <1>1. CASE Updatable(a)
    <2>1. MarkRunning(a) /\ Audit(a, "started") /\ task' = [task EXCEPT ![a] = "body"]
          /\ UNCHANGED <<spawnQueue, worker, stopped, signal, closing, accepted>>
          /\ task[a] = "created"
      BY <1>1 DEF ExecStart
    <2>2. RegistryInv'
      BY <2>1, MarkRunningInv DEF Struct
    <2>3. /\ audit' \in [Agents -> Seq({"spawned", "started", "progress"}
                                         \union Terminal)]
          /\ audit'[a] = Append(audit[a], "started")
          /\ \A b \in Agents \ {a} : audit'[b] = audit[b]
      BY <2>1, AuditTyped DEF Events
    <2>4. TypeOK'
      BY <2>1, <2>2, <2>3 DEF Struct, TypeOK, RegistryInv
    <2>5. Queueing'
      BY <2>1 DEF Struct, Queueing, TypeOK, LiveTask
    <2>6. Running' = Running
      BY <2>1 DEF Running
    <2>7. settledAs[a] = "none" /\ agentState[a] = "pending"
      BY <1>1, <2>1 DEF Struct, RegistryInv, RegistryTypeOK, SettledOnce, Placed,
                        Updatable, Present, Live, Terminal, Absent
    <2>8. agentState'[a] = "running" /\ taskQueued'[a] = FALSE /\ task'[a] = "body"
      BY <2>1 DEF Struct, RegistryInv, RegistryTypeOK, MarkRunning, TypeOK
    <2>9. Placed(a)' /\ Recalled(a)' /\ Moves(a)
      <3>1. Placed(a)'
        BY <2>1, <2>6, <2>8 DEF Struct, Placed, LiveTask
      <3>2. Recalled(a)'
        BY <2>1, <2>7 DEF Struct, Recalled, MarkRunning
      <3>3. Advances(a, "pending", "running", "started")
        BY <2>1, <2>3, <2>7, <2>8 DEF Advances, Outcome, MarkRunning
      <3>4. QED
        BY <3>1, <3>2, <3>3 DEF Moves
    <2>10. \A b \in Agents \ {a} : Same(b)
      BY <2>1, <2>3, <2>6
         DEF Same, MarkRunning, Struct, RegistryInv, RegistryTypeOK, TypeOK
    <2>11. QED
      BY <2>2, <2>4, <2>5, <2>9, <2>10, OneMoves
  <1>2. CASE ~ Updatable(a)
    <2>1. /\ signal' = [signal EXCEPT ![a] = signal[a]]
          /\ signal[a] \subseteq {"cancel", "timer"}
      BY DEF ExecStart, Struct, TypeOK
    <2>2. QED
      BY <1>2, <2>1, TaskGoesOn DEF ExecStart, TaskEnds
  <1>3. QED
    BY <1>1, <1>2

LEMMA ReportKeeps ==
    ASSUME Struct, NEW a \in Agents, Report(a)
    PROVE  Struct' /\ \A b \in Agents : Moves(b)
  <1>1. agentState[a] = "running"
    BY DEF Struct, Placed, Report
  <1>2. RecordProgress(a) /\ Audit(a, "progress") /\ progress[a] < MaxReports
        /\ UNCHANGED <<spawnQueue, worker, stopped, task, signal, closing, accepted>>
    BY <1>1 DEF Report, Updatable, Present, Absent, Terminal
  <1>3. RegistryInv'
    BY <1>2, RecordProgressInv DEF Struct
  <1>4. /\ audit' \in [Agents -> Seq({"spawned", "started", "progress"}
                                       \union Terminal)]
        /\ audit'[a] = Append(audit[a], "progress")
        /\ \A b \in Agents \ {a} : audit'[b] = audit[b]
    BY <1>2, AuditTyped DEF Events
  <1>5. TypeOK'
    BY <1>2, <1>3, <1>4 DEF Struct, TypeOK, RegistryInv
  <1>6. Queueing'
    BY <1>2 DEF Struct, Queueing
  <1>7. Running' = Running
    BY <1>2 DEF Running
  <1>8. settledAs[a] = "none"
    BY <1>1 DEF Struct, RegistryInv, SettledOnce, Terminal
  <1>9. progress'[a] = progress[a] + 1
    BY <1>2 DEF Struct, RegistryInv, RegistryTypeOK, RecordProgress
  <1>10. Placed(a)' /\ Recalled(a)' /\ Moves(a)
    <2>1. Placed(a)'
      BY <1>2, <1>7 DEF Struct, Placed, RecordProgress
    <2>2. Recalled(a)'
      BY <1>2 DEF Struct, Recalled, RecordProgress
    <2>3. Advances(a, "running", "running", "progress")
      BY <1>1, <1>2, <1>4, <1>8, <1>9 DEF Advances, Outcome, RecordProgress
    <2>4. QED
      BY <2>1, <2>2, <2>3 DEF Moves
  <1>11. \A b \in Agents \ {a} : Same(b)
    BY <1>2, <1>4, <1>7
       DEF Same, RecordProgress, Struct, RegistryInv, RegistryTypeOK
  <1>12. QED
    BY <1>3, <1>5, <1>6, <1>10, <1>11, OneMoves

\* What _settle() does to the registry and the audit trail of an agent the
\* store takes it for.
Effect(a, state, failure) ==
    /\ RegistryInv'
    /\ agentState[a] \in Live /\ agentState'[a] \in {state, "evicted"}
    /\ settledAs[a] = "none" /\ settledAs'[a] = state
    /\ taskQueued'[a] = FALSE
    /\ progress'[a] = IF state = "completed" THEN FullProgress
                      ELSE progress[a]
    /\ agentError'[a] = (agentError[a] \/ failure)
    /\ audit' \in [Agents -> Seq({"spawned", "started", "progress"}
                                   \union Terminal)]
    /\ audit'[a] = Append(audit[a], state)
    /\ \A b \in Agents \ {a} :
         /\ \/ agentState'[b] = agentState[b]
            \/ agentState[b] \in Terminal /\ agentState'[b] = "evicted"
         /\ settledAs'[b] = settledAs[b]
         /\ taskQueued'[b] = taskQueued[b]
         /\ progress'[b] = progress[b]
         /\ agentError'[b] = agentError[b]
         /\ audit'[b] = audit[b]

\* _settle() of an agent the store takes it for.
LEMMA SettleOne ==
    ASSUME Struct, NEW a \in Agents, NEW state \in Terminal,
           NEW failure \in BOOLEAN, Updatable(a), Settle(a, state, failure)
    PROVE  Effect(a, state, failure)
  <1>1. PICK q \in Seq(Agents) : q = <<a>> /\ Distinct(q) /\ Range(q) = {a}
    BY SingleAgent
  <1>2. SettleAgents(q, state, failure) /\ Audit(a, state) /\ state \in Events
    BY <1>1 DEF Settle, SettleAgent, Events
  <1>3. RegistryInv /\ RegistryInv'
    BY <1>1, <1>2, SettleAgentsInv DEF Struct
  <1>4. /\ \A b \in Range(q) :
             /\ agentState[b] \in Live
             /\ agentState'[b] \in {state, "evicted"}
             /\ settledAs[b] = "none"
             /\ settledAs'[b] = state
        /\ \A b \in Agents \ Range(q) :
             /\ \/ agentState'[b] = agentState[b]
                \/ agentState[b] \in Terminal /\ agentState'[b] = "evicted"
             /\ settledAs'[b] = settledAs[b]
    BY <1>2, <1>3, SettleAgentsStates
  <1>5. /\ agentState[a] \in Live /\ agentState'[a] \in {state, "evicted"}
        /\ settledAs[a] = "none" /\ settledAs'[a] = state
        /\ \A b \in Agents \ {a} :
             /\ \/ agentState'[b] = agentState[b]
                \/ agentState[b] \in Terminal /\ agentState'[b] = "evicted"
             /\ settledAs'[b] = settledAs[b]
    BY <1>1, <1>4
  <1>6. /\ taskQueued'[a] = FALSE
        /\ progress'[a] = IF state = "completed" THEN FullProgress
                          ELSE progress[a]
        /\ agentError'[a] = (agentError[a] \/ failure)
        /\ \A b \in Agents \ {a} :
             /\ taskQueued'[b] = taskQueued[b]
             /\ progress'[b] = progress[b]
             /\ agentError'[b] = agentError[b]
    <2>1. /\ \A b \in Range(q) :
               /\ taskQueued'[b] = FALSE
               /\ agentError'[b] = (agentError[b] \/ failure)
               /\ progress'[b] = IF state = "completed" THEN FullProgress
                                 ELSE progress[b]
          /\ \A b \in Agents \ Range(q) :
               /\ taskQueued'[b] = taskQueued[b]
               /\ agentError'[b] = agentError[b]
               /\ progress'[b] = progress[b]
      BY <1>2, <1>3, SettleAgentsRows
    <2>2. Range(q) = {a} /\ a \in Range(q)
      BY <1>1
    <2>3. /\ taskQueued'[a] = FALSE
          /\ agentError'[a] = (agentError[a] \/ failure)
          /\ progress'[a] = IF state = "completed" THEN FullProgress ELSE progress[a]
      BY <2>1, <2>2
    <2>4. \A b \in Agents \ {a} :
            /\ taskQueued'[b] = taskQueued[b]
            /\ progress'[b] = progress[b]
            /\ agentError'[b] = agentError[b]
      BY <2>1, <2>2
    <2>5. QED
      BY <2>3, <2>4
  <1>7. /\ audit' \in [Agents -> Seq({"spawned", "started", "progress"}
                                       \union Terminal)]
        /\ audit'[a] = Append(audit[a], state)
        /\ \A b \in Agents \ {a} : audit'[b] = audit[b]
    BY <1>2, AuditTyped
  <1>8. QED
    BY <1>3, <1>5, <1>6, <1>7 DEF Effect

\* An execution ends and is settled; a completed one was not being cancelled.
LEMMA ExecutionEnds ==
    ASSUME Struct, NEW a \in Agents, NEW state \in Terminal,
           NEW failure \in BOOLEAN,
           task[a] \in {"body", "settling"},
           state = "completed" => signal[a] = {} /\ failure = FALSE,
           state = "failed" => failure = TRUE,
           Settle(a, state, failure), TaskEnds(a),
           UNCHANGED <<spawnQueue, worker, stopped, signal, closing, accepted>>
    PROVE  Struct' /\ \A b \in Agents : Moves(b)
  <1>1. agentState[a] = "running" /\ Updatable(a)
    BY DEF Struct, Placed, Updatable, Present, Absent, Terminal
  <1>2. /\ RegistryInv'
        /\ agentState'[a] \in {state, "evicted"}
        /\ settledAs[a] = "none" /\ settledAs'[a] = state
        /\ taskQueued'[a] = FALSE
        /\ progress'[a] = IF state = "completed" THEN FullProgress
                          ELSE progress[a]
        /\ agentError'[a] = (agentError[a] \/ failure)
        /\ audit' \in [Agents -> Seq({"spawned", "started", "progress"}
                                       \union Terminal)]
        /\ audit'[a] = Append(audit[a], state)
        /\ \A b \in Agents \ {a} :
             /\ \/ agentState'[b] = agentState[b]
                \/ agentState[b] \in Terminal /\ agentState'[b] = "evicted"
             /\ settledAs'[b] = settledAs[b]
             /\ taskQueued'[b] = taskQueued[b]
             /\ progress'[b] = progress[b]
             /\ agentError'[b] = agentError[b]
             /\ audit'[b] = audit[b]
    <2>1. Effect(a, state, failure)
      BY <1>1, SettleOne
    <2>2. QED
      BY <2>1 DEF Effect
  <1>3. /\ task' \in [Agents -> {"none", "created", "body", "settling", "ended"}]
        /\ task'[a] = "ended"
        /\ \A b \in Agents \ {a} : task'[b] = task[b]
    BY DEF Struct, TypeOK, TaskEnds
  <1>4. TypeOK'
    BY <1>2, <1>3 DEF Struct, TypeOK, RegistryInv
  <1>5. Queueing'
    BY <1>3 DEF Struct, Queueing, LiveTask
  <1>6. Running' = Running
    BY DEF Running
  <1>7. agentState'[a] \notin {"running", "pending", "unknown"}
    BY <1>2 DEF Terminal
  <1>8. Placed(a)'
    <2>1. task'[a] = "ended" /\ taskQueued'[a] = FALSE
      BY <1>2, <1>3
    <2>2. a \notin Range(spawnQueue') /\ Running' = Running
      BY <1>6 DEF Struct, Placed
    <2>3. QED
      BY <1>7, <2>1, <2>2 DEF Placed, LiveTask
  <1>9. Recalled(a)'
    BY <1>2 DEF Struct, Recalled, Terminal
  <1>10. agentError[a] \in BOOLEAN
    BY DEF Struct, RegistryInv, RegistryTypeOK
  <1>11. Settles(a, "running", state)
    <2>1. Outcome(a) = "running" /\ Outcome(a)' = state
      BY <1>1, <1>2 DEF Outcome, Terminal
    <2>2. state = "completed" => agentError'[a] = agentError[a]
      BY <1>2, <1>10
    <2>3. state = "failed" => agentError'[a] = TRUE
      BY <1>2
    <2>4. QED
      BY <1>2, <2>1, <2>2, <2>3 DEF Settles
  <1>12. \A b \in Agents \ {a} : Same(b)
    BY <1>2, <1>3, <1>6 DEF Same
  <1>13. QED
    BY <1>2, <1>4, <1>5, <1>8, <1>9, <1>11, <1>12, OneMoves DEF Moves

LEMMA CompleteKeeps ==
    ASSUME Struct, NEW a \in Agents, Complete(a)
    PROVE  Struct' /\ \A b \in Agents : Moves(b)
  BY ExecutionEnds DEF Complete, Terminal

LEMMA FailKeeps ==
    ASSUME Struct, NEW a \in Agents, Fail(a)
    PROVE  Struct' /\ \A b \in Agents : Moves(b)
  BY ExecutionEnds DEF Fail, Terminal

LEMMA WallClockTimeoutKeeps ==
    ASSUME Struct, NEW a \in Agents, WallClockTimeout(a)
    PROVE  Struct' /\ \A b \in Agents : Moves(b)
  BY ExecutionEnds DEF WallClockTimeout, Terminal

LEMMA SettleCancelledKeeps ==
    ASSUME Struct, NEW a \in Agents, SettleCancelled(a)
    PROVE  Struct' /\ \A b \in Agents : Moves(b)
  BY ExecutionEnds DEF SettleCancelled, Terminal

\* An agent no worker holds is cancelled where it is, in the queue or stranded.
LEMMA CancelPendingKeeps ==
    ASSUME Struct, NEW a \in Agents, CancelPending(a)
    PROVE  Struct' /\ \A b \in Agents : Moves(b)
  <1>1. agentState[a] = "pending" /\ Updatable(a) /\ Settle(a, "cancelled", FALSE)
        /\ accepted' = accepted \union {a}
        /\ UNCHANGED <<spawnQueue, worker, stopped, task, signal, closing>>
    BY DEF CancelPending, Updatable, Present, Absent, Terminal
  <1>2. /\ RegistryInv'
        /\ agentState'[a] \in {"cancelled", "evicted"}
        /\ settledAs[a] = "none" /\ settledAs'[a] = "cancelled"
        /\ taskQueued'[a] = FALSE
        /\ progress'[a] = progress[a]
        /\ audit' \in [Agents -> Seq({"spawned", "started", "progress"}
                                       \union Terminal)]
        /\ audit'[a] = Append(audit[a], "cancelled")
        /\ \A b \in Agents \ {a} :
             /\ \/ agentState'[b] = agentState[b]
                \/ agentState[b] \in Terminal /\ agentState'[b] = "evicted"
             /\ settledAs'[b] = settledAs[b]
             /\ taskQueued'[b] = taskQueued[b]
             /\ progress'[b] = progress[b]
             /\ agentError'[b] = agentError[b]
             /\ audit'[b] = audit[b]
    <2>1. Effect(a, "cancelled", FALSE)
      BY <1>1, SettleOne DEF Terminal
    <2>2. agentError[a] \in BOOLEAN
      BY DEF Struct, RegistryInv, RegistryTypeOK
    <2>3. QED
      BY <2>1, <2>2 DEF Effect
  <1>3. TypeOK'
    BY <1>1, <1>2 DEF Struct, TypeOK, RegistryInv
  <1>4. Queueing'
    BY <1>1 DEF Struct, Queueing
  <1>5. Running' = Running
    BY <1>1 DEF Running
  <1>6. Placed(a)'
    BY <1>1, <1>2, <1>5 DEF Struct, Placed
  <1>7. Recalled(a)'
    BY <1>2 DEF Recalled
  <1>8. Settles(a, "pending", "cancelled")
    BY <1>1, <1>2 DEF Settles, Outcome
  <1>9. \A b \in Agents \ {a} : Same(b)
    BY <1>1, <1>2, <1>5 DEF Same
  <1>10. QED
    BY <1>2, <1>3, <1>4, <1>6, <1>7, <1>8, <1>9, OneMoves DEF Moves

----------------------------------------------------------------------------
(* The shutdown settles the queue at once *)

LEMMA CloseBeginKeeps ==
    ASSUME Struct, CloseBegin
    PROVE  Struct' /\ \A b \in Agents : Moves(b)
  <1>1. PICK pending \in Seq(Agents) :
          /\ pending = UpdatableOf(spawnQueue)
          /\ Distinct(pending)
          /\ Range(pending) = {a \in Range(spawnQueue) : Updatable(a)}
    BY UpdatableOfProperties DEF Struct, TypeOK, Queueing
  <1>2. /\ SettleAgents(pending, "cancelled", FALSE)
        /\ audit' = [a \in Agents |->
                       IF a \in Range(pending)
                       THEN Append(audit[a], "cancelled") ELSE audit[a]]
        /\ spawnQueue' = << >> /\ closing' = "tasks" /\ closing = "open"
        /\ signal' = [a \in Agents |->
                        IF a \in Running /\ task[a] # "ended"
                        THEN signal[a] \union {"cancel"} ELSE signal[a]]
        /\ UNCHANGED <<worker, stopped, task, accepted>>
    BY <1>1 DEF CloseBegin
  <1>3. RegistryInv /\ RegistryInv'
    BY <1>1, <1>2, SettleAgentsInv DEF Struct, Terminal
  <1>4. /\ \A b \in Range(pending) :
             /\ agentState[b] \in Live
             /\ agentState'[b] \in {"cancelled", "evicted"}
             /\ settledAs[b] = "none"
             /\ settledAs'[b] = "cancelled"
        /\ \A b \in Agents \ Range(pending) :
             /\ \/ agentState'[b] = agentState[b]
                \/ agentState[b] \in Terminal /\ agentState'[b] = "evicted"
             /\ settledAs'[b] = settledAs[b]
    BY <1>2, <1>3, SettleAgentsStates DEF Terminal
  <1>5. /\ \A b \in Range(pending) :
             /\ taskQueued'[b] = FALSE
             /\ progress'[b] = progress[b]
        /\ \A b \in Agents \ Range(pending) :
             /\ taskQueued'[b] = taskQueued[b]
             /\ agentError'[b] = agentError[b]
             /\ progress'[b] = progress[b]
    <2>1. /\ \A b \in Range(pending) :
               /\ taskQueued'[b] = FALSE
               /\ agentError'[b] = (agentError[b] \/ FALSE)
               /\ progress'[b] = IF "cancelled" = "completed" THEN FullProgress
                                 ELSE progress[b]
          /\ \A b \in Agents \ Range(pending) :
               /\ taskQueued'[b] = taskQueued[b]
               /\ agentError'[b] = agentError[b]
               /\ progress'[b] = progress[b]
      BY <1>2, <1>3, SettleAgentsRows, Zenon
    <2>2. QED
      BY <2>1
  <1>6. audit' \in [Agents -> Seq({"spawned", "started", "progress"}
                                    \union Terminal)]
    <2>1. audit \in [Agents -> Seq(Events)] /\ "cancelled" \in Events
      BY DEF Struct, TypeOK, Events, Terminal
    <2> HIDE DEF Events
    <2>2. \A a \in Agents : Append(audit[a], "cancelled") \in Seq(Events)
      BY <2>1, AppendProperties
    <2>3. audit' \in [Agents -> Seq(Events)]
      BY <1>2, <2>1, <2>2
    <2>4. QED
      BY <2>3 DEF Events
  <1>7. << >> \in Seq(Agents) /\ Distinct(<< >>) /\ Range(<< >>) = {}
    BY DEF Distinct, Range
  <1>8. signal' \in [Agents -> SUBSET {"cancel", "timer"}]
    BY <1>2 DEF Struct, TypeOK
  <1>9. TypeOK'
    BY <1>2, <1>3, <1>6, <1>7, <1>8 DEF Struct, TypeOK, RegistryInv
  <1>10. Queueing'
    BY <1>2, <1>7 DEF Struct, Queueing
  <1>11. Running' = Running
    BY <1>2 DEF Running
  <1>12. \A b \in Agents : signal[b] \subseteq signal'[b]
    BY <1>2
  <1>13. ASSUME NEW b \in Agents
         PROVE  Placed(b)' /\ Recalled(b)' /\ Moves(b)
    <2>1. SettledOnce(b) /\ Placed(b) /\ Recalled(b)
      BY DEF Struct, RegistryInv
    <2>2. CASE b \in Range(pending)
      <3>1. task[b] = "none" /\ agentState[b] = "pending" /\ b \notin Running
        BY <1>1, <1>4, <2>1, <2>2 DEF Placed, Live
      <3>2. Placed(b)'
        BY <1>2, <1>4, <1>5, <1>7, <1>11, <2>2, <3>1 DEF Placed, LiveTask
      <3>3. Recalled(b)'
        BY <1>2, <1>4, <2>2 DEF Recalled
      <3>4. Settles(b, "pending", "cancelled")
        BY <1>2, <1>4, <1>5, <2>2, <3>1 DEF Settles, Outcome
      <3>5. QED
        BY <3>2, <3>3, <3>4 DEF Moves
    <2>3. CASE b \notin Range(pending)
      <3>1. agentState[b] = "pending" => b \notin Range(spawnQueue)
        BY <1>1, <2>3 DEF Updatable, Present, Absent, Terminal
      <3>2. Placed(b)'
        BY <1>2, <1>4, <1>5, <1>7, <1>11, <2>1, <2>3, <3>1
           DEF Placed, LiveTask, Terminal
      <3>3. Recalled(b)'
        BY <1>2, <1>4, <1>12, <2>1, <2>3 DEF Recalled
      <3>4. Quiet(b)
        BY <1>2, <1>4, <1>5, <2>1, <2>3 DEF Quiet, Outcome, SettledOnce, Terminal
      <3>5. QED
        BY <3>2, <3>3, <3>4 DEF Moves
    <2>4. QED
      BY <2>2, <2>3
  <1>14. QED
    BY <1>3, <1>9, <1>10, <1>13 DEF Struct

----------------------------------------------------------------------------
(* Every behaviour *)

LEMMA InitIInv == Init => IInv
  <1> SUFFICES ASSUME Init
               PROVE  IInv
    OBVIOUS
  <1>1. RegistryInv
    BY RegistryInitInv DEF Init
  <1>2. << >> \in Seq(Agents) /\ Distinct(<< >>) /\ Range(<< >>) = {}
        /\ << >> \in Seq({"spawned", "started", "progress"} \union Terminal)
    BY DEF Distinct, Range
  <1>3. TypeOK
    BY <1>1, <1>2 DEF Init, TypeOK, RegistryInv
  <1>4. Queueing
    BY <1>2, RunnerAssumption DEF Init, Queueing
  <1>5. Running = {}
    BY RunnerAssumption DEF Init, Running
  <1>6. ASSUME NEW a \in Agents
        PROVE  Placed(a) /\ Recalled(a) /\ Told(a)
    <2>1. agentState[a] = "unknown" /\ taskQueued[a] = FALSE /\ progress[a] = 0
          /\ agentError[a] = FALSE /\ settledAs[a] = "none" /\ task[a] = "none"
          /\ audit[a] = << >> /\ accepted = {} /\ spawnQueue = << >>
      BY DEF Init, RegistryInit
    <2>2. Placed(a) /\ Recalled(a)
      BY <1>2, <1>5, <2>1 DEF Placed, Recalled, LiveTask
    <2>3. {i \in DOMAIN << >> : << >>[i] = "progress"} = {}
      OBVIOUS
    <2>4. Cardinality({i \in DOMAIN << >> : << >>[i] = "progress"}) = 0
      BY <2>3, FS_EmptySet
    <2>5. Told(a)
      <3>1. Rebuilt(a).state = "unknown"
        BY <2>1 DEF Rebuilt
      <3>2. Rebuilt(a).progress = 0
        BY <1>2, <2>1, <2>4 DEF Rebuilt
      <3>3. Rebuilt(a).error = FALSE
        <4>1. Rebuilt(a).error = ("failed" \in Range(audit[a]))
          BY DEF Rebuilt
        <4>2. ("failed" \in Range(audit[a])) = FALSE
          BY <1>2, <2>1
        <4>3. QED
          BY <4>1, <4>2, Zenon
      <3>4. QED
        BY <1>2, <2>1, <3>1, <3>2, <3>3 DEF Told, Outcome
    <2>6. QED
      BY <2>2, <2>5
  <1>7. QED
    BY <1>1, <1>3, <1>4, <1>6 DEF IInv, Struct

\* A step that changes nothing.
LEMMA StutterKeeps ==
    ASSUME Struct, UNCHANGED vars
    PROVE  Struct' /\ \A b \in Agents : Moves(b)
  <1>1. RegistryInv' /\ UNCHANGED <<registryVars, runnerVars>>
    BY RegistryStutter DEF vars, Struct
  <1>2. TypeOK'
    BY <1>1 DEF Struct, TypeOK, RegistryInv, runnerVars
  <1>3. Queueing'
    BY <1>1 DEF Struct, Queueing, runnerVars
  <1>4. \A b \in Agents : Same(b)
    BY <1>1 DEF Same, Running, registryVars, runnerVars
  <1>5. QED
    BY <1>1, <1>2, <1>3, <1>4, NoneMoves

\* Every step keeps Struct and moves every agent along its lifecycle or not at
\* all.
LEMMA NextMoves ==
    ASSUME Struct, [Next]_vars
    PROVE  Struct' /\ \A b \in Agents : Moves(b)
  <1>1. ASSUME NEW a \in Agents,
               Spawn(a) \/ CancelRunning(a) \/ CancelPending(a)
        PROVE  Struct' /\ \A b \in Agents : Moves(b)
    BY <1>1, SpawnKeeps, CancelRunningKeeps, CancelPendingKeeps
  <1>2. ASSUME NEW a \in Agents, ExecStep(a)
        PROVE  Struct' /\ \A b \in Agents : Moves(b)
    <2>1. CASE ExecStart(a) \/ CancelledBeforeStart(a) \/ CancelDelivered(a)
      BY <2>1, ExecStartKeeps, CancelledBeforeStartKeeps, CancelDeliveredKeeps
    <2>2. CASE Complete(a) \/ Fail(a) \/ WallClockTimeout(a) \/ SettleCancelled(a)
      BY <2>2, CompleteKeeps, FailKeeps, WallClockTimeoutKeeps,
         SettleCancelledKeeps
    <2>3. QED
      BY <1>2, <2>1, <2>2 DEF ExecStep
  <1>3. ASSUME NEW a \in Agents, Report(a) \/ TimerFires(a)
        PROVE  Struct' /\ \A b \in Agents : Moves(b)
    BY <1>3, ReportKeeps, TimerFiresKeeps
  <1>4. ASSUME NEW w \in Workers, WorkerStep(w)
        PROVE  Struct' /\ \A b \in Agents : Moves(b)
    BY <1>4, WorkerPicksKeeps, WorkerDoneKeeps, WorkerStopsKeeps DEF WorkerStep
  <1>5. CASE CloseBegin \/ CloseStep
    BY <1>5, CloseBeginKeeps, CloseStepKeeps
  <1>6. CASE Terminated \/ UNCHANGED vars
    BY <1>6, StutterKeeps DEF Terminated
  <1>7. QED
    BY <1>1, <1>2, <1>3, <1>4, <1>5, <1>6 DEF Next

LEMMA NextIInv == IInv /\ [Next]_vars => IInv'
  <1> SUFFICES ASSUME IInv, [Next]_vars
               PROVE  IInv'
    OBVIOUS
  <1>1. Struct' /\ \A a \in Agents : Moves(a)
    BY NextMoves DEF IInv
  <1>2. \A a \in Agents : audit[a] \in Seq(Events)
    BY DEF IInv, Struct, TypeOK, Events
  <1>3. \A a \in Agents : Told(a)'
    BY <1>1, <1>2, MovesTold DEF IInv
  <1>4. QED
    BY <1>1, <1>3 DEF IInv

(* Registry, queue, workers, tasks and audit record stay in order whatever *)
(* callers, workers, timers and the shutdown do.                           *)
THEOREM Invariance == Spec => []IInv
  BY InitIInv, NextIInv, PTL DEF Spec

(* Every variable keeps its type: no step of the runner writes anything    *)
(* the registry's and the audit record's readers do not expect.            *)
THEOREM TypeCorrect == Spec => []TypeOK
  <1>1. IInv => TypeOK
    BY DEF IInv, Struct
  <1>2. QED
    BY <1>1, Invariance, PTL

(* The retention window of the registry lists the most recently settled    *)
(* agents and no others, for any number of agents and any window.          *)
THEOREM WindowIsRight == Spec => []WindowHoldsNewestSettled
  <1>1. IInv => WindowHoldsNewestSettled
    BY InvWindow DEF IInv, Struct
  <1>2. QED
    BY <1>1, Invariance, PTL

(* No agent runs twice or unseen, and a pending one is queued once or about *)
(* to start.                                                                *)
THEOREM WorkAccounted == Spec => []WorkIsAccounted
  <1>1. IInv => WorkIsAccounted
    <2> SUFFICES ASSUME IInv
                 PROVE  WorkIsAccounted
      OBVIOUS
    <2>1. ASSUME NEW a \in Agents
          PROVE  Cardinality({i \in DOMAIN spawnQueue : spawnQueue[i] = a}) <= 1
      <3> DEFINE places == {i \in DOMAIN spawnQueue : spawnQueue[i] = a}
      <3>1. \A i, j \in places : i = j
        BY DEF IInv, Struct, Queueing, Distinct
      <3>2. CASE places = {}
        BY <3>2, FS_EmptySet
      <3>3. CASE places # {}
        <4>1. PICK i : places = {i}
          BY <3>1, <3>3
        <4>2. Cardinality({i}) = 1
          BY FS_Singleton
        <4>3. QED
          BY <4>1, <4>2
      <3>4. QED
        BY <3>2, <3>3
    <2>2. ASSUME NEW a \in Agents
          PROVE  /\ task[a] \in {"created", "body", "settling"} => a \in Running
                 /\ task[a] \in {"body", "settling"} <=> agentState[a] = "running"
                 /\ a \in Range(spawnQueue) => task[a] = "none"
                 /\ taskQueued[a] <=> agentState[a] = "pending"
                 /\ agentState[a] = "pending" =>
                      a \in Range(spawnQueue) \/ task[a] = "created" \/ NeverRan(a)
      BY DEF IInv, Struct, Placed, LiveTask, NeverRan
    <2>3. QED
      BY <2>1, <2>2 DEF WorkIsAccounted, IInv, Struct, Queueing
  <1>2. QED
    BY <1>1, Invariance, PTL

(* The result of an agent never overtakes a cancellation that was accepted. *)
THEOREM CancelSticks == Spec => []AcceptedCancelSticks
  <1>1. IInv => AcceptedCancelSticks
    BY DEF IInv, Struct, TypeOK, Recalled, AcceptedCancelSticks
  <1>2. QED
    BY <1>1, Invariance, PTL

(* The audit record alone tells the state, the progress and the error of   *)
(* every agent.                                                            *)
THEOREM AuditSuffices == Spec => []AuditRebuildsAgent
  <1>1. IInv => AuditRebuildsAgent
    BY DEF IInv, Told, AuditRebuildsAgent
  <1>2. QED
    BY <1>1, Invariance, PTL

(* The runner implements AgentLifecycle: every step is, for each agent, one *)
(* of the moves it was promised, told by its event, or none.                *)
THEOREM RunnerRefines == Spec => ImplementsLifecycle
  <1>1. Init => Lifecycle!Init
    BY DEF Init, RegistryInit, Outcome, Lifecycle!Init
  <1>2. IInv /\ [Next]_vars =>
          [Lifecycle!Next]_<<[a \in Agents |-> Outcome(a)], audit>>
    <2> SUFFICES ASSUME IInv, [Next]_vars
                 PROVE  Lifecycle!Next
      OBVIOUS
    <2> SUFFICES ASSUME NEW a \in Agents
                 PROVE  \/ Lifecycle!Spawned(a) \/ Lifecycle!Started(a)
                        \/ Lifecycle!Reported(a) \/ Lifecycle!Withdrawn(a)
                        \/ Lifecycle!Ended(a) \/ Lifecycle!Stays(a)
      BY DEF Lifecycle!Next
    <2>1. Moves(a)
      BY NextMoves DEF IInv
    <2>2. CASE Quiet(a)
      BY <2>2 DEF Quiet, Lifecycle!Stays
    <2>3. ASSUME NEW from, NEW to, NEW event, Advances(a, from, to, event)
          PROVE  Lifecycle!Moves(a, from, to, event)
      BY <2>3 DEF Advances, Lifecycle!Moves
    <2>4. ASSUME NEW from, NEW end, Settles(a, from, end)
          PROVE  Lifecycle!Moves(a, from, end, end)
      BY <2>4 DEF Settles, Lifecycle!Moves
    <2>5. QED
      BY <2>1, <2>2, <2>3, <2>4
         DEF Moves, Terminal, Lifecycle!Spawned, Lifecycle!Started,
             Lifecycle!Reported, Lifecycle!Withdrawn, Lifecycle!Ended,
             Lifecycle!Ends
  <1>3. QED
    BY <1>1, <1>2, Invariance, PTL DEF Spec, ImplementsLifecycle, Lifecycle!Spec
=============================================================================
