---------------------------- MODULE State_proofs ----------------------------
(***************************************************************************)
(* Proofs about the parts of the application's state that others are built *)
(* on: the agent registry (AgentRegistry) and the stream of events to one  *)
(* client (EventStream).                                                   *)
(*                                                                         *)
(* Of the registry, what every mutation keeps true of the retention window *)
(* and does to the agents it names and to the others.                      *)
(*                                                                         *)
(* The lemmas about the stream are stated for events that say members of   *)
(* any set B, carried by messages of any set M: EventStream's own Bodies,  *)
(* the changes of the registry, or those of the runs.                      *)
(***************************************************************************)
EXTENDS AgentRegistry, EventStream, ListLemmas

----------------------------------------------------------------------------
(* The invariant of the registry *)

\* What an agent is and what it settled as agree.
SettledOnce(a) ==
    /\ agentState[a] \in Terminal => settledAs[a] = agentState[a]
    /\ settledAs[a] # "none" <=> agentState[a] \in Terminal \union {"evicted"}

\* The order in which agents settled lists each of them once.
OrderListsSettled ==
    /\ Distinct(settledOrder)
    /\ Range(settledOrder) = {a \in Agents : settledAs[a] # "none"}

\* The window is the end of that order, cut off at max_finished_agents, and
\* lists the settled agents that are still registered.
WindowIsTail ==
    /\ Len(finishedAgents) = IF Len(settledOrder) > MaxFinishedAgents
                             THEN MaxFinishedAgents ELSE Len(settledOrder)
    /\ \A i \in 1 .. Len(finishedAgents) :
         finishedAgents[i] =
           settledOrder[Len(settledOrder) - Len(finishedAgents) + i]
    /\ Range(finishedAgents) = {a \in Agents : agentState[a] \in Terminal}

RegistryInv ==
    /\ RegistryTypeOK
    /\ \A a \in Agents : SettledOnce(a)
    /\ OrderListsSettled
    /\ WindowIsTail

\* What holds of the registry also when it starts again empty and only the
\* agents of an earlier process are remembered.
Coherent ==
    /\ RegistryTypeOK
    /\ \A a \in Agents :
         /\ agentState[a] \in Terminal => settledAs[a] = agentState[a]
         /\ settledAs[a] # "none" => agentState[a] \in Terminal \union {"evicted"}
    /\ Distinct(finishedAgents)
    /\ \A a \in Range(finishedAgents) : agentState[a] \in Terminal

LEMMA InvCoherent ==
    ASSUME RegistryInv
    PROVE  Coherent
  <1>1. PICK n \in Nat, m \in Nat :
          /\ n = Len(settledOrder) /\ m = Len(finishedAgents) /\ m <= n
          /\ DOMAIN settledOrder = 1 .. n /\ DOMAIN finishedAgents = 1 .. m
    <2>1. settledOrder \in Seq(Agents) /\ finishedAgents \in Seq(Agents)
      BY DEF RegistryInv, RegistryTypeOK
    <2>2. PICK n \in Nat : n = Len(settledOrder) /\ DOMAIN settledOrder = 1 .. n
      BY <2>1, LenProperties
    <2>3. PICK m \in Nat : m = Len(finishedAgents) /\ DOMAIN finishedAgents = 1 .. m
      BY <2>1, LenProperties
    <2>4. m <= n
      BY <2>2, <2>3, RegistryAssumption DEF RegistryInv, WindowIsTail
    <2>5. QED
      BY <2>2, <2>3, <2>4
  <1>2. \A i \in 1 .. m : finishedAgents[i] = settledOrder[n - m + i]
    BY <1>1 DEF RegistryInv, WindowIsTail
  <1>3. ASSUME NEW i \in DOMAIN finishedAgents, NEW j \in DOMAIN finishedAgents, i # j
        PROVE  finishedAgents[i] # finishedAgents[j]
    <2>1. n - m + i \in 1 .. n /\ n - m + j \in 1 .. n /\ n - m + i # n - m + j
      BY <1>1, <1>3
    <2>2. settledOrder[n - m + i] # settledOrder[n - m + j]
      BY <1>1, <2>1 DEF RegistryInv, OrderListsSettled, Distinct
    <2>3. QED
      BY <1>1, <1>2, <1>3, <2>2
  <1>4. Distinct(finishedAgents)
    BY <1>3 DEF Distinct
  <1>5. \A a \in Agents :
          /\ agentState[a] \in Terminal => settledAs[a] = agentState[a]
          /\ settledAs[a] # "none" => agentState[a] \in Terminal \union {"evicted"}
    BY DEF RegistryInv, SettledOnce
  <1>6. RegistryTypeOK
    BY DEF RegistryInv
  <1>7. \A a \in Range(finishedAgents) : agentState[a] \in Terminal
    BY DEF RegistryInv, WindowIsTail
  <1>8. QED
    BY <1>4, <1>5, <1>6, <1>7 DEF Coherent

\* The registry starts empty.
LEMMA RegistryInitInv == RegistryInit => RegistryInv
  <1> SUFFICES ASSUME RegistryInit
               PROVE  RegistryInv
    OBVIOUS
  <1>1. RegistryTypeOK
    BY RegistryAssumption DEF RegistryInit, RegistryTypeOK, Absent, FullProgress
  <1>2. \A a \in Agents : SettledOnce(a)
    BY DEF RegistryInit, SettledOnce, Terminal
  <1>3. Range(<< >>) = {} /\ Distinct(<< >>) /\ Len(<< >>) = 0
    BY DEF Range, Distinct
  <1>4. OrderListsSettled
    BY <1>3 DEF RegistryInit, OrderListsSettled
  <1>5. WindowIsTail
    BY <1>3, RegistryAssumption DEF RegistryInit, WindowIsTail, Terminal
  <1>6. QED
    BY <1>1, <1>2, <1>4, <1>5 DEF RegistryInv

LEMMA RegistryStutter ==
    ASSUME RegistryInv, UNCHANGED registryVars
    PROVE  RegistryInv'
  BY DEF registryVars, RegistryInv, RegistryTypeOK, SettledOnce,
         OrderListsSettled, WindowIsTail

\* The invariant gives the property.
LEMMA InvWindow ==
    ASSUME RegistryInv
    PROVE  WindowHoldsNewestSettled
  <1> DEFINE n == Len(settledOrder)
             m == Len(finishedAgents)
  <1>1. /\ settledOrder \in Seq(Agents) /\ finishedAgents \in Seq(Agents)
        /\ n \in Nat /\ m \in Nat
    BY LenProperties DEF RegistryInv, RegistryTypeOK
  <1>2. /\ m = IF n > MaxFinishedAgents THEN MaxFinishedAgents ELSE n
        /\ \A i \in 1 .. m : finishedAgents[i] = settledOrder[n - m + i]
    BY DEF RegistryInv, WindowIsTail
  <1>3. n - m \in 0 .. n
    <2> HIDE DEF n, m
    <2>1. QED
      BY <1>1, <1>2, RegistryAssumption
  <1>4. /\ SubSeq(settledOrder, (n - m) + 1, n) \in Seq(Agents)
        /\ Len(SubSeq(settledOrder, (n - m) + 1, n)) = n - (n - m)
        /\ \A i \in 1 .. n - (n - m) :
             SubSeq(settledOrder, (n - m) + 1, n)[i] = settledOrder[(n - m) + i]
    BY <1>1, <1>3, DropProperties
  <1>5. n - (n - m) = m
    <2> HIDE DEF n, m
    <2>1. QED
      BY <1>1
  <1>6. finishedAgents = SubSeq(settledOrder, (n - m) + 1, n)
    BY <1>1, <1>2, <1>4, <1>5, SeqEqual
  <1>7. m <= MaxFinishedAgents /\ (n > MaxFinishedAgents => m = MaxFinishedAgents)
    <2> HIDE DEF n, m
    <2>1. QED
      BY <1>1, <1>2, RegistryAssumption
  <1>8. Range(finishedAgents) = {a \in Agents : agentState[a] \in Terminal}
    BY DEF RegistryInv, WindowIsTail
  <1>9. QED
    BY <1>6, <1>7, <1>8, Zenon DEF WindowHoldsNewestSettled

----------------------------------------------------------------------------
(* Mutations that settle nobody *)

\* One agent's row changes, from one state that is not terminal to another.
LEMMA UpdateInv ==
    ASSUME RegistryInv, RegistryTypeOK', NEW a \in Agents,
           agentState[a] \notin Terminal \union {"evicted"},
           agentState'[a] \notin Terminal \union {"evicted"},
           \A b \in Agents \ {a} : agentState'[b] = agentState[b],
           UNCHANGED <<finishedAgents, settledAs, settledOrder>>
    PROVE  RegistryInv'
  <1>1. \A b \in Agents : SettledOnce(b)'
    BY DEF RegistryInv, SettledOnce
  <1>2. OrderListsSettled'
    BY DEF RegistryInv, OrderListsSettled
  <1>3. {b \in Agents : agentState'[b] \in Terminal}
          = {b \in Agents : agentState[b] \in Terminal}
    OBVIOUS
  <1>4. WindowIsTail'
    BY <1>3 DEF RegistryInv, WindowIsTail
  <1>5. QED
    BY <1>1, <1>2, <1>4 DEF RegistryInv

LEMMA RegisterAgentInv ==
    ASSUME RegistryInv, NEW a \in Agents, RegisterAgent(a)
    PROVE  RegistryInv'
  <1>1. RegistryTypeOK'
    BY DEF RegistryInv, RegistryTypeOK, RegisterAgent, Live
  <1>2. QED
    BY <1>1, UpdateInv DEF RegistryInv, RegistryTypeOK, RegisterAgent, Terminal

LEMMA MarkRunningInv ==
    ASSUME RegistryInv, NEW a \in Agents, MarkRunning(a)
    PROVE  RegistryInv'
  <1>1. RegistryTypeOK'
    BY DEF RegistryInv, RegistryTypeOK, MarkRunning, Live
  <1>2. QED
    BY <1>1, UpdateInv
       DEF RegistryInv, RegistryTypeOK, MarkRunning, Terminal, Updatable,
           Present, Absent

LEMMA RecordProgressInv ==
    ASSUME RegistryInv, NEW a \in Agents, RecordProgress(a),
           progress[a] < MaxReports
    PROVE  RegistryInv'
  <1>1. progress[a] + 1 \in 0 .. FullProgress
    BY RegistryAssumption DEF RegistryInv, RegistryTypeOK, FullProgress
  <1>2. RegistryTypeOK'
    BY <1>1 DEF RegistryInv, RegistryTypeOK, RecordProgress
  <1>3. QED
    BY <1>2, UpdateInv
       DEF RegistryInv, RegistryTypeOK, RecordProgress, Terminal, Updatable,
           Present, Absent

----------------------------------------------------------------------------
(* Settling *)

\* How many are over the window, for a list of any length.
LEMMA ExcessProperties ==
    ASSUME NEW q \in Seq(Agents)
    PROVE  /\ Excess(q) \in 0 .. Len(q)
           /\ Len(q) - Excess(q) = IF Len(q) > MaxFinishedAgents
                                   THEN MaxFinishedAgents ELSE Len(q)
  <1>1. Len(q) \in Nat
    BY LenProperties
  <1>2. QED
    BY <1>1, RegistryAssumption DEF Excess

\* What SettleAgents makes of the agents of its list and of the others.
LEMMA SettleStates ==
    ASSUME Coherent, NEW q \in Seq(Agents),
           NEW state \in Terminal, NEW failure \in BOOLEAN,
           SettleAgents(q, state, failure)
    PROVE  /\ \A a \in Range(q) :
                /\ a \in Agents
                /\ agentState[a] \in Live
                /\ agentState'[a] \in {state, "evicted"}
                /\ settledAs[a] = "none"
                /\ settledAs'[a] = state
           /\ \A a \in Agents \ Range(q) :
                /\ \/ agentState'[a] = agentState[a]
                   \/ agentState[a] \in Terminal /\ agentState'[a] = "evicted"
                /\ settledAs'[a] = settledAs[a]
  <1> DEFINE window == finishedAgents \o q
  <1>1. RegistryTypeOK /\ Range(q) \subseteq Agents /\ finishedAgents \in Seq(Agents)
    BY LenProperties, ElementOfSeq DEF Coherent, RegistryTypeOK, Range
  <1>2. \A a \in Range(q) : agentState[a] \in Live /\ settledAs[a] = "none"
    BY <1>1 DEF SettleAgents, Updatable, Present, Coherent, RegistryTypeOK,
                Live, Terminal, Absent
  <1>3. Evicted(window) \subseteq Range(finishedAgents) \union Range(q)
    <2>1. /\ window \in Seq(Agents)
          /\ Len(finishedAgents) \in Nat /\ Len(q) \in Nat
          /\ DOMAIN finishedAgents = 1 .. Len(finishedAgents)
          /\ DOMAIN q = 1 .. Len(q)
          /\ Len(window) = Len(finishedAgents) + Len(q)
          /\ \A i \in 1 .. Len(finishedAgents) + Len(q) :
               window[i] = IF i <= Len(finishedAgents) THEN finishedAgents[i]
                           ELSE q[i - Len(finishedAgents)]
      BY <1>1, ConcatProperties, LenProperties
    <2> HIDE DEF window
    <2>2. Excess(window) \in 0 .. Len(window)
      BY <2>1, ExcessProperties
    <2>3. \A i \in 1 .. Excess(window) :
            window[i] \in Range(finishedAgents) \union Range(q)
      <3> TAKE i \in 1 .. Excess(window)
      <3>1. i \in 1 .. Len(finishedAgents) + Len(q)
        BY <2>1, <2>2
      <3>2. CASE i <= Len(finishedAgents)
        BY <2>1, <3>1, <3>2 DEF Range
      <3>3. CASE ~ (i <= Len(finishedAgents))
        <4>1. i - Len(finishedAgents) \in DOMAIN q
          BY <2>1, <3>1, <3>3
        <4>2. window[i] = q[i - Len(finishedAgents)]
          BY <2>1, <3>1, <3>3
        <4>3. QED
          BY <4>1, <4>2 DEF Range
      <3>4. QED
        BY <3>2, <3>3
    <2>4. QED
      BY <2>3 DEF Evicted
  <1> HIDE DEF window
  <1>4. \A a \in Range(finishedAgents) : agentState[a] \in Terminal
    BY DEF Coherent
  <1>5. \A a \in Agents :
          agentState'[a] = IF a \in Evicted(window) THEN "evicted"
                           ELSE IF a \in Range(q) THEN state ELSE agentState[a]
    BY DEF SettleAgents, Retire, window
  <1>6. \A a \in Range(q) : agentState'[a] \in {state, "evicted"}
    BY <1>1, <1>5
  <1>7. \A a \in Agents \ Range(q) :
          \/ agentState'[a] = agentState[a]
          \/ agentState[a] \in Terminal /\ agentState'[a] = "evicted"
    BY <1>3, <1>4, <1>5
  <1>8. \A a \in Agents : settledAs'[a] = IF a \in Range(q) THEN state
                                          ELSE settledAs[a]
    BY DEF SettleAgents
  <1>9. QED
    BY <1>1, <1>2, <1>6, <1>7, <1>8

LEMMA SettleAgentsStates ==
    ASSUME RegistryInv, NEW q \in Seq(Agents),
           NEW state \in Terminal, NEW failure \in BOOLEAN,
           SettleAgents(q, state, failure)
    PROVE  /\ \A a \in Range(q) :
                /\ a \in Agents
                /\ agentState[a] \in Live
                /\ agentState'[a] \in {state, "evicted"}
                /\ settledAs[a] = "none"
                /\ settledAs'[a] = state
           /\ \A a \in Agents \ Range(q) :
                /\ \/ agentState'[a] = agentState[a]
                   \/ agentState[a] \in Terminal /\ agentState'[a] = "evicted"
                /\ settledAs'[a] = settledAs[a]
  BY InvCoherent, SettleStates

\* What else it writes into their rows.
LEMMA SettleAgentsRows ==
    ASSUME RegistryInv, NEW q \in Seq(Agents), NEW state, NEW failure,
           SettleAgents(q, state, failure)
    PROVE  /\ \A a \in Range(q) :
                /\ taskQueued'[a] = FALSE
                /\ agentError'[a] = (agentError[a] \/ failure)
                /\ progress'[a] = IF state = "completed" THEN FullProgress
                                  ELSE progress[a]
           /\ \A a \in Agents \ Range(q) :
                /\ taskQueued'[a] = taskQueued[a]
                /\ agentError'[a] = agentError[a]
                /\ progress'[a] = progress[a]
  <1>1. RegistryTypeOK /\ Range(q) \subseteq Agents
    BY LenProperties, ElementOfSeq DEF RegistryInv, Range
  <1>2. \A a \in Range(q) : /\ taskQueued'[a] = FALSE
                            /\ agentError'[a] = (agentError[a] \/ failure)
                            /\ progress'[a] = IF state = "completed"
                                              THEN FullProgress ELSE progress[a]
    BY <1>1 DEF SettleAgents
  <1>3. \A a \in Agents \ Range(q) :
          /\ taskQueued'[a] = taskQueued[a]
          /\ agentError'[a] = agentError[a]
          /\ progress'[a] = progress[a]
    BY <1>1 DEF SettleAgents, RegistryTypeOK
  <1>4. QED
    BY <1>1, <1>2, <1>3

\* Settling the agents of a list, each once, keeps the registry in order.
LEMMA SettleAgentsInv ==
    ASSUME RegistryInv, NEW q \in Seq(Agents), Distinct(q),
           NEW state \in Terminal, NEW failure \in BOOLEAN,
           SettleAgents(q, state, failure)
    PROVE  RegistryInv'
  <1> DEFINE window == finishedAgents \o q
             n == Len(settledOrder)
             m == Len(finishedAgents)
             k == Len(q)
             e == Excess(window)
  <1>1. /\ RegistryTypeOK /\ OrderListsSettled /\ WindowIsTail
        /\ finishedAgents \in Seq(Agents) /\ settledOrder \in Seq(Agents)
        /\ n \in Nat /\ m \in Nat /\ k \in Nat
        /\ DOMAIN finishedAgents = 1 .. m /\ DOMAIN settledOrder = 1 .. n
        /\ DOMAIN q = 1 .. k
    BY LenProperties DEF RegistryInv, RegistryTypeOK
  <1>2. /\ \A a \in Range(q) :
             /\ a \in Agents
             /\ agentState[a] \in Live
             /\ agentState'[a] \in {state, "evicted"}
             /\ settledAs[a] = "none"
             /\ settledAs'[a] = state
        /\ \A a \in Agents \ Range(q) :
             /\ \/ agentState'[a] = agentState[a]
                \/ agentState[a] \in Terminal /\ agentState'[a] = "evicted"
             /\ settledAs'[a] = settledAs[a]
    BY SettleAgentsStates
  <1>3. \A a \in Agents : SettledOnce(a)'
    BY <1>2 DEF RegistryInv, SettledOnce, Terminal
  <1>4. Range(finishedAgents) \intersect Range(q) = {}
    BY <1>1, <1>2 DEF WindowIsTail, Live, Terminal
  <1>5. Range(settledOrder) \intersect Range(q) = {}
    BY <1>1, <1>2 DEF OrderListsSettled
  <1>6. m = IF n > MaxFinishedAgents THEN MaxFinishedAgents ELSE n
    BY <1>1 DEF WindowIsTail
  <1>7. \A i \in 1 .. m : finishedAgents[i] = settledOrder[n - m + i]
    BY <1>1 DEF WindowIsTail
  <1>8. n - m \in 0 .. n
    <2> HIDE DEF n, m
    <2>1. QED
      BY <1>1, <1>6, RegistryAssumption
  <1>9. Distinct(finishedAgents)
    <2> SUFFICES ASSUME NEW i \in 1 .. m, NEW j \in 1 .. m,
                        finishedAgents[i] = finishedAgents[j]
                 PROVE  i = j
      BY <1>1 DEF Distinct
    <2>1. settledOrder[n - m + i] = settledOrder[n - m + j]
      BY <1>7
    <2>2. n - m + i \in 1 .. n /\ n - m + j \in 1 .. n
      <3> HIDE DEF n, m
      <3>1. QED
        BY <1>1, <1>8
    <2>3. n - m + i = n - m + j
      BY <1>1, <2>1, <2>2 DEF OrderListsSettled, Distinct
    <2>4. QED
      <3> HIDE DEF n, m
      <3>1. QED
        BY <1>1, <2>3
  <1>10. /\ window \in Seq(Agents)
         /\ Len(window) = m + k
         /\ Distinct(window)
         /\ Range(window) = Range(finishedAgents) \union Range(q)
    BY <1>1, <1>4, <1>9, ConcatDistinct
  <1>11. OrderListsSettled' /\ settledOrder' \in Seq(Agents)
         /\ Len(settledOrder') = n + k
    <2>1. settledOrder' = settledOrder \o q
      BY DEF SettleAgents
    <2>2. /\ settledOrder' \in Seq(Agents)
          /\ Len(settledOrder') = n + k
          /\ Distinct(settledOrder')
          /\ Range(settledOrder') = Range(settledOrder) \union Range(q)
      BY <1>1, <1>5, <2>1, ConcatDistinct DEF OrderListsSettled
    <2>3. Range(settledOrder') = {a \in Agents : settledAs'[a] # "none"}
      BY <1>1, <1>2, <2>2 DEF OrderListsSettled, Terminal
    <2>4. QED
      BY <2>2, <2>3 DEF OrderListsSettled
  <1>12. e \in 0 .. (m + k) /\ (m + k) - e = IF m + k > MaxFinishedAgents
                                           THEN MaxFinishedAgents ELSE m + k
    BY <1>10, ExcessProperties
  <1>13. finishedAgents' = SubSeq(window, e + 1, Len(window))
    BY DEF SettleAgents, Retire
  <1>14. /\ finishedAgents' \in Seq(Agents)
         /\ Len(finishedAgents') = (m + k) - e
         /\ \A i \in 1 .. (m + k) - e : finishedAgents'[i] = window[e + i]
         /\ Range(finishedAgents') = Range(window) \ {window[i] : i \in 1 .. e}
    <2> HIDE DEF window, e, m, k
    <2>1. PICK w \in Seq(Agents) : w = window /\ Distinct(w) /\ Len(w) = m + k
      BY <1>10
    <2>2. PICK d \in 0 .. Len(w) : d = e
      BY <1>12, <2>1
    <2>3. finishedAgents' = SubSeq(w, d + 1, Len(w))
      BY <1>13, <2>1, <2>2
    <2>4. /\ finishedAgents' \in Seq(Agents)
          /\ Len(finishedAgents') = Len(w) - d
          /\ \A i \in 1 .. Len(w) - d : finishedAgents'[i] = w[d + i]
      BY <2>3, DropProperties
    <2>5. Range(finishedAgents') = Range(w) \ {w[i] : i \in 1 .. d}
      <3>1. Distinct(w)
        BY <2>1
      <3>2. Range(SubSeq(w, d + 1, Len(w))) = Range(w) \ {w[i] : i \in 1 .. d}
        BY <3>1, DropDistinct
      <3>3. QED
        BY <2>3, <3>2, Zenon
    <2>6. w = window /\ d = e /\ Len(w) = m + k
      BY <2>1, <2>2
    <2>7. Range(finishedAgents') = Range(window) \ {window[i] : i \in 1 .. e}
      BY <2>5, <2>6, Zenon
    <2>8. \A i \in 1 .. (m + k) - e : finishedAgents'[i] = window[e + i]
      BY <2>4, <2>6, Zenon
    <2>9. QED
      BY <2>4, <2>6, <2>7, <2>8
  <1>15. WindowIsTail'
    <2>1. Len(finishedAgents') = IF Len(settledOrder') > MaxFinishedAgents
                                 THEN MaxFinishedAgents ELSE Len(settledOrder')
      <3> HIDE DEF n, m, k, e
      <3>1. QED
        BY <1>1, <1>6, <1>11, <1>12, <1>14, RegistryAssumption
    <2>2. ASSUME NEW i \in 1 .. Len(finishedAgents')
          PROVE  finishedAgents'[i] =
                   settledOrder'[Len(settledOrder') - Len(finishedAgents') + i]
      <3>1. \A j \in 1 .. (m + k) :
              window[j] = IF j <= m THEN finishedAgents[j] ELSE q[j - m]
        BY <1>1, ConcatProperties
      <3>2. \A j \in 1 .. (n + k) :
              settledOrder'[j] = IF j <= n THEN settledOrder[j] ELSE q[j - n]
        BY <1>1, ConcatProperties DEF SettleAgents
      <3> DEFINE j == e + i
                 h == n - m + j
      <3> HIDE DEF n, m, k, e, window
      <3>3. i \in 1 .. ((m + k) - e)
        BY <1>14
      <3>4. j \in 1 .. (m + k) /\ h \in 1 .. (n + k)
        BY <1>1, <1>8, <1>12, <3>3
      <3>5. Len(settledOrder') - Len(finishedAgents') + i = h
        BY <1>1, <1>11, <1>12, <1>14, <3>3
      <3>6. finishedAgents'[i] = window[j]
        BY <1>14, <3>3
      <3>7. (j <= m <=> h <= n) /\ (j <= m => j \in 1 .. m) /\ h - n = j - m
        BY <1>1, <1>12, <3>3
      <3>8. j <= m => finishedAgents[j] = settledOrder[h]
        BY <1>7, <3>7
      <3> HIDE DEF j, h
      <3>9. window[j] = settledOrder'[h]
        BY <3>1, <3>2, <3>4, <3>7, <3>8
      <3>10. QED
        BY <3>5, <3>6, <3>9
    <2>3. \A a \in Agents :
            agentState'[a] = IF a \in {window[i] : i \in 1 .. e} THEN "evicted"
                             ELSE IF a \in Range(q) THEN state ELSE agentState[a]
      BY DEF SettleAgents, Retire, Evicted
    <2>4. Range(finishedAgents) = {a \in Agents : agentState[a] \in Terminal}
      BY <1>1 DEF WindowIsTail
    <2>5. Range(finishedAgents') = {a \in Agents : agentState'[a] \in Terminal}
      <3> HIDE DEF window, e
      <3>1. \A a \in Range(window) : a \in Agents
        BY <1>2, <1>10, <2>4
      <3>2. QED
        BY <1>10, <1>14, <2>3, <2>4, <3>1 DEF Terminal
    <2>6. QED
      BY <2>1, <2>2, <2>5 DEF WindowIsTail
  <1>16. RegistryTypeOK'
    <2>1. /\ agentState' \in [Agents -> Live \union Terminal \union Absent]
          /\ taskQueued' \in [Agents -> BOOLEAN]
          /\ agentError' \in [Agents -> BOOLEAN]
          /\ settledAs' \in [Agents -> Terminal \union {"none"}]
      BY <1>1 DEF RegistryTypeOK, SettleAgents, Retire, Absent
    <2>2. progress' \in [Agents -> 0 .. FullProgress]
      BY <1>1, RegistryAssumption DEF RegistryTypeOK, SettleAgents, FullProgress
    <2>3. updatedAt' \in [Agents -> Nat]
      BY <1>1 DEF RegistryTypeOK, SettleAgents
    <2>4. QED
      BY <1>11, <1>14, <2>1, <2>2, <2>3 DEF RegistryTypeOK
  <1>17. QED
    BY <1>3, <1>11, <1>15, <1>16 DEF RegistryInv

\* What is left of a list without repetitions has none.
LEMMA DropKeeps ==
    ASSUME NEW U, NEW q \in Seq(U), Distinct(q), NEW k \in 0 .. Len(q)
    PROVE  SubSeq(q, k + 1, Len(q)) \in Seq(U) /\ Distinct(SubSeq(q, k + 1, Len(q)))
  <1>1. PICK n \in Nat : n = Len(q) /\ DOMAIN q = 1 .. n /\ k \in 0 .. n
    BY LenProperties
  <1>2. PICK rest \in Seq(U) : /\ rest = SubSeq(q, k + 1, Len(q))
                               /\ Len(rest) = Len(q) - k
                               /\ \A i \in 1 .. Len(q) - k : rest[i] = q[k + i]
    <2>1. /\ SubSeq(q, k + 1, Len(q)) \in Seq(U)
          /\ Len(SubSeq(q, k + 1, Len(q))) = Len(q) - k
          /\ \A i \in 1 .. Len(q) - k : SubSeq(q, k + 1, Len(q))[i] = q[k + i]
      BY DropProperties
    <2>2. QED
      BY <2>1, Zenon
  <1>3. DOMAIN rest = 1 .. n - k
    BY <1>1, <1>2, LenProperties
  <1>4. ASSUME NEW i \in DOMAIN rest, NEW j \in DOMAIN rest, i # j
        PROVE  rest[i] # rest[j]
    <2>1. k + i \in 1 .. n /\ k + j \in 1 .. n /\ k + i # k + j
      BY <1>1, <1>3, <1>4
    <2>2. q[k + i] # q[k + j]
      BY <1>1, <2>1 DEF Distinct
    <2>3. QED
      BY <1>1, <1>2, <1>3, <2>2
  <1>5. QED
    BY <1>2, <1>4 DEF Distinct

\* Settling keeps the registry coherent.
LEMMA CoherentSettles ==
    ASSUME Coherent, NEW q \in Seq(Agents), Distinct(q),
           NEW state \in Terminal, NEW failure \in BOOLEAN,
           SettleAgents(q, state, failure)
    PROVE  Coherent'
  <1>1. /\ RegistryTypeOK /\ Distinct(finishedAgents)
        /\ finishedAgents \in Seq(Agents) /\ settledOrder \in Seq(Agents)
        /\ \A a \in Range(finishedAgents) : agentState[a] \in Terminal
    BY DEF Coherent, RegistryTypeOK
  <1>2. /\ \A a \in Range(q) :
             /\ a \in Agents
             /\ agentState[a] \in Live
             /\ agentState'[a] \in {state, "evicted"}
             /\ settledAs'[a] = state
        /\ \A a \in Agents \ Range(q) :
             /\ \/ agentState'[a] = agentState[a]
                \/ agentState[a] \in Terminal /\ agentState'[a] = "evicted"
             /\ settledAs'[a] = settledAs[a]
    BY SettleStates
  <1>3. ASSUME NEW a \in Agents
        PROVE  /\ agentState'[a] \in Terminal => settledAs'[a] = agentState'[a]
               /\ settledAs'[a] # "none" => agentState'[a] \in Terminal \union {"evicted"}
    <2>1. CASE a \in Range(q)
      BY <1>2, <2>1 DEF Terminal
    <2>2. CASE a \notin Range(q)
      BY <1>2, <2>2 DEF Coherent, Terminal
    <2>3. QED
      BY <2>1, <2>2
  <1>4. Range(finishedAgents) \intersect Range(q) = {}
    BY <1>1, <1>2 DEF Live, Terminal
  <1>5. PICK window \in Seq(Agents) : /\ window = finishedAgents \o q
                                      /\ Distinct(window)
                                      /\ Range(window) = Range(finishedAgents) \union Range(q)
    <2>1. /\ finishedAgents \o q \in Seq(Agents)
          /\ Distinct(finishedAgents \o q)
          /\ Range(finishedAgents \o q) = Range(finishedAgents) \union Range(q)
      BY <1>1, <1>4, ConcatDistinct
    <2>2. QED
      BY <2>1, Zenon
  <1>6. PICK e \in 0 .. Len(window) : e = Excess(window)
    BY ExcessProperties
  <1>7. /\ finishedAgents' = SubSeq(window, e + 1, Len(window))
        /\ \A a \in Agents :
             agentState'[a] = IF a \in {window[i] : i \in 1 .. e} THEN "evicted"
                              ELSE IF a \in Range(q) THEN state ELSE agentState[a]
    BY <1>5, <1>6 DEF SettleAgents, Retire, Evicted
  <1>8. PICK rest \in Seq(Agents) : /\ rest = SubSeq(window, e + 1, Len(window))
                                    /\ Distinct(rest)
                                    /\ Range(rest) = Range(window) \ {window[i] : i \in 1 .. e}
    <2>1. Distinct(window)
      BY <1>5
    <2>2. /\ SubSeq(window, e + 1, Len(window)) \in Seq(Agents)
          /\ Distinct(SubSeq(window, e + 1, Len(window)))
      BY <2>1, DropKeeps
    <2>3. Range(SubSeq(window, e + 1, Len(window)))
            = Range(window) \ {window[i] : i \in 1 .. e}
      BY <2>1, DropDistinct
    <2>4. QED
      BY <2>2, <2>3, Zenon
  <1>9. finishedAgents' = rest
    BY <1>7, <1>8
  <1>10. \A a \in Range(rest) : agentState'[a] \in Terminal
    <2>1. ASSUME NEW a \in Range(rest)
          PROVE  agentState'[a] \in Terminal
      <3>1. a \in Range(window) /\ a \notin {window[i] : i \in 1 .. e}
        BY <1>8
      <3>2. a \in Agents
        BY <1>5, <3>1, LenProperties, ElementOfSeq DEF Range
      <3>3. agentState'[a] = IF a \in Range(q) THEN state ELSE agentState[a]
        BY <1>7, <3>1, <3>2
      <3>4. QED
        BY <1>1, <1>5, <3>1, <3>3
    <2>2. QED
      BY <2>1
  <1>11. RegistryTypeOK'
    <2>1. /\ agentState' \in [Agents -> Live \union Terminal \union Absent]
          /\ taskQueued' \in [Agents -> BOOLEAN]
          /\ agentError' \in [Agents -> BOOLEAN]
          /\ settledAs' \in [Agents -> Terminal \union {"none"}]
      BY <1>1 DEF RegistryTypeOK, SettleAgents, Retire, Absent
    <2>2. progress' \in [Agents -> 0 .. FullProgress]
      BY <1>1, RegistryAssumption DEF RegistryTypeOK, SettleAgents, FullProgress
    <2>3. updatedAt' \in [Agents -> Nat]
      BY <1>1 DEF RegistryTypeOK, SettleAgents
    <2>4. settledOrder' \in Seq(Agents)
      BY <1>1, ConcatProperties DEF SettleAgents
    <2>5. QED
      BY <1>8, <1>9, <2>1, <2>2, <2>3, <2>4 DEF RegistryTypeOK
  <1>12. QED
    BY <1>3, <1>8, <1>9, <1>10, <1>11 DEF Coherent

\* One agent is a list of one.
LEMMA SingleAgent ==
    ASSUME NEW a \in Agents
    PROVE  <<a>> \in Seq(Agents) /\ Distinct(<<a>>) /\ Range(<<a>>) = {a}
  <1>1. <<a>> \in Seq(Agents) /\ Len(<<a>>) = 1 /\ <<a>>[1] = a
    OBVIOUS
  <1>2. DOMAIN <<a>> = {1}
    BY <1>1, LenProperties
  <1>3. QED
    BY <1>1, <1>2 DEF Distinct, Range

----------------------------------------------------------------------------
(* Queues *)

Entry(B) == [seq : Nat, body : B]

\* The events of one publication: entries numbered on from seq.
LEMMA StampedProperties ==
    ASSUME NEW B, seq \in Nat, NEW bodies \in Seq(B)
    PROVE  /\ Stamped(bodies) \in Seq(Entry(B))
           /\ Len(Stamped(bodies)) = Len(bodies)
           /\ \A i \in 1 .. Len(bodies) : Stamped(bodies)[i].seq = seq + i
  <1> DEFINE e(i) == [seq |-> seq + i, body |-> bodies[i]]
  <1>1. Len(bodies) \in Nat
    BY LenProperties
  <1>2. \A i \in 1 .. Len(bodies) : e(i) \in Entry(B)
    BY <1>1, ElementOfSeq DEF Entry
  <1>3. Stamped(bodies) = [i \in 1 .. Len(bodies) |-> e(i)]
    BY DEF Stamped
  <1>4. Stamped(bodies) \in Seq(Entry(B))
    <2> HIDE DEF e
    <2>1. QED
      BY <1>1, <1>2, <1>3, IsASeq
  <1>5. QED
    BY <1>1, <1>3, <1>4, LenProperties

\* How much a queue is over its limit.
LEMMA OverflowProperties ==
    ASSUME NEW B, NEW q \in Seq(Entry(B))
    PROVE  /\ Overflow(q) \in Nat
           /\ Overflow(q) <= Len(q)
           /\ Len(q) - Overflow(q) <= MaxQueue
           /\ Overflow(q) > 0 => Len(q) - Overflow(q) = MaxQueue
  BY LenProperties, StreamAssumption DEF Overflow

\* What is left of a queue that lost its k oldest entries.
LEMMA SuffixProperties ==
    ASSUME NEW B, NEW q \in Seq(Entry(B)), NEW k \in 0 .. Len(q)
    PROVE  /\ SubSeq(q, k + 1, Len(q)) \in Seq(Entry(B))
           /\ Len(SubSeq(q, k + 1, Len(q))) = Len(q) - k
           /\ \A i \in 1 .. Len(q) - k : SubSeq(q, k + 1, Len(q))[i] = q[k + i]
  <1>1. Len(q) \in Nat /\ k \in Nat
    BY LenProperties
  <1>2. \A i \in (k + 1) .. Len(q) : q[i] \in Entry(B)
    BY <1>1, ElementOfSeq
  <1>3. /\ SubSeq(q, k + 1, Len(q)) \in Seq(Entry(B))
        /\ Len(SubSeq(q, k + 1, Len(q))) =
             IF k + 1 <= Len(q) THEN Len(q) - (k + 1) + 1 ELSE 0
        /\ \A i \in 1 .. Len(q) - (k + 1) + 1 :
             SubSeq(q, k + 1, Len(q))[i] = q[(k + 1) + i - 1]
    BY <1>1, <1>2, SubSeqProperties
  <1>4. QED
    BY <1>1, <1>3

----------------------------------------------------------------------------
(* The inductive invariant *)

\* What the variables hold when events say members of B and messages are of M.
StreamTypes(B, M) ==
    /\ seq \in Nat
    /\ subscribed \in BOOLEAN
    /\ queue \in Seq(Entry(B))
    /\ degraded \in BOOLEAN
    /\ afterSeq \in Nat
    /\ wire \in Seq(M)
    /\ sent \in Nat
    /\ silentGap \in BOOLEAN

StreamInv(B, M) == StreamTypes(B, M) /\ StreamContinues /\ NoSilentGap

\* Every event about a member of B is a message of M.
Carries(M, B) == \A body \in B, flag \in BOOLEAN : Event(body, flag) \in M

\* A subscription starts empty and has no gap.
LEMMA StreamInitInv ==
    ASSUME NEW B, NEW M, StreamInit
    PROVE  StreamInv(B, M)
  <1>1. << >> \in Seq(Entry(B)) /\ << >> \in Seq(M)
    OBVIOUS
  <1>2. StreamTypes(B, M)
    BY <1>1 DEF StreamInit, StreamTypes
  <1>3. QED
    BY <1>2 DEF StreamInit, StreamInv, StreamContinues, NoSilentGap

\* Publishing any number of events at once keeps the invariant: the queue
\* stays a gapless run, and what does not fit is remembered.
LEMMA PublishInv ==
    ASSUME NEW B, NEW M, StreamInv(B, M), NEW bodies \in Seq(B), Publish(bodies)
    PROVE  StreamInv(B, M)'
  <1> DEFINE all == queue \o Stamped(bodies)
             over == Overflow(all)
  <1>1. /\ Stamped(bodies) \in Seq(Entry(B))
        /\ Len(Stamped(bodies)) = Len(bodies)
        /\ \A i \in 1 .. Len(bodies) : Stamped(bodies)[i].seq = seq + i
    BY StampedProperties DEF StreamInv, StreamTypes
  <1>2. queue \in Seq(Entry(B)) /\ Len(queue) \in Nat /\ Len(bodies) \in Nat /\ seq \in Nat
    BY LenProperties DEF StreamInv, StreamTypes, Entry
  <1>3. /\ all \in Seq(Entry(B))
        /\ Len(all) = Len(queue) + Len(bodies)
        /\ \A i \in 1 .. Len(all) :
             all[i] = IF i <= Len(queue) THEN queue[i] ELSE Stamped(bodies)[i - Len(queue)]
    BY <1>1, <1>2, ConcatProperties
  <1>4. /\ over \in Nat
        /\ over <= Len(all)
        /\ Len(all) - over <= MaxQueue
        /\ over > 0 => Len(all) - over = MaxQueue
    BY <1>3, OverflowProperties
  <1>5. seq' = seq + Len(bodies) /\ seq' \in Nat
    BY <1>2 DEF Publish
  <1>6. UNCHANGED <<subscribed, afterSeq, wire, sent, silentGap>>
    BY DEF Publish
  <1>7. CASE subscribed
    <2>1. /\ queue' = SubSeq(all, over + 1, Len(all))
          /\ degraded' = (degraded \/ over > 0)
      BY <1>7 DEF Publish
    <2>2. \A i \in 1 .. Len(all) : all[i].seq = seq + Len(bodies) - Len(all) + i
      <3>1. \A i \in 1 .. Len(queue) : queue[i].seq = seq - Len(queue) + i
        BY <1>2, <1>7, LenProperties DEF StreamInv, StreamContinues
      <3> HIDE DEF all, over
      <3>2. SUFFICES ASSUME NEW i \in 1 .. Len(all)
                     PROVE  all[i].seq = seq + Len(bodies) - Len(all) + i
        OBVIOUS
      <3>3. CASE i <= Len(queue)
        <4>1. i \in 1 .. Len(queue) /\ all[i] = queue[i]
          BY <1>2, <1>3, <3>3
        <4>2. queue[i].seq = seq - Len(queue) + i
          BY <3>1, <4>1
        <4>3. QED
          BY <1>2, <1>3, <4>1, <4>2
      <3>4. CASE ~(i <= Len(queue))
        <4>1. i - Len(queue) \in 1 .. Len(bodies)
          BY <1>2, <1>3, <3>4
        <4>2. all[i] = Stamped(bodies)[i - Len(queue)]
          BY <1>3, <3>4
        <4>3. all[i].seq = seq + (i - Len(queue))
          BY <1>1, <4>1, <4>2
        <4>4. QED
          BY <1>2, <1>3, <4>1, <4>3
      <3>5. QED
        BY <3>3, <3>4
    <2> HIDE DEF all, over
    <2>3. /\ queue' \in Seq(Entry(B))
          /\ Len(queue') = Len(all) - over
          /\ \A i \in 1 .. Len(all) - over : queue'[i] = all[over + i]
      <3>1. over \in 0 .. Len(all) /\ all \in Seq(Entry(B))
        BY <1>2, <1>3, <1>4
      <3>2. QED
        BY <2>1, <3>1, SuffixProperties
    <2>4. DOMAIN queue' = 1 .. Len(all) - over
      BY <2>3, LenProperties
    <2>5. \A i \in DOMAIN queue' : queue'[i].seq = seq' - Len(queue') + i
      <3>1. SUFFICES ASSUME NEW i \in 1 .. Len(all) - over
                     PROVE  queue'[i].seq = seq' - Len(queue') + i
        BY <2>4
      <3>2. over + i \in 1 .. Len(all)
        BY <1>2, <1>3, <1>4
      <3>3. all[over + i].seq = seq + Len(bodies) - Len(all) + (over + i)
        BY <2>2, <3>2
      <3>4. queue'[i].seq = seq + Len(bodies) - Len(all) + (over + i)
        BY <2>3, <3>3
      <3>5. Len(queue') = Len(all) - over /\ seq' = seq + Len(bodies)
        BY <1>5, <2>3
      <3>6. seq \in Nat /\ Len(bodies) \in Nat /\ Len(all) \in Nat /\ over \in Nat /\ i \in Nat
        BY <1>2, <1>3, <1>4
      <3>7. QED
        BY <3>4, <3>5, <3>6
    <2>6. StreamTypes(B, M)'
      <3>1. degraded' \in BOOLEAN
        BY <2>1
      <3>2. QED
        BY <1>5, <1>6, <2>3, <3>1 DEF StreamInv, StreamTypes, Entry
    <2>7. ~degraded' => sent' + Len(queue') = seq'
      <3>1. ~degraded' => ~degraded /\ ~(over > 0)
        BY <2>1, Zenon
      <3>2. ~degraded => sent + Len(queue) = seq
        BY <1>7 DEF StreamInv, StreamContinues
      <3>3. sent' = sent /\ sent \in Nat
        BY <1>6 DEF StreamInv, StreamTypes
      <3>4. sent + Len(queue) = seq /\ ~(over > 0) => sent' + Len(queue') = seq'
        <4>1. ~(over > 0) => over = 0
          BY <1>4
        <4>2. over = 0 => Len(queue') = Len(queue) + Len(bodies)
          BY <1>2, <1>3, <2>3
        <4>3. sent + Len(queue) = seq => sent + (Len(queue) + Len(bodies)) = seq'
          BY <1>2, <1>5, <3>3
        <4>4. QED
          BY <3>3, <4>1, <4>2, <4>3
      <3>5. QED
        BY <3>1, <3>2, <3>4, Zenon
    <2>8. degraded' => queue' # << >>
      <3>1. degraded => Len(queue) > 0
        BY <1>2, <1>7, EmptySeq DEF StreamInv, StreamContinues
      <3>2. degraded' => Len(queue') > 0
        <4>1. CASE over > 0
          BY <1>3, <1>4, <2>3, <4>1, StreamAssumption
        <4>2. CASE over = 0
          <5>1. ~(over > 0)
            BY <4>2
          <5>2. degraded' => degraded
            BY <2>1, <5>1, Zenon
          <5>3. QED
            BY <1>2, <1>3, <2>3, <3>1, <4>2, <5>2
        <4>3. QED
          BY <1>4, <4>1, <4>2
      <3>3. QED
        BY <3>2, EmptySeq
    <2>9. afterSeq' <= sent' /\ sent' + Len(queue') <= seq'
      <3>1. afterSeq <= sent /\ sent + Len(queue) <= seq
        BY <1>7 DEF StreamInv, StreamContinues
      <3>2. afterSeq' = afterSeq /\ sent' = sent /\ sent \in Nat
        BY <1>6 DEF StreamInv, StreamTypes
      <3>3. Len(queue') <= Len(queue) + Len(bodies) /\ Len(queue') \in Nat
        BY <1>2, <1>3, <1>4, <2>3
      <3>4. QED
        BY <1>2, <1>5, <3>1, <3>2, <3>3
    <2>10. QED
      BY <1>3, <1>4, <1>6, <2>3, <2>5, <2>6, <2>7, <2>8, <2>9
         DEF StreamInv, StreamContinues, NoSilentGap
  <1>8. CASE ~subscribed
    BY <1>5, <1>6, <1>8
       DEF Publish, StreamInv, StreamTypes, StreamContinues, NoSilentGap
  <1>9. QED
    BY <1>7, <1>8

\* A new connection has the state its snapshot was taken from.
LEMMA ConnectInv ==
    ASSUME NEW B, NEW M, StreamInv(B, M), NEW body, Snapshot(body) \in M, Connect(body)
    PROVE  StreamInv(B, M)'
  <1>1. wire' \in Seq(M)
    BY DEF Connect
  <1>2. queue' = << >> /\ Len(queue') = 0 /\ DOMAIN queue' = {} /\ queue' \in Seq(Entry(B))
    BY EmptySeq DEF Connect
  <1>3. seq \in Nat /\ seq' = seq /\ afterSeq' = seq /\ sent' = seq
    BY DEF Connect, StreamInv, StreamTypes
  <1>4. subscribed' = TRUE /\ degraded' = FALSE /\ silentGap' = silentGap
    BY DEF Connect
  <1>5. StreamTypes(B, M)'
    BY <1>1, <1>2, <1>3, <1>4 DEF StreamInv, StreamTypes, Entry
  <1>6. StreamContinues'
    BY <1>2, <1>3, <1>4, StreamAssumption DEF StreamContinues
  <1>7. QED
    BY <1>4, <1>5, <1>6 DEF StreamInv, NoSilentGap

\* The next event goes out and carries the mark of what was lost before it.
LEMMA StreamStepInv ==
    ASSUME NEW B, NEW M, Carries(M, B), StreamInv(B, M), Stream
    PROVE  StreamInv(B, M)'
  <1> DEFINE event == Head(queue)
  <1>1. /\ queue \in Seq(Entry(B)) /\ queue # << >> /\ subscribed
        /\ seq \in Nat /\ sent \in Nat /\ afterSeq \in Nat
    BY DEF Stream, StreamInv, StreamTypes, Entry
  <1>2. /\ event \in Entry(B)
        /\ queue' \in Seq(Entry(B))
        /\ Len(queue') = Len(queue) - 1
        /\ \A i \in 1 .. Len(queue') : queue'[i] = queue[i + 1]
    BY <1>1, HeadTailProperties DEF Stream
  <1>3. Len(queue) \in Nat /\ Len(queue) > 0 /\ DOMAIN queue = 1 .. Len(queue)
    BY <1>1, LenProperties, EmptySeq
  <1>4. DOMAIN queue' = 1 .. Len(queue')
    BY <1>2, LenProperties
  <1>5. event = queue[1]
    BY <1>1
  <1>6. event.seq = seq - Len(queue) + 1
    BY <1>1, <1>3, <1>5 DEF StreamInv, StreamContinues
  <1>7. /\ afterSeq <= sent /\ sent + Len(queue) <= seq
        /\ ~degraded => sent + Len(queue) = seq
    BY <1>1 DEF StreamInv, StreamContinues
  <1>8. event.seq > afterSeq
    BY <1>1, <1>3, <1>6, <1>7
  <1>9. /\ degraded' = FALSE
        /\ wire' = Append(wire, Event(event.body, degraded))
        /\ sent' = event.seq
        /\ silentGap' = (silentGap \/ (event.seq # sent + 1 /\ ~degraded))
        /\ UNCHANGED <<seq, subscribed, afterSeq>>
    BY <1>1, <1>2, <1>8 DEF Stream, Entry
  <1>10. NoSilentGap'
    <2>1. ~degraded => event.seq = sent + 1
      BY <1>1, <1>3, <1>6, <1>7
    <2>2. QED
      BY <1>9, <2>1 DEF StreamInv, NoSilentGap
  <1>11. wire' \in Seq(M)
    <2>1. Event(event.body, degraded) \in M
      BY <1>2 DEF Carries, Entry, StreamInv, StreamTypes
    <2>2. QED
      BY <1>9, <2>1, AppendProperties DEF StreamInv, StreamTypes
  <1>12. StreamTypes(B, M)'
    BY <1>1, <1>2, <1>9, <1>10, <1>11
       DEF StreamInv, StreamTypes, NoSilentGap, Entry
  <1>13. Len(queue') <= MaxQueue
    BY <1>1, <1>2, <1>3, StreamAssumption DEF StreamInv, StreamContinues
  <1>14. \A i \in DOMAIN queue' : queue'[i].seq = seq' - Len(queue') + i
    <2>1. \A i \in 1 .. Len(queue) : queue[i].seq = seq - Len(queue) + i
      BY <1>1, <1>3 DEF StreamInv, StreamContinues
    <2>2. SUFFICES ASSUME NEW i \in 1 .. Len(queue')
                   PROVE  queue'[i].seq = seq' - Len(queue') + i
      BY <1>4
    <2>3. i + 1 \in 1 .. Len(queue) /\ i \in Nat
      BY <1>2, <1>3
    <2>4. queue'[i] = queue[i + 1] /\ seq' = seq
      BY <1>2, <1>9
    <2>5. queue[i + 1].seq = seq - Len(queue) + (i + 1)
      BY <2>1, <2>3
    <2>6. QED
      BY <1>1, <1>2, <1>3, <2>3, <2>4, <2>5
  <1>15. ~degraded' /\ sent' + Len(queue') = seq' /\ afterSeq' <= sent'
    BY <1>1, <1>2, <1>3, <1>6, <1>8, <1>9
  <1>16. QED
    BY <1>1, <1>2, <1>3, <1>10, <1>12, <1>13, <1>14, <1>15, <1>9
       DEF StreamInv, StreamContinues

\* Receiving changes only what is under way.
LEMMA ReceiveInv ==
    ASSUME NEW B, NEW M, StreamInv(B, M), Receive
    PROVE  StreamInv(B, M)'
  <1>1. wire' \in Seq(M)
    BY HeadTailProperties DEF Receive, StreamInv, StreamTypes
  <1>2. QED
    BY <1>1 DEF Receive, StreamInv, StreamTypes, StreamContinues, NoSilentGap

\* A broken connection leaves nothing behind.
LEMMA OfflineInv ==
    ASSUME NEW B, NEW M, StreamInv(B, M), Offline
    PROVE  StreamInv(B, M)'
  BY EmptySeq DEF Offline, Entry, StreamInv, StreamTypes, StreamContinues,
     NoSilentGap

LEMMA StreamStutter ==
    ASSUME NEW B, NEW M, StreamInv(B, M), UNCHANGED streamVars
    PROVE  StreamInv(B, M)'
  BY DEF streamVars, StreamInv, StreamTypes, StreamContinues, NoSilentGap

----------------------------------------------------------------------------
(* EventStream by itself, for any bodies and any size of the queue *)

AnyStreamInv == StreamInv(Bodies, Message)

\* No step breaks the invariant.
LEMMA StreamNextInv == AnyStreamInv /\ [StreamNext]_streamVars => AnyStreamInv'
  <1> SUFFICES ASSUME AnyStreamInv, [StreamNext]_streamVars
               PROVE  AnyStreamInv'
    OBVIOUS
  <1> USE DEF AnyStreamInv
  <1>1. ASSUME NEW body \in Bodies, Publish(<<body>>)
        PROVE  AnyStreamInv'
    <2>1. <<body>> \in Seq(Bodies)
      OBVIOUS
    <2>2. QED
      BY <1>1, <2>1, PublishInv
  <1>2. ASSUME NEW body \in Bodies, Connect(body)
        PROVE  AnyStreamInv'
    <2>1. Snapshot(body) \in Message
      BY DEF Snapshot, Message
    <2>2. QED
      BY <1>2, <2>1, ConnectInv
  <1>3. CASE Stream
    <2>1. Carries(Message, Bodies)
      BY DEF Carries, Event, Message
    <2>2. QED
      BY <1>3, <2>1, StreamStepInv
  <1>4. CASE Receive
    BY <1>4, ReceiveInv
  <1>5. CASE Disconnect
    BY <1>5, OfflineInv DEF Disconnect
  <1>6. CASE UNCHANGED streamVars
    BY <1>6, StreamStutter
  <1>7. QED
    BY <1>1, <1>2, <1>3, <1>4, <1>5, <1>6 DEF StreamNext

\* However publishing, overflow, delivery, disconnection and reconnection
\* interleave, the invariant holds.
THEOREM StreamInvariance == StreamSpec => []AnyStreamInv
  <1>1. StreamInit => AnyStreamInv
    BY StreamInitInv DEF AnyStreamInv
  <1>2. AnyStreamInv /\ [StreamNext]_streamVars => AnyStreamInv'
    BY StreamNextInv
  <1>3. QED
    BY <1>1, <1>2, PTL DEF StreamSpec

\* A client never misses an event without being told (websocket.py,
\* _stream_events; events.py, publish and pop_degraded).
THEOREM NoGapIsSilent == StreamSpec => []NoSilentGap
  <1>1. AnyStreamInv => NoSilentGap
    BY DEF AnyStreamInv, StreamInv
  <1>2. QED
    BY <1>1, StreamInvariance, PTL

\* What a subscribed client has and what is queued for it add up to the
\* newest event, unless a loss is still to be reported.
THEOREM QueueContinuesTheStream == StreamSpec => []StreamContinues
  <1>1. AnyStreamInv => StreamContinues
    BY DEF AnyStreamInv, StreamInv
  <1>2. QED
    BY <1>1, StreamInvariance, PTL

----------------------------------------------------------------------------
(* What is published and sent *)

\* As long as nothing is lost, the queue grows by what is published.
LEMMA PublishKeeps ==
    ASSUME NEW B, NEW M, StreamInv(B, M), NEW bodies \in Seq(B), Publish(bodies),
           subscribed, ~degraded'
    PROVE  ~degraded /\ queue' = queue \o Stamped(bodies)
  <1> DEFINE all == queue \o Stamped(bodies)
  <1>1. /\ queue' = SubSeq(all, Overflow(all) + 1, Len(all))
        /\ degraded' = (degraded \/ Overflow(all) > 0)
    BY DEF Publish
  <1>2. PICK list \in Seq(Entry(B)) : list = all
    <2>1. Stamped(bodies) \in Seq(Entry(B))
      BY StampedProperties DEF StreamInv, StreamTypes
    <2>2. queue \in Seq(Entry(B))
      BY DEF StreamInv, StreamTypes
    <2>3. QED
      BY <2>1, <2>2, ConcatProperties
  <1> HIDE DEF all
  <1>3. ~degraded /\ ~(Overflow(list) > 0)
    BY <1>1, <1>2, Zenon
  <1>4. Overflow(list) = 0
    BY <1>3, OverflowProperties
  <1>5. SubSeq(list, 1, Len(list)) = list
    <2>1. 0 \in 0 .. Len(list) /\ Len(list) \in Nat
      BY LenProperties
    <2>2. /\ SubSeq(list, 0 + 1, Len(list)) \in Seq(Entry(B))
          /\ Len(SubSeq(list, 0 + 1, Len(list))) = Len(list) - 0
          /\ \A i \in 1 .. Len(list) - 0 : SubSeq(list, 0 + 1, Len(list))[i] = list[0 + i]
      BY <2>1, SuffixProperties
    <2>3. PICK part \in Seq(Entry(B)) : part = SubSeq(list, 0 + 1, Len(list))
      BY <2>2
    <2>4. Len(part) = Len(list) /\ \A i \in 1 .. Len(part) : part[i] = list[i]
      BY <2>1, <2>2, <2>3
    <2>5. part = list
      BY <2>4, SeqEqual
    <2>6. QED
      BY <2>3, <2>5
  <1>6. queue' = SubSeq(list, 0 + 1, Len(list))
    BY <1>1, <1>2, <1>4, Zenon
  <1>7. 0 + 1 = 1
    OBVIOUS
  <1>8. queue' = all
    BY <1>2, <1>5, <1>6, <1>7, Zenon
  <1>9. QED
    BY <1>3, <1>8 DEF all

\* What is sent is the head of the queue.
LEMMA StreamSends ==
    ASSUME NEW B, NEW M, StreamInv(B, M), Stream
    PROVE  /\ queue' = Tail(queue)
           /\ wire' = Append(wire, Event(Head(queue).body, degraded))
           /\ UNCHANGED <<seq, subscribed, afterSeq>>
  <1>1. queue \in Seq(Entry(B)) /\ queue # << >> /\ subscribed
        /\ seq \in Nat /\ sent \in Nat /\ afterSeq \in Nat
    BY DEF Stream, StreamInv, StreamTypes
  <1>2. PICK n \in Nat : n = Len(queue) /\ n > 0
    BY <1>1, LenProperties, EmptySeq
  <1>3. DOMAIN queue = 1 .. n
    BY <1>1, <1>2, LenProperties
  <1>4. /\ queue[1].seq = seq - n + 1
        /\ afterSeq <= sent /\ sent + n <= seq
    BY <1>1, <1>2, <1>3 DEF StreamInv, StreamContinues
  <1>5. PICK e : e = Head(queue) /\ e = queue[1]
    BY <1>1
  <1>6. ~(e.seq <= afterSeq)
    BY <1>1, <1>2, <1>4, <1>5
  <1>7. QED
    BY <1>5, <1>6 DEF Stream
=============================================================================
