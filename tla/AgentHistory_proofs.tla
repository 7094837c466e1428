------------------------ MODULE AgentHistory_proofs ------------------------
(***************************************************************************)
(* Proofs about AgentHistory: what the audit trail tells of an agent is    *)
(* right, and a shutdown keeps it - for any agents, any limit of the       *)
(* query, any number of losses and restarts.                               *)
(***************************************************************************)
EXTENDS AgentHistory, State_proofs

----------------------------------------------------------------------------
(* The events of an agent, in the order of their numbers *)

Before(e, f) == e.agent = f.agent => e.nr < f.nr

Ordered(q) == \A i, j \in DOMAIN q : i < j => Before(q[i], q[j])

Precede(P, Q) == \A x \in P, y \in Q : Before(x, y)

LEMMA OrderedAppend ==
    ASSUME NEW U, NEW q \in Seq(U), NEW e \in U
    PROVE  Ordered(Append(q, e)) <=> Ordered(q) /\ \A x \in Range(q) : Before(x, e)
  <1>1. PICK n \in Nat : n = Len(q)
    BY LenProperties
  <1>2. PICK p \in Seq(U) : p = Append(q, e)
    BY AppendProperties
  <1>3. /\ DOMAIN q = 1 .. n /\ DOMAIN p = 1 .. n + 1
        /\ \A i \in 1 .. n : p[i] = q[i]
        /\ p[n + 1] = e
    BY <1>1, <1>2, AppendProperties, LenProperties
  <1>4. ASSUME Ordered(p)
        PROVE  Ordered(q) /\ \A x \in Range(q) : Before(x, e)
    <2>1. ASSUME NEW i \in DOMAIN q, NEW j \in DOMAIN q, i < j
          PROVE  Before(q[i], q[j])
      <3>1. i \in DOMAIN p /\ j \in DOMAIN p /\ p[i] = q[i] /\ p[j] = q[j]
        BY <1>3
      <3>2. Before(p[i], p[j])
        BY <1>4, <2>1, <3>1 DEF Ordered
      <3>3. QED
        BY <3>1, <3>2
    <2>2. ASSUME NEW i \in DOMAIN q
          PROVE  Before(q[i], e)
      <3>1. i \in DOMAIN p /\ n + 1 \in DOMAIN p /\ i < n + 1
            /\ p[i] = q[i] /\ p[n + 1] = e
        BY <1>3
      <3>2. Before(p[i], p[n + 1])
        BY <1>4, <3>1 DEF Ordered
      <3>3. QED
        BY <3>1, <3>2
    <2>3. \A x \in Range(q) : Before(x, e)
      BY <2>2 DEF Range
    <2>4. QED
      BY <2>1, <2>3 DEF Ordered
  <1>5. ASSUME Ordered(q), \A x \in Range(q) : Before(x, e)
        PROVE  Ordered(p)
    <2>1. ASSUME NEW i \in DOMAIN p, NEW j \in DOMAIN p, i < j
          PROVE  Before(p[i], p[j])
      <3>1. i \in DOMAIN q /\ p[i] = q[i]
        BY <1>3, <2>1
      <3>2. CASE j \in DOMAIN q
        <4>1. p[j] = q[j]
          BY <1>3, <3>2
        <4>2. Before(q[i], q[j])
          BY <1>5, <2>1, <3>1, <3>2 DEF Ordered
        <4>3. QED
          BY <3>1, <4>1, <4>2
      <3>3. CASE j \notin DOMAIN q
        <4>1. p[j] = e
          BY <1>3, <3>3
        <4>2. Before(q[i], e)
          BY <1>5, <3>1 DEF Range
        <4>3. QED
          BY <3>1, <4>1, <4>2
      <3>4. QED
        BY <3>2, <3>3
    <2>2. QED
      BY <2>1 DEF Ordered
  <1>6. QED
    BY <1>2, <1>4, <1>5

LEMMA OrderedFilter ==
    ASSUME NEW U, NEW S
    PROVE  \A q \in Seq(U) : Ordered(q) => Ordered(Filter(q, S))
  <1> DEFINE G == {q \in Seq(U) : Ordered(q) => Ordered(Filter(q, S))}
  <1>1. << >> \in G
    BY FilterEmpty, EmptySeq DEF Ordered
  <1>2. ASSUME NEW q \in Seq(U), NEW e \in U, q \in G
        PROVE  Append(q, e) \in G
    <2>1. PICK kept \in Seq(U) : kept = Filter(q, S)
      BY FilterSeq
    <2>2. PICK more \in Seq(U) : more = Append(q, e)
      BY AppendProperties
    <2>3. ASSUME Ordered(more)
          PROVE  Ordered(Filter(more, S))
      <3>1. Ordered(q) /\ \A x \in Range(q) : Before(x, e)
        BY <2>2, <2>3, OrderedAppend
      <3>2. Ordered(kept)
        BY <1>2, <2>1, <3>1
      <3>3. Range(kept) \subseteq Range(q)
        BY <2>1, FilterRange
      <3>4. Ordered(Append(kept, e))
        BY <3>1, <3>2, <3>3, OrderedAppend
      <3>5. QED
        BY <2>1, <2>2, <3>2, <3>4, FilterAppend
    <2>4. QED
      BY <2>2, <2>3
  <1> HIDE DEF G
  <1>3. \A q \in Seq(U) : q \in G
    BY <1>1, <1>2, ListInduction
  <1>4. QED
    BY <1>3 DEF G

LEMMA OrderedConcat ==
    ASSUME NEW U, NEW p \in Seq(U), NEW q \in Seq(U), Ordered(p), Ordered(q),
           Precede(Range(p), Range(q))
    PROVE  Ordered(p \o q) /\ Range(p \o q) = Range(p) \union Range(q)
  <1>1. PICK m \in Nat, n \in Nat : m = Len(p) /\ n = Len(q)
    BY LenProperties
  <1>2. PICK r \in Seq(U) : r = p \o q
    BY ConcatProperties
  <1>3. /\ Len(r) = m + n
        /\ \A i \in 1 .. m : r[i] = p[i]
        /\ \A i \in 1 .. n : r[m + i] = q[i]
    BY <1>1, <1>2, ConcatAt
  <1>4. DOMAIN p = 1 .. m /\ DOMAIN q = 1 .. n /\ DOMAIN r = 1 .. m + n
    BY <1>1, <1>3, LenProperties
  <1>5. \A i \in DOMAIN r : i \in DOMAIN p \/ (i - m \in DOMAIN q /\ m + (i - m) = i)
    BY <1>4
  <1>6. \A i \in DOMAIN r : IF i \in DOMAIN p THEN r[i] = p[i]
                            ELSE i - m \in DOMAIN q /\ r[i] = q[i - m]
    BY <1>3, <1>4, <1>5
  <1>7. ASSUME NEW i \in DOMAIN r, NEW j \in DOMAIN r, i < j
        PROVE  Before(r[i], r[j])
    <2>1. CASE j \in DOMAIN p
      <3>1. i \in DOMAIN p
        BY <1>4, <1>7, <2>1
      <3>2. Before(p[i], p[j])
        BY <1>7, <2>1, <3>1 DEF Ordered
      <3>3. QED
        BY <1>6, <2>1, <3>1, <3>2
    <2>2. CASE i \in DOMAIN p /\ j \notin DOMAIN p
      <3>1. p[i] \in Range(p) /\ q[j - m] \in Range(q)
        BY <1>6, <2>2 DEF Range
      <3>2. Before(p[i], q[j - m])
        BY <3>1 DEF Precede
      <3>3. QED
        BY <1>6, <2>2, <3>2
    <2>3. CASE i \notin DOMAIN p /\ j \notin DOMAIN p
      <3>1. i - m \in DOMAIN q /\ j - m \in DOMAIN q
        BY <1>6, <2>3
      <3>2. i - m < j - m
        BY <1>4, <1>7
      <3>3. Before(q[i - m], q[j - m])
        BY <3>1, <3>2 DEF Ordered
      <3>4. QED
        BY <1>6, <2>3, <3>3
    <2>4. QED
      BY <2>1, <2>2, <2>3
  <1>8. Range(r) \subseteq Range(p) \union Range(q)
    BY <1>6 DEF Range
  <1>9. Range(p) \union Range(q) \subseteq Range(r)
    <2>1. ASSUME NEW i \in DOMAIN p
          PROVE  p[i] \in Range(r)
      <3>1. i \in DOMAIN r /\ r[i] = p[i]
        BY <1>3, <1>4
      <3>2. QED
        BY <3>1 DEF Range
    <2>2. ASSUME NEW i \in DOMAIN q
          PROVE  q[i] \in Range(r)
      <3>1. m + i \in DOMAIN r /\ r[m + i] = q[i]
        BY <1>3, <1>4
      <3>2. QED
        BY <3>1 DEF Range
    <2>3. QED
      BY <2>1, <2>2 DEF Range
  <1>10. QED
    BY <1>2, <1>7, <1>8, <1>9 DEF Ordered

----------------------------------------------------------------------------
(* The line of an agent's events: what is stored, and behind it what waits *)

\* What waits is newer than what is stored, except that the event at the front
\* may have been stored without anybody noticing.
LinedUp(s, b) ==
    /\ Ordered(s)
    /\ Ordered(b)
    /\ \A e \in Range(s), i \in DOMAIN b :
         Before(e, b[i]) \/ (i = 1 /\ e = b[1])

\* front and back are the first n entries of b and the rest.
IsCut(b, n, front, back) ==
    /\ DOMAIN front = 1 .. n
    /\ DOMAIN back = 1 .. Len(b) - n
    /\ \A i \in 1 .. n : front[i] = b[i]
    /\ \A i \in 1 .. Len(b) - n : back[i] = b[n + i]

LEMMA CutExists ==
    ASSUME NEW U, NEW b \in Seq(U), NEW n \in 0 .. Len(b)
    PROVE  /\ SubSeq(b, 1, n) \in Seq(U) /\ SubSeq(b, n + 1, Len(b)) \in Seq(U)
           /\ IsCut(b, n, SubSeq(b, 1, n), SubSeq(b, n + 1, Len(b)))
  <1>1. Len(b) \in Nat /\ n \in Nat /\ n <= Len(b)
    BY LenProperties
  <1>2. \A i \in 1 .. n : b[i] \in U
    BY <1>1, ElementOfSeq
  <1>3. PICK front : front = SubSeq(b, 1, n)
    OBVIOUS
  <1>4. PICK back : back = SubSeq(b, n + 1, Len(b))
    OBVIOUS
  <1>5. front \in Seq(U) /\ Len(front) = n /\ \A i \in 1 .. n : front[i] = b[i]
    <2>1. /\ front \in Seq(U)
          /\ Len(front) = IF 1 <= n THEN n - 1 + 1 ELSE 0
          /\ \A i \in 1 .. n - 1 + 1 : front[i] = b[1 + i - 1]
      BY <1>1, <1>2, <1>3, SubSeqProperties
    <2>2. QED
      BY <1>1, <2>1
  <1>6. /\ back \in Seq(U)
        /\ Len(back) = Len(b) - n
        /\ \A i \in 1 .. Len(b) - n : back[i] = b[n + i]
    BY <1>4, DropProperties
  <1>7. DOMAIN front = 1 .. n /\ DOMAIN back = 1 .. Len(b) - n
    BY <1>5, <1>6, LenProperties
  <1>8. IsCut(b, n, front, back)
    BY <1>5, <1>6, <1>7 DEF IsCut
  <1>9. QED
    BY <1>3, <1>4, <1>5, <1>6, <1>8

LEMMA CutOrdered ==
    ASSUME NEW U, NEW b \in Seq(U), NEW n \in 0 .. Len(b),
           NEW front \in Seq(U), NEW back \in Seq(U), IsCut(b, n, front, back), Ordered(b)
    PROVE  /\ Ordered(front) /\ Ordered(back)
           /\ Precede(Range(front), Range(back))
           /\ Range(b) = Range(front) \union Range(back)
  <1>1. DOMAIN b = 1 .. Len(b) /\ Len(b) \in Nat /\ n \in Nat /\ n <= Len(b)
    BY LenProperties
  <1>2. \A i \in DOMAIN front : i \in DOMAIN b /\ i <= n /\ front[i] = b[i]
    BY <1>1 DEF IsCut
  <1>3. \A i \in DOMAIN back : n + i \in DOMAIN b /\ back[i] = b[n + i] /\ i \in Nat
    BY <1>1 DEF IsCut
  <1>4. \A i \in DOMAIN b : i \in DOMAIN front \/ (i - n \in DOMAIN back /\ n + (i - n) = i)
    BY <1>1 DEF IsCut
  <1>5. Ordered(front)
    BY <1>2 DEF Ordered
  <1>6. Ordered(back)
    <2>1. ASSUME NEW i \in DOMAIN back, NEW j \in DOMAIN back, i < j
          PROVE  Before(back[i], back[j])
      <3>1. n + i < n + j
        BY <1>1, <1>3, <2>1
      <3>2. Before(b[n + i], b[n + j])
        BY <1>3, <3>1 DEF Ordered
      <3>3. QED
        BY <1>3, <3>2
    <2>2. QED
      BY <2>1 DEF Ordered
  <1>7. ASSUME NEW i \in DOMAIN front, NEW j \in DOMAIN back
        PROVE  Before(front[i], back[j])
    <2>1. i \in DOMAIN b /\ n + j \in DOMAIN b /\ front[i] = b[i] /\ back[j] = b[n + j]
      BY <1>2, <1>3
    <2>2. i < n + j
      <3>1. j >= 1
        BY DEF IsCut
      <3>2. QED
        BY <1>1, <1>2, <1>3, <3>1
    <2>3. Before(b[i], b[n + j])
      BY <2>1, <2>2 DEF Ordered
    <2>4. QED
      BY <2>1, <2>3
  <1>8. Precede(Range(front), Range(back))
    BY <1>7 DEF Range, Precede
  <1>9. Range(b) \subseteq Range(front) \union Range(back)
    <2>1. ASSUME NEW i \in DOMAIN b
          PROVE  b[i] \in Range(front) \union Range(back)
      <3>1. CASE i \in DOMAIN front
        BY <1>2, <3>1 DEF Range
      <3>2. CASE i - n \in DOMAIN back /\ n + (i - n) = i
        <4>1. back[i - n] = b[i]
          BY <1>3, <3>2
        <4>2. QED
          BY <3>2, <4>1 DEF Range
      <3>3. QED
        BY <1>4, <3>1, <3>2
    <2>2. QED
      BY <2>1 DEF Range
  <1>10. Range(front) \union Range(back) \subseteq Range(b)
    BY <1>2, <1>3 DEF Range
  <1>11. QED
    BY <1>5, <1>6, <1>8, <1>9, <1>10

\* What a store of f makes of s: the events not stored yet are added.
Extended(U, s, f) == s \o Filter(f, U \ Range(s))

\* What f has to add is newer than s.
Extends(f, s) == \A x \in Range(s), y \in Range(f) : y \in Range(s) \/ Before(x, y)

LEMMA StoredOrdered ==
    ASSUME NEW U, NEW s \in Seq(U), NEW f \in Seq(U), Ordered(s), Ordered(f),
           Extends(f, s)
    PROVE  /\ Extended(U, s, f) \in Seq(U)
           /\ Ordered(Extended(U, s, f))
           /\ Range(Extended(U, s, f)) = Range(s) \union Range(f)
  <1>1. PICK g \in Seq(U) : g = Filter(f, U \ Range(s))
    BY FilterSeq
  <1>2. Ordered(g)
    BY <1>1, OrderedFilter
  <1>3. Range(g) = Range(f) \intersect (U \ Range(s))
    BY <1>1, FilterRange
  <1>4. Range(f) \subseteq U
    BY LenProperties, ElementOfSeq DEF Range
  <1>5. Precede(Range(s), Range(g))
    BY <1>3 DEF Precede, Extends
  <1>6. Ordered(s \o g) /\ Range(s \o g) = Range(s) \union Range(g)
    BY <1>2, <1>5, OrderedConcat
  <1>7. s \o g \in Seq(U)
    BY ConcatProperties
  <1>8. Range(s) \union Range(g) = Range(s) \union Range(f)
    BY <1>3, <1>4
  <1>9. Extended(U, s, f) = s \o g
    BY <1>1, Zenon DEF Extended
  <1>10. QED
    BY <1>6, <1>7, <1>8, <1>9, Zenon

\* The front of what waits is stored, or given up.
LEMMA FrontDecided ==
    ASSUME NEW U, NEW s \in Seq(U), NEW b \in Seq(U), LinedUp(s, b),
           NEW n \in 1 .. Len(b),
           NEW front \in Seq(U), NEW back \in Seq(U), IsCut(b, n, front, back),
           NEW t, t = s \/ t = Extended(U, s, front)
    PROVE  /\ t \in Seq(U)
           /\ LinedUp(t, back)
           /\ Range(s) \subseteq Range(t) /\ Range(t) \subseteq Range(s) \union Range(front)
           /\ t = Extended(U, s, front) => Range(front) \subseteq Range(t)
           /\ Range(b) = Range(front) \union Range(back)
  <1>1. n \in 0 .. Len(b) /\ n \in Nat /\ n >= 1 /\ Len(b) \in Nat /\ DOMAIN b = 1 .. Len(b)
    BY LenProperties
  <1>2. /\ Ordered(front) /\ Ordered(back)
        /\ Precede(Range(front), Range(back))
        /\ Range(b) = Range(front) \union Range(back)
    BY <1>1, CutOrdered DEF LinedUp
  <1>3. Extends(front, s)
    <2>1. ASSUME NEW x \in Range(s), NEW y \in Range(front), y \notin Range(s)
          PROVE  Before(x, y)
      <3>1. PICK i \in DOMAIN b : y = b[i]
        BY <1>2, <2>1 DEF Range
      <3>2. x # b[i]
        BY <2>1, <3>1
      <3>3. QED
        BY <2>1, <3>1, <3>2 DEF LinedUp
    <2>2. QED
      BY <2>1 DEF Extends
  <1>4. Ordered(s)
    BY DEF LinedUp
  <1>5. PICK w : /\ w = Extended(U, s, front)
                 /\ w \in Seq(U) /\ Ordered(w) /\ Range(w) = Range(s) \union Range(front)
    <2>1. /\ Extended(U, s, front) \in Seq(U)
          /\ Ordered(Extended(U, s, front))
          /\ Range(Extended(U, s, front)) = Range(s) \union Range(front)
      <3>1. Ordered(front)
        BY <1>2
      <3>2. QED
        BY <1>3, <1>4, <3>1, StoredOrdered
    <2>2. QED
      BY <2>1, Zenon
  <1>6. t = s \/ t = w
    BY <1>5
  <1>7. Precede(Range(s), Range(back))
    <2>1. ASSUME NEW x \in Range(s), NEW i \in DOMAIN back
          PROVE  Before(x, back[i])
      <3>1. n + i \in DOMAIN b /\ n + i # 1 /\ back[i] = b[n + i]
        BY <1>1 DEF IsCut
      <3>2. Before(x, b[n + i])
        BY <3>1 DEF LinedUp
      <3>3. QED
        BY <3>1, <3>2
    <2>2. QED
      BY <2>1 DEF Range, Precede
  <1>8. t \in Seq(U) /\ Ordered(t) /\ Precede(Range(t), Range(back))
    <2>1. Precede(Range(w), Range(back))
      BY <1>2, <1>5, <1>7 DEF Precede
    <2>2. QED
      BY <1>4, <1>5, <1>6, <1>7, <2>1
  <1>9. \A x \in Range(t), i \in DOMAIN back : Before(x, back[i])
    BY <1>8 DEF Range, Precede
  <1>10. LinedUp(t, back)
    BY <1>2, <1>8, <1>9 DEF LinedUp
  <1>11. QED
    BY <1>2, <1>5, <1>6, <1>8, <1>10

\* The event at the front is stored and stays.
LEMMA FrontStored ==
    ASSUME NEW U, NEW s \in Seq(U), NEW b \in Seq(U), LinedUp(s, b), b # << >>,
           NEW front \in Seq(U), NEW back \in Seq(U), IsCut(b, 1, front, back),
           NEW t, t = Extended(U, s, front)
    PROVE  /\ t \in Seq(U)
           /\ LinedUp(t, b)
           /\ Range(t) = Range(s) \union {b[1]}
           /\ b[1] \in Range(b)
  <1>1. Len(b) \in Nat /\ DOMAIN b = 1 .. Len(b) /\ Len(b) # 0
    BY LenProperties, EmptySeq
  <1>2. 1 \in 1 .. Len(b) /\ 1 \in 0 .. Len(b)
    BY <1>1
  <1>3. Ordered(s) /\ Ordered(b)
    BY DEF LinedUp
  <1>5. Range(front) = {b[1]}
    <2>1. DOMAIN front = {1} /\ front[1] = b[1]
      BY DEF IsCut
    <2>2. QED
      BY <2>1 DEF Range
  <1>6. Ordered(front)
    BY <1>2, <1>3, CutOrdered
  <1>7. Extends(front, s)
    <2>1. \A x \in Range(s) : Before(x, b[1]) \/ x = b[1]
      BY <1>1, <1>2 DEF LinedUp
    <2>2. QED
      BY <1>5, <2>1 DEF Extends
  <1>8. t \in Seq(U) /\ Ordered(t) /\ Range(t) = Range(s) \union {b[1]}
    <2>1. PICK w : /\ w = Extended(U, s, front)
                   /\ w \in Seq(U) /\ Ordered(w) /\ Range(w) = Range(s) \union Range(front)
      <3>1. /\ Extended(U, s, front) \in Seq(U)
            /\ Ordered(Extended(U, s, front))
            /\ Range(Extended(U, s, front)) = Range(s) \union Range(front)
        <4>1. Ordered(s)
          BY <1>3
        <4>2. QED
          BY <1>6, <1>7, <4>1, StoredOrdered
      <3>2. QED
        BY <3>1, Zenon
    <2>2. t = w
      BY <2>1, Zenon
    <2>3. QED
      BY <1>5, <2>1, <2>2
  <1>9. \A e \in Range(t), i \in DOMAIN b : Before(e, b[i]) \/ (i = 1 /\ e = b[1])
    <2>1. ASSUME NEW e \in Range(t), NEW i \in DOMAIN b
          PROVE  Before(e, b[i]) \/ (i = 1 /\ e = b[1])
      <3>1. CASE e \in Range(s)
        BY <3>1 DEF LinedUp
      <3>2. CASE e = b[1] /\ i # 1
        <4>1. 1 \in DOMAIN b /\ 1 < i
          BY <1>1, <3>2
        <4>2. Before(b[1], b[i])
          BY <4>1 DEF LinedUp, Ordered
        <4>3. QED
          BY <3>2, <4>2
      <3>3. QED
        BY <1>8, <3>1, <3>2
    <2>2. QED
      BY <2>1
  <1>10. LinedUp(t, b)
    BY <1>3, <1>8, <1>9 DEF LinedUp
  <1>11. b[1] \in Range(b)
    BY <1>1, <1>2 DEF Range
  <1>12. QED
    BY <1>8, <1>10, <1>11

\* A newer event joins.
LEMMA NewerJoins ==
    ASSUME NEW U, NEW s \in Seq(U), NEW b \in Seq(U), LinedUp(s, b), NEW e \in U,
           \A x \in Range(s) \union Range(b) : Before(x, e)
    PROVE  LinedUp(s, Append(b, e))
  <1>1. PICK n \in Nat : n = Len(b)
    BY LenProperties
  <1>2. PICK p \in Seq(U) : p = Append(b, e)
    BY AppendProperties
  <1>3. /\ DOMAIN b = 1 .. n /\ DOMAIN p = 1 .. n + 1
        /\ \A i \in 1 .. n : p[i] = b[i]
        /\ p[n + 1] = e
    BY <1>1, <1>2, AppendProperties, LenProperties
  <1>4. Ordered(p)
    <2>1. Ordered(b)
      BY DEF LinedUp
    <2>2. \A x \in Range(b) : Before(x, e)
      OBVIOUS
    <2>3. Ordered(Append(b, e))
      BY <2>1, <2>2, OrderedAppend
    <2>4. QED
      BY <1>2, <2>3
  <1>5. ASSUME NEW x \in Range(s), NEW i \in DOMAIN p
        PROVE  Before(x, p[i]) \/ (i = 1 /\ x = p[1])
    <2>1. CASE i \in DOMAIN b
      <3>1. p[i] = b[i] /\ (i = 1 => p[1] = b[1])
        BY <1>3, <2>1
      <3>2. QED
        BY <2>1, <3>1 DEF LinedUp
    <2>2. CASE i \notin DOMAIN b
      <3>1. p[i] = e
        BY <1>3, <2>2
      <3>2. QED
        BY <3>1
    <2>3. QED
      BY <2>1, <2>2
  <1>6. LinedUp(s, p)
    BY <1>4, <1>5 DEF LinedUp
  <1>7. QED
    BY <1>2, <1>6, Zenon

\* Where a place divides a list.
LEMMA PlaceSplits ==
    ASSUME NEW n \in Nat, NEW i \in 1 .. n
    PROVE  \E m, l \in Nat : i = m + 1 /\ n = m + 1 + l
  <1>1. i - 1 \in Nat /\ n - i \in Nat /\ i = (i - 1) + 1 /\ n = (i - 1) + 1 + (n - i)
    OBVIOUS
  <1>2. QED
    BY <1>1

LEMMA PlaceBehind ==
    ASSUME NEW m \in Nat, NEW l \in Nat, NEW j \in 1 .. m + l, j > m
    PROVE  \E k \in 1 .. l : j = m + k
  <1>1. j - m \in 1 .. l /\ j = m + (j - m)
    OBVIOUS
  <1>2. QED
    BY <1>1

\* An event leaves the line.
LeftOf(b, i) == SubSeq(b, 1, i - 1) \o SubSeq(b, i + 1, Len(b))

LEMMA OneLeaves ==
    ASSUME NEW U, NEW s \in Seq(U), NEW b \in Seq(U), LinedUp(s, b), NEW i \in DOMAIN b,
           NEW w, w = LeftOf(b, i)
    PROVE  /\ w \in Seq(U)
           /\ LinedUp(s, w)
           /\ Range(b) = Range(w) \union {b[i]}
  <1>1. PICK m \in Nat, l \in Nat : i = m + 1 /\ Len(b) = m + 1 + l
    <2>1. PICK n \in Nat : n = Len(b) /\ DOMAIN b = 1 .. n
      BY LenProperties
    <2>2. i \in 1 .. n
      BY <2>1
    <2>3. \E m, l \in Nat : i = m + 1 /\ n = m + 1 + l
      BY <2>2, PlaceSplits
    <2>4. QED
      BY <2>1, <2>3, Zenon
  <1>2. DOMAIN b = 1 .. m + 1 + l
    BY <1>1, LenProperties
  <1>3. PICK p \in Seq(U) : p = SubSeq(b, 1, i - 1)
    BY AroundPosition
  <1>4. PICK q \in Seq(U) : q = SubSeq(b, i + 1, Len(b))
    BY AroundPosition
  <1>5. /\ Len(p) = m /\ Len(q) = l
        /\ \A j \in 1 .. m : p[j] = b[j]
        /\ \A j \in 1 .. l : q[j] = b[m + 1 + j]
    <2>1. /\ Len(SubSeq(b, 1, i - 1)) = i - 1
          /\ Len(SubSeq(b, i + 1, Len(b))) = Len(b) - i
          /\ \A j \in 1 .. i - 1 : SubSeq(b, 1, i - 1)[j] = b[j]
          /\ \A j \in 1 .. Len(b) - i : SubSeq(b, i + 1, Len(b))[j] = b[i + j]
      BY AroundPosition
    <2>2. i - 1 = m /\ Len(b) - i = l
      BY <1>1
    <2>3. /\ Len(p) = m /\ Len(q) = l
          /\ \A j \in 1 .. m : p[j] = b[j]
          /\ \A j \in 1 .. l : q[j] = b[i + j]
      BY <1>3, <1>4, <2>1, <2>2, Zenon
    <2>4. QED
      BY <1>1, <2>3
  <1>6. DOMAIN p = 1 .. m /\ DOMAIN q = 1 .. l
    BY <1>5, LenProperties
  <1>7. \A j \in DOMAIN p : j \in DOMAIN b /\ j < m + 1 /\ p[j] = b[j]
    BY <1>2, <1>5, <1>6
  <1>8. \A j \in DOMAIN q : m + 1 + j \in DOMAIN b /\ m + 1 < m + 1 + j /\ j \in Nat
                            /\ q[j] = b[m + 1 + j]
    <2>1. ASSUME NEW j \in 1 .. l
          PROVE  m + 1 + j \in 1 .. m + 1 + l /\ m + 1 < m + 1 + j /\ j \in Nat
      OBVIOUS
    <2>2. QED
      BY <1>2, <1>5, <1>6, <2>1
  <1>9. Ordered(b)
    BY DEF LinedUp
  <1>10. Ordered(p)
    BY <1>7, <1>9 DEF Ordered
  <1>11. Ordered(q)
    <2>1. ASSUME NEW j \in DOMAIN q, NEW k \in DOMAIN q, j < k
          PROVE  Before(q[j], q[k])
      <3>1. m + 1 + j < m + 1 + k
        BY <1>8, <2>1
      <3>2. Before(b[m + 1 + j], b[m + 1 + k])
        BY <1>8, <1>9, <3>1 DEF Ordered
      <3>3. QED
        BY <1>8, <3>2
    <2>2. QED
      BY <2>1 DEF Ordered
  <1>12. Precede(Range(p), Range(q))
    <2>1. ASSUME NEW j \in DOMAIN p, NEW k \in DOMAIN q
          PROVE  Before(p[j], q[k])
      <3>1. j < m + 1 + k
        BY <1>6, <1>8
      <3>2. Before(b[j], b[m + 1 + k])
        BY <1>7, <1>8, <1>9, <3>1 DEF Ordered
      <3>3. QED
        BY <1>7, <1>8, <3>2
    <2>2. QED
      BY <2>1 DEF Range, Precede
  <1>13. PICK r \in Seq(U) : r = p \o q /\ Ordered(r) /\ Range(r) = Range(p) \union Range(q)
    <2>1. p \o q \in Seq(U)
      BY ConcatProperties
    <2>2. Ordered(p \o q) /\ Range(p \o q) = Range(p) \union Range(q)
      BY <1>10, <1>11, <1>12, OrderedConcat
    <2>3. QED
      BY <2>1, <2>2
  <1>14. /\ Len(r) = m + l
         /\ \A j \in 1 .. m : r[j] = p[j]
         /\ \A j \in 1 .. l : r[m + j] = q[j]
    <2>1. /\ Len(r) = Len(p) + Len(q)
          /\ \A j \in 1 .. Len(p) : r[j] = p[j]
          /\ \A j \in 1 .. Len(q) : r[Len(p) + j] = q[j]
      BY <1>13, ConcatAt
    <2>2. QED
      BY <1>5, <2>1
  <1>15. DOMAIN r = 1 .. m + l
    BY <1>14, LenProperties
  <1>16. Range(b) = Range(r) \union {b[i]}
    <2>1. ASSUME NEW j \in DOMAIN b
          PROVE  b[j] \in Range(p) \union Range(q) \union {b[i]}
      <3>1. CASE j \in 1 .. m
        <4>1. j \in DOMAIN p /\ p[j] = b[j]
          BY <1>6, <1>7, <3>1
        <4>2. QED
          BY <4>1 DEF Range
      <3>2. CASE j > m + 1
        <4>1. PICK k \in 1 .. l : j = m + 1 + k
          <5>1. j \in 1 .. m + 1 + l
            BY <1>2
          <5>2. m + 1 \in Nat
            OBVIOUS
          <5>3. QED
            BY <3>2, <5>1, <5>2, PlaceBehind
        <4>2. k \in DOMAIN q /\ q[k] = b[j]
          BY <1>5, <1>6, <4>1
        <4>3. QED
          BY <4>2 DEF Range
      <3>3. CASE j = i
        BY <3>3
      <3>4. j \in 1 .. m \/ j > m + 1 \/ j = i
        BY <1>1, <1>2
      <3>5. QED
        BY <3>1, <3>2, <3>3, <3>4
    <2>2. Range(p) \union Range(q) \subseteq Range(b)
      BY <1>7, <1>8 DEF Range
    <2>3. Range(b) \subseteq Range(p) \union Range(q) \union {b[i]}
      BY <2>1 DEF Range
    <2>4. b[i] \in Range(b)
      BY DEF Range
    <2>5. QED
      BY <1>13, <2>2, <2>3, <2>4
  <1>17. ASSUME NEW k \in DOMAIN r
         PROVE  \E j \in DOMAIN b : r[k] = b[j] /\ (j = 1 => k = 1)
    <2>1. CASE k \in 1 .. m
      <3>1. r[k] = b[k] /\ k \in DOMAIN b
        BY <1>5, <1>6, <1>7, <1>14, <2>1
      <3>2. QED
        BY <3>1
    <2>2. CASE k > m
      <3>1. PICK j \in 1 .. l : k = m + j
        <4>1. k \in 1 .. m + l
          BY <1>15
        <4>2. QED
          BY <2>2, <4>1, PlaceBehind
      <3>2. r[k] = b[m + 1 + j]
        BY <1>5, <1>14, <3>1
      <3>3. m + 1 + j \in DOMAIN b /\ m + 1 + j # 1
        BY <1>2
      <3>4. QED
        BY <3>2, <3>3
    <2>3. k \in 1 .. m \/ k > m
      BY <1>15
    <2>4. QED
      BY <2>1, <2>2, <2>3
  <1>18. ASSUME NEW x \in Range(s), NEW k \in DOMAIN r
         PROVE  Before(x, r[k]) \/ (k = 1 /\ x = r[1])
    <2>1. PICK j \in DOMAIN b : r[k] = b[j] /\ (j = 1 => k = 1)
      BY <1>17
    <2>2. Before(x, b[j]) \/ (j = 1 /\ x = b[1])
      BY DEF LinedUp
    <2>3. QED
      BY <2>1, <2>2
  <1>19. w = r
    BY <1>3, <1>4, <1>13, Zenon DEF LeftOf
  <1>20. LinedUp(s, r)
    <2>1. Ordered(s)
      BY DEF LinedUp
    <2>2. QED
      BY <1>13, <1>18, <2>1 DEF LinedUp
  <1>21. QED
    BY <1>13, <1>16, <1>19, <1>20, Zenon

----------------------------------------------------------------------------
(* The audit trail *)

TrailTypes ==
    /\ backlog \in Seq(AgentEvents)
    /\ stored \in Seq(AgentEvents)
    /\ given \subseteq AgentEvents
    /\ service \in {"open", "closing", "ended"}

TrailInv == TrailTypes /\ LinedUp(stored, backlog)

\* The events that are or may still be stored, and all that are remembered.
Pool  == Range(stored) \union Range(backlog)
Known == Pool \union given

\* The trail decides on its events without forgetting one.
TrailDecides ==
    /\ TrailInv'
    /\ Pool' \subseteq Pool
    /\ Known \subseteq Known'

\* The trail takes in e.
TrailTakes(e) ==
    /\ TrailInv'
    /\ service' = service
    /\ Pool' \subseteq Pool \union {e}
    /\ Known \union {e} \subseteq Known'

LEMMA TrailFilter ==
    ASSUME NEW q, NEW S
    PROVE  Trail!Filter(q, S) = Filter(q, S)
  BY DEF Filter, AtPlaces, Trail!Filter, Trail!AtPlaces

LEMMA TrailStores ==
    ASSUME NEW q \in Seq(AgentEvents)
    PROVE  Trail!StoredWith(q) = Extended(AgentEvents, stored, q)
  <1>1. PICK S : S = AgentEvents \ Range(stored)
    OBVIOUS
  <1>2. Trail!Fresh = S
    BY <1>1 DEF Trail!Fresh, Range
  <1>3. Trail!StoredWith(q) = stored \o Trail!Filter(q, S)
    BY <1>2, Zenon DEF Trail!StoredWith
  <1>4. Extended(AgentEvents, stored, q) = stored \o Filter(q, S)
    BY <1>1, Zenon DEF Extended
  <1>5. QED
    BY <1>3, <1>4, TrailFilter, Zenon

\* The oldest n events are stored, or given up.
LEMMA FrontLeaves ==
    ASSUME TrailInv, NEW n \in 1 .. Len(backlog),
           backlog' = SubSeq(backlog, n + 1, Len(backlog)),
           stored' \in {stored, Trail!StoredWith(SubSeq(backlog, 1, n))},
           service' \in {"open", "closing", "ended"},
           \/ UNCHANGED given /\ stored' = Trail!StoredWith(SubSeq(backlog, 1, n))
           \/ /\ given' \subseteq AgentEvents /\ given \subseteq given'
              /\ Range(SubSeq(backlog, 1, n)) \subseteq given'
    PROVE  TrailDecides
  <1>1. /\ backlog \in Seq(AgentEvents) /\ stored \in Seq(AgentEvents)
        /\ given \subseteq AgentEvents /\ LinedUp(stored, backlog)
    BY DEF TrailInv, TrailTypes
  <1>2. n \in 0 .. Len(backlog)
    BY <1>1, LenProperties
  <1>3. PICK front \in Seq(AgentEvents), back \in Seq(AgentEvents) :
          /\ front = SubSeq(backlog, 1, n)
          /\ back = SubSeq(backlog, n + 1, Len(backlog))
          /\ IsCut(backlog, n, front, back)
    <2>1. /\ SubSeq(backlog, 1, n) \in Seq(AgentEvents)
          /\ SubSeq(backlog, n + 1, Len(backlog)) \in Seq(AgentEvents)
          /\ IsCut(backlog, n, SubSeq(backlog, 1, n), SubSeq(backlog, n + 1, Len(backlog)))
      BY <1>1, <1>2, CutExists
    <2>2. QED
      BY <2>1
  <1>4. PICK t : t = stored'
    OBVIOUS
  <1>5. t = stored \/ t = Extended(AgentEvents, stored, front)
    <2>1. Trail!StoredWith(front) = Extended(AgentEvents, stored, front)
      BY TrailStores
    <2>2. QED
      BY <1>3, <1>4, <2>1
  <1>6. /\ t \in Seq(AgentEvents)
        /\ LinedUp(t, back)
        /\ Range(stored) \subseteq Range(t)
        /\ Range(t) \subseteq Range(stored) \union Range(front)
        /\ t = Extended(AgentEvents, stored, front) => Range(front) \subseteq Range(t)
        /\ Range(backlog) = Range(front) \union Range(back)
    <2>1. backlog \in Seq(AgentEvents) /\ stored \in Seq(AgentEvents)
      BY <1>1
    <2>2. LinedUp(stored, backlog)
      BY <1>1
    <2>3. IsCut(backlog, n, front, back)
      BY <1>3
    <2>4. QED
      BY <1>5, <2>1, <2>2, <2>3, FrontDecided
  <1>7. stored' = t /\ backlog' = back
    BY <1>3, <1>4
  <1>8. given' \subseteq AgentEvents
    BY <1>1
  <1>9. TrailInv'
    BY <1>6, <1>7, <1>8 DEF TrailInv, TrailTypes
  <1>10. Pool' = Range(t) \union Range(back)
    BY <1>7 DEF Pool
  <1>11. Pool' \subseteq Pool
    BY <1>6, <1>10 DEF Pool
  <1>12. Known \subseteq Known'
    <2>1. CASE UNCHANGED given /\ stored' = Trail!StoredWith(SubSeq(backlog, 1, n))
      <3>1. Range(front) \subseteq Range(t)
        <4>1. t = Extended(AgentEvents, stored, front)
          BY <1>3, <1>4, <2>1, TrailStores
        <4>2. QED
          BY <1>6, <4>1
      <3>2. QED
        BY <1>6, <1>10, <2>1, <3>1 DEF Known, Pool
    <2>2. CASE /\ given' \subseteq AgentEvents /\ given \subseteq given'
               /\ Range(SubSeq(backlog, 1, n)) \subseteq given'
      <3>1. Range(front) \subseteq given'
        BY <1>3, <2>2
      <3>2. QED
        BY <1>6, <1>10, <2>2, <3>1 DEF Known, Pool
    <2>3. QED
      BY <2>1, <2>2
  <1>13. QED
    BY <1>9, <1>11, <1>12 DEF TrailDecides

\* The event at the front is stored, and nobody noticed.
LEMMA FrontUnnoticed ==
    ASSUME TrailInv, Trail!StoreUnnoticed(1)
    PROVE  TrailDecides /\ service' = service
  <1>1. /\ backlog \in Seq(AgentEvents) /\ stored \in Seq(AgentEvents)
        /\ given \subseteq AgentEvents /\ LinedUp(stored, backlog)
    BY DEF TrailInv, TrailTypes
  <1>2. /\ 1 \in 1 .. Len(backlog)
        /\ stored' = Trail!StoredWith(SubSeq(backlog, 1, 1))
        /\ UNCHANGED <<backlog, given, service>>
    BY DEF Trail!StoreUnnoticed
  <1>3. 1 \in 0 .. Len(backlog) /\ backlog # << >>
    BY <1>1, <1>2, LenProperties, EmptySeq
  <1>4. PICK front \in Seq(AgentEvents), back \in Seq(AgentEvents) :
          /\ front = SubSeq(backlog, 1, 1)
          /\ IsCut(backlog, 1, front, back)
    <2>1. /\ SubSeq(backlog, 1, 1) \in Seq(AgentEvents)
          /\ SubSeq(backlog, 1 + 1, Len(backlog)) \in Seq(AgentEvents)
          /\ IsCut(backlog, 1, SubSeq(backlog, 1, 1), SubSeq(backlog, 1 + 1, Len(backlog)))
      BY <1>1, <1>3, CutExists
    <2>2. QED
      BY <2>1
  <1>5. PICK t : t = stored'
    OBVIOUS
  <1>6. t = Extended(AgentEvents, stored, front)
    <2>1. Trail!StoredWith(front) = Extended(AgentEvents, stored, front)
      BY TrailStores
    <2>2. QED
      BY <1>2, <1>4, <1>5, <2>1
  <1>7. /\ t \in Seq(AgentEvents)
        /\ LinedUp(t, backlog)
        /\ Range(t) = Range(stored) \union {backlog[1]}
        /\ backlog[1] \in Range(backlog)
    <2>1. backlog \in Seq(AgentEvents) /\ stored \in Seq(AgentEvents)
      BY <1>1
    <2>2. LinedUp(stored, backlog)
      BY <1>1
    <2>3. IsCut(backlog, 1, front, back)
      BY <1>4
    <2>4. backlog # << >>
      BY <1>3
    <2>5. QED
      BY <1>6, <2>1, <2>2, <2>3, <2>4, FrontStored
  <1>8. stored' = t /\ backlog' = backlog /\ given' = given /\ service' = service
    BY <1>2, <1>5
  <1>9. TrailInv'
    BY <1>7, <1>8 DEF TrailInv, TrailTypes
  <1>10. Pool' = Range(t) \union Range(backlog)
    BY <1>8 DEF Pool
  <1>11. Pool' = Pool
    BY <1>7, <1>10 DEF Pool
  <1>12. Known' = Known
    BY <1>8, <1>11 DEF Known
  <1>13. QED
    BY <1>8, <1>9, <1>11, <1>12 DEF TrailDecides

\* The head of a list, and what is behind it.
LEMMA HeadCut ==
    ASSUME NEW U, NEW b \in Seq(U), b # << >>
    PROVE  /\ 1 \in 1 .. Len(b)
           /\ SubSeq(b, 1, 1) = <<Head(b)>>
           /\ SubSeq(b, 1 + 1, Len(b)) = Tail(b)
           /\ Head(b) \in U
  <1>1. Len(b) \in Nat \ {0} /\ DOMAIN b = 1 .. Len(b)
    BY LenProperties, EmptySeq
  <1>2. /\ Head(b) = b[1] /\ b[1] \in U
        /\ Tail(b) \in Seq(U) /\ Len(Tail(b)) = Len(b) - 1
        /\ \A i \in 1 .. Len(b) - 1 : Tail(b)[i] = b[i + 1]
    BY <1>1, HeadTailProperties, ElementOfSeq
  <1>3. 1 \in 0 .. Len(b)
    BY <1>1
  <1>4. PICK front \in Seq(U), back \in Seq(U) :
          /\ front = SubSeq(b, 1, 1)
          /\ back = SubSeq(b, 1 + 1, Len(b))
          /\ IsCut(b, 1, front, back)
    <2>1. /\ SubSeq(b, 1, 1) \in Seq(U)
          /\ SubSeq(b, 1 + 1, Len(b)) \in Seq(U)
          /\ IsCut(b, 1, SubSeq(b, 1, 1), SubSeq(b, 1 + 1, Len(b)))
      BY <1>3, CutExists
    <2>2. QED
      BY <2>1
  <1>5. PICK tail \in Seq(U) : tail = Tail(b)
    BY <1>2
  <1>6. /\ Len(tail) = Len(b) - 1
        /\ \A i \in 1 .. Len(b) - 1 : tail[i] = b[i + 1]
    BY <1>2, <1>5
  <1>7. /\ DOMAIN front = {1} /\ front[1] = b[1]
        /\ DOMAIN back = 1 .. Len(b) - 1
        /\ \A i \in 1 .. Len(b) - 1 : back[i] = b[1 + i]
    BY <1>4 DEF IsCut
  <1>8. front = <<b[1]>>
    <2>1. <<b[1]>> \in Seq(U) /\ Len(<<b[1]>>) = 1 /\ <<b[1]>>[1] = b[1]
      BY <1>2
    <2>2. Len(front) = 1
      BY <1>7, LenProperties
    <2>3. QED
      BY <1>7, <2>1, <2>2, SeqEqual
  <1>9. back = tail
    <2>0. Len(SubSeq(b, 1 + 1, Len(b))) = Len(b) - 1
      BY <1>3, DropProperties
    <2>1. Len(back) = Len(tail) /\ Len(back) = Len(b) - 1
      BY <1>4, <1>6, <2>0
    <2>2. \A i \in 1 .. Len(back) : back[i] = tail[i]
      <3>1. ASSUME NEW i \in 1 .. Len(b) - 1
            PROVE  back[i] = tail[i]
        <4>1. 1 + i = i + 1
          BY <1>1
        <4>2. back[i] = b[1 + i] /\ tail[i] = b[i + 1]
          BY <1>6, <1>7
        <4>3. QED
          BY <4>1, <4>2
      <3>2. QED
        BY <2>1, <3>1
    <2>3. QED
      BY <2>1, <2>2, SeqEqual
  <1>10. SubSeq(b, 1, 1) = <<Head(b)>>
    BY <1>2, <1>4, <1>8, Zenon
  <1>11. SubSeq(b, 1 + 1, Len(b)) = Tail(b)
    BY <1>4, <1>5, <1>9, Zenon
  <1>12. 1 \in 1 .. Len(b)
    BY <1>1
  <1>13. Head(b) \in U
    BY <1>2, Zenon
  <1>14. QED
    BY <1>10, <1>11, <1>12, <1>13, Zenon

\* The consumer forgets nothing.
LEMMA ConsumeDecides ==
    ASSUME TrailInv, Consume
    PROVE  TrailDecides /\ service' = service
  <1>1. /\ backlog \in Seq(AgentEvents) /\ stored \in Seq(AgentEvents)
        /\ given \subseteq AgentEvents /\ service \in {"open", "closing", "ended"}
    BY DEF TrailInv, TrailTypes
  <1>2. ASSUME NEW n \in 1 .. Len(backlog), Trail!Store(n)
        PROVE  TrailDecides /\ service' = service
    <2>1. /\ stored' = Trail!StoredWith(SubSeq(backlog, 1, n))
          /\ backlog' = SubSeq(backlog, n + 1, Len(backlog))
          /\ UNCHANGED given /\ service' = service
      BY <1>2 DEF Trail!Store
    <2>2. stored' \in {stored, Trail!StoredWith(SubSeq(backlog, 1, n))}
      BY <2>1
    <2>3. service' \in {"open", "closing", "ended"}
      BY <1>1, <2>1
    <2>4. QED
      BY <2>1, <2>2, <2>3, FrontLeaves
  <1>3. ASSUME Trail!GiveUp
        PROVE  TrailDecides /\ service' = service
    <2>1. /\ backlog # << >>
          /\ stored' \in {stored, Trail!StoredWith(<<Head(backlog)>>)}
          /\ given' = given \union {Head(backlog)}
          /\ backlog' = Tail(backlog)
          /\ service' = service
      BY <1>3 DEF Trail!GiveUp
    <2>2. /\ 1 \in 1 .. Len(backlog)
          /\ SubSeq(backlog, 1, 1) = <<Head(backlog)>>
          /\ SubSeq(backlog, 1 + 1, Len(backlog)) = Tail(backlog)
          /\ Head(backlog) \in AgentEvents
      BY <1>1, <2>1, HeadCut
    <2>3. Range(SubSeq(backlog, 1, 1)) = {Head(backlog)}
      BY <2>2 DEF Range
    <2>4. stored' \in {stored, Trail!StoredWith(SubSeq(backlog, 1, 1))}
      BY <2>1, <2>2
    <2>5. /\ given' \subseteq AgentEvents /\ given \subseteq given'
          /\ Range(SubSeq(backlog, 1, 1)) \subseteq given'
      BY <1>1, <2>1, <2>2, <2>3
    <2>6. backlog' = SubSeq(backlog, 1 + 1, Len(backlog))
      BY <2>1, <2>2
    <2>7. service' \in {"open", "closing", "ended"}
      BY <1>1, <2>1
    <2>8. QED
      BY <2>1, <2>2, <2>4, <2>5, <2>6, <2>7, FrontLeaves
  <1>4. CASE \E n \in 1 .. Len(backlog) : Trail!Store(n)
    BY <1>2, <1>4
  <1>5. CASE Faulty /\ (Trail!StoreUnnoticed(1) \/ Trail!GiveUp)
    BY <1>3, <1>5, FrontUnnoticed
  <1>6. QED
    BY <1>4, <1>5 DEF Consume

\* An entry leaves the queue.
LEMMA LeavesTrail ==
    ASSUME backlog \in Seq(AgentEvents), stored \in Seq(AgentEvents),
           LinedUp(stored, backlog), NEW i \in DOMAIN backlog
    PROVE  /\ Trail!Without(i) \in Seq(AgentEvents)
           /\ LinedUp(stored, Trail!Without(i))
           /\ Range(backlog) = Range(Trail!Without(i)) \union {backlog[i]}
  <1>1. Trail!Without(i) = LeftOf(backlog, i)
    BY Zenon DEF Trail!Without, LeftOf
  <1>2. QED
    BY <1>1, OneLeaves

\* A recorded event is queued, in the place of another one or not, or logged.
LEMMA EmitTakes ==
    ASSUME TrailInv, NEW a \in Agents, NEW kind, NEW e \in AgentEvents,
           e = [agent |-> a, kind |-> kind, nr |-> updatedAt'[a]],
           \A x \in Pool : Before(x, e), Emit(a, kind)
    PROVE  TrailTakes(e)
  <1>1. /\ backlog \in Seq(AgentEvents) /\ stored \in Seq(AgentEvents)
        /\ given \subseteq AgentEvents /\ service \in {"open", "closing", "ended"}
        /\ LinedUp(stored, backlog)
    BY DEF TrailInv, TrailTypes
  <1>2. \/ Trail!Accept(e)
        \/ \E i \in DOMAIN backlog : Trail!AcceptFor(i, e)
        \/ Trail!Refuse(e)
    BY Zenon DEF Emit
  <1>3. ASSUME NEW b \in Seq(AgentEvents), LinedUp(stored, b), Range(b) \subseteq Range(backlog)
        PROVE  /\ Append(b, e) \in Seq(AgentEvents)
               /\ LinedUp(stored, Append(b, e))
               /\ Range(Append(b, e)) = Range(b) \union {e}
    <2>1. \A x \in Range(stored) \union Range(b) : Before(x, e)
      BY <1>3 DEF Pool
    <2>2. LinedUp(stored, Append(b, e))
      BY <1>1, <1>3, <2>1, NewerJoins
    <2>3. Range(Append(b, e)) = Range(b) \union {e}
      BY RangeAppend
    <2>4. QED
      BY <2>2, <2>3, AppendProperties
  <1>4. CASE Trail!Accept(e)
    <2>1. backlog' = Append(backlog, e) /\ UNCHANGED <<stored, given, service>>
      BY <1>4 DEF Trail!Accept
    <2>2. PICK b \in Seq(AgentEvents) : /\ b = Append(backlog, e)
                                        /\ LinedUp(stored, b)
                                        /\ Range(b) = Range(backlog) \union {e}
      BY <1>1, <1>3
    <2>3. backlog' = b /\ stored' = stored /\ given' = given /\ service' = service
      BY <2>1, <2>2
    <2>4. TrailInv'
      BY <1>1, <2>2, <2>3 DEF TrailInv, TrailTypes
    <2>5. Pool' = Pool \union {e}
      BY <2>2, <2>3 DEF Pool
    <2>6. Known' = Known \union {e}
      BY <2>3, <2>5 DEF Known
    <2>7. QED
      BY <2>3, <2>4, <2>5, <2>6 DEF TrailTakes
  <1>5. ASSUME NEW i \in DOMAIN backlog, Trail!AcceptFor(i, e)
        PROVE  TrailTakes(e)
    <2>1. /\ backlog' = Append(Trail!Without(i), e)
          /\ given' = given \union {backlog[i]}
          /\ UNCHANGED <<stored, service>>
      BY <1>5 DEF Trail!AcceptFor
    <2>2. PICK w \in Seq(AgentEvents) : /\ w = Trail!Without(i)
                                        /\ LinedUp(stored, w)
                                        /\ Range(backlog) = Range(w) \union {backlog[i]}
      BY <1>1, LeavesTrail
    <2>3. PICK b \in Seq(AgentEvents) : /\ b = Append(w, e)
                                        /\ LinedUp(stored, b)
                                        /\ Range(b) = Range(w) \union {e}
      <3>1. Range(w) \subseteq Range(backlog)
        BY <2>2
      <3>2. QED
        BY <1>3, <2>2, <3>1
    <2>4. /\ backlog' = b /\ stored' = stored /\ service' = service
          /\ given' = given \union {backlog[i]}
      BY <2>1, <2>2, <2>3
    <2>5. backlog[i] \in AgentEvents
      BY <1>1, LenProperties, ElementOfSeq
    <2>6. TrailInv'
      BY <1>1, <2>3, <2>4, <2>5 DEF TrailInv, TrailTypes
    <2>7. Pool' = Range(stored) \union Range(w) \union {e}
      BY <2>3, <2>4 DEF Pool
    <2>8. Pool' \subseteq Pool \union {e}
      BY <2>2, <2>7 DEF Pool
    <2>9. Known \union {e} \subseteq Known'
      BY <2>2, <2>4, <2>7 DEF Known, Pool
    <2>10. QED
      BY <2>4, <2>6, <2>8, <2>9 DEF TrailTakes
  <1>6. CASE Trail!Refuse(e)
    <2>1. given' = given \union {e} /\ UNCHANGED <<backlog, stored, service>>
      BY <1>6 DEF Trail!Refuse
    <2>2. TrailInv'
      BY <1>1, <2>1 DEF TrailInv, TrailTypes
    <2>3. Pool' = Pool
      BY <2>1 DEF Pool
    <2>4. Known' = Known \union {e}
      BY <2>1, <2>3 DEF Known
    <2>5. QED
      BY <2>1, <2>2, <2>3, <2>4 DEF TrailTakes
  <1>7. QED
    BY <1>2, <1>4, <1>5, <1>6

\* Closing may cost an event its place.
LEMMA CloseDecides ==
    ASSUME TrailInv, Trail!Close
    PROVE  TrailDecides /\ service' = "closing"
  <1>1. /\ backlog \in Seq(AgentEvents) /\ stored \in Seq(AgentEvents)
        /\ given \subseteq AgentEvents /\ LinedUp(stored, backlog)
    BY DEF TrailInv, TrailTypes
  <1>2. /\ service' = "closing" /\ stored' = stored
        /\ \/ backlog' = backlog /\ given' = given
           \/ \E i \in DOMAIN backlog :
                backlog' = Trail!Without(i) /\ given' = given \union {backlog[i]}
    BY DEF Trail!Close
  <1>3. CASE backlog' = backlog /\ given' = given
    <2>1. TrailInv'
      BY <1>1, <1>2, <1>3 DEF TrailInv, TrailTypes
    <2>2. Pool' = Pool /\ Known' = Known
      BY <1>2, <1>3 DEF Pool, Known
    <2>3. QED
      BY <1>2, <2>1, <2>2 DEF TrailDecides
  <1>4. ASSUME NEW i \in DOMAIN backlog,
               backlog' = Trail!Without(i), given' = given \union {backlog[i]}
        PROVE  TrailDecides
    <2>1. PICK w \in Seq(AgentEvents) : /\ w = Trail!Without(i)
                                        /\ LinedUp(stored, w)
                                        /\ Range(backlog) = Range(w) \union {backlog[i]}
      BY <1>1, LeavesTrail
    <2>2. backlog' = w
      BY <1>4, <2>1
    <2>3. backlog[i] \in AgentEvents
      BY <1>1, LenProperties, ElementOfSeq
    <2>4. TrailInv'
      BY <1>1, <1>2, <1>4, <2>1, <2>2, <2>3 DEF TrailInv, TrailTypes
    <2>5. Pool' = Range(stored) \union Range(w)
      BY <1>2, <2>2 DEF Pool
    <2>6. Pool' \subseteq Pool /\ Known \subseteq Known'
      BY <1>4, <2>1, <2>5 DEF Pool, Known
    <2>7. QED
      BY <2>4, <2>6 DEF TrailDecides
  <1>5. QED
    BY <1>2, <1>3, <1>4

LEMMA EndDecides ==
    ASSUME TrailInv, Trail!Drained \/ Trail!CutOff
    PROVE  TrailDecides /\ service' = "ended"
  <1>1. service' = "ended" /\ UNCHANGED <<backlog, stored, given>>
    BY DEF Trail!Drained, Trail!CutOff
  <1>2. TrailInv'
    BY <1>1 DEF TrailInv, TrailTypes
  <1>3. Pool' = Pool /\ Known' = Known
    BY <1>1 DEF Pool, Known
  <1>4. QED
    BY <1>1, <1>2, <1>3 DEF TrailDecides

----------------------------------------------------------------------------
(* The agents of the registry *)

\* The nr-th event of an agent goes with the nr-th change of its record, so
\* its numbers say how far it is.
Paced ==
    \A a \in Agents :
        /\ agentState[a] = "unknown" => updatedAt[a] = 0 /\ progress[a] = 0
        /\ agentState[a] = "pending" => updatedAt[a] = 1 /\ progress[a] = 0
        /\ agentState[a] = "running" =>
             updatedAt[a] = progress[a] + 2 /\ progress[a] <= MaxReports
        /\ updatedAt[a] <= MaxReports + 3

\* What a mutation of agent a does, to a and to the others: it may evict some.
Others(a) ==
    \A b \in Agents \ {a} :
        /\ updatedAt'[b] = updatedAt[b]
        /\ settledAs'[b] = settledAs[b]
        /\ \/ agentState'[b] = agentState[b]
           \/ agentState[b] \in Terminal /\ agentState'[b] = "evicted"

Kinds == {"spawned", "started", "progress"} \union Terminal

Advances(a, kind) ==
    /\ Coherent'
    /\ Paced'
    /\ kind \in Kinds
    /\ agentState[a] \in Live \union {"unknown"}
    /\ updatedAt'[a] = updatedAt[a] + 1
    /\ updatedAt'[a] \in 1 .. MaxReports + 3
    /\ settledAs[a] = "none"
    /\ IF kind \in Terminal
       THEN agentState'[a] \in {kind, "evicted"} /\ settledAs'[a] = kind
       ELSE agentState'[a] \in Live /\ settledAs'[a] = "none"
    /\ Others(a)

LEMMA LiveCoherent ==
    ASSUME Coherent, RegistryTypeOK', NEW a \in Agents,
           agentState[a] \in Live \union {"unknown"}, agentState'[a] \in Live,
           \A b \in Agents \ {a} : agentState'[b] = agentState[b],
           UNCHANGED <<finishedAgents, settledAs>>
    PROVE  Coherent'
  <1>1. agentState[a] \notin Terminal \union {"evicted"}
        /\ agentState'[a] \notin Terminal \union {"evicted"}
    BY DEF Live, Terminal
  <1>2. ASSUME NEW b \in Agents
        PROVE  /\ agentState'[b] \in Terminal => settledAs'[b] = agentState'[b]
               /\ settledAs'[b] # "none" => agentState'[b] \in Terminal \union {"evicted"}
    <2>1. CASE b = a
      BY <1>1, <2>1 DEF Coherent
    <2>2. CASE b # a
      BY <2>2 DEF Coherent
    <2>3. QED
      BY <2>1, <2>2
  <1>3. Range(finishedAgents) \subseteq Agents
    <2>1. finishedAgents \in Seq(Agents)
      BY DEF Coherent, RegistryTypeOK
    <2>2. QED
      BY <2>1, LenProperties, ElementOfSeq DEF Range
  <1>4. \A b \in Range(finishedAgents) : agentState'[b] \in Terminal
    BY <1>1, <1>3 DEF Coherent
  <1>5. Distinct(finishedAgents)
    BY DEF Coherent
  <1>6. QED
    BY <1>2, <1>4, <1>5 DEF Coherent

LEMMA RegisterAdvances ==
    ASSUME Coherent, Paced, NEW a \in Agents, RegisterAgent(a)
    PROVE  Advances(a, "spawned")
  <1>1. RegistryTypeOK /\ MaxReports \in Nat
    BY RegistryAssumption DEF Coherent
  <1>2. /\ agentState[a] = "unknown"
        /\ agentState' = [agentState EXCEPT ![a] = "pending"]
        /\ taskQueued' = [taskQueued EXCEPT ![a] = TRUE]
        /\ updatedAt' = [updatedAt EXCEPT ![a] = @ + 1]
        /\ UNCHANGED <<progress, agentError, finishedAgents, settledAs, settledOrder>>
    BY DEF RegisterAgent
  <1>3. /\ agentState'[a] = "pending" /\ updatedAt[a] = 0 /\ updatedAt'[a] = 1
        /\ progress[a] = 0 /\ progress' = progress /\ settledAs' = settledAs
        /\ \A b \in Agents \ {a} :
             agentState'[b] = agentState[b] /\ updatedAt'[b] = updatedAt[b]
    BY <1>1, <1>2 DEF RegistryTypeOK, Paced
  <1>4. RegistryTypeOK'
    BY <1>1, <1>2 DEF RegistryTypeOK, Live
  <1>5. settledAs[a] = "none"
    BY <1>2 DEF Coherent, Terminal
  <1>6. Coherent'
    <2>1. agentState[a] \in Live \union {"unknown"} /\ agentState'[a] \in Live
      BY <1>2, <1>3 DEF Live
    <2>2. QED
      BY <1>2, <1>3, <1>4, <2>1, LiveCoherent
  <1>7. Paced'
    <2>1. ASSUME NEW b \in Agents
          PROVE  /\ agentState'[b] = "unknown" => updatedAt'[b] = 0 /\ progress'[b] = 0
                 /\ agentState'[b] = "pending" => updatedAt'[b] = 1 /\ progress'[b] = 0
                 /\ agentState'[b] = "running" =>
                      updatedAt'[b] = progress'[b] + 2 /\ progress'[b] <= MaxReports
                 /\ updatedAt'[b] <= MaxReports + 3
      <3>1. CASE b = a
        BY <1>1, <1>3, <3>1
      <3>2. CASE b # a
        BY <1>3, <3>2 DEF Paced
      <3>3. QED
        BY <3>1, <3>2
    <2>2. QED
      BY <2>1 DEF Paced
  <1>8. Others(a)
    BY <1>3 DEF Others
  <1>9. updatedAt'[a] = updatedAt[a] + 1 /\ updatedAt'[a] \in 1 .. MaxReports + 3
    BY <1>1, <1>3
  <1>10. "spawned" \in Kinds /\ "spawned" \notin Terminal
    BY DEF Kinds, Terminal
  <1>11. QED
    BY <1>2, <1>3, <1>5, <1>6, <1>7, <1>8, <1>9, <1>10 DEF Advances, Live

LEMMA StartAdvances ==
    ASSUME Coherent, Paced, NEW a \in Agents, agentState[a] = "pending", MarkRunning(a)
    PROVE  Advances(a, "started")
  <1>1. RegistryTypeOK /\ MaxReports \in Nat
    BY RegistryAssumption DEF Coherent
  <1>2. /\ agentState' = [agentState EXCEPT ![a] = "running"]
        /\ taskQueued' = [taskQueued EXCEPT ![a] = FALSE]
        /\ updatedAt' = [updatedAt EXCEPT ![a] = @ + 1]
        /\ UNCHANGED <<progress, agentError, finishedAgents, settledAs, settledOrder>>
    BY DEF MarkRunning
  <1>3. /\ agentState'[a] = "running" /\ updatedAt[a] = 1 /\ updatedAt'[a] = 2
        /\ progress[a] = 0 /\ progress' = progress /\ settledAs' = settledAs
        /\ \A b \in Agents \ {a} :
             agentState'[b] = agentState[b] /\ updatedAt'[b] = updatedAt[b]
    BY <1>1, <1>2 DEF RegistryTypeOK, Paced
  <1>4. RegistryTypeOK'
    BY <1>1, <1>2 DEF RegistryTypeOK, Live
  <1>5. settledAs[a] = "none"
    BY DEF Coherent, Terminal
  <1>6. Coherent'
    <2>1. agentState[a] \in Live \union {"unknown"} /\ agentState'[a] \in Live
      BY <1>3 DEF Live
    <2>2. QED
      BY <1>2, <1>3, <1>4, <2>1, LiveCoherent
  <1>7. Paced'
    <2>1. ASSUME NEW b \in Agents
          PROVE  /\ agentState'[b] = "unknown" => updatedAt'[b] = 0 /\ progress'[b] = 0
                 /\ agentState'[b] = "pending" => updatedAt'[b] = 1 /\ progress'[b] = 0
                 /\ agentState'[b] = "running" =>
                      updatedAt'[b] = progress'[b] + 2 /\ progress'[b] <= MaxReports
                 /\ updatedAt'[b] <= MaxReports + 3
      <3>1. CASE b = a
        BY <1>1, <1>3, <3>1
      <3>2. CASE b # a
        BY <1>3, <3>2 DEF Paced
      <3>3. QED
        BY <3>1, <3>2
    <2>2. QED
      BY <2>1 DEF Paced
  <1>8. Others(a)
    BY <1>3 DEF Others
  <1>9. updatedAt'[a] = updatedAt[a] + 1 /\ updatedAt'[a] \in 1 .. MaxReports + 3
    BY <1>1, <1>3
  <1>10. "started" \in Kinds /\ "started" \notin Terminal
    BY DEF Kinds, Terminal
  <1>11. QED
    BY <1>3, <1>5, <1>6, <1>7, <1>8, <1>9, <1>10 DEF Advances, Live

LEMMA ReportAdvances ==
    ASSUME Coherent, Paced, NEW a \in Agents, agentState[a] = "running",
           progress[a] < MaxReports, RecordProgress(a)
    PROVE  Advances(a, "progress")
  <1>1. RegistryTypeOK /\ MaxReports \in Nat /\ progress[a] \in Nat
    BY RegistryAssumption DEF Coherent, RegistryTypeOK
  <1>2. /\ progress' = [progress EXCEPT ![a] = @ + 1]
        /\ updatedAt' = [updatedAt EXCEPT ![a] = @ + 1]
        /\ UNCHANGED <<agentState, taskQueued, agentError, finishedAgents, settledAs,
                       settledOrder>>
    BY DEF RecordProgress
  <1>3. /\ updatedAt[a] = progress[a] + 2 /\ updatedAt'[a] = updatedAt[a] + 1
        /\ progress'[a] = progress[a] + 1 /\ progress'[a] <= MaxReports
        /\ agentState' = agentState /\ settledAs' = settledAs
        /\ \A b \in Agents \ {a} :
             progress'[b] = progress[b] /\ updatedAt'[b] = updatedAt[b]
    BY <1>1, <1>2 DEF RegistryTypeOK, Paced
  <1>4. RegistryTypeOK'
    <2>1. progress' \in [Agents -> 0 .. FullProgress]
      BY <1>1, <1>2, <1>3 DEF RegistryTypeOK, FullProgress
    <2>2. updatedAt' \in [Agents -> Nat]
      BY <1>1, <1>2 DEF RegistryTypeOK
    <2>3. QED
      BY <1>1, <1>2, <2>1, <2>2 DEF RegistryTypeOK
  <1>5. settledAs[a] = "none"
    BY DEF Coherent, Terminal
  <1>6. Coherent'
    <2>1. agentState[a] \in Live \union {"unknown"} /\ agentState'[a] \in Live
      BY <1>3 DEF Live
    <2>2. QED
      BY <1>2, <1>3, <1>4, <2>1, LiveCoherent
  <1>7. Paced'
    <2>1. ASSUME NEW b \in Agents
          PROVE  /\ agentState'[b] = "unknown" => updatedAt'[b] = 0 /\ progress'[b] = 0
                 /\ agentState'[b] = "pending" => updatedAt'[b] = 1 /\ progress'[b] = 0
                 /\ agentState'[b] = "running" =>
                      updatedAt'[b] = progress'[b] + 2 /\ progress'[b] <= MaxReports
                 /\ updatedAt'[b] <= MaxReports + 3
      <3>1. CASE b = a
        BY <1>1, <1>3, <3>1
      <3>2. CASE b # a
        BY <1>3, <3>2 DEF Paced
      <3>3. QED
        BY <3>1, <3>2
    <2>2. QED
      BY <2>1 DEF Paced
  <1>8. Others(a)
    BY <1>3 DEF Others
  <1>9. updatedAt'[a] = updatedAt[a] + 1 /\ updatedAt'[a] \in 1 .. MaxReports + 3
    BY <1>1, <1>3
  <1>10. "progress" \in Kinds /\ "progress" \notin Terminal
    BY DEF Kinds, Terminal
  <1>11. QED
    BY <1>3, <1>5, <1>6, <1>7, <1>8, <1>9, <1>10 DEF Advances, Live

LEMMA SettleAdvances ==
    ASSUME Coherent, Paced, NEW a \in Agents, NEW state \in Terminal,
           NEW failure \in BOOLEAN, SettleAgent(a, state, failure)
    PROVE  Advances(a, state)
  <1>1. RegistryTypeOK /\ MaxReports \in Nat
    BY RegistryAssumption DEF Coherent
  <1>2. <<a>> \in Seq(Agents) /\ Distinct(<<a>>) /\ Range(<<a>>) = {a}
    BY SingleAgent
  <1>3. PICK q \in Seq(Agents) : q = <<a>> /\ Distinct(q) /\ Range(q) = {a}
    BY <1>2
  <1>4. SettleAgents(q, state, failure)
    BY <1>3 DEF SettleAgent
  <1>5. /\ agentState[a] \in Live
        /\ agentState'[a] \in {state, "evicted"}
        /\ settledAs[a] = "none"
        /\ settledAs'[a] = state
        /\ \A b \in Agents \ {a} :
             /\ \/ agentState'[b] = agentState[b]
                \/ agentState[b] \in Terminal /\ agentState'[b] = "evicted"
             /\ settledAs'[b] = settledAs[b]
    <2>1. /\ \A b \in Range(q) :
               /\ b \in Agents
               /\ agentState[b] \in Live
               /\ agentState'[b] \in {state, "evicted"}
               /\ settledAs[b] = "none"
               /\ settledAs'[b] = state
          /\ \A b \in Agents \ Range(q) :
               /\ \/ agentState'[b] = agentState[b]
                  \/ agentState[b] \in Terminal /\ agentState'[b] = "evicted"
               /\ settledAs'[b] = settledAs[b]
      BY <1>4, SettleStates
    <2>2. QED
      BY <1>3, <2>1
  <1>6. Coherent'
    BY <1>3, <1>4, CoherentSettles
  <1>7. /\ updatedAt'[a] = updatedAt[a] + 1
        /\ \A b \in Agents \ {a} : updatedAt'[b] = updatedAt[b] /\ progress'[b] = progress[b]
    BY <1>1, <1>3, <1>4 DEF SettleAgents, RegistryTypeOK
  <1>8. updatedAt[a] \in 1 .. MaxReports + 2
    <2>1. progress[a] \in Nat /\ updatedAt[a] \in Nat
      BY <1>1 DEF RegistryTypeOK
    <2>2. CASE agentState[a] = "pending"
      BY <1>1, <2>2 DEF Paced
    <2>3. CASE agentState[a] = "running"
      BY <1>1, <2>1, <2>3 DEF Paced
    <2>4. QED
      BY <1>5, <2>2, <2>3 DEF Live
  <1>9. updatedAt'[a] \in 1 .. MaxReports + 3
    BY <1>1, <1>7, <1>8
  <1>10. Paced'
    <2>1. ASSUME NEW b \in Agents
          PROVE  /\ agentState'[b] = "unknown" => updatedAt'[b] = 0 /\ progress'[b] = 0
                 /\ agentState'[b] = "pending" => updatedAt'[b] = 1 /\ progress'[b] = 0
                 /\ agentState'[b] = "running" =>
                      updatedAt'[b] = progress'[b] + 2 /\ progress'[b] <= MaxReports
                 /\ updatedAt'[b] <= MaxReports + 3
      <3>1. CASE b = a
        <4>1. agentState'[b] \notin {"unknown", "pending", "running"}
          BY <1>5, <3>1 DEF Terminal
        <4>2. updatedAt'[b] <= MaxReports + 3
          BY <1>9, <3>1
        <4>3. QED
          BY <4>1, <4>2
      <3>2. CASE b # a
        <4>1. updatedAt'[b] = updatedAt[b] /\ progress'[b] = progress[b]
          BY <1>7, <3>2
        <4>2. agentState'[b] = agentState[b] \/ agentState'[b] = "evicted"
          BY <1>5, <3>2
        <4>3. QED
          BY <4>1, <4>2 DEF Paced
      <3>3. QED
        BY <3>1, <3>2
    <2>2. QED
      BY <2>1 DEF Paced
  <1>11. Others(a)
    BY <1>5, <1>7 DEF Others
  <1>12. state \in Kinds
    BY DEF Kinds
  <1>13. QED
    BY <1>5, <1>6, <1>7, <1>9, <1>10, <1>11, <1>12 DEF Advances

----------------------------------------------------------------------------
(* The invariant *)

HistoryTypes ==
    /\ process \in {"validating", "loading", "serving", "stopping", "draining",
                    "down", "killed"}
    /\ restarts \in 0 .. MaxRestarts
    /\ stranded \subseteq Agents
    /\ inquiry \in [agent : Agents, seen : Live \union Terminal \union {"absent"}]
                   \union {NoInquiry}

\* An event is no newer than its agent, and an end is the agent's last event.
Signed ==
    \A e \in Pool :
        /\ e.nr <= updatedAt[e.agent]
        /\ e.kind \in Terminal =>
             settledAs[e.agent] = e.kind /\ e.nr = updatedAt[e.agent]

\* The end of an agent that is still registered is not forgotten.
EndRecorded ==
    \A a \in Agents : agentState[a] \in Terminal => EndIn(a, Known)

\* The audit service is open while agents run.  It is closed when there is
\* nothing to cancel but the stranded, or was never needed.
Phases ==
    /\ process \in {"validating", "loading", "serving", "stopping"} => service = "open"
    /\ process = "draining" => service # "open"
    /\ process \in {"validating", "loading"} => \A a \in Agents : ~Present(a)
    /\ process = "down" => service # "open" \/ \A a \in Agents : ~Present(a)
    /\ service # "open" => \A a \in Agents : Updatable(a) => a \in stranded

\* What an inquiry saw of an end stays true.
Asked ==
    inquiry # NoInquiry /\ inquiry.seen \in Terminal =>
        settledAs[inquiry.agent] = inquiry.seen

HistoryInv ==
    /\ Coherent
    /\ Paced
    /\ TrailInv
    /\ HistoryTypes
    /\ Signed
    /\ EndRecorded
    /\ Phases
    /\ Asked

LEMMA EventType ==
    ASSUME NEW e \in AgentEvents
    PROVE  e.agent \in Agents /\ e.kind \in Kinds /\ e.nr \in Nat /\ e.nr >= 1
  BY RegistryAssumption DEF AgentEvents, Kinds

LEMMA PoolEvents ==
    ASSUME TrailTypes
    PROVE  Pool \subseteq AgentEvents
  BY LenProperties, ElementOfSeq DEF TrailTypes, Pool, Range

\* Whatever an agent does, its event comes after those it is ordered with.
LEMMA AgentSteps ==
    ASSUME HistoryInv, NEW a \in Agents, NEW kind, Advances(a, kind), Emit(a, kind),
           process \in {"serving", "stopping"},
           UNCHANGED <<process, restarts, stranded, inquiry>>
    PROVE  HistoryInv'
  <1>1. /\ Coherent /\ Paced /\ TrailInv /\ HistoryTypes /\ Signed /\ EndRecorded
        /\ Phases /\ Asked
    BY DEF HistoryInv
  <1>2. RegistryTypeOK /\ updatedAt \in [Agents -> Nat]
    BY <1>1 DEF Coherent, RegistryTypeOK
  <1>3. PICK e : e = [agent |-> a, kind |-> kind, nr |-> updatedAt'[a]]
    OBVIOUS
  <1>4. e \in AgentEvents /\ e.agent = a /\ e.kind = kind /\ e.nr = updatedAt'[a]
    <2>1. kind \in Kinds /\ updatedAt'[a] \in 1 .. MaxReports + 3
      BY DEF Advances
    <2>2. QED
      BY <1>3, <2>1 DEF AgentEvents, Kinds
  <1>5. Pool \subseteq AgentEvents
    BY <1>1, PoolEvents DEF TrailInv
  <1>6. updatedAt'[a] = updatedAt[a] + 1 /\ updatedAt[a] \in Nat /\ settledAs[a] = "none"
    BY <1>2 DEF Advances
  <1>7. \A x \in Pool : Before(x, e)
    <2>1. ASSUME NEW x \in Pool, x.agent = a
          PROVE  x.nr < e.nr
      <3>1. x.nr \in Nat /\ x.nr <= updatedAt[a]
        BY <1>1, <1>5, <2>1, EventType DEF Signed
      <3>2. QED
        BY <1>4, <1>6, <3>1
    <2>2. QED
      BY <1>4, <2>1 DEF Before
  <1>8. TrailTakes(e)
    BY <1>1, <1>3, <1>4, <1>7, EmitTakes
  <1>9. TrailInv' /\ service' = service /\ Pool' \subseteq Pool \union {e}
        /\ Known \union {e} \subseteq Known'
    BY <1>8 DEF TrailTakes
  <1>10. Signed'
    <2>1. ASSUME NEW x \in Pool'
          PROVE  /\ x.nr <= updatedAt'[x.agent]
                 /\ x.kind \in Terminal =>
                      settledAs'[x.agent] = x.kind /\ x.nr = updatedAt'[x.agent]
      <3>1. CASE x = e
        <4>1. x.agent = a /\ x.kind = kind /\ x.nr = updatedAt'[a]
          BY <1>4, <3>1
        <4>2. kind \in Terminal => settledAs'[a] = kind
          BY DEF Advances
        <4>3. updatedAt'[a] <= updatedAt'[a]
          BY <1>6
        <4>4. QED
          BY <4>1, <4>2, <4>3
      <3>2. CASE x \in Pool /\ x.agent = a
        <4>1. x.nr <= updatedAt[a] /\ x.nr \in Nat
              /\ (x.kind \in Terminal => settledAs[a] = x.kind)
          BY <1>1, <1>5, <3>2, EventType DEF Signed
        <4>2. x.kind \notin Terminal
          BY <1>6, <4>1 DEF Terminal
        <4>3. x.nr <= updatedAt'[a]
          BY <1>6, <4>1
        <4>4. QED
          BY <3>2, <4>2, <4>3
      <3>3. CASE x \in Pool /\ x.agent # a
        <4>1. x.agent \in Agents \ {a}
          BY <1>5, <3>3, EventType
        <4>2. updatedAt'[x.agent] = updatedAt[x.agent] /\ settledAs'[x.agent] = settledAs[x.agent]
          BY <4>1 DEF Advances, Others
        <4>3. QED
          BY <1>1, <3>3, <4>2 DEF Signed
      <3>4. QED
        BY <1>9, <2>1, <3>1, <3>2, <3>3
    <2>2. QED
      BY <2>1 DEF Signed
  <1>11. EndRecorded'
    <2>1. ASSUME NEW b \in Agents, agentState'[b] \in Terminal
          PROVE  EndIn(b, Known)'
      <3>1. CASE b = a
        <4>1. kind \in Terminal
          BY <2>1, <3>1 DEF Advances, Live, Terminal
        <4>2. e \in Known'
          BY <1>9
        <4>3. QED
          BY <1>4, <3>1, <4>1, <4>2 DEF EndIn
      <3>2. CASE b # a
        <4>1. agentState[b] \in Terminal
          BY <2>1, <3>2 DEF Advances, Others, Terminal
        <4>2. EndIn(b, Known)
          BY <1>1, <4>1 DEF EndRecorded
        <4>3. QED
          BY <1>9, <4>2 DEF EndIn
      <3>3. QED
        BY <3>1, <3>2
    <2>2. QED
      BY <2>1 DEF EndRecorded
  <1>12. Phases'
    BY <1>1, <1>9 DEF Phases
  <1>13. Asked'
    <2>1. ASSUME inquiry # NoInquiry, inquiry.seen \in Terminal
          PROVE  settledAs'[inquiry.agent] = inquiry.seen
      <3>1. settledAs[inquiry.agent] = inquiry.seen /\ inquiry.agent \in Agents
        BY <1>1, <2>1 DEF Asked, HistoryTypes
      <3>2. inquiry.agent # a
        BY <1>6, <2>1, <3>1 DEF Terminal
      <3>3. settledAs'[inquiry.agent] = settledAs[inquiry.agent]
        BY <3>1, <3>2 DEF Advances, Others
      <3>4. QED
        BY <3>1, <3>3
    <2>2. QED
      BY <2>1 DEF Asked
  <1>14. HistoryTypes'
    BY <1>1 DEF HistoryTypes
  <1>15. Coherent' /\ Paced'
    BY DEF Advances
  <1>16. QED
    BY <1>9, <1>10, <1>11, <1>12, <1>13, <1>14, <1>15 DEF HistoryInv

\* Nothing the trail decides touches what is known of the agents.
LEMMA TrailSteps ==
    ASSUME HistoryInv, TrailDecides, UNCHANGED registryVars
    PROVE  Coherent' /\ Paced' /\ TrailInv' /\ Signed' /\ EndRecorded'
  <1>1. /\ Coherent /\ Paced /\ Signed /\ EndRecorded
    BY DEF HistoryInv
  <1>2. /\ agentState' = agentState /\ taskQueued' = taskQueued /\ progress' = progress
        /\ agentError' = agentError /\ updatedAt' = updatedAt
        /\ finishedAgents' = finishedAgents /\ settledAs' = settledAs
        /\ settledOrder' = settledOrder
    BY DEF registryVars
  <1>3. TrailInv' /\ Pool' \subseteq Pool /\ Known \subseteq Known'
    BY DEF TrailDecides
  <1>4. Coherent'
    BY <1>1, <1>2 DEF Coherent, RegistryTypeOK
  <1>5. Paced'
    BY <1>1, <1>2 DEF Paced
  <1>6. Signed'
    BY <1>1, <1>2, <1>3 DEF Signed
  <1>7. EndRecorded'
    <2>1. ASSUME NEW a \in Agents, agentState'[a] \in Terminal
          PROVE  EndIn(a, Known)'
      <3>1. EndIn(a, Known)
        BY <1>1, <1>2, <2>1 DEF EndRecorded
      <3>2. QED
        BY <1>3, <3>1 DEF EndIn
    <2>2. QED
      BY <2>1 DEF EndRecorded
  <1>8. QED
    BY <1>3, <1>4, <1>5, <1>6, <1>7

\* A step that leaves registry and trail alone.
LEMMA QuietSteps ==
    ASSUME HistoryInv, UNCHANGED registryVars, UNCHANGED trailVars
    PROVE  /\ Coherent' /\ Paced' /\ TrailInv' /\ Signed' /\ EndRecorded'
           /\ service' = service
           /\ \A a \in Agents : Present(a)' = Present(a) /\ Updatable(a)' = Updatable(a)
  <1>1. TrailInv
    BY DEF HistoryInv
  <1>2. backlog' = backlog /\ stored' = stored /\ given' = given /\ service' = service
    BY DEF trailVars
  <1>3. TrailDecides
    BY <1>1, <1>2 DEF TrailDecides, TrailInv, TrailTypes, Pool, Known
  <1>4. Coherent' /\ Paced' /\ TrailInv' /\ Signed' /\ EndRecorded'
    BY <1>3, TrailSteps
  <1>5. agentState' = agentState
    BY DEF registryVars
  <1>6. QED
    BY <1>2, <1>4, <1>5 DEF Present, Updatable

----------------------------------------------------------------------------
(* The actions *)

LEMMA InitHistoryInv == Init => HistoryInv
  <1> SUFFICES ASSUME Init
               PROVE  HistoryInv
    OBVIOUS
  <1>1. RegistryInit /\ Trail!Init /\ process = "validating" /\ restarts = 0
        /\ stranded = {} /\ inquiry = NoInquiry
    BY DEF Init
  <1>2. Coherent
    BY <1>1, RegistryInitInv, InvCoherent
  <1>3. \A a \in Agents : agentState[a] = "unknown" /\ updatedAt[a] = 0 /\ progress[a] = 0
    BY <1>1 DEF RegistryInit
  <1>4. Paced
    BY <1>3, RegistryAssumption DEF Paced
  <1>5. backlog = << >> /\ stored = << >> /\ given = {} /\ service = "open"
    BY <1>1 DEF Trail!Init
  <1>6. Range(<< >>) = {}
    BY DEF Range
  <1>7. Pool = {}
    BY <1>5, <1>6 DEF Pool
  <1>8. TrailInv
    <2>1. Ordered(<< >>)
      BY DEF Ordered
    <2>2. LinedUp(<< >>, << >>)
      BY <1>6, <2>1 DEF LinedUp
    <2>3. QED
      BY <1>5, <2>2, EmptySeq DEF TrailInv, TrailTypes
  <1>9. Signed
    BY <1>7 DEF Signed
  <1>10. EndRecorded
    BY <1>3 DEF EndRecorded, Terminal
  <1>11. Phases
    BY <1>1, <1>3, <1>5 DEF Phases, Present, Absent
  <1>12. Asked
    BY <1>1 DEF Asked
  <1>13. HistoryTypes
    BY <1>1, HistoryAssumption DEF HistoryTypes
  <1>14. QED
    BY <1>2, <1>4, <1>8, <1>9, <1>10, <1>11, <1>12, <1>13 DEF HistoryInv

LEMMA SettleKeeps ==
    ASSUME HistoryInv, process \in {"serving", "stopping"}, NEW a \in Agents, Ends(a)
    PROVE  HistoryInv'
  <1>1. PICK state \in Endings : Settle(a, state)
    BY DEF Ends
  <1>2. state \in Terminal
    BY HistoryAssumption
  <1>3. PICK failure \in BOOLEAN : failure = (state = "failed")
    OBVIOUS
  <1>4. SettleAgent(a, state, failure)
    BY <1>1, <1>3, Zenon DEF Settle
  <1>5. Emit(a, state) /\ UNCHANGED <<process, restarts, stranded, inquiry>>
    BY <1>1 DEF Settle
  <1>6. Coherent /\ Paced
    BY DEF HistoryInv
  <1>7. Advances(a, state)
    BY <1>2, <1>4, <1>6, SettleAdvances
  <1>8. QED
    BY <1>5, <1>7, AgentSteps

LEMMA AgentsKeep ==
    ASSUME HistoryInv, process \in {"serving", "stopping"}, NEW a \in Agents,
           Spawn(a) \/ Start(a) \/ Report(a) \/ Ends(a) \/ Strand(a)
    PROVE  HistoryInv'
  <1>1. Coherent /\ Paced
    BY DEF HistoryInv
  <1>2. CASE Spawn(a)
    <2>1. /\ RegisterAgent(a) /\ Emit(a, "spawned")
          /\ UNCHANGED <<process, restarts, stranded, inquiry>>
      BY <1>2 DEF Spawn
    <2>2. QED
      BY <1>1, <2>1, RegisterAdvances, AgentSteps
  <1>3. CASE Start(a)
    <2>1. /\ agentState[a] = "pending" /\ MarkRunning(a) /\ Emit(a, "started")
          /\ UNCHANGED <<process, restarts, stranded, inquiry>>
      BY <1>3 DEF Start
    <2>2. QED
      BY <1>1, <2>1, StartAdvances, AgentSteps
  <1>4. CASE Report(a)
    <2>1. /\ agentState[a] = "running" /\ progress[a] < MaxReports
          /\ RecordProgress(a) /\ Emit(a, "progress")
          /\ UNCHANGED <<process, restarts, stranded, inquiry>>
      BY <1>4 DEF Report
    <2>2. QED
      BY <1>1, <2>1, ReportAdvances, AgentSteps
  <1>5. CASE Ends(a)
    BY <1>5, SettleKeeps
  <1>6. CASE Strand(a)
    <2>1. /\ stranded' = stranded \union {a}
          /\ UNCHANGED registryVars /\ UNCHANGED trailVars
          /\ UNCHANGED <<process, restarts, inquiry>>
      BY <1>6 DEF Strand
    <2>2. /\ Coherent' /\ Paced' /\ TrailInv' /\ Signed' /\ EndRecorded'
          /\ service' = service
          /\ \A b \in Agents : Present(b)' = Present(b) /\ Updatable(b)' = Updatable(b)
      BY <2>1, QuietSteps
    <2>3. HistoryTypes' /\ Phases' /\ Asked'
      <3>1. settledAs' = settledAs
        BY <2>1 DEF registryVars
      <3>2. Phases'
        BY <2>1, <2>2 DEF HistoryInv, Phases
      <3>3. HistoryTypes' /\ Asked'
        BY <2>1, <3>1 DEF HistoryInv, HistoryTypes, Asked
      <3>4. QED
        BY <3>2, <3>3
    <2>4. QED
      BY <2>2, <2>3 DEF HistoryInv
  <1>7. QED
    BY <1>2, <1>3, <1>4, <1>5, <1>6

LEMMA ConsumeKeeps ==
    ASSUME HistoryInv, Consume
    PROVE  HistoryInv'
  <1>1. TrailInv
    BY DEF HistoryInv
  <1>2. TrailDecides /\ service' = service
    BY <1>1, ConsumeDecides
  <1>3. UNCHANGED registryVars /\ UNCHANGED <<process, restarts, stranded, inquiry>>
    BY DEF Consume
  <1>4. Coherent' /\ Paced' /\ TrailInv' /\ Signed' /\ EndRecorded'
    BY <1>2, <1>3, TrailSteps
  <1>5. agentState' = agentState /\ settledAs' = settledAs
    BY <1>3 DEF registryVars
  <1>6. Phases' /\ Asked' /\ HistoryTypes'
    BY <1>2, <1>3, <1>5 DEF HistoryInv, Phases, Asked, HistoryTypes, Present, Updatable
  <1>7. QED
    BY <1>4, <1>6 DEF HistoryInv

\* The steps of lifespan() that leave registry and trail alone.
LEMMA LifespanKeeps ==
    ASSUME HistoryInv,
           \/ StartupRefused \/ StartsAudit \/ Loaded \/ Shutdown \/ Killed
           \/ Moves("loading", "killed") /\ UNCHANGED trailVars
              /\ UNCHANGED <<registryVars, restarts, stranded, inquiry>>
    PROVE  HistoryInv'
  <1>1. /\ UNCHANGED registryVars /\ UNCHANGED trailVars
        /\ UNCHANGED <<restarts, stranded, inquiry>>
        /\ \/ process = "validating" /\ process' \in {"down", "loading"}
           \/ process = "loading" /\ process' \in {"serving", "killed"}
           \/ process = "serving" /\ process' = "stopping"
           \/ process' = "killed"
    BY DEF StartupRefused, StartsAudit, Loaded, Shutdown, Killed, Moves
  <1>2. /\ Coherent' /\ Paced' /\ TrailInv' /\ Signed' /\ EndRecorded'
        /\ service' = service
        /\ \A a \in Agents : Present(a)' = Present(a) /\ Updatable(a)' = Updatable(a)
    BY <1>1, QuietSteps
  <1>3. Phases'
    BY <1>1, <1>2 DEF HistoryInv, Phases
  <1>4. settledAs' = settledAs
    BY <1>1 DEF registryVars
  <1>5. HistoryTypes'
    <2>1. process' \in {"validating", "loading", "serving", "stopping", "draining",
                        "down", "killed"}
      BY <1>1
    <2>2. QED
      BY <1>1, <2>1 DEF HistoryInv, HistoryTypes
  <1>6. Asked'
    BY <1>1, <1>4 DEF HistoryInv, Asked
  <1>7. QED
    BY <1>2, <1>3, <1>5, <1>6 DEF HistoryInv

\* The audit service closes when nothing is left to cancel: after a load that
\* failed there never was an agent, after the runner closed only the stranded.
LEMMA CloseKeeps ==
    ASSUME HistoryInv, Trail!Close, process' = "draining",
           UNCHANGED <<registryVars, restarts, stranded, inquiry>>,
           \A a \in Agents : Updatable(a) => a \in stranded
    PROVE  HistoryInv'
  <1>1. TrailInv
    BY DEF HistoryInv
  <1>2. TrailDecides /\ service' = "closing"
    BY <1>1, CloseDecides
  <1>3. Coherent' /\ Paced' /\ TrailInv' /\ Signed' /\ EndRecorded'
    BY <1>2, TrailSteps
  <1>4. agentState' = agentState /\ settledAs' = settledAs
    BY DEF registryVars
  <1>5. Phases'
    BY <1>2, <1>4 DEF Phases, Present, Updatable
  <1>6. HistoryTypes' /\ Asked'
    BY <1>4 DEF HistoryInv, HistoryTypes, Asked
  <1>7. QED
    BY <1>3, <1>5, <1>6 DEF HistoryInv

LEMMA EndKeeps ==
    ASSUME HistoryInv, AuditClosed
    PROVE  HistoryInv'
  <1>1. /\ process = "draining" /\ process' = "down"
        /\ Trail!Drained \/ Trail!CutOff
        /\ UNCHANGED registryVars /\ UNCHANGED <<restarts, stranded, inquiry>>
    BY DEF AuditClosed, Moves
  <1>2. TrailInv
    BY DEF HistoryInv
  <1>3. TrailDecides /\ service' = "ended"
    BY <1>1, <1>2, EndDecides
  <1>4. Coherent' /\ Paced' /\ TrailInv' /\ Signed' /\ EndRecorded'
    BY <1>1, <1>3, TrailSteps
  <1>5. agentState' = agentState /\ settledAs' = settledAs
    BY <1>1 DEF registryVars
  <1>6. Phases'
    BY <1>1, <1>3, <1>5 DEF HistoryInv, Phases, Present, Updatable
  <1>7. HistoryTypes' /\ Asked'
    BY <1>1, <1>5 DEF HistoryInv, HistoryTypes, Asked
  <1>8. QED
    BY <1>4, <1>6, <1>7 DEF HistoryInv

\* The next process forgets its agents, but no event that is stored.
LEMMA RestartKeeps ==
    ASSUME HistoryInv, Restart
    PROVE  HistoryInv'
  <1>1. /\ process' = "validating" /\ restarts < MaxRestarts /\ restarts' = restarts + 1
        /\ agentState' = [a \in Agents |-> IF Present(a) THEN "evicted" ELSE agentState[a]]
        /\ taskQueued' = [a \in Agents |-> FALSE]
        /\ finishedAgents' = << >>
        /\ backlog' = << >> /\ service' = "open" /\ stranded' = {}
        /\ inquiry' = NoInquiry
        /\ progress' = progress /\ agentError' = agentError /\ updatedAt' = updatedAt
        /\ settledAs' = settledAs /\ settledOrder' = settledOrder
        /\ stored' = stored /\ given' = given
    BY DEF Restart
  <1>2. /\ Coherent /\ Paced /\ TrailInv /\ HistoryTypes /\ Signed
    BY DEF HistoryInv
  <1>3. \A a \in Agents : agentState'[a] \in {"unknown", "evicted"}
                          /\ (agentState'[a] = "unknown" => agentState[a] = "unknown")
    BY <1>1 DEF Present, Absent
  <1>4. Range(<< >>) = {} /\ Distinct(<< >>) /\ << >> \in Seq(Agents)
        /\ << >> \in Seq(AgentEvents)
    BY EmptySeq DEF Range, Distinct
  <1>5. Coherent'
    <2>1. RegistryTypeOK'
      BY <1>1, <1>2, <1>3, <1>4 DEF Coherent, RegistryTypeOK, Absent
    <2>2. ASSUME NEW a \in Agents
          PROVE  /\ agentState'[a] \in Terminal => settledAs'[a] = agentState'[a]
                 /\ settledAs'[a] # "none" => agentState'[a] \in Terminal \union {"evicted"}
      <3>1. agentState'[a] \notin Terminal
        BY <1>3 DEF Terminal
      <3>2. CASE agentState'[a] = "unknown"
        BY <1>1, <1>2, <1>3, <3>1, <3>2 DEF Coherent, Terminal
      <3>3. CASE agentState'[a] = "evicted"
        BY <3>1, <3>3
      <3>4. QED
        BY <1>3, <3>2, <3>3
    <2>3. QED
      BY <1>1, <1>4, <2>1, <2>2 DEF Coherent
  <1>6. Paced'
    BY <1>1, <1>2, <1>3 DEF Paced
  <1>7. TrailInv'
    <2>1. Ordered(<< >>) /\ LinedUp(stored, << >>)
      BY <1>2 DEF TrailInv, LinedUp, Ordered
    <2>2. QED
      BY <1>1, <1>2, <1>4, <2>1 DEF TrailInv, TrailTypes
  <1>8. Signed'
    <2>1. Pool' = Range(stored)
      BY <1>1, <1>4 DEF Pool
    <2>2. QED
      BY <1>1, <1>2, <2>1 DEF Signed, Pool
  <1>9. EndRecorded'
    BY <1>3 DEF EndRecorded, Terminal
  <1>10. Phases'
    BY <1>1, <1>3 DEF Phases, Present, Absent
  <1>11. HistoryTypes' /\ Asked'
    BY <1>1, <1>2, HistoryAssumption DEF HistoryTypes, Asked
  <1>12. QED
    BY <1>5, <1>6, <1>7, <1>8, <1>9, <1>10, <1>11 DEF HistoryInv

LEMMA InquiryKeeps ==
    ASSUME HistoryInv, Answered \/ \E a \in Agents : Asks(a)
    PROVE  HistoryInv'
  <1>1. /\ UNCHANGED registryVars /\ UNCHANGED trailVars
        /\ UNCHANGED <<process, restarts, stranded>>
    BY DEF Answered, Asks
  <1>2. /\ Coherent' /\ Paced' /\ TrailInv' /\ Signed' /\ EndRecorded'
        /\ service' = service
        /\ \A a \in Agents : Present(a)' = Present(a) /\ Updatable(a)' = Updatable(a)
    BY <1>1, QuietSteps
  <1>3. Phases'
    BY <1>1, <1>2 DEF HistoryInv, Phases
  <1>4. settledAs' = settledAs
    BY <1>1 DEF registryVars
  <1>5. Coherent /\ HistoryTypes
    BY DEF HistoryInv
  <1>6. CASE Answered
    <2>1. inquiry' = NoInquiry
      BY <1>6 DEF Answered
    <2>2. HistoryTypes' /\ Asked'
      BY <1>1, <1>5, <2>1 DEF HistoryTypes, Asked
    <2>3. QED
      BY <1>2, <1>3, <2>2 DEF HistoryInv
  <1>7. ASSUME NEW a \in Agents, Asks(a)
        PROVE  HistoryInv'
    <2>1. /\ agentState[a] # "unknown"
          /\ inquiry' = [agent |-> a,
                         seen |-> IF Present(a) THEN agentState[a] ELSE "absent"]
      BY <1>7 DEF Asks
    <2>2. PICK seen : seen = IF Present(a) THEN agentState[a] ELSE "absent"
      OBVIOUS
    <2>3. inquiry' = [agent |-> a, seen |-> seen]
      BY <2>1, <2>2
    <2>4. seen \in Live \union Terminal \union {"absent"}
      BY <1>5, <2>2 DEF Coherent, RegistryTypeOK, Present
    <2>5. seen \in Terminal => settledAs[a] = seen
      BY <1>5, <2>2 DEF Coherent, Terminal
    <2>6. inquiry'.agent = a /\ inquiry'.seen = seen
      BY <2>3
    <2>7. Asked'
      BY <1>4, <2>5, <2>6 DEF Asked
    <2>8. HistoryTypes'
      <3>1. inquiry' \in [agent : Agents, seen : Live \union Terminal \union {"absent"}]
        BY <2>3, <2>4
      <3>2. QED
        BY <1>1, <1>5, <3>1 DEF HistoryTypes
    <2>9. QED
      BY <1>2, <1>3, <2>7, <2>8 DEF HistoryInv
  <1>8. QED
    BY <1>6, <1>7

LEMMA NextHistoryInv == HistoryInv /\ [Next]_vars => HistoryInv'
  <1> SUFFICES ASSUME HistoryInv, [Next]_vars
               PROVE  HistoryInv'
    OBVIOUS
  <1>1. CASE process \in {"serving", "stopping"} /\
               \E a \in Agents : Spawn(a) \/ Start(a) \/ Report(a) \/ Ends(a) \/ Strand(a)
    BY <1>1, AgentsKeep
  <1>2. CASE Consume
    BY <1>2, ConsumeKeeps
  <1>3. CASE StartupRefused \/ StartsAudit \/ Loaded \/ Shutdown \/ Killed
    BY <1>3, LifespanKeeps
  <1>4. CASE LoadFails
    <2>1. UNCHANGED <<registryVars, restarts, stranded, inquiry>>
      BY <1>4 DEF LoadFails
    <2>2. CASE Moves("loading", "draining") /\ Trail!Close
      <3>1. process = "loading" /\ process' = "draining"
        BY <2>2 DEF Moves
      <3>2. \A a \in Agents : Updatable(a) => a \in stranded
        BY <3>1 DEF HistoryInv, Phases, Updatable
      <3>3. QED
        BY <2>1, <2>2, <3>1, <3>2, CloseKeeps
    <2>3. CASE Moves("loading", "killed") /\ UNCHANGED trailVars
      BY <2>1, <2>3, LifespanKeeps
    <2>4. QED
      BY <1>4, <2>2, <2>3 DEF LoadFails
  <1>5. CASE RunnerClosed
    <2>1. /\ Trail!Close /\ process' = "draining"
          /\ UNCHANGED <<registryVars, restarts, stranded, inquiry>>
          /\ \A a \in Agents : Updatable(a) => a \in stranded
      BY <1>5 DEF RunnerClosed, Moves
    <2>2. QED
      BY <2>1, CloseKeeps
  <1>6. CASE AuditClosed
    BY <1>6, EndKeeps
  <1>7. CASE Restart
    BY <1>7, RestartKeeps
  <1>8. CASE Answered \/ \E a \in Agents : Asks(a)
    BY <1>8, InquiryKeeps
  <1>9. CASE UNCHANGED vars
    <2>1. /\ UNCHANGED registryVars /\ UNCHANGED trailVars
          /\ UNCHANGED <<process, restarts, stranded, inquiry>>
      BY <1>9 DEF vars
    <2>2. /\ Coherent' /\ Paced' /\ TrailInv' /\ Signed' /\ EndRecorded'
          /\ service' = service
          /\ \A a \in Agents : Present(a)' = Present(a) /\ Updatable(a)' = Updatable(a)
      BY <2>1, QuietSteps
    <2>3. settledAs' = settledAs
      BY <2>1 DEF registryVars
    <2>4. Phases' /\ Asked' /\ HistoryTypes'
      <3>1. Phases'
        BY <2>1, <2>2 DEF HistoryInv, Phases
      <3>2. Asked' /\ HistoryTypes'
        BY <2>1, <2>3 DEF HistoryInv, Asked, HistoryTypes
      <3>3. QED
        BY <3>1, <3>2
    <2>5. QED
      BY <2>2, <2>4 DEF HistoryInv
  <1>10. QED
    BY <1>1, <1>2, <1>3, <1>4, <1>5, <1>6, <1>7, <1>8, <1>9 DEF Next, Lifespan, Terminated

----------------------------------------------------------------------------
(* The theorems *)

\* The invariant holds in every state, whatever is given up, cut off or lost
\* with a process.
THEOREM HistoryInvariance == Spec => []HistoryInv
  BY InitHistoryInv, NextHistoryInv, PTL DEF Spec

\* The rows of an agent, and the events they come from.
RowsOf(a) == Filter(stored, {e \in AgentEvents : e.agent = a})

StoredOf(a) == {e \in Range(stored) : e.agent = a}

LEMMA RowsProperties ==
    ASSUME TrailInv, NEW a \in Agents
    PROVE  /\ RowsOf(a) \in Seq(AgentEvents)
           /\ Ordered(RowsOf(a))
           /\ Range(RowsOf(a)) = StoredOf(a)
  <1>1. stored \in Seq(AgentEvents) /\ Ordered(stored)
    BY DEF TrailInv, TrailTypes, LinedUp
  <1>2. Range(stored) \subseteq AgentEvents
    BY <1>1, LenProperties, ElementOfSeq DEF Range
  <1>3. PICK S : S = {e \in AgentEvents : e.agent = a}
    OBVIOUS
  <1>4. Filter(stored, S) \in Seq(AgentEvents)
    BY <1>1, FilterSeq
  <1>5. Ordered(Filter(stored, S))
    BY <1>1, OrderedFilter
  <1>6. Range(Filter(stored, S)) = Range(stored) \intersect S
    BY <1>1, FilterRange
  <1>7. Range(stored) \intersect S = StoredOf(a)
    BY <1>2, <1>3 DEF StoredOf
  <1>8. RowsOf(a) = Filter(stored, S)
    BY <1>3, Zenon DEF RowsOf
  <1>9. QED
    BY <1>4, <1>5, <1>6, <1>7, <1>8

\* What the limit of the query leaves of the rows: it cuts off their old end only.
Newest(rows) ==
    IF Len(rows) > HistoryLimit
    THEN SubSeq(rows, Len(rows) - HistoryLimit + 1, Len(rows)) ELSE rows

LEMMA LimitKeepsLast ==
    ASSUME NEW U, NEW rows \in Seq(U), NEW n \in Nat, n = Len(rows),
           NEW kept, kept = Newest(rows)
    PROVE  IF n = 0 THEN kept = << >>
           ELSE kept # << >> /\ kept[Len(kept)] = rows[n]
  <1>1. HistoryLimit \in Nat /\ HistoryLimit >= 1
    BY HistoryAssumption
  <1>2. CASE n > HistoryLimit
    <2>1. PICK k \in 0 .. n : k = n - HistoryLimit
      <3>1. n - HistoryLimit \in 0 .. n
        BY <1>1, <1>2
      <3>2. QED
        BY <3>1
    <2>2. kept = SubSeq(rows, k + 1, n)
      BY <1>2, <2>1 DEF Newest
    <2>3. /\ kept \in Seq(U)
          /\ Len(kept) = n - k
          /\ \A i \in 1 .. n - k : kept[i] = rows[k + i]
      BY <2>2, DropProperties
    <2>4. n - k \in 1 .. n - k /\ k + (n - k) = n /\ n - k # 0 /\ n # 0
      BY <1>1, <1>2, <2>1
    <2>5. kept[Len(kept)] = rows[n]
      BY <2>3, <2>4
    <2>6. kept # << >>
      BY <2>3, <2>4, EmptySeq
    <2>7. QED
      BY <2>4, <2>5, <2>6
  <1>3. CASE ~(n > HistoryLimit)
    <2>1. kept = rows
      BY <1>3 DEF Newest
    <2>2. n = 0 <=> rows = << >>
      BY EmptySeq
    <2>3. QED
      BY <2>1, <2>2
  <1>4. QED
    BY <1>2, <1>3

\* An agent is rebuilt from the newest of its stored events.
LEMMA RebuiltFromNewest ==
    ASSUME TrailInv, NEW a \in Agents
    PROVE  \/ StoredOf(a) = {} /\ Rebuilt(a) = "not found"
           \/ \E e \in StoredOf(a) :
                /\ Rebuilt(a) = StateOf(e.kind)
                /\ \A x \in StoredOf(a) : x.nr < e.nr \/ x = e
  <1>1. PICK rows \in Seq(AgentEvents) : rows = RowsOf(a)
    BY RowsProperties
  <1>2. Ordered(rows) /\ Range(rows) = StoredOf(a)
    BY <1>1, RowsProperties
  <1>3. PICK n \in Nat : n = Len(rows) /\ DOMAIN rows = 1 .. n
    BY LenProperties
  <1>4. PICK kept : kept = Fetched(a)
    OBVIOUS
  <1>5. kept = Newest(rows)
    BY <1>1, <1>4, Zenon DEF Fetched, RowsOf, Newest
  <1>6. IF n = 0 THEN kept = << >> ELSE kept # << >> /\ kept[Len(kept)] = rows[n]
    BY <1>3, <1>5, LimitKeepsLast
  <1>7. CASE n = 0
    <2>1. StoredOf(a) = {}
      BY <1>2, <1>3, <1>7 DEF Range
    <2>2. Rebuilt(a) = "not found"
      BY <1>4, <1>6, <1>7 DEF Rebuilt
    <2>3. QED
      BY <2>1, <2>2
  <1>8. CASE n # 0
    <2>1. PICK e : e = rows[n]
      OBVIOUS
    <2>2. Rebuilt(a) = StateOf(e.kind)
      BY <1>4, <1>6, <1>8, <2>1, Zenon DEF Rebuilt
    <2>3. n \in DOMAIN rows
      BY <1>3, <1>8
    <2>4. e \in StoredOf(a)
      BY <1>2, <2>1, <2>3 DEF Range
    <2>5. ASSUME NEW i \in DOMAIN rows, i # n
          PROVE  rows[i].nr < e.nr
      <3>1. i < n
        BY <1>3, <2>5
      <3>2. Before(rows[i], e)
        BY <1>2, <2>1, <2>3, <3>1 DEF Ordered
      <3>3. rows[i] \in StoredOf(a)
        BY <1>2 DEF Range
      <3>4. QED
        BY <2>4, <3>2, <3>3 DEF Before, StoredOf
    <2>6. \A x \in StoredOf(a) : x.nr < e.nr \/ x = e
      BY <1>2, <2>1, <2>5 DEF Range
    <2>7. QED
      BY <2>2, <2>4, <2>6
  <1>9. QED
    BY <1>7, <1>8

\* What Postgres holds of an agent's end is its last word, and the right one.
LEMMA RebuiltRight ==
    ASSUME HistoryInv, NEW a \in Agents
    PROVE  IF EndIn(a, Range(stored)) THEN Rebuilt(a) = settledAs[a]
           ELSE Rebuilt(a) \notin Terminal
  <1>1. TrailInv /\ Signed
    BY DEF HistoryInv
  <1>2. StoredOf(a) \subseteq Pool /\ Pool \subseteq AgentEvents
    BY <1>1, PoolEvents DEF TrailInv, StoredOf, Pool
  <1>3. CASE StoredOf(a) = {} /\ Rebuilt(a) = "not found"
    <2>1. ~EndIn(a, Range(stored))
      BY <1>3 DEF EndIn, StoredOf
    <2>2. QED
      BY <1>3, <2>1 DEF Terminal
  <1>4. CASE \E e \in StoredOf(a) :
               /\ Rebuilt(a) = StateOf(e.kind)
               /\ \A x \in StoredOf(a) : x.nr < e.nr \/ x = e
    <2>1. PICK e \in StoredOf(a) :
               /\ Rebuilt(a) = StateOf(e.kind)
               /\ \A x \in StoredOf(a) : x.nr < e.nr \/ x = e
      BY <1>4
    <2>2. e \in Pool /\ e.agent = a /\ e.nr \in Nat /\ e.kind \in Kinds
      BY <1>2, EventType DEF StoredOf
    <2>3. CASE EndIn(a, Range(stored))
      <3>1. PICK x \in StoredOf(a) : x.kind \in Terminal
        BY <2>3 DEF EndIn, StoredOf
      <3>2. x \in Pool /\ x.agent = a /\ x.nr \in Nat
        BY <1>2, EventType DEF StoredOf
      <3>3. x.nr = updatedAt[a] /\ settledAs[a] = x.kind /\ e.nr <= updatedAt[a]
        BY <1>1, <2>2, <3>1, <3>2 DEF Signed
      <3>4. x = e
        <4>1. ~(x.nr < e.nr)
          BY <2>2, <3>2, <3>3
        <4>2. QED
          BY <2>1, <4>1
      <3>5. StateOf(e.kind) = e.kind
        BY <3>1, <3>4 DEF StateOf, Terminal
      <3>6. QED
        BY <2>1, <2>3, <3>3, <3>4, <3>5
    <2>4. CASE ~EndIn(a, Range(stored))
      <3>1. e.kind \in {"spawned", "started", "progress"}
        BY <2>2, <2>4 DEF EndIn, StoredOf, Kinds
      <3>2. StateOf(e.kind) \in {"pending", "running"}
        BY <3>1 DEF StateOf
      <3>3. QED
        BY <2>1, <2>4, <3>2 DEF Terminal
    <2>5. QED
      BY <2>3, <2>4
  <1>5. QED
    BY <1>1, <1>3, <1>4, RebuiltFromNewest

\* An inquiry that saw the agent answers what it saw; one that did not answers
\* what Postgres holds.
LEMMA AnswerRight ==
    ASSUME HistoryInv, inquiry # NoInquiry, Answer \in Terminal
    PROVE  Answer = settledAs[inquiry.agent]
  <1>1. HistoryTypes /\ Asked
    BY DEF HistoryInv
  <1>2. inquiry.agent \in Agents
    BY <1>1 DEF HistoryTypes
  <1>3. CASE inquiry.seen = "absent"
    <2>1. Answer = Rebuilt(inquiry.agent)
      BY <1>3 DEF Answer
    <2>2. QED
      BY <1>2, <2>1, RebuiltRight
  <1>4. CASE inquiry.seen # "absent"
    <2>1. Answer = inquiry.seen
      BY <1>4 DEF Answer
    <2>2. QED
      BY <1>1, <2>1 DEF Asked
  <1>5. QED
    BY <1>3, <1>4

LEMMA HistoryInvTypeOK == HistoryInv => TypeOK
  BY DEF HistoryInv, Coherent, TrailInv, TrailTypes, HistoryTypes, TypeOK

\* _reconstruct_detail() and get_agent() in api/routes/agents.py: for every
\* limit of the query, however many events were given up, stored twice or cut
\* off, and in whichever process the agent lived, what is told of its end is
\* how it ended.
THEOREM RebuiltTruth == Spec => []RebuiltAgrees
  <1>1. HistoryInv => RebuiltAgrees
    BY HistoryInvTypeOK, RebuiltRight, AnswerRight DEF RebuiltAgrees
  <1>2. QED
    BY <1>1, HistoryInvariance, PTL

\* The finally block of lifespan() in main.py: the audit service closes when no
\* agent can record anything any more, and once it has drained every end is
\* stored or was given up with a log record.
THEOREM ShutdownKeepsHistory == Spec => []HistoryOutlivesProcess
  <1>1. ASSUME HistoryInv
        PROVE  HistoryOutlivesProcess
    <2>1. Coherent /\ TrailInv /\ EndRecorded /\ Phases
      BY <1>1 DEF HistoryInv
    <2>2. ASSUME process = "down", backlog = << >>, NEW a \in Agents, Present(a)
          PROVE  EndIn(a, Range(stored) \union given) \/ a \in stranded
      <3>1. Known = Range(stored) \union given
        <4>1. Range(backlog) = {}
          BY <2>2 DEF Range
        <4>2. QED
          BY <4>1 DEF Known, Pool
      <3>2. CASE agentState[a] \in Terminal
        BY <2>1, <3>1, <3>2 DEF EndRecorded
      <3>3. CASE agentState[a] \notin Terminal
        <4>1. service # "open"
          BY <2>1, <2>2 DEF Phases
        <4>2. Updatable(a)
          BY <2>2, <3>3 DEF Updatable
        <4>3. QED
          BY <2>1, <4>1, <4>2 DEF Phases
      <3>4. QED
        BY <3>2, <3>3
    <2>3. QED
      BY <2>1, <2>2 DEF HistoryOutlivesProcess, Phases
  <1>2. QED
    BY <1>1, HistoryInvariance, PTL

=============================================================================
