----------------------------- MODULE ListLemmas -----------------------------
(***************************************************************************)
(* Lemmas about the lists of the program: windows, queues and a session's  *)
(* runs, in which nothing occurs twice, and what a filter keeps of them.   *)
(***************************************************************************)
EXTENDS Integers, Lists, Functions, SequenceTheorems, WellFoundedInduction,
        TLAPS

----------------------------------------------------------------------------
(* Lists without repetitions *)

Distinct(q) == \A i, j \in DOMAIN q : q[i] = q[j] => i = j

\* Appending something new to a list without repetitions.
LEMMA AppendDistinct ==
    ASSUME NEW S, NEW q \in Seq(S), NEW e \in S, Distinct(q), e \notin Range(q)
    PROVE  /\ Append(q, e) \in Seq(S)
           /\ Distinct(Append(q, e))
           /\ Range(Append(q, e)) = Range(q) \union {e}
           /\ Len(Append(q, e)) = Len(q) + 1
  <1>1. Len(q) \in Nat /\ DOMAIN q = 1 .. Len(q)
    BY LenProperties
  <1>2. /\ Append(q, e) \in Seq(S)
        /\ Len(Append(q, e)) = Len(q) + 1
        /\ \A i \in 1 .. Len(q) : Append(q, e)[i] = q[i]
        /\ Append(q, e)[Len(q) + 1] = e
    BY AppendProperties
  <1>3. DOMAIN Append(q, e) = 1 .. (Len(q) + 1)
    BY <1>2, LenProperties
  <1>4. Range(Append(q, e)) = Range(q) \union {e}
    <2> HIDE DEF Range
    <2>1. \A i \in DOMAIN Append(q, e) : Append(q, e)[i] \in Range(q) \union {e}
      BY <1>1, <1>2, <1>3 DEF Range
    <2>2. \A i \in DOMAIN q : q[i] \in Range(Append(q, e))
      BY <1>1, <1>2, <1>3 DEF Range
    <2>3. e \in Range(Append(q, e))
      BY <1>1, <1>2, <1>3 DEF Range
    <2>4. QED
      BY <2>1, <2>2, <2>3 DEF Range
  <1>5. Distinct(Append(q, e))
    <2>1. \A i \in 1 .. Len(q) : q[i] # e
      BY <1>1 DEF Range
    <2>2. QED
      BY <1>1, <1>2, <1>3, <2>1 DEF Distinct
  <1>6. QED
    BY <1>2, <1>4, <1>5

\* What popleft() leaves of a list without repetitions.
LEMMA TailDistinct ==
    ASSUME NEW S, NEW q \in Seq(S), q # << >>, Distinct(q)
    PROVE  /\ Head(q) \in Range(q)
           /\ Tail(q) \in Seq(S)
           /\ Distinct(Tail(q))
           /\ Range(Tail(q)) = Range(q) \ {Head(q)}
           /\ Len(Tail(q)) = Len(q) - 1
  <1>1. Len(q) \in Nat \ {0} /\ DOMAIN q = 1 .. Len(q)
    BY LenProperties, EmptySeq
  <1>2. /\ Tail(q) \in Seq(S)
        /\ Len(Tail(q)) = Len(q) - 1
        /\ \A i \in 1 .. (Len(q) - 1) : Tail(q)[i] = q[i + 1]
        /\ DOMAIN Tail(q) = 1 .. (Len(q) - 1)
    BY HeadTailProperties, LenProperties
  <1>3. Head(q) = q[1]
    BY <1>1
  <1>4. Distinct(Tail(q))
    BY <1>1, <1>2 DEF Distinct
  <1>5. Range(Tail(q)) = Range(q) \ {Head(q)}
    <2>1. \A i \in DOMAIN Tail(q) : Tail(q)[i] \in Range(q) /\ Tail(q)[i] # q[1]
      BY <1>1, <1>2 DEF Range, Distinct
    <2>2. ASSUME NEW i \in DOMAIN q, q[i] # q[1]
          PROVE  q[i] \in Range(Tail(q))
      <3>1. i - 1 \in 1 .. (Len(q) - 1)
        BY <1>1, <2>2
      <3>2. Tail(q)[i - 1] = q[i]
        BY <1>1, <1>2, <3>1
      <3>3. QED
        BY <1>2, <3>1, <3>2 DEF Range
    <2>3. QED
      BY <1>3, <2>1, <2>2 DEF Range
  <1>6. Head(q) \in Range(q)
    BY <1>1, <1>3 DEF Range
  <1>7. QED
    BY <1>2, <1>4, <1>5, <1>6

\* A list continued by another one it shares nothing with.
LEMMA ConcatDistinct ==
    ASSUME NEW S, NEW p \in Seq(S), NEW q \in Seq(S),
           Distinct(p), Distinct(q), Range(p) \intersect Range(q) = {}
    PROVE  /\ p \o q \in Seq(S)
           /\ Len(p \o q) = Len(p) + Len(q)
           /\ Distinct(p \o q)
           /\ Range(p \o q) = Range(p) \union Range(q)
  <1>1. /\ Len(p) \in Nat /\ DOMAIN p = 1 .. Len(p)
        /\ Len(q) \in Nat /\ DOMAIN q = 1 .. Len(q)
    BY LenProperties
  <1>2. /\ p \o q \in Seq(S)
        /\ Len(p \o q) = Len(p) + Len(q)
        /\ \A i \in 1 .. Len(p) + Len(q) :
             (p \o q)[i] = IF i <= Len(p) THEN p[i] ELSE q[i - Len(p)]
    BY ConcatProperties
  <1>3. DOMAIN (p \o q) = 1 .. (Len(p) + Len(q))
    BY <1>2, LenProperties
  <1>4. \A i \in DOMAIN p : (p \o q)[i] = p[i] /\ i \in DOMAIN (p \o q)
    BY <1>1, <1>2, <1>3
  <1>5. \A i \in DOMAIN q : /\ (p \o q)[i + Len(p)] = q[i]
                            /\ i + Len(p) \in DOMAIN (p \o q)
    BY <1>1, <1>2, <1>3
  <1>6. \A i \in DOMAIN (p \o q) : \/ i \in DOMAIN p /\ (p \o q)[i] = p[i]
                                   \/ /\ i - Len(p) \in DOMAIN q
                                      /\ (p \o q)[i] = q[i - Len(p)]
    BY <1>1, <1>2, <1>3
  <1>7. Range(p \o q) = Range(p) \union Range(q)
    <2>1. \A i \in DOMAIN (p \o q) : (p \o q)[i] \in Range(p) \union Range(q)
      BY <1>6 DEF Range
    <2>2. \A i \in DOMAIN p : p[i] \in Range(p \o q)
      BY <1>4 DEF Range
    <2>3. \A i \in DOMAIN q : q[i] \in Range(p \o q)
      BY <1>5 DEF Range
    <2>4. QED
      BY <2>1, <2>2, <2>3 DEF Range
  <1>8. Distinct(p \o q)
    <2>1. \A i \in DOMAIN p, j \in DOMAIN q : p[i] # q[j]
      BY DEF Range
    <2>2. QED
      BY <1>1, <1>3, <1>6, <2>1 DEF Distinct
  <1>9. QED
    BY <1>2, <1>7, <1>8

\* What is left of a list once its first k are dropped.
LEMMA DropProperties ==
    ASSUME NEW S, NEW q \in Seq(S), NEW k \in 0 .. Len(q)
    PROVE  /\ SubSeq(q, k + 1, Len(q)) \in Seq(S)
           /\ Len(SubSeq(q, k + 1, Len(q))) = Len(q) - k
           /\ \A i \in 1 .. Len(q) - k : SubSeq(q, k + 1, Len(q))[i] = q[k + i]
  <1>1. Len(q) \in Nat /\ k \in Nat
    BY LenProperties
  <1>2. \A i \in (k + 1) .. Len(q) : q[i] \in S
    BY <1>1, ElementOfSeq
  <1>3. /\ SubSeq(q, k + 1, Len(q)) \in Seq(S)
        /\ Len(SubSeq(q, k + 1, Len(q))) =
             IF k + 1 <= Len(q) THEN Len(q) - (k + 1) + 1 ELSE 0
        /\ \A i \in 1 .. Len(q) - (k + 1) + 1 :
             SubSeq(q, k + 1, Len(q))[i] = q[(k + 1) + i - 1]
    BY <1>1, <1>2, SubSeqProperties
  <1>4. QED
    BY <1>1, <1>3

\* The same of a list without repetitions.
LEMMA DropDistinct ==
    ASSUME NEW S, NEW q \in Seq(S), Distinct(q), NEW k \in 0 .. Len(q)
    PROVE  Range(SubSeq(q, k + 1, Len(q))) = Range(q) \ {q[i] : i \in 1 .. k}
  <1> DEFINE rest == SubSeq(q, k + 1, Len(q))
  <1>1. Len(q) \in Nat /\ DOMAIN q = 1 .. Len(q) /\ k \in Nat
    BY LenProperties
  <1>3. /\ rest \in Seq(S)
        /\ Len(rest) = Len(q) - k
        /\ \A i \in 1 .. Len(q) - k : rest[i] = q[k + i]
    BY DropProperties
  <1>4. DOMAIN rest = 1 .. (Len(q) - k)
    BY <1>3, LenProperties
  <1> HIDE DEF rest
  <1>5. \A i \in DOMAIN rest : rest[i] \in Range(q) \ {q[j] : j \in 1 .. k}
    <2> TAKE i \in DOMAIN rest
    <2>1. rest[i] = q[k + i] /\ k + i \in DOMAIN q
      BY <1>1, <1>3, <1>4
    <2>2. \A j \in 1 .. k : j \in DOMAIN q /\ j # k + i
      BY <1>1, <1>4
    <2>3. \A j \in 1 .. k : q[j] # q[k + i]
      BY <2>1, <2>2 DEF Distinct
    <2>4. QED
      BY <2>1, <2>3 DEF Range
  <1>6. ASSUME NEW i \in DOMAIN q, q[i] \notin {q[j] : j \in 1 .. k}
        PROVE  q[i] \in Range(rest)
    <2>1. i - k \in 1 .. (Len(q) - k) /\ k + (i - k) = i
      BY <1>1, <1>6
    <2>2. rest[i - k] = q[i]
      BY <1>3, <2>1
    <2>3. QED
      BY <1>4, <2>1, <2>2 DEF Range
  <1>7. Range(rest) = Range(q) \ {q[i] : i \in 1 .. k}
    BY <1>5, <1>6 DEF Range
  <1>8. QED
    BY <1>7 DEF rest

----------------------------------------------------------------------------
(* Concatenation *)

\* One more element of a concatenation.
LEMMA ConcatAppend ==
    ASSUME NEW U, NEW p \in Seq(U), NEW q \in Seq(U), NEW e \in U
    PROVE  p \o Append(q, e) = Append(p \o q, e)
  <1>1. <<e>> \in Seq(U) /\ p \o q \in Seq(U)
    <2>1. << >> \in Seq(U) /\ Append(<< >>, e) = <<e>>
      BY EmptySeq
    <2>2. QED
      BY <2>1, AppendProperties, ConcatProperties
  <1>2. PICK pq \in Seq(U) : pq = p \o q
    BY <1>1
  <1>3. Append(q, e) = q \o <<e>> /\ Append(pq, e) = pq \o <<e>>
    BY AppendIsConcat
  <1>4. (p \o q) \o <<e>> = p \o (q \o <<e>>)
    BY <1>1, ConcatAssociative
  <1>5. QED
    BY <1>2, <1>3, <1>4, Zenon

\* The entries of a concatenation, counted from where they were.
LEMMA ConcatAt ==
    ASSUME NEW U, NEW p \in Seq(U), NEW q \in Seq(U)
    PROVE  /\ p \o q \in Seq(U)
           /\ Len(p) \in Nat /\ Len(q) \in Nat
           /\ Len(p \o q) = Len(p) + Len(q)
           /\ \A i \in 1 .. Len(p) : (p \o q)[i] = p[i]
           /\ \A i \in 1 .. Len(q) : (p \o q)[Len(p) + i] = q[i]
  <1>1. PICK m \in Nat, n \in Nat : m = Len(p) /\ n = Len(q)
    BY LenProperties
  <1>2. PICK pq \in Seq(U) : pq = p \o q
    BY ConcatProperties
  <1>3. /\ Len(pq) = m + n
        /\ \A i \in 1 .. m + n : pq[i] = IF i <= m THEN p[i] ELSE q[i - m]
    <2>1. /\ Len(pq) = Len(p) + Len(q)
          /\ \A i \in 1 .. Len(p) + Len(q) :
               pq[i] = IF i <= Len(p) THEN p[i] ELSE q[i - Len(p)]
      BY <1>2, ConcatProperties
    <2>2. QED
      BY <1>1, <2>1
  <1>4. \A i \in 1 .. m : pq[i] = p[i]
    BY <1>3
  <1>5. \A i \in 1 .. n : pq[m + i] = q[i]
    <2> TAKE i \in 1 .. n
    <2>1. m + i \in 1 .. m + n /\ ~(m + i <= m) /\ (m + i) - m = i
      OBVIOUS
    <2>2. QED
      BY <1>3, <2>1
  <1>6. QED
    BY <1>2, <1>1, <1>3, <1>4, <1>5, Zenon

\* A concatenation comes apart where it was joined.
LEMMA SplitConcat ==
    ASSUME NEW U, NEW p \in Seq(U), NEW q \in Seq(U)
    PROVE  /\ SubSeq(p \o q, 1, Len(p)) = p
           /\ SubSeq(p \o q, Len(p) + 1, Len(p \o q)) = q
  <1>1. PICK m \in Nat, n \in Nat : m = Len(p) /\ n = Len(q)
    BY LenProperties
  <1>2. PICK pq \in Seq(U) : pq = p \o q
    BY ConcatProperties
  <1>3. /\ Len(pq) = m + n
        /\ \A i \in 1 .. m : pq[i] = p[i]
        /\ \A i \in 1 .. n : pq[m + i] = q[i]
    <2>1. /\ Len(pq) = Len(p) + Len(q)
          /\ \A i \in 1 .. Len(p) : pq[i] = p[i]
          /\ \A i \in 1 .. Len(q) : pq[Len(p) + i] = q[i]
      BY <1>2, ConcatAt
    <2>2. QED
      BY <1>1, <2>1
  <1>4. PICK front : front = SubSeq(pq, 1, m)
    OBVIOUS
  <1>5. /\ front \in Seq(U)
        /\ Len(front) = m
        /\ \A i \in 1 .. m : front[i] = pq[i]
    <2>1. \A i \in 1 .. m : pq[i] \in U
      BY <1>3, ElementOfSeq
    <2>2. /\ SubSeq(pq, 1, m) \in Seq(U)
          /\ Len(SubSeq(pq, 1, m)) = IF 1 <= m THEN m - 1 + 1 ELSE 0
          /\ \A i \in 1 .. m - 1 + 1 : SubSeq(pq, 1, m)[i] = pq[1 + i - 1]
      BY <2>1, SubSeqProperties
    <2>3. QED
      BY <1>4, <2>2
  <1>6. front = p
    BY <1>1, <1>3, <1>5, SeqEqual
  <1>7. PICK rest : rest = SubSeq(pq, m + 1, Len(pq))
    OBVIOUS
  <1>8. /\ rest \in Seq(U)
        /\ Len(rest) = n
        /\ \A i \in 1 .. n : rest[i] = pq[m + i]
    <2>1. m \in 0 .. Len(pq) /\ Len(pq) - m = n
      BY <1>3
    <2>2. QED
      BY <1>7, <2>1, DropProperties
  <1>9. rest = q
    BY <1>1, <1>3, <1>8, SeqEqual, Zenon
  <1>10. QED
    BY <1>2, <1>1, <1>4, <1>6, <1>7, <1>9, Zenon

\* The head and the tail of a concatenation.
LEMMA HeadConcat ==
    ASSUME NEW U, NEW p \in Seq(U), NEW q \in Seq(U), p # << >>
    PROVE  /\ p \o q # << >>
           /\ Head(p \o q) = Head(p)
           /\ Tail(p \o q) = Tail(p) \o q
  <1>1. PICK m \in Nat, n \in Nat : m + 1 = Len(p) /\ n = Len(q)
    <2>1. Len(p) \in Nat \ {0} /\ Len(q) \in Nat
      BY EmptySeq, LenProperties
    <2>2. Len(p) - 1 \in Nat /\ (Len(p) - 1) + 1 = Len(p)
      BY <2>1
    <2>3. QED
      BY <2>1, <2>2
  <1>2. PICK pq \in Seq(U) : pq = p \o q
    BY ConcatProperties
  <1>3. /\ Len(pq) = (m + 1) + n
        /\ \A i \in 1 .. m + 1 : pq[i] = p[i]
        /\ \A i \in 1 .. n : pq[(m + 1) + i] = q[i]
    <2>1. /\ Len(pq) = Len(p) + Len(q)
          /\ \A i \in 1 .. Len(p) : pq[i] = p[i]
          /\ \A i \in 1 .. Len(q) : pq[Len(p) + i] = q[i]
      BY <1>2, ConcatAt
    <2>2. QED
      BY <1>1, <2>1
  <1>4. pq # << >>
    BY <1>3, EmptySeq
  <1>5. PICK t \in Seq(U) : /\ t = Tail(p) /\ Len(t) = m
                            /\ \A i \in 1 .. m : t[i] = p[i + 1]
    <2>1. PICK r \in Seq(U) : r = Tail(p)
      BY HeadTailProperties
    <2>2. Len(r) = Len(p) - 1 /\ \A i \in 1 .. Len(r) : r[i] = p[i + 1]
      BY <2>1, HeadTailProperties
    <2>3. Len(r) = m
      BY <1>1, <2>2
    <2>4. QED
      BY <2>1, <2>2, <2>3
  <1>6. PICK tq \in Seq(U) : tq = t \o q
    BY ConcatProperties
  <1>7. /\ Len(tq) = m + n
        /\ \A i \in 1 .. m : tq[i] = t[i]
        /\ \A i \in 1 .. n : tq[m + i] = q[i]
    <2>1. /\ Len(tq) = Len(t) + Len(q)
          /\ \A i \in 1 .. Len(t) : tq[i] = t[i]
          /\ \A i \in 1 .. Len(q) : tq[Len(t) + i] = q[i]
      BY <1>6, ConcatAt
    <2>2. QED
      BY <1>1, <1>5, <2>1
  <1>8. PICK tpq \in Seq(U) : tpq = Tail(pq)
    BY <1>4, HeadTailProperties
  <1>9. /\ Len(tpq) = m + n
        /\ \A i \in 1 .. m + n : tpq[i] = pq[i + 1]
    <2>1. /\ Len(tpq) = Len(pq) - 1
          /\ \A i \in 1 .. Len(tpq) : tpq[i] = pq[i + 1]
      BY <1>4, <1>8, HeadTailProperties
    <2>2. QED
      BY <1>3, <2>1
  <1>10. tpq = tq
    <2>1. \A i \in 1 .. m : tpq[i] = tq[i]
      <3> TAKE i \in 1 .. m
      <3>1. i \in 1 .. m + n /\ i + 1 \in 1 .. m + 1
        OBVIOUS
      <3>2. tpq[i] = pq[i + 1]
        BY <1>9, <3>1
      <3>3. pq[i + 1] = p[i + 1]
        BY <1>3, <3>1
      <3>4. tq[i] = t[i] /\ t[i] = p[i + 1]
        BY <1>5, <1>7
      <3>5. QED
        BY <3>2, <3>3, <3>4
    <2>2. \A i \in 1 .. n : tpq[m + i] = tq[m + i]
      <3> TAKE i \in 1 .. n
      <3>1. m + i \in 1 .. m + n /\ (m + i) + 1 = (m + 1) + i
        OBVIOUS
      <3>2. tpq[m + i] = pq[(m + 1) + i]
        BY <1>9, <3>1
      <3>3. pq[(m + 1) + i] = q[i]
        BY <1>3
      <3>4. tq[m + i] = q[i]
        BY <1>7
      <3>5. QED
        BY <3>2, <3>3, <3>4
    <2>3. \A i \in 1 .. m + n : i \in 1 .. m \/ (i - m \in 1 .. n /\ m + (i - m) = i)
      OBVIOUS
    <2>4. \A i \in 1 .. Len(tpq) : tpq[i] = tq[i]
      BY <1>9, <2>1, <2>2, <2>3
    <2>5. QED
      BY <1>7, <1>9, <2>4, SeqEqual
  <1>11. Head(pq) = Head(p)
    BY <1>3, <1>4
  <1>12. QED
    BY <1>2, <1>4, <1>5, <1>6, <1>8, <1>10, <1>11, Zenon

\* Both parts of a list without repetitions are such lists, and disjoint.
LEMMA PartsDistinct ==
    ASSUME NEW U, NEW p \in Seq(U), NEW q \in Seq(U), Distinct(p \o q)
    PROVE  Distinct(p) /\ Distinct(q) /\ Range(p) \intersect Range(q) = {}
  <1>1. PICK m \in Nat, n \in Nat : /\ m = Len(p) /\ n = Len(q)
                                    /\ DOMAIN p = 1 .. m /\ DOMAIN q = 1 .. n
    BY LenProperties
  <1>2. PICK pq \in Seq(U) : pq = p \o q
    BY ConcatProperties
  <1>3. /\ Len(pq) = m + n
        /\ \A i \in 1 .. m : pq[i] = p[i]
        /\ \A i \in 1 .. n : pq[m + i] = q[i]
    <2>1. /\ Len(pq) = Len(p) + Len(q)
          /\ \A i \in 1 .. Len(p) : pq[i] = p[i]
          /\ \A i \in 1 .. Len(q) : pq[Len(p) + i] = q[i]
      BY <1>2, ConcatAt
    <2>2. QED
      BY <1>1, <2>1
  <1>4. \A i, j \in 1 .. m + n : pq[i] = pq[j] => i = j
    BY <1>2, <1>3, LenProperties DEF Distinct
  <1>5. Distinct(p)
    BY <1>1, <1>3, <1>4 DEF Distinct
  <1>6. \A i, j \in 1 .. n : pq[m + i] = pq[m + j] => i = j
    <2> TAKE i, j \in 1 .. n
    <2>1. m + i \in 1 .. m + n /\ m + j \in 1 .. m + n
      OBVIOUS
    <2>2. QED
      BY <1>4, <2>1
  <1>7. Distinct(q)
    BY <1>1, <1>3, <1>6 DEF Distinct
  <1>8. Range(p) \intersect Range(q) = {}
    <2>1. ASSUME NEW i \in 1 .. m, NEW j \in 1 .. n PROVE p[i] # q[j]
      <3>1. i \in 1 .. m + n /\ m + j \in 1 .. m + n /\ i # m + j
        OBVIOUS
      <3>2. pq[i] # pq[m + j]
        BY <1>4, <3>1
      <3>3. QED
        BY <1>3, <3>2
    <2>2. QED
      BY <1>1, <2>1 DEF Range
  <1>9. QED
    BY <1>5, <1>7, <1>8

\* A concatenation around the head of its second part.
LEMMA AroundHead ==
    ASSUME NEW U, NEW p \in Seq(U), NEW q \in Seq(U), q # << >>
    PROVE  /\ Len(p) + 1 \in DOMAIN (p \o q)
           /\ (p \o q)[Len(p) + 1] = Head(q)
           /\ SubSeq(p \o q, 1, Len(p)) = p
           /\ SubSeq(p \o q, Len(p) + 2, Len(p \o q)) = Tail(q)
  <1>1. PICK head \in U, tail \in Seq(U) : head = Head(q) /\ tail = Tail(q)
    BY HeadTailProperties
  <1>2. Len(p) \in Nat /\ Len(q) \in Nat \ {0} /\ q[1] = head
    BY <1>1, EmptySeq, LenProperties
  <1>3. PICK pq \in Seq(U) : pq = p \o q
    BY ConcatProperties
  <1>4. /\ Len(pq) = Len(p) + Len(q)
        /\ \A i \in 1 .. Len(p) : pq[i] = p[i]
        /\ \A i \in 1 .. Len(q) : pq[Len(p) + i] = q[i]
    BY <1>3, ConcatAt
  <1>5. Len(p) + 1 \in DOMAIN pq /\ pq[Len(p) + 1] = head
    BY <1>2, <1>4, LenProperties
  <1>6. SubSeq(pq, 1, Len(p)) = p
    BY <1>3, SplitConcat
  <1>7. PICK rest : rest = SubSeq(pq, Len(p) + 2, Len(pq))
    OBVIOUS
  <1>8. /\ rest \in Seq(U)
        /\ Len(rest) = Len(q) - 1
        /\ \A i \in 1 .. Len(q) - 1 : rest[i] = pq[(Len(p) + 1) + i]
    <2>1. PICK k \in 0 .. Len(pq) : k = Len(p) + 1
      BY <1>2, <1>4
    <2>2. k + 1 = Len(p) + 2 /\ Len(pq) - k = Len(q) - 1
      BY <1>2, <1>4, <2>1
    <2>3. rest = SubSeq(pq, k + 1, Len(pq))
      BY <1>7, <2>2
    <2>4. /\ rest \in Seq(U)
          /\ Len(rest) = Len(pq) - k
          /\ \A i \in 1 .. Len(pq) - k : rest[i] = pq[k + i]
      BY <2>3, DropProperties
    <2>5. QED
      BY <2>1, <2>2, <2>4
  <1>9. /\ Len(tail) = Len(q) - 1
        /\ \A i \in 1 .. Len(q) - 1 : tail[i] = q[i + 1]
    <2>1. /\ Len(tail) = Len(q) - 1
          /\ \A i \in 1 .. Len(tail) : tail[i] = q[i + 1]
      BY <1>1, HeadTailProperties
    <2>2. QED
      BY <2>1
  <1>10. rest = tail
    <2>1. \A i \in 1 .. Len(q) - 1 : rest[i] = tail[i]
      <3> TAKE i \in 1 .. Len(q) - 1
      <3>1. i + 1 \in 1 .. Len(q) /\ (Len(p) + 1) + i = Len(p) + (i + 1)
        BY <1>2
      <3>2. pq[Len(p) + (i + 1)] = q[i + 1]
        BY <1>4, <3>1
      <3>3. rest[i] = q[i + 1]
        BY <1>8, <3>1, <3>2
      <3>4. QED
        BY <1>9, <3>3
    <2>2. QED
      BY <1>8, <1>9, <2>1, SeqEqual
  <1>11. QED
    BY <1>1, <1>3, <1>5, <1>6, <1>7, <1>10, Zenon

----------------------------------------------------------------------------
(* Induction.  The library states it for a predicate, which no prover here *)
(* instantiates; these lemmas state it for a set.                          *)

Less == {ss \in Nat \X Nat : ss[1] < ss[2]}

LEMMA LessWellFounded == IsWellFoundedOn(Less, Nat)
  BY NatLessThanWellFounded DEF OpToRel, Less, IsWellFoundedOn

\* A set of naturals has a least element.
LEMMA LeastElement ==
    ASSUME NEW T \in SUBSET Nat, T # {}
    PROVE  \E n \in T : \A m \in T : n <= m
  <1>1. PICK n \in T : \A m \in T : ~ (<<m, n>> \in Less)
    BY LessWellFounded, WFMin
  <1>2. \A m \in T : ~ (m < n)
    BY <1>1 DEF Less
  <1>3. QED
    BY <1>2

\* A set with 0 and every successor of its members has all naturals.
LEMMA NatSetInduction ==
    ASSUME NEW G, 0 \in G, \A n \in Nat : n \in G => n + 1 \in G
    PROVE  \A n \in Nat : n \in G
  <1> DEFINE T == Nat \ G
  <1>1. ASSUME T # {} PROVE FALSE
    <2>1. PICK n \in T : \A m \in T : n <= m
      BY <1>1, LeastElement
    <2>2. n # 0
      BY <2>1
    <2>3. n - 1 \in Nat /\ n - 1 \in G
      BY <2>1, <2>2
    <2>4. QED
      BY <2>1, <2>3
  <1>2. QED
    BY <1>1

\* A set with << >> and every list made of one of its members and one more
\* element has all lists.
LEMMA ListInduction ==
    ASSUME NEW U, NEW G, << >> \in G,
           \A q \in Seq(U), e \in U : q \in G => Append(q, e) \in G
    PROVE  \A q \in Seq(U) : q \in G
  <1> DEFINE N == {n \in Nat : \A q \in Seq(U) : Len(q) = n => q \in G}
  <1>1. 0 \in N
    BY EmptySeq
  <1>2. ASSUME NEW n \in Nat, n \in N
        PROVE  n + 1 \in N
    <2> SUFFICES ASSUME NEW q \in Seq(U), Len(q) = n + 1
                 PROVE  q \in G
      OBVIOUS
    <2>1. q # << >>
      BY EmptySeq
    <2>2. PICK p \in Seq(U), e \in U : q = Append(p, e)
      BY <2>1, SequenceEmptyOrAppend
    <2>3. Len(p) = n
      BY <2>2, AppendProperties, LenProperties
    <2>4. QED
      BY <1>2, <2>2, <2>3
  <1> HIDE DEF N
  <1>3. \A n \in Nat : n \in N
    BY <1>1, <1>2, NatSetInduction
  <1>4. QED
    BY <1>3, LenProperties DEF N

----------------------------------------------------------------------------
(* AtPlaces *)

\* kept is what the definition of AtPlaces computes, for the first n of q.
Kept(q, N, kept, n) ==
    kept = [m \in 0 .. n |->
              IF m = 0 THEN << >>
              ELSE IF m \in N THEN Append(kept[m - 1], q[m])
              ELSE kept[m - 1]]

LEMMA KeptAt ==
    ASSUME NEW q, NEW N, NEW kept, NEW n \in Nat, Kept(q, N, kept, n),
           NEW m \in 0 .. n
    PROVE  kept[m] = IF m = 0 THEN << >>
                     ELSE IF m \in N THEN Append(kept[m - 1], q[m])
                     ELSE kept[m - 1]
  BY DEF Kept

\* The recursion defines something.
LEMMA KeptExists ==
    ASSUME NEW q, NEW N
    PROVE  \A n \in Nat : \E kept : Kept(q, N, kept, n)
  <1> DEFINE G == {n \in Nat : \E kept : Kept(q, N, kept, n)}
  <1>1. 0 \in G
    <2>1. Kept(q, N, [m \in 0 .. 0 |-> << >>], 0)
      BY DEF Kept
    <2>2. QED
      BY <2>1
  <1>2. ASSUME NEW n \in Nat, n \in G
        PROVE  n + 1 \in G
    <2>1. PICK kept : Kept(q, N, kept, n)
      BY <1>2
    <2> DEFINE last == IF n + 1 \in N THEN Append(kept[n], q[n + 1])
                       ELSE kept[n]
               more == [m \in 0 .. n + 1 |-> IF m = n + 1 THEN last ELSE kept[m]]
    <2>2. \A m \in 0 .. n + 1 : more[m] = IF m = 0 THEN << >>
            ELSE IF m \in N THEN Append(more[m - 1], q[m])
            ELSE more[m - 1]
      <3> TAKE m \in 0 .. n + 1
      <3>1. m # 0 => more[m - 1] = kept[m - 1]
        OBVIOUS
      <3>2. CASE m = n + 1
        <4>1. more[m] = last /\ more[m - 1] = kept[n]
          BY <3>1, <3>2
        <4> HIDE DEF more
        <4>2. QED
          BY <3>2, <4>1
      <3>3. CASE m # n + 1
        <4>1. more[m] = kept[m] /\ m \in 0 .. n
          BY <3>3
        <4> HIDE DEF more
        <4>2. QED
          BY <2>1, <3>1, <4>1, KeptAt
      <3>4. QED
        BY <3>2, <3>3
    <2>3. more = [m \in 0 .. n + 1 |-> more[m]]
      OBVIOUS
    <2>4. Kept(q, N, more, n + 1)
      <3> HIDE DEF more
      <3>1. QED
        BY <2>2, <2>3 DEF Kept
    <2>5. QED
      BY <2>4
  <1> HIDE DEF G
  <1>3. \A n \in Nat : n \in G
    BY <1>1, <1>2, NatSetInduction
  <1>4. QED
    BY <1>3 DEF G

\* Two lists, and two sets of places, are the same as far as n.
Shares(q, p, N, M, n) ==
    \A i \in 1 .. n : q[i] = p[i] /\ (i \in N <=> i \in M)

\* It depends on the part of the list it has seen only.
LEMMA KeptAgree ==
    ASSUME NEW q, NEW p, NEW N, NEW M, NEW f, NEW g, NEW n \in Nat, NEW m \in Nat,
           n <= m, Kept(q, N, f, n), Kept(p, M, g, m), Shares(q, p, N, M, n)
    PROVE  f[n] = g[n]
  <1> DEFINE G == {k \in Nat : k <= n => f[k] = g[k]}
  <1>1. 0 \in G
    BY KeptAt
  <1>2. ASSUME NEW k \in Nat, k \in G
        PROVE  k + 1 \in G
    <2> SUFFICES ASSUME k + 1 <= n
                 PROVE  f[k + 1] = g[k + 1]
      OBVIOUS
    <2>1. /\ k + 1 \in 0 .. n /\ k + 1 \in 0 .. m /\ k + 1 \in 1 .. n
          /\ (k + 1) - 1 = k /\ k + 1 # 0 /\ f[k] = g[k]
      BY <1>2
    <2>2. f[k + 1] = IF k + 1 \in N THEN Append(f[k], q[k + 1]) ELSE f[k]
      BY <2>1, KeptAt
    <2>3. g[k + 1] = IF k + 1 \in M THEN Append(g[k], p[k + 1]) ELSE g[k]
      BY <2>1, KeptAt
    <2>4. QED
      BY <2>1, <2>2, <2>3 DEF Shares
  <1> HIDE DEF G
  <1>3. \A k \in Nat : k \in G
    BY <1>1, <1>2, NatSetInduction
  <1>4. QED
    BY <1>3 DEF G

\* What AtPlaces stands for.
LEMMA AtPlacesKept ==
    ASSUME NEW U, NEW q \in Seq(U), NEW N
    PROVE  \E kept : Kept(q, N, kept, Len(q)) /\ AtPlaces(q, N) = kept[Len(q)]
  <1> DEFINE kept == CHOOSE kept : Kept(q, N, kept, Len(q))
  <1>1. Kept(q, N, kept, Len(q))
    BY KeptExists, LenProperties
  <1>2. AtPlaces(q, N) = kept[Len(q)]
    BY DEF AtPlaces, Kept
  <1>3. QED
    BY <1>1, <1>2

LEMMA AtPlacesEmpty ==
    ASSUME NEW N
    PROVE  AtPlaces(<< >>, N) = << >>
  <1>1. << >> \in Seq({}) /\ Len(<< >>) = 0
    BY EmptySeq
  <1>2. PICK kept : Kept(<< >>, N, kept, 0) /\ AtPlaces(<< >>, N) = kept[0]
    BY <1>1, AtPlacesKept
  <1>3. QED
    BY <1>2, KeptAt

\* One more entry, which is at one of the places or not.
LEMMA AtPlacesAppend ==
    ASSUME NEW U, NEW q \in Seq(U), NEW e \in U, NEW N, NEW M,
           \A i \in DOMAIN q : i \in N <=> i \in M
    PROVE  AtPlaces(Append(q, e), M) =
             IF Len(q) + 1 \in M THEN Append(AtPlaces(q, N), e)
             ELSE AtPlaces(q, N)
  <1>1. PICK more : more = Append(q, e)
    OBVIOUS
  <1>2. PICK n \in Nat : n = Len(q) /\ DOMAIN q = 1 .. n
    BY LenProperties
  <1>3. /\ more \in Seq(U) /\ Len(more) = n + 1
        /\ \A i \in 1 .. n : more[i] = q[i]
        /\ more[n + 1] = e
    BY <1>1, <1>2, AppendProperties
  <1>4. PICK f : Kept(q, N, f, n) /\ AtPlaces(q, N) = f[n]
    BY <1>2, AtPlacesKept
  <1>5. PICK g : Kept(more, M, g, n + 1) /\ AtPlaces(more, M) = g[n + 1]
    BY <1>3, AtPlacesKept
  <1>6. f[n] = g[n]
    <2>1. PICK m \in Nat : m = n + 1
      OBVIOUS
    <2>2. n <= m /\ Kept(q, N, f, n) /\ Kept(more, M, g, m)
      BY <1>4, <1>5, <2>1
    <2>3. Shares(q, more, N, M, n)
      BY <1>2, <1>3 DEF Shares
    <2>4. QED
      BY <2>2, <2>3, KeptAgree
  <1>7. g[n + 1] = IF n + 1 \in M THEN Append(g[n], more[n + 1]) ELSE g[n]
    <2>1. n + 1 \in 0 .. n + 1 /\ n + 1 \in Nat /\ n + 1 # 0 /\ (n + 1) - 1 = n
      OBVIOUS
    <2>2. QED
      BY <1>5, <2>1, KeptAt
  <1>8. QED
    BY <1>1, <1>2, <1>3, <1>4, <1>5, <1>6, <1>7

----------------------------------------------------------------------------
(* Filter *)

LEMMA FilterEmpty ==
    ASSUME NEW S
    PROVE  Filter(<< >>, S) = << >>
  BY AtPlacesEmpty DEF Filter

\* Filtering one more element.
LEMMA FilterAppend ==
    ASSUME NEW U, NEW q \in Seq(U), NEW e \in U, NEW S
    PROVE  Filter(Append(q, e), S) = IF e \in S THEN Append(Filter(q, S), e)
                                     ELSE Filter(q, S)
  <1>1. PICK more : more = Append(q, e)
    OBVIOUS
  <1>2. PICK n \in Nat : n = Len(q) /\ DOMAIN q = 1 .. n
    BY LenProperties
  <1>3. /\ DOMAIN more = 1 .. n + 1
        /\ \A i \in 1 .. n : more[i] = q[i]
        /\ more[n + 1] = e
    BY <1>1, <1>2, AppendProperties, LenProperties
  <1>4. PICK N : N = {i \in DOMAIN q : q[i] \in S}
    OBVIOUS
  <1>5. PICK M : M = {i \in DOMAIN more : more[i] \in S}
    OBVIOUS
  <1>6. /\ \A i \in DOMAIN q : i \in N <=> i \in M
        /\ Len(q) + 1 \in M <=> e \in S
    BY <1>2, <1>3, <1>4, <1>5
  <1>7. AtPlaces(more, M) = IF Len(q) + 1 \in M THEN Append(AtPlaces(q, N), e)
                            ELSE AtPlaces(q, N)
    BY <1>1, <1>6, AtPlacesAppend
  <1>8. Filter(q, S) = AtPlaces(q, N) /\ Filter(more, S) = AtPlaces(more, M)
    BY <1>4, <1>5 DEF Filter
  <1>9. QED
    BY <1>1, <1>6, <1>7, <1>8

\* What is left is drawn from the list.
LEMMA FilterSeq ==
    ASSUME NEW U, NEW S
    PROVE  \A q \in Seq(U) : Filter(q, S) \in Seq(U)
  <1> DEFINE G == {q \in Seq(U) : Filter(q, S) \in Seq(U)}
  <1>1. << >> \in G
    BY FilterEmpty, EmptySeq
  <1>2. ASSUME NEW q \in Seq(U), NEW e \in U, q \in G
        PROVE  Append(q, e) \in G
    <2>1. PICK kept \in Seq(U) : kept = Filter(q, S)
      BY <1>2
    <2>2. Append(q, e) \in Seq(U) /\ Append(kept, e) \in Seq(U)
      BY <2>1, AppendProperties
    <2>3. Filter(Append(q, e), S) = IF e \in S THEN Append(kept, e) ELSE kept
      BY <2>1, FilterAppend
    <2>4. QED
      BY <2>1, <2>2, <2>3
  <1> HIDE DEF G
  <1>3. \A q \in Seq(U) : q \in G
    BY <1>1, <1>2, ListInduction
  <1>4. QED
    BY <1>3 DEF G

LEMMA RangeAppend ==
    ASSUME NEW U, NEW q \in Seq(U), NEW e \in U
    PROVE  Range(Append(q, e)) = Range(q) \union {e}
  <1>1. /\ Len(q) \in Nat /\ DOMAIN q = 1 .. Len(q)
        /\ DOMAIN Append(q, e) = 1 .. Len(q) + 1
        /\ \A i \in 1 .. Len(q) : Append(q, e)[i] = q[i]
        /\ Append(q, e)[Len(q) + 1] = e
    BY AppendProperties, LenProperties
  <1>2. \A i \in 1 .. Len(q) + 1 : i \in 1 .. Len(q) \/ i = Len(q) + 1
    BY <1>1
  <1>3. QED
    BY <1>1, <1>2 DEF Range

\* It is the members of S in the list.
LEMMA FilterRange ==
    ASSUME NEW U, NEW S
    PROVE  \A q \in Seq(U) : Range(Filter(q, S)) = Range(q) \intersect S
  <1> DEFINE G == {q \in Seq(U) : Range(Filter(q, S)) = Range(q) \intersect S}
  <1>1. << >> \in G
    BY FilterEmpty, EmptySeq DEF Range
  <1>2. ASSUME NEW q \in Seq(U), NEW e \in U, q \in G
        PROVE  Append(q, e) \in G
    <2>1. Range(Append(q, e)) = Range(q) \union {e}
      BY RangeAppend
    <2>2. PICK kept \in Seq(U) : kept = Filter(q, S)
      BY FilterSeq
    <2>3. Range(Append(kept, e)) = Range(kept) \union {e}
      BY RangeAppend
    <2>4. Range(kept) = Range(q) \intersect S
      BY <1>2, <2>2
    <2>5. Range(Filter(Append(q, e), S)) = Range(Append(q, e)) \intersect S
      <3>1. CASE e \in S
        <4>1. Filter(Append(q, e), S) = Append(kept, e)
          BY <2>2, <3>1, FilterAppend
        <4>2. QED
          BY <2>1, <2>3, <2>4, <3>1, <4>1
      <3>2. CASE e \notin S
        <4>1. Filter(Append(q, e), S) = kept
          BY <2>2, <3>2, FilterAppend
        <4>2. QED
          BY <2>1, <2>4, <3>2, <4>1
      <3>3. QED
        BY <3>1, <3>2
    <2>6. Append(q, e) \in Seq(U)
      BY AppendProperties
    <2>7. QED
      BY <2>5, <2>6
  <1> HIDE DEF G
  <1>3. \A q \in Seq(U) : q \in G
    BY <1>1, <1>2, ListInduction
  <1>4. QED
    BY <1>3 DEF G

\* Without repetitions, if the list has none.
LEMMA FilterDistinct ==
    ASSUME NEW U, NEW S
    PROVE  \A q \in Seq(U) : Distinct(q) => Distinct(Filter(q, S))
  <1> DEFINE G == {q \in Seq(U) : Distinct(q) => Distinct(Filter(q, S))}
  <1>1. << >> \in G
    BY FilterEmpty, EmptySeq DEF Distinct
  <1>2. ASSUME NEW q \in Seq(U), NEW e \in U, q \in G
        PROVE  Append(q, e) \in G
    <2>1. PICK kept \in Seq(U) : kept = Filter(q, S)
      BY FilterSeq
    <2>2. PICK more : more = Append(q, e)
      OBVIOUS
    <2>3. ASSUME Distinct(more)
          PROVE  Distinct(Filter(more, S))
      <3>1. /\ Len(q) \in Nat /\ DOMAIN q = 1 .. Len(q)
            /\ DOMAIN more = 1 .. Len(q) + 1
            /\ \A i \in 1 .. Len(q) : more[i] = q[i]
            /\ more[Len(q) + 1] = e
        BY <2>2, AppendProperties, LenProperties
      <3>2. Distinct(q) /\ \A i \in DOMAIN q : q[i] # e
        <4>1. \A i, j \in DOMAIN q : q[i] = q[j] => i = j
          BY <2>3, <3>1 DEF Distinct
        <4>2. \A i \in DOMAIN q : q[i] # e
          BY <2>3, <3>1 DEF Distinct
        <4>3. QED
          BY <4>1, <4>2 DEF Distinct
      <3>3. e \notin Range(q)
        BY <3>2 DEF Range
      <3>4. Distinct(kept) /\ e \notin Range(kept)
        BY <1>2, <2>1, <3>2, <3>3, FilterRange
      <3>5. Distinct(Append(kept, e))
        BY <3>4, AppendDistinct
      <3>6. QED
        BY <2>1, <2>2, <3>4, <3>5, FilterAppend
    <2>4. more \in Seq(U)
      BY <2>2, AppendProperties
    <2>5. QED
      BY <2>2, <2>3, <2>4
  <1> HIDE DEF G
  <1>3. \A q \in Seq(U) : q \in G
    BY <1>1, <1>2, ListInduction
  <1>4. QED
    BY <1>3 DEF G

\* Nothing of the list is in S.
LEMMA FilterNone ==
    ASSUME NEW U, NEW q \in Seq(U), NEW S, Range(q) \intersect S = {}
    PROVE  Filter(q, S) = << >>
  <1>1. PICK kept \in Seq(U) : kept = Filter(q, S)
    BY FilterSeq
  <1>2. Range(kept) = {}
    BY <1>1, FilterRange
  <1>3. kept = << >>
    <2>1. \A i \in 1 .. Len(kept) : kept[i] \in Range(kept)
      BY LenProperties DEF Range
    <2>2. QED
      BY <1>2, <2>1, EmptySeq
  <1>4. QED
    BY <1>1, <1>3

\* Filtering a list and its continuation.
LEMMA FilterConcat ==
    ASSUME NEW U, NEW p \in Seq(U), NEW S
    PROVE  \A q \in Seq(U) : Filter(p \o q, S) = Filter(p, S) \o Filter(q, S)
  <1> DEFINE G == {q \in Seq(U) :
                     Filter(p \o q, S) = Filter(p, S) \o Filter(q, S)}
  <1>1. << >> \in G
    BY FilterEmpty, FilterSeq, EmptySeq, ConcatEmptySeq
  <1>2. ASSUME NEW q \in Seq(U), NEW e \in U, q \in G
        PROVE  Append(q, e) \in G
    <2>1. PICK f \in Seq(U), g \in Seq(U) : f = Filter(p, S) /\ g = Filter(q, S)
      BY FilterSeq
    <2>2. <<e>> \in Seq(U) /\ Append(q, e) \in Seq(U) /\ p \o q \in Seq(U)
      BY AppendProperties, ConcatProperties
    <2>3. PICK pq \in Seq(U) : pq = p \o q
      BY <2>2
    <2>4. p \o Append(q, e) = Append(pq, e)
      <3>1. Append(q, e) = q \o <<e>> /\ Append(pq, e) = pq \o <<e>>
        BY AppendIsConcat
      <3>2. QED
        BY <2>2, <2>3, <3>1, ConcatAssociative
    <2>5. f \o g \in Seq(U) /\ f \o Append(g, e) = Append(f \o g, e)
      <3>1. PICK fg \in Seq(U) : fg = f \o g
        BY ConcatProperties
      <3>2. Append(g, e) = g \o <<e>> /\ Append(fg, e) = fg \o <<e>>
        BY AppendIsConcat
      <3>3. QED
        BY <2>2, <3>1, <3>2, ConcatAssociative, SMTT(40)
    <2>6. Filter(pq, S) = f \o g
      BY <1>2, <2>1, <2>3
    <2>7. Filter(p \o Append(q, e), S) = f \o Filter(Append(q, e), S)
      <3>1. CASE e \in S
        <4>1. Filter(Append(q, e), S) = Append(g, e)
          BY <2>1, <3>1, FilterAppend, SMTT(40)
        <4>2. Filter(Append(pq, e), S) = Append(f \o g, e)
          BY <2>6, <3>1, FilterAppend
        <4>3. QED
          BY <2>4, <2>5, <4>1, <4>2
      <3>2. CASE e \notin S
        <4>1. Filter(Append(q, e), S) = g
          BY <2>1, <3>2, FilterAppend
        <4>2. Filter(Append(pq, e), S) = f \o g
          BY <2>6, <3>2, FilterAppend
        <4>3. QED
          BY <2>4, <4>1, <4>2
      <3>3. QED
        BY <3>1, <3>2
    <2>8. QED
      BY <2>1, <2>2, <2>7
  <1> HIDE DEF G
  <1>3. \A q \in Seq(U) : q \in G
    BY <1>1, <1>2, ListInduction
  <1>4. QED
    BY <1>3 DEF G

\* Only the members of the list matter.
LEMMA FilterAgree ==
    ASSUME NEW U, NEW S, NEW T
    PROVE  \A q \in Seq(U) : Range(q) \intersect S = Range(q) \intersect T =>
             Filter(q, S) = Filter(q, T)
  <1> DEFINE G == {q \in Seq(U) :
                     Range(q) \intersect S = Range(q) \intersect T =>
                       Filter(q, S) = Filter(q, T)}
  <1>1. << >> \in G
    BY FilterEmpty, EmptySeq
  <1>2. ASSUME NEW q \in Seq(U), NEW e \in U, q \in G
        PROVE  Append(q, e) \in G
    <2>1. Range(Append(q, e)) = Range(q) \union {e}
      BY RangeAppend
    <2>2. ASSUME (Range(q) \union {e}) \intersect S
                   = (Range(q) \union {e}) \intersect T
          PROVE  Filter(Append(q, e), S) = Filter(Append(q, e), T)
      <3>1. (e \in S <=> e \in T) /\ Range(q) \intersect S = Range(q) \intersect T
        BY <2>2
      <3>2. Filter(q, S) = Filter(q, T)
        BY <1>2, <3>1
      <3>3. PICK f \in Seq(U) : f = Filter(q, S) /\ f = Filter(q, T)
        BY <3>2, FilterSeq
      <3>4. Filter(Append(q, e), S) = IF e \in S THEN Append(f, e) ELSE f
        <4>1. Filter(Append(q, e), S) = IF e \in S THEN Append(Filter(q, S), e)
                                        ELSE Filter(q, S)
          BY FilterAppend
        <4>2. QED
          BY <3>3, <4>1, Zenon
      <3>5. Filter(Append(q, e), T) = IF e \in T THEN Append(f, e) ELSE f
        <4>1. Filter(Append(q, e), T) = IF e \in T THEN Append(Filter(q, T), e)
                                        ELSE Filter(q, T)
          BY FilterAppend
        <4>2. QED
          BY <3>3, <4>1, Zenon
      <3>6. QED
        BY <3>1, <3>4, <3>5
    <2>3. Append(q, e) \in Seq(U)
      BY AppendProperties
    <2>4. QED
      BY <2>1, <2>2, <2>3
  <1> HIDE DEF G
  <1>3. \A q \in Seq(U) : q \in G
    BY <1>1, <1>2, ListInduction
  <1>4. QED
    BY <1>3 DEF G

\* A list whose members are split in two.
LEMMA FilterSplit ==
    ASSUME NEW U, NEW S, NEW T, S \intersect T = {}
    PROVE  \A q \in Seq(U) : Range(q) \subseteq S \union T =>
             Len(Filter(q, S)) + Len(Filter(q, T)) = Len(q)
  <1> DEFINE G == {q \in Seq(U) : Range(q) \subseteq S \union T =>
                     Len(Filter(q, S)) + Len(Filter(q, T)) = Len(q)}
  <1>1. << >> \in G
    BY FilterEmpty, EmptySeq
  <1>2. ASSUME NEW q \in Seq(U), NEW e \in U, q \in G
        PROVE  Append(q, e) \in G
    <2>1. Range(Append(q, e)) = Range(q) \union {e}
      BY RangeAppend
    <2>2. PICK f \in Seq(U), g \in Seq(U) : f = Filter(q, S) /\ g = Filter(q, T)
      BY FilterSeq
    <2>3. /\ Len(f) \in Nat /\ Len(g) \in Nat /\ Len(q) \in Nat
          /\ Len(Append(f, e)) = Len(f) + 1 /\ Len(Append(g, e)) = Len(g) + 1
          /\ Len(Append(q, e)) = Len(q) + 1 /\ Append(q, e) \in Seq(U)
      BY LenProperties, AppendProperties
    <2>4. ASSUME Range(q) \union {e} \subseteq S \union T
          PROVE  Len(Filter(Append(q, e), S)) + Len(Filter(Append(q, e), T))
                   = Len(Append(q, e))
      <3>1. Len(f) + Len(g) = Len(q)
        BY <1>2, <2>2, <2>4
      <3>2. CASE e \in S
        <4>1. Filter(Append(q, e), S) = Append(f, e) /\ Filter(Append(q, e), T) = g
          BY <2>2, <3>2, FilterAppend
        <4>2. Len(Append(f, e)) + Len(g) = Len(Append(q, e))
          BY <2>3, <3>1
        <4>3. QED
          BY <4>1, <4>2, Zenon
      <3>3. CASE e \in T
        <4>1. Filter(Append(q, e), T) = Append(g, e) /\ Filter(Append(q, e), S) = f
          BY <2>2, <3>3, FilterAppend
        <4>2. Len(f) + Len(Append(g, e)) = Len(Append(q, e))
          BY <2>3, <3>1
        <4>3. QED
          BY <4>1, <4>2, Zenon
      <3>4. QED
        BY <2>4, <3>2, <3>3
    <2>5. QED
      BY <2>1, <2>3, <2>4
  <1> HIDE DEF G
  <1>3. \A q \in Seq(U) : q \in G
    BY <1>1, <1>2, ListInduction
  <1>4. QED
    BY <1>3 DEF G

\* What the filter lets through.
LEMMA FilterInto ==
    ASSUME NEW U, NEW S, NEW q \in Seq(U)
    PROVE  Filter(q, S) \in Seq(S)
  <1>1. PICK f \in Seq(U) : f = Filter(q, S)
    BY FilterSeq
  <1>2. Range(f) \subseteq S
    BY <1>1, FilterRange
  <1>3. f \in Seq(Range(f))
    BY SeqOfRange
  <1>4. QED
    BY <1>1, <1>2, <1>3, SeqMonotonic

\* What belongs to S already is left as it is.
LEMMA FilterAll ==
    ASSUME NEW U, NEW S
    PROVE  \A q \in Seq(U) : Range(q) \subseteq S => Filter(q, S) = q
  <1> DEFINE G == {q \in Seq(U) : Range(q) \subseteq S => Filter(q, S) = q}
  <1>1. << >> \in G
    BY FilterEmpty, EmptySeq
  <1>2. ASSUME NEW q \in Seq(U), NEW e \in U, q \in G
        PROVE  Append(q, e) \in G
    <2>1. Append(q, e) \in Seq(U)
      BY AppendProperties
    <2>2. Range(Append(q, e)) = Range(q) \union {e}
      BY RangeAppend
    <2>3. ASSUME Range(Append(q, e)) \subseteq S
          PROVE  Filter(Append(q, e), S) = Append(q, e)
      <3>1. e \in S /\ Filter(q, S) = q
        BY <1>2, <2>2, <2>3
      <3>2. QED
        BY <3>1, FilterAppend
    <2>4. QED
      BY <2>1, <2>3
  <1> HIDE DEF G
  <1>3. \A q \in Seq(U) : q \in G
    BY <1>1, <1>2, ListInduction
  <1>4. QED
    BY <1>3 DEF G

----------------------------------------------------------------------------
(* Firsts *)

LEMMA FirstsEmpty == Firsts(<< >>) = << >>
  BY AtPlacesEmpty DEF Firsts

\* What a list lists already is not listed again.
LEMMA FirstsAppend ==
    ASSUME NEW U, NEW q \in Seq(U), NEW e \in U
    PROVE  Firsts(Append(q, e)) = IF e \in Range(q) THEN Firsts(q)
                                  ELSE Append(Firsts(q), e)
  <1>1. PICK more : more = Append(q, e)
    OBVIOUS
  <1>2. PICK n \in Nat : n = Len(q) /\ DOMAIN q = 1 .. n
    BY LenProperties
  <1>3. /\ DOMAIN more = 1 .. n + 1
        /\ \A i \in 1 .. n : more[i] = q[i]
        /\ more[n + 1] = e
    BY <1>1, <1>2, AppendProperties, LenProperties
  <1>4. PICK N : N = {i \in DOMAIN q : \A j \in 1 .. i - 1 : q[j] # q[i]}
    OBVIOUS
  <1>5. PICK M : M = {i \in DOMAIN more : \A j \in 1 .. i - 1 : more[j] # more[i]}
    OBVIOUS
  <1>6. \A i \in DOMAIN q : i \in N <=> i \in M
    BY <1>2, <1>3, <1>4, <1>5
  <1>7. Len(q) + 1 \in M <=> e \notin Range(q)
    <2>1. n + 1 \in DOMAIN more /\ (n + 1) - 1 = n
      BY <1>3
    <2>2. n + 1 \in M <=> \A j \in 1 .. n : more[j] # e
      BY <1>3, <1>5, <2>1
    <2>3. QED
      BY <1>2, <1>3, <2>2 DEF Range
  <1>8. AtPlaces(more, M) = IF Len(q) + 1 \in M THEN Append(AtPlaces(q, N), e)
                            ELSE AtPlaces(q, N)
    BY <1>1, <1>6, AtPlacesAppend
  <1>9. Firsts(q) = AtPlaces(q, N) /\ Firsts(more) = AtPlaces(more, M)
    BY <1>4, <1>5 DEF Firsts
  <1>10. QED
    BY <1>1, <1>7, <1>8, <1>9

\* It lists what the list lists.
LEMMA FirstsRange ==
    ASSUME NEW U
    PROVE  \A q \in Seq(U) : Firsts(q) \in Seq(U) /\ Range(Firsts(q)) = Range(q)
  <1> DEFINE G == {q \in Seq(U) : Firsts(q) \in Seq(U) /\ Range(Firsts(q)) = Range(q)}
  <1>1. << >> \in G
    BY FirstsEmpty, EmptySeq
  <1>2. ASSUME NEW q \in Seq(U), NEW e \in U, q \in G
        PROVE  Append(q, e) \in G
    <2>1. Append(q, e) \in Seq(U)
      BY AppendProperties
    <2>2. Range(Append(q, e)) = Range(q) \union {e}
      BY RangeAppend
    <2>3. PICK f \in Seq(U) : f = Firsts(q) /\ Range(f) = Range(q)
      BY <1>2
    <2>4. Append(f, e) \in Seq(U) /\ Range(Append(f, e)) = Range(f) \union {e}
      BY AppendProperties, RangeAppend
    <2>5. Firsts(Append(q, e)) = IF e \in Range(q) THEN f ELSE Append(f, e)
      BY <2>3, FirstsAppend
    <2>6. QED
      BY <2>1, <2>2, <2>3, <2>4, <2>5
  <1> HIDE DEF G
  <1>3. \A q \in Seq(U) : q \in G
    BY <1>1, <1>2, ListInduction
  <1>4. QED
    BY <1>3 DEF G

\* The last entry of a list without repetitions is new to the list before it.
LEMMA DistinctAppend ==
    ASSUME NEW U, NEW q \in Seq(U), NEW e \in U, Distinct(Append(q, e))
    PROVE  Distinct(q) /\ e \notin Range(q)
  <1>1. PICK more \in Seq(U) : more = Append(q, e)
    BY AppendProperties
  <1>2. PICK n \in Nat : n = Len(q) /\ DOMAIN q = 1 .. n
    BY LenProperties
  <1>3. /\ DOMAIN more = 1 .. n + 1
        /\ \A i \in 1 .. n : more[i] = q[i]
        /\ more[n + 1] = e
    BY <1>1, <1>2, AppendProperties, LenProperties
  <1>4. \A i, j \in 1 .. n + 1 : more[i] = more[j] => i = j
    BY <1>1, <1>3 DEF Distinct
  <1>5. Distinct(q)
    BY <1>2, <1>3, <1>4 DEF Distinct
  <1>6. \A i \in 1 .. n : q[i] # e
    BY <1>3, <1>4
  <1>7. QED
    BY <1>2, <1>5, <1>6 DEF Range

\* What a second list without repetitions adds: what is not listed before.
LEMMA FirstsConcat ==
    ASSUME NEW U, NEW p \in Seq(U)
    PROVE  \A q \in Seq(U) : Distinct(q) =>
             Firsts(p \o q) = Firsts(p) \o Filter(q, U \ Range(p))
  <1> DEFINE G == {q \in Seq(U) : Distinct(q) =>
                     Firsts(p \o q) = Firsts(p) \o Filter(q, U \ Range(p))}
  <1>1. << >> \in G
    BY FilterEmpty, FirstsRange, EmptySeq, ConcatEmptySeq
  <1>2. ASSUME NEW q \in Seq(U), NEW e \in U, q \in G
        PROVE  Append(q, e) \in G
    <2> SUFFICES ASSUME Distinct(Append(q, e))
                 PROVE  Firsts(p \o Append(q, e)) =
                          Firsts(p) \o Filter(Append(q, e), U \ Range(p))
      BY AppendProperties
    <2>1. Distinct(q) /\ e \notin Range(q)
      BY DistinctAppend
    <2>2. PICK f \in Seq(U), g \in Seq(U), whole \in Seq(U) :
            f = Firsts(p) /\ g = Filter(q, U \ Range(p)) /\ whole = p \o q
      BY FirstsRange, FilterSeq, ConcatProperties
    <2>3. Firsts(whole) = f \o g
      BY <1>2, <2>1, <2>2
    <2>4. p \o Append(q, e) = Append(whole, e)
      BY <2>2, ConcatAppend
    <2>5. f \o Append(g, e) = Append(f \o g, e)
      BY <2>2, ConcatAppend
    <2>6. e \in Range(whole) <=> e \in Range(p)
      BY <2>1, <2>2, RangeConcatenation
    <2>7. Firsts(Append(whole, e)) = IF e \in Range(p) THEN f \o g
                                     ELSE Append(f \o g, e)
      BY <2>2, <2>3, <2>6, FirstsAppend
    <2>8. Filter(Append(q, e), U \ Range(p)) = IF e \in Range(p) THEN g
                                               ELSE Append(g, e)
      BY <2>2, FilterAppend, SMTT(40)
    <2>9. QED
      BY <2>2, <2>4, <2>5, <2>7, <2>8, Zenon
  <1> HIDE DEF G
  <1>3. \A q \in Seq(U) : q \in G
    BY <1>1, <1>2, ListInduction
  <1>4. QED
    BY <1>3 DEF G

\* A list around one of its positions.
LEMMA AroundPosition ==
    ASSUME NEW U, NEW q \in Seq(U), NEW i \in DOMAIN q
    PROVE  /\ SubSeq(q, 1, i - 1) \in Seq(U)
           /\ SubSeq(q, i + 1, Len(q)) \in Seq(U)
           /\ Len(SubSeq(q, 1, i - 1)) = i - 1
           /\ \A j \in 1 .. i - 1 : SubSeq(q, 1, i - 1)[j] = q[j]
           /\ \A j \in 1 .. Len(q) - i : SubSeq(q, i + 1, Len(q))[j] = q[i + j]
           /\ Len(SubSeq(q, i + 1, Len(q))) = Len(q) - i
           /\ q = Append(SubSeq(q, 1, i - 1), q[i]) \o SubSeq(q, i + 1, Len(q))
  <1>1. i \in 1 .. Len(q) /\ Len(q) \in Nat /\ q[i] \in U
    BY LenProperties
  <1>2. \A k \in 1 .. Len(q) : q[k] \in U
    BY LenProperties
  <1>3. PICK front : front = SubSeq(q, 1, i - 1)
    OBVIOUS
  <1>4. PICK back : back = SubSeq(q, i + 1, Len(q))
    OBVIOUS
  <1>5. /\ front \in Seq(U) /\ Len(front) = i - 1
        /\ \A j \in 1 .. i - 1 : front[j] = q[j]
    BY <1>1, <1>2, <1>3, SubSeqProperties
  <1>6. /\ back \in Seq(U) /\ Len(back) = Len(q) - i
        /\ \A j \in 1 .. Len(q) - i : back[j] = q[i + j]
    <2>1. i \in 0 .. Len(q)
      BY <1>1
    <2>2. QED
      BY <1>4, <2>1, DropProperties
  <1>7. q = Append(front, q[i]) \o back
    <2>1. PICK e \in U : e = q[i]
      BY <1>1
    <2>2. PICK upto \in Seq(U) : upto = Append(front, e)
      BY <1>5, AppendProperties
    <2>3. /\ Len(upto) = i
          /\ \A j \in 1 .. i : upto[j] = q[j]
      <3>1. /\ Len(upto) = (i - 1) + 1
            /\ \A j \in 1 .. i - 1 : upto[j] = front[j]
            /\ upto[(i - 1) + 1] = e
        BY <1>5, <2>2, AppendProperties
      <3>2. QED
        BY <1>1, <1>5, <2>1, <3>1
    <2>4. PICK all \in Seq(U) : all = upto \o back
      BY <1>6, ConcatProperties
    <2>5. Len(all) = Len(q)
      BY <1>1, <1>6, <2>3, <2>4, ConcatProperties
    <2>6. \A j \in 1 .. Len(q) : all[j] = IF j <= i THEN upto[j] ELSE back[j - i]
      BY <1>1, <1>6, <2>3, <2>4, <2>5, ConcatProperties
    <2>7. \A j \in 1 .. Len(q) : all[j] = q[j]
      <3> TAKE j \in 1 .. Len(q)
      <3>1. CASE j <= i
        BY <1>1, <2>3, <2>6, <3>1
      <3>2. CASE j > i
        <4>1. j - i \in 1 .. Len(q) - i /\ i + (j - i) = j /\ ~(j <= i)
          BY <1>1, <3>2
        <4>2. back[j - i] = q[j]
          BY <1>6, <4>1
        <4>3. all[j] = back[j - i]
          BY <2>6, <4>1
        <4>4. QED
          BY <4>2, <4>3
      <3>3. QED
        BY <1>1, <3>1, <3>2
    <2>8. all = q
      BY <2>5, <2>7, SeqEqual
    <2>9. QED
      BY <2>1, <2>2, <2>4, <2>8
  <1>8. QED
    BY <1>3, <1>4, <1>5, <1>6, <1>7

----------------------------------------------------------------------------
(* Lists of lists, one behind the other *)

LEMMA OneProperties ==
    ASSUME NEW U, NEW e \in U
    PROVE  <<e>> \in Seq(U) /\ Len(<<e>>) = 1 /\ <<e>>[1] = e
  OBVIOUS

LEMMA IsOne ==
    ASSUME NEW U, NEW t \in Seq(U), Len(t) = 1
    PROVE  t[1] \in U /\ t = <<t[1]>>
  <1>1. t[1] \in U
    BY ElementOfSeq
  <1>2. PICK s \in Seq(U) : s = <<t[1]>>
    BY <1>1, OneProperties
  <1>3. Len(s) = 1 /\ s[1] = t[1]
    BY <1>1, <1>2, OneProperties
  <1>4. ASSUME NEW i \in 1 .. Len(t)
        PROVE  t[i] = s[i]
    BY <1>3
  <1>5. t = s
    BY <1>3, <1>4, SeqEqual
  <1>6. QED
    BY <1>1, <1>2, <1>5

\* How to recognise the concatenation of two lists.
LEMMA IsConcat ==
    ASSUME NEW U, NEW p \in Seq(U), NEW q \in Seq(U), NEW t \in Seq(U),
           Len(t) = Len(p) + Len(q),
           \A i \in 1 .. Len(p) : t[i] = p[i],
           \A i \in 1 .. Len(q) : t[Len(p) + i] = q[i]
    PROVE  t = p \o q
  <1>1. PICK y \in Seq(U) : y = p \o q
    BY ConcatProperties
  <1>2. PICK m \in Nat, n \in Nat : m = Len(p) /\ n = Len(q)
    BY LenProperties
  <1>3. /\ Len(y) = m + n
        /\ \A i \in 1 .. m : y[i] = p[i]
        /\ \A i \in 1 .. n : y[m + i] = q[i]
    BY <1>1, <1>2, ConcatAt
  <1>4. ASSUME NEW i \in 1 .. m + n
        PROVE  t[i] = y[i]
    <2>1. CASE i <= m
      BY <1>2, <1>3, <2>1
    <2>2. CASE ~(i <= m)
      <3>1. PICK k \in Nat : k = i - m
        BY <2>2
      <3>2. k \in 1 .. n /\ m + k = i
        BY <3>1, <2>2
      <3>3. t[m + k] = q[k] /\ y[m + k] = q[k]
        BY <1>2, <1>3, <3>2
      <3>4. QED
        BY <3>2, <3>3
    <2>3. QED
      BY <2>1, <2>2
  <1>5. Len(t) = Len(y) /\ \A i \in 1 .. Len(t) : t[i] = y[i]
    BY <1>2, <1>3, <1>4
  <1>6. t = y
    BY <1>5, SeqEqual
  <1>7. QED
    BY <1>1, <1>6

----------------------------------------------------------------------------
(* Joined *)

\* upTo is what the definition of Joined computes, for the first n of lists.
Piled(lists, upTo, n) ==
    upTo = [m \in 0 .. n |-> IF m = 0 THEN << >> ELSE upTo[m - 1] \o lists[m]]

LEMMA PiledAt ==
    ASSUME NEW lists, NEW upTo, NEW n \in Nat, Piled(lists, upTo, n), NEW m \in 0 .. n
    PROVE  upTo[m] = IF m = 0 THEN << >> ELSE upTo[m - 1] \o lists[m]
  BY DEF Piled

\* The recursion defines something.
LEMMA PiledExists ==
    ASSUME NEW lists
    PROVE  \A n \in Nat : \E upTo : Piled(lists, upTo, n)
  <1> DEFINE G == {n \in Nat : \E upTo : Piled(lists, upTo, n)}
  <1>1. 0 \in G
    <2>1. Piled(lists, [m \in 0 .. 0 |-> << >>], 0)
      BY DEF Piled
    <2>2. QED
      BY <2>1
  <1>2. ASSUME NEW n \in Nat, n \in G
        PROVE  n + 1 \in G
    <2>1. PICK upTo : Piled(lists, upTo, n)
      BY <1>2
    <2> DEFINE last == upTo[n] \o lists[n + 1]
               more == [m \in 0 .. n + 1 |-> IF m = n + 1 THEN last ELSE upTo[m]]
    <2>2. \A m \in 0 .. n + 1 :
            more[m] = IF m = 0 THEN << >> ELSE more[m - 1] \o lists[m]
      <3> TAKE m \in 0 .. n + 1
      <3>1. m # 0 => more[m - 1] = upTo[m - 1]
        OBVIOUS
      <3>2. CASE m = n + 1
        <4>1. m # 0 /\ more[m] = last /\ more[m - 1] = upTo[n] /\ lists[m] = lists[n + 1]
          BY <3>1, <3>2
        <4> HIDE DEF more
        <4>2. QED
          BY <4>1, Zenon
      <3>3. CASE m # n + 1
        <4>1. more[m] = upTo[m] /\ m \in 0 .. n
          BY <3>3
        <4> HIDE DEF more
        <4>2. QED
          BY <2>1, <3>1, <4>1, PiledAt
      <3>4. QED
        BY <3>2, <3>3
    <2>3. more = [m \in 0 .. n + 1 |-> more[m]]
      OBVIOUS
    <2>4. Piled(lists, more, n + 1)
      <3> HIDE DEF more
      <3>1. QED
        BY <2>2, <2>3 DEF Piled
    <2>5. QED
      BY <2>4
  <1> HIDE DEF G
  <1>3. \A n \in Nat : n \in G
    BY <1>1, <1>2, NatSetInduction
  <1>4. QED
    BY <1>3 DEF G

SameStart(p, q, n) == \A i \in 1 .. n : p[i] = q[i]

\* It depends on the first lists only.
LEMMA PiledAgree ==
    ASSUME NEW p, NEW q, NEW f, NEW g, NEW n \in Nat, NEW m \in Nat, n <= m,
           Piled(p, f, n), Piled(q, g, m), SameStart(p, q, n)
    PROVE  f[n] = g[n]
  <1> DEFINE G == {k \in Nat : k <= n => f[k] = g[k]}
  <1>1. 0 \in G
    BY PiledAt
  <1>2. ASSUME NEW k \in Nat, k \in G
        PROVE  k + 1 \in G
    <2> SUFFICES ASSUME k + 1 <= n
                 PROVE  f[k + 1] = g[k + 1]
      OBVIOUS
    <2>1. PICK h \in Nat : h = k + 1
      OBVIOUS
    <2>2. h \in 0 .. n /\ h \in 0 .. m /\ h # 0 /\ h - 1 = k /\ p[h] = q[h] /\ f[k] = g[k]
      BY <1>2, <2>1 DEF SameStart
    <2>3. f[h] = f[h - 1] \o p[h]
      BY <2>2, PiledAt
    <2>4. g[h] = g[h - 1] \o q[h]
      BY <2>2, PiledAt
    <2>5. QED
      BY <2>1, <2>2, <2>3, <2>4
  <1> HIDE DEF G
  <1>3. \A k \in Nat : k \in G
    BY <1>1, <1>2, NatSetInduction
  <1>4. QED
    BY <1>3 DEF G

LEMMA JoinedPiled ==
    ASSUME NEW U, NEW lists \in Seq(U)
    PROVE  \E upTo : Piled(lists, upTo, Len(lists)) /\ Joined(lists) = upTo[Len(lists)]
  <1> DEFINE upTo == CHOOSE upTo : Piled(lists, upTo, Len(lists))
  <1>1. Piled(lists, upTo, Len(lists))
    BY PiledExists, LenProperties
  <1>2. Joined(lists) = upTo[Len(lists)]
    BY DEF Joined, Piled
  <1>3. QED
    BY <1>1, <1>2

LEMMA JoinedEmpty == Joined(<< >>) = << >>
  <1>1. << >> \in Seq({}) /\ Len(<< >>) = 0
    BY EmptySeq
  <1>2. PICK upTo : Piled(<< >>, upTo, 0) /\ Joined(<< >>) = upTo[0]
    BY <1>1, JoinedPiled
  <1>3. QED
    BY <1>2, PiledAt

\* One more list.
LEMMA JoinedAppend ==
    ASSUME NEW U, NEW lists \in Seq(U), NEW e \in U
    PROVE  Joined(Append(lists, e)) = Joined(lists) \o e
  <1>1. PICK n \in Nat : n = Len(lists)
    BY LenProperties
  <1>2. PICK more \in Seq(U) : more = Append(lists, e)
    BY AppendProperties
  <1>3. /\ Len(more) = n + 1
        /\ \A i \in 1 .. n : lists[i] = more[i]
        /\ more[n + 1] = e
    BY <1>1, <1>2, AppendProperties
  <1>4. PICK f : Piled(lists, f, n) /\ Joined(lists) = f[n]
    BY <1>1, JoinedPiled
  <1>5. PICK g : Piled(more, g, n + 1) /\ Joined(more) = g[n + 1]
    BY <1>3, JoinedPiled
  <1>6. f[n] = g[n]
    <2>1. PICK k \in Nat : k = n + 1
      OBVIOUS
    <2>2. Piled(more, g, k) /\ n <= k
      BY <1>5, <2>1
    <2>3. SameStart(lists, more, n)
      BY <1>3 DEF SameStart
    <2>4. QED
      BY <1>4, <2>2, <2>3, PiledAgree
  <1>7. g[n + 1] = g[n] \o more[n + 1]
    <2>1. n + 1 \in 0 .. n + 1 /\ n + 1 \in Nat /\ n + 1 # 0 /\ (n + 1) - 1 = n
      OBVIOUS
    <2>2. QED
      BY <1>5, <2>1, PiledAt
  <1>8. QED
    BY <1>2, <1>3, <1>4, <1>5, <1>6, <1>7

LEMMA JoinedSeq ==
    ASSUME NEW S
    PROVE  \A lists \in Seq(Seq(S)) : Joined(lists) \in Seq(S)
  <1> DEFINE G == {lists \in Seq(Seq(S)) : Joined(lists) \in Seq(S)}
  <1>1. << >> \in G
    BY JoinedEmpty, EmptySeq
  <1>2. ASSUME NEW lists \in Seq(Seq(S)), NEW e \in Seq(S), lists \in G
        PROVE  Append(lists, e) \in G
    <2>1. Append(lists, e) \in Seq(Seq(S))
      BY AppendProperties
    <2>2. Joined(Append(lists, e)) = Joined(lists) \o e
      BY JoinedAppend
    <2>3. Joined(lists) \in Seq(S)
      BY <1>2
    <2>4. Joined(lists) \o e \in Seq(S)
      BY <2>3, ConcatProperties
    <2>5. QED
      BY <2>1, <2>2, <2>4, Zenon
  <1> HIDE DEF G
  <1>3. \A lists \in Seq(Seq(S)) : lists \in G
    BY <1>1, <1>2, ListInduction
  <1>4. QED
    BY <1>3 DEF G

LEMMA JoinedConcat ==
    ASSUME NEW S, NEW p \in Seq(Seq(S))
    PROVE  \A q \in Seq(Seq(S)) : Joined(p \o q) = Joined(p) \o Joined(q)
  <1> DEFINE G == {q \in Seq(Seq(S)) : Joined(p \o q) = Joined(p) \o Joined(q)}
  <1>0. Joined(p) \in Seq(S)
    BY JoinedSeq
  <1>1. << >> \in G
    <2>1. p \o << >> = p /\ Joined(p) \o << >> = Joined(p)
      BY <1>0, ConcatEmptySeq
    <2>2. QED
      BY <2>1, JoinedEmpty, EmptySeq
  <1>2. ASSUME NEW q \in Seq(Seq(S)), NEW e \in Seq(S), q \in G
        PROVE  Append(q, e) \in G
    <2>1. Append(q, e) \in Seq(Seq(S)) /\ p \o q \in Seq(Seq(S))
      BY AppendProperties, ConcatProperties
    <2>2. p \o Append(q, e) = Append(p \o q, e)
      BY ConcatAppend
    <2>3. /\ Joined(Append(p \o q, e)) = Joined(p \o q) \o e
          /\ Joined(Append(q, e)) = Joined(q) \o e
      BY <2>1, JoinedAppend
    <2>4. Joined(q) \in Seq(S)
      BY JoinedSeq
    <2>5. (Joined(p) \o Joined(q)) \o e = Joined(p) \o (Joined(q) \o e)
      <3>1. PICK x \in Seq(S), y \in Seq(S) : x = Joined(p) /\ y = Joined(q)
        BY <1>0, <2>4
      <3>2. (x \o y) \o e = x \o (y \o e)
        BY ConcatAssociative
      <3>3. QED
        BY <3>1, <3>2, Zenon
    <2>6. QED
      BY <1>2, <2>1, <2>2, <2>3, <2>5
  <1> HIDE DEF G
  <1>3. \A q \in Seq(Seq(S)) : q \in G
    BY <1>1, <1>2, ListInduction
  <1>4. QED
    BY <1>3 DEF G

LEMMA JoinedOne ==
    ASSUME NEW S, NEW e \in Seq(S)
    PROVE  Joined(<<e>>) = e
  <1>1. Joined(Append(<< >>, e)) = Joined(<< >>) \o e
    BY JoinedAppend, EmptySeq
  <1>2. Append(<< >>, e) = <<e>>
    OBVIOUS
  <1>3. << >> \o e = e
    BY ConcatEmptySeq
  <1>4. QED
    BY <1>1, <1>2, <1>3, JoinedEmpty
=============================================================================
