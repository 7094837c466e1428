------------------------- MODULE LiveUpdates_proofs -------------------------
(***************************************************************************)
(* Proofs about the agents a browser shows (LiveUpdates): that what is on  *)
(* the way to a connected page brings it to the registry as it is, and     *)
(* that nothing else takes it back.  They rest on State_proofs for the     *)
(* registry and for the stream.                                            *)
(***************************************************************************)
EXTENDS LiveUpdates, State_proofs

----------------------------------------------------------------------------
(* After *)

\* upTo is what the definition of After computes, for the first n of l.
Shows(s, l, upTo, n) ==
    upTo = [m \in 0 .. n |->
              IF m = 0 THEN s ELSE Apply(upTo[m - 1], l[m].body, l[m].type)]

LEMMA ShowsAt ==
    ASSUME NEW s, NEW l, NEW upTo, NEW n \in Nat, Shows(s, l, upTo, n),
           NEW m \in 0 .. n
    PROVE  upTo[m] = IF m = 0 THEN s
                     ELSE Apply(upTo[m - 1], l[m].body, l[m].type)
  BY DEF Shows

\* The recursion defines something.
LEMMA ShowsExists ==
    ASSUME NEW s, NEW l
    PROVE  \A n \in Nat : \E upTo : Shows(s, l, upTo, n)
  <1> DEFINE G == {n \in Nat : \E upTo : Shows(s, l, upTo, n)}
  <1>1. 0 \in G
    <2>1. Shows(s, l, [m \in 0 .. 0 |-> s], 0)
      BY DEF Shows
    <2>2. QED
      BY <2>1
  <1>2. ASSUME NEW n \in Nat, n \in G
        PROVE  n + 1 \in G
    <2>1. PICK upTo : Shows(s, l, upTo, n)
      BY <1>2
    <2> DEFINE last == Apply(upTo[n], l[n + 1].body, l[n + 1].type)
               more == [m \in 0 .. n + 1 |-> IF m = n + 1 THEN last ELSE upTo[m]]
    <2>2. \A m \in 0 .. n + 1 :
            more[m] = IF m = 0 THEN s ELSE Apply(more[m - 1], l[m].body, l[m].type)
      <3> TAKE m \in 0 .. n + 1
      <3>1. m # 0 => more[m - 1] = upTo[m - 1]
        OBVIOUS
      <3>2. CASE m = n + 1
        <4>1. more[m] = last /\ more[m - 1] = upTo[n]
          BY <3>1, <3>2
        <4> HIDE DEF more
        <4>2. QED
          BY <3>2, <4>1
      <3>3. CASE m # n + 1
        <4>1. more[m] = upTo[m] /\ m \in 0 .. n
          BY <3>3
        <4> HIDE DEF more
        <4>2. QED
          BY <2>1, <3>1, <4>1, ShowsAt
      <3>4. QED
        BY <3>2, <3>3
    <2>3. more = [m \in 0 .. n + 1 |-> more[m]]
      OBVIOUS
    <2>4. Shows(s, l, more, n + 1)
      <3> HIDE DEF more
      <3>1. QED
        BY <2>2, <2>3 DEF Shows
    <2>5. QED
      BY <2>4
  <1> HIDE DEF G
  <1>3. \A n \in Nat : n \in G
    BY <1>1, <1>2, NatSetInduction
  <1>4. QED
    BY <1>3 DEF G

\* The messages p, which are those of l from place d on, do to what is shown at
\* d what l does.
LEMMA ShowsAgree ==
    ASSUME NEW s, NEW l, NEW f, NEW n \in Nat, Shows(s, l, f, n),
           NEW t, NEW p, NEW g, NEW m \in Nat, Shows(t, p, g, m),
           NEW d \in Nat, d + m <= n, f[d] = t,
           \A i \in 1 .. m : p[i] = l[d + i]
    PROVE  g[m] = f[d + m]
  <1> DEFINE G == {k \in Nat : k <= m => g[k] = f[d + k]}
  <1>1. 0 \in G
    <2>1. g[0] = t
      BY ShowsAt
    <2>2. QED
      BY <2>1
  <1>2. ASSUME NEW k \in Nat, k \in G
        PROVE  k + 1 \in G
    <2> SUFFICES ASSUME k + 1 <= m
                 PROVE  g[k + 1] = f[d + (k + 1)]
      OBVIOUS
    <2>1. PICK h \in Nat : h = d + (k + 1)
      OBVIOUS
    <2>2. /\ k + 1 \in 0 .. m /\ (k + 1) - 1 = k /\ k + 1 # 0 /\ k + 1 \in 1 .. m
          /\ h \in 0 .. n /\ h - 1 = d + k /\ h # 0 /\ g[k] = f[d + k]
      BY <1>2, <2>1
    <2>3. g[k + 1] = Apply(g[k], p[k + 1].body, p[k + 1].type)
      BY <2>2, ShowsAt
    <2>4. f[h] = Apply(f[h - 1], l[h].body, l[h].type)
      BY <2>2, ShowsAt
    <2>5. p[k + 1] = l[h]
      BY <2>1, <2>2
    <2>6. QED
      BY <2>1, <2>2, <2>3, <2>4, <2>5
  <1> HIDE DEF G
  <1>3. \A k \in Nat : k \in G
    BY <1>1, <1>2, NatSetInduction
  <1>4. QED
    BY <1>3 DEF G

\* What After stands for.
LEMMA AfterShows ==
    ASSUME NEW U, NEW s, NEW l \in Seq(U)
    PROVE  \E upTo : Shows(s, l, upTo, Len(l)) /\ After(s, l) = upTo[Len(l)]
  <1> DEFINE upTo == CHOOSE upTo : Shows(s, l, upTo, Len(l))
  <1>1. Shows(s, l, upTo, Len(l))
    BY ShowsExists, LenProperties
  <1>2. After(s, l) = upTo[Len(l)]
    BY DEF After, Shows
  <1>3. QED
    BY <1>1, <1>2

\* One more message.
LEMMA AfterAppend ==
    ASSUME NEW U, NEW s, NEW l \in Seq(U), NEW m \in U
    PROVE  After(s, Append(l, m)) = Apply(After(s, l), m.body, m.type)
  <1>1. PICK n \in Nat : n = Len(l)
    BY LenProperties
  <1>2. PICK more \in Seq(U) : more = Append(l, m)
    BY AppendProperties
  <1>3. /\ Len(more) = n + 1
        /\ \A i \in 1 .. n : more[i] = l[i]
        /\ more[n + 1] = m
    BY <1>1, <1>2, AppendProperties
  <1>4. PICK g : Shows(s, l, g, n) /\ After(s, l) = g[n]
    BY <1>1, AfterShows
  <1>5. PICK f : Shows(s, more, f, n + 1) /\ After(s, more) = f[n + 1]
    BY <1>3, AfterShows
  <1>6. g[n] = f[n]
    <2>1. PICK k \in Nat : k = n + 1
      OBVIOUS
    <2>2. Shows(s, more, f, k) /\ f[0] = s
      BY <1>5, <2>1, ShowsAt
    <2>3. 0 + n <= k /\ 0 + n = n /\ \A i \in 1 .. n : l[i] = more[0 + i]
      BY <1>3, <2>1
    <2>4. g[n] = f[0 + n]
      BY <1>4, <2>2, <2>3, ShowsAgree
    <2>5. QED
      BY <2>3, <2>4
  <1>7. f[n + 1] = Apply(f[n], more[n + 1].body, more[n + 1].type)
    <2>1. n + 1 \in 0 .. n + 1 /\ n + 1 \in Nat /\ n + 1 # 0 /\ (n + 1) - 1 = n
      OBVIOUS
    <2>2. QED
      BY <1>5, <2>1, ShowsAt
  <1>8. QED
    BY <1>2, <1>3, <1>4, <1>5, <1>6, <1>7

\* What is left of l when its first entry is gone.
IsRest(rest, l) ==
    /\ Len(rest) = Len(l) - 1
    /\ \A i \in 1 .. Len(rest) : rest[i] = l[i + 1]

\* The first message arrives.
LEMMA AfterTail ==
    ASSUME NEW U, NEW s, NEW l \in Seq(U), l # << >>, NEW rest \in Seq(U),
           IsRest(rest, l)
    PROVE  After(s, l) = After(Apply(s, l[1].body, l[1].type), rest)
  <1> DEFINE t == Apply(s, l[1].body, l[1].type)
  <1>1. PICK n \in Nat : n = Len(rest) /\ Len(l) = n + 1
    BY LenProperties, EmptySeq DEF IsRest
  <1>2. PICK g : Shows(t, rest, g, n) /\ After(t, rest) = g[n]
    BY <1>1, AfterShows
  <1>3. PICK f : Shows(s, l, f, n + 1) /\ After(s, l) = f[n + 1]
    BY <1>1, AfterShows
  <1>4. f[1] = t
    <2>1. 1 \in 0 .. n + 1 /\ 0 \in 0 .. n + 1 /\ n + 1 \in Nat /\ 1 - 1 = 0 /\ 1 # 0
      OBVIOUS
    <2>2. f[0] = s
      BY <1>3, <2>1, ShowsAt
    <2>3. f[1] = Apply(f[1 - 1], l[1].body, l[1].type)
      BY <1>3, <2>1, ShowsAt
    <2>4. QED
      BY <2>1, <2>2, <2>3
  <1> HIDE DEF t
  <1>5. PICK k \in Nat : k = n + 1
    OBVIOUS
  <1>6. Shows(s, l, f, k) /\ 1 + n <= k /\ 1 + n = k /\ 1 \in Nat
    BY <1>3, <1>5
  <1>7. \A i \in 1 .. n : rest[i] = l[1 + i]
    BY <1>1 DEF IsRest
  <1>8. g[n] = f[1 + n]
    BY <1>2, <1>4, <1>6, <1>7, ShowsAgree
  <1>9. QED
    BY <1>2, <1>3, <1>5, <1>6, <1>8 DEF t

\* Nothing is on the way.
LEMMA AfterEmpty ==
    ASSUME NEW s
    PROVE  After(s, << >>) = s
  <1>1. << >> \in Seq({}) /\ Len(<< >>) = 0
    BY EmptySeq
  <1>2. PICK upTo : Shows(s, << >>, upTo, 0) /\ After(s, << >>) = upTo[0]
    BY <1>1, AfterShows
  <1>3. QED
    BY <1>2, ShowsAt

\* Before a snapshot it does not matter what is shown.
LEMMA AfterSnapshot ==
    ASSUME NEW U, NEW s, NEW t, NEW l \in Seq(U), l # << >>, l[1].type = "snapshot"
    PROVE  After(s, l) = After(t, l)
  <1>1. PICK rest \in Seq(U) : rest = Tail(l)
    BY HeadTailProperties
  <1>2. IsRest(rest, l)
    <2>1. /\ Len(rest) = Len(l) - 1
          /\ \A i \in 1 .. Len(rest) : rest[i] = l[i + 1]
      BY <1>1, HeadTailProperties
    <2>2. QED
      BY <2>1, Zenon DEF IsRest
  <1>3. \A u : Apply(u, l[1].body, l[1].type) = l[1].body
    BY DEF Apply
  <1>4. \A u : After(u, l) = After(l[1].body, rest)
    BY <1>2, <1>3, AfterTail
  <1>5. QED
    BY <1>4

----------------------------------------------------------------------------
(* OnTheWay *)

\* What is on the way with the messages w sent and the events q queued.
Way(w, q) == w \o [i \in DOMAIN q |-> Event(q[i].body, FALSE)]

\* x lists w first and then the events of q.
IsWay(x, w, q) ==
    /\ Len(x) = Len(w) + Len(q)
    /\ \A i \in 1 .. Len(w) : x[i] = w[i]
    /\ \A i \in 1 .. Len(q) : x[Len(w) + i] = Event(q[i].body, FALSE)

LEMMA WayProperties ==
    ASSUME NEW B, NEW M, Carries(M, B), NEW w \in Seq(M), NEW q \in Seq(Entry(B))
    PROVE  \E x \in Seq(M) : x = Way(w, q) /\ IsWay(x, w, q)
  <1> DEFINE e(i) == Event(q[i].body, FALSE)
  <1>1. Len(q) \in Nat /\ DOMAIN q = 1 .. Len(q)
    BY LenProperties
  <1>2. \A i \in 1 .. Len(q) : e(i) \in M
    <2> TAKE i \in 1 .. Len(q)
    <2>1. q[i] \in Entry(B)
      BY ElementOfSeq
    <2>2. q[i].body \in B
      BY <2>1 DEF Entry
    <2>3. QED
      BY <2>2 DEF Carries
  <1>3. PICK p : p = [i \in 1 .. Len(q) |-> e(i)]
    OBVIOUS
  <1>4. p \in Seq(M)
    <2> HIDE DEF e
    <2>1. QED
      BY <1>1, <1>2, <1>3, IsASeq
  <1>5. Len(p) = Len(q) /\ \A i \in 1 .. Len(q) : p[i] = e(i)
    BY <1>1, <1>3, <1>4, LenProperties
  <1>6. Way(w, q) = w \o p
    BY <1>1, <1>3 DEF Way
  <1>7. /\ w \o p \in Seq(M)
        /\ Len(w \o p) = Len(w) + Len(p)
        /\ \A i \in 1 .. Len(w) : (w \o p)[i] = w[i]
        /\ \A i \in 1 .. Len(p) : (w \o p)[Len(w) + i] = p[i]
    BY <1>4, ConcatAt
  <1>8. PICK x \in Seq(M) : x = w \o p
    BY <1>7
  <1>9. /\ Len(x) = Len(w) + Len(q)
        /\ \A i \in 1 .. Len(w) : x[i] = w[i]
        /\ \A i \in 1 .. Len(q) : x[Len(w) + i] = e(i)
    <2> HIDE DEF e
    <2>1. QED
      BY <1>5, <1>7, <1>8
  <1>10. IsWay(x, w, q)
    BY <1>9, Zenon DEF IsWay
  <1>11. QED
    BY <1>6, <1>8, <1>10, Zenon

\* The queue p is q and one more entry.
Extends(p, q, body) ==
    /\ Len(p) = Len(q) + 1
    /\ \A i \in 1 .. Len(q) : p[i] = q[i]
    /\ p[Len(q) + 1].body = body

\* One more event in the queue is one more on the way.
LEMMA WayAppends ==
    ASSUME NEW B, NEW M, Carries(M, B), NEW w \in Seq(M),
           NEW q \in Seq(Entry(B)), NEW p \in Seq(Entry(B)),
           NEW body \in B, Extends(p, q, body)
    PROVE  Way(w, p) = Append(Way(w, q), Event(body, FALSE))
  <1>1. /\ \E x \in Seq(M) : x = Way(w, q) /\ IsWay(x, w, q)
        /\ \E y \in Seq(M) : y = Way(w, p) /\ IsWay(y, w, p)
    BY WayProperties
  <1>x1. PICK x \in Seq(M) : x = Way(w, q) /\ IsWay(x, w, q)
    BY <1>1, Zenon
  <1>y1. PICK y \in Seq(M) : y = Way(w, p) /\ IsWay(y, w, p)
    BY <1>1, Zenon
  <1>2. PICK k \in Nat, n \in Nat : k = Len(w) /\ n = Len(q) /\ Len(p) = n + 1
    BY LenProperties DEF Extends
  <1>3. /\ Len(x) = k + n
        /\ \A i \in 1 .. k : x[i] = w[i]
        /\ \A i \in 1 .. n : x[k + i] = Event(q[i].body, FALSE)
    BY <1>2, <1>x1, <1>y1 DEF IsWay
  <1>4. /\ Len(y) = k + (n + 1)
        /\ \A i \in 1 .. k : y[i] = w[i]
        /\ \A i \in 1 .. n + 1 : y[k + i] = Event(p[i].body, FALSE)
    BY <1>2, <1>x1, <1>y1 DEF IsWay
  <1>5. PICK m \in M : m = Event(body, FALSE)
    BY DEF Carries
  <1>6. PICK z \in Seq(M) : z = Append(x, m)
    BY AppendProperties
  <1>7. /\ Len(z) = k + n + 1
        /\ \A i \in 1 .. k + n : z[i] = x[i]
        /\ z[k + n + 1] = m
    <2>1. /\ Len(z) = Len(x) + 1
          /\ \A i \in 1 .. Len(x) : z[i] = x[i]
          /\ z[Len(x) + 1] = m
      BY <1>6, AppendProperties
    <2>2. Len(x) = k + n
      BY <1>3
    <2>3. QED
      BY <2>1, <2>2
  <1>8. \A i \in 1 .. Len(z) : y[i] = z[i]
    <2> TAKE i \in 1 .. Len(z)
    <2>1. CASE i \in 1 .. k
      <3>1. i \in 1 .. k + n
        BY <2>1
      <3>2. y[i] = w[i] /\ x[i] = w[i] /\ z[i] = x[i]
        BY <1>3, <1>4, <1>7, <2>1, <3>1, Zenon
      <3>3. QED
        BY <3>2
    <2>2. CASE i \notin 1 .. k /\ i # k + n + 1
      <3>1. PICK j \in 1 .. n : i = k + j
        <4>1. i - k \in 1 .. n /\ i = k + (i - k)
          <5>1. i \in 1 .. k + n + 1
            BY <1>7
          <5>2. QED
            BY <2>2, <5>1
        <4>2. QED
          BY <4>1
      <3>2. j \in 1 .. n + 1 /\ i \in 1 .. k + n
        BY <3>1
      <3>3. p[j] = q[j]
        BY <1>2 DEF Extends
      <3>4. y[i] = Event(q[j].body, FALSE) /\ x[i] = Event(q[j].body, FALSE)
        BY <1>3, <1>4, <3>1, <3>2, <3>3
      <3>5. QED
        BY <1>7, <3>2, <3>4
    <2>3. CASE i = k + n + 1
      <3>1. i = k + (n + 1) /\ n + 1 \in 1 .. n + 1
        BY <2>3
      <3>2. y[i] = Event(p[n + 1].body, FALSE)
        BY <1>4, <3>1
      <3>3. p[n + 1].body = body
        BY <1>2 DEF Extends
      <3>4. QED
        BY <1>5, <1>7, <2>3, <3>2, <3>3
    <2>4. QED
      BY <2>1, <2>2, <2>3
  <1>9. y = z
    <2>1. Len(y) = Len(z)
      BY <1>4, <1>7
    <2>2. \A i \in 1 .. Len(y) : y[i] = z[i]
      BY <1>8, <2>1
    <2>3. QED
      BY <2>1, <2>2, SeqEqual
  <1>10. QED
    BY <1>5, <1>6, <1>9, <1>x1, <1>y1, Zenon

\* An event that leaves the queue unmarked stays on the way.
LEMMA WayForwards ==
    ASSUME NEW B, NEW M, Carries(M, B), NEW w \in Seq(M),
           NEW q \in Seq(Entry(B)), q # << >>
    PROVE  Way(Append(w, Event(Head(q).body, FALSE)), Tail(q)) = Way(w, q)
  <1>1. PICK m \in M : m = Event(Head(q).body, FALSE)
    <2>1. Head(q) \in Entry(B)
      BY HeadTailProperties
    <2>2. Head(q).body \in B
      BY <2>1 DEF Entry
    <2>3. QED
      BY <2>2 DEF Carries
  <1>2. PICK v \in Seq(M) : v = Append(w, m)
    BY AppendProperties
  <1>3. PICK r \in Seq(Entry(B)) : r = Tail(q)
    BY HeadTailProperties
  <1>4. PICK k \in Nat, n \in Nat : k = Len(w) /\ n = Len(r) /\ Len(q) = n + 1
    <2>1. Len(r) = Len(q) - 1 /\ Len(r) \in Nat /\ Len(q) \in Nat /\ Len(w) \in Nat
      BY <1>3, HeadTailProperties, LenProperties
    <2>2. QED
      BY <2>1
  <1>5. /\ Len(v) = k + 1
        /\ \A i \in 1 .. k : v[i] = w[i]
        /\ v[k + 1] = m
    BY <1>2, <1>4, AppendProperties
  <1>6. \A i \in 1 .. n : r[i] = q[i + 1]
    BY <1>3, <1>4, HeadTailProperties
  <1>7. /\ \E x \in Seq(M) : x = Way(w, q) /\ IsWay(x, w, q)
        /\ \E y \in Seq(M) : y = Way(v, r) /\ IsWay(y, v, r)
    BY WayProperties
  <1>x1. PICK x \in Seq(M) : x = Way(w, q) /\ IsWay(x, w, q)
    BY <1>7, Zenon
  <1>y1. PICK y \in Seq(M) : y = Way(v, r) /\ IsWay(y, v, r)
    BY <1>7, Zenon
  <1>8. /\ Len(x) = k + (n + 1)
        /\ \A i \in 1 .. k : x[i] = w[i]
        /\ \A i \in 1 .. n + 1 : x[k + i] = Event(q[i].body, FALSE)
    BY <1>4, <1>x1, <1>y1 DEF IsWay
  <1>9. /\ Len(y) = (k + 1) + n
        /\ \A i \in 1 .. k + 1 : y[i] = v[i]
        /\ \A i \in 1 .. n : y[(k + 1) + i] = Event(r[i].body, FALSE)
    BY <1>4, <1>5, <1>x1, <1>y1 DEF IsWay
  <1>10. m = Event(q[1].body, FALSE)
    <2>1. Head(q) = q[1]
      OBVIOUS
    <2>2. QED
      BY <1>1, <2>1, Zenon
  <1>11. \A i \in 1 .. Len(x) : y[i] = x[i]
    <2> TAKE i \in 1 .. Len(x)
    <2>1. CASE i \in 1 .. k
      <3>1. i \in 1 .. k + 1
        BY <2>1
      <3>2. x[i] = w[i] /\ y[i] = v[i] /\ v[i] = w[i]
        BY <1>5, <1>8, <1>9, <2>1, <3>1, Zenon
      <3>3. QED
        BY <3>2
    <2>2. CASE i = k + 1
      <3>1. 1 \in 1 .. n + 1 /\ i \in 1 .. k + 1
        BY <2>2
      <3>2. QED
        BY <1>5, <1>8, <1>9, <1>10, <2>2, <3>1
    <2>3. CASE i \notin 1 .. k /\ i # k + 1
      <3>1. PICK j \in 1 .. n : i = (k + 1) + j
        <4>1. i - (k + 1) \in 1 .. n /\ i = (k + 1) + (i - (k + 1))
          BY <1>8, <2>3
        <4>2. QED
          BY <4>1
      <3>2. i = k + (j + 1) /\ j + 1 \in 1 .. n + 1
        BY <3>1
      <3>3. x[i] = Event(q[j + 1].body, FALSE)
        BY <1>8, <3>2
      <3>4. y[i] = Event(r[j].body, FALSE) /\ r[j] = q[j + 1]
        BY <1>6, <1>9, <3>1
      <3>5. QED
        BY <3>3, <3>4
    <2>4. QED
      BY <2>1, <2>2, <2>3
  <1>12. y = x
    <2>1. Len(y) = Len(x)
      BY <1>8, <1>9
    <2>2. \A i \in 1 .. Len(y) : y[i] = x[i]
      BY <1>11, <2>1
    <2>3. QED
      BY <2>1, <2>2, SeqEqual
  <1>13. QED
    BY <1>1, <1>2, <1>3, <1>12, <1>x1, <1>y1, Zenon

\* The first message sent is the first on the way.
LEMMA WayArrives ==
    ASSUME NEW B, NEW M, Carries(M, B), NEW w \in Seq(M), w # << >>,
           NEW q \in Seq(Entry(B)), NEW s
    PROVE  After(Apply(s, Head(w).body, Head(w).type), Way(Tail(w), q))
             = After(s, Way(w, q))
  <1>1. PICK v \in Seq(M) : v = Tail(w)
    BY HeadTailProperties
  <1>2. PICK k \in Nat, n \in Nat : k = Len(v) /\ n = Len(q) /\ Len(w) = k + 1
    <2>1. Len(v) = Len(w) - 1 /\ Len(v) \in Nat /\ Len(q) \in Nat /\ Len(w) \in Nat
      BY <1>1, HeadTailProperties, LenProperties
    <2>2. QED
      BY <2>1
  <1>3. \A i \in 1 .. k : v[i] = w[i + 1]
    BY <1>1, <1>2, HeadTailProperties
  <1>4. /\ \E x \in Seq(M) : x = Way(w, q) /\ IsWay(x, w, q)
        /\ \E y \in Seq(M) : y = Way(v, q) /\ IsWay(y, v, q)
    BY WayProperties
  <1>x1. PICK x \in Seq(M) : x = Way(w, q) /\ IsWay(x, w, q)
    BY <1>4, Zenon
  <1>y1. PICK y \in Seq(M) : y = Way(v, q) /\ IsWay(y, v, q)
    BY <1>4, Zenon
  <1>5. /\ Len(x) = (k + 1) + n
        /\ \A i \in 1 .. k + 1 : x[i] = w[i]
        /\ \A i \in 1 .. n : x[(k + 1) + i] = Event(q[i].body, FALSE)
    BY <1>2, <1>x1, <1>y1 DEF IsWay
  <1>6. /\ Len(y) = k + n
        /\ \A i \in 1 .. k : y[i] = v[i]
        /\ \A i \in 1 .. n : y[k + i] = Event(q[i].body, FALSE)
    BY <1>2, <1>x1, <1>y1 DEF IsWay
  <1>7. \A i \in 1 .. Len(y) : y[i] = x[i + 1]
    <2> TAKE i \in 1 .. Len(y)
    <2>1. CASE i \in 1 .. k
      <3>1. i + 1 \in 1 .. k + 1
        BY <2>1
      <3>2. QED
        BY <1>3, <1>5, <1>6, <2>1, <3>1
    <2>2. CASE i \notin 1 .. k
      <3>1. PICK j \in 1 .. n : i = k + j
        <4>1. i - k \in 1 .. n /\ i = k + (i - k)
          BY <1>6, <2>2
        <4>2. QED
          BY <4>1
      <3>2. i + 1 = (k + 1) + j
        BY <3>1
      <3>3. QED
        BY <1>5, <1>6, <3>1, <3>2
    <2>3. QED
      BY <2>1, <2>2
  <1>8. x[1] = Head(w)
    BY <1>5
  <1>9. x # << >> /\ Len(y) = Len(x) - 1
    <2>1. Len(x) # 0
      BY <1>5
    <2>2. QED
      BY <1>5, <1>6, <2>1, EmptySeq
  <1>10. After(s, x) = After(Apply(s, x[1].body, x[1].type), y)
    <2>1. IsRest(y, x)
      BY <1>7, <1>9, Zenon DEF IsRest
    <2>2. QED
      BY <1>9, <2>1, AfterTail
  <1>11. QED
    BY <1>1, <1>8, <1>10, <1>x1, <1>y1, Zenon

----------------------------------------------------------------------------
(* Publishing, as long as nothing is lost *)

\* One event more in the queue.
LEMMA PublishOne ==
    ASSUME NEW B, NEW M, StreamInv(B, M), NEW b \in B, Publish(<<b>>),
           subscribed, ~degraded'
    PROVE  /\ ~degraded
           /\ queue' \in Seq(Entry(B))
           /\ Extends(queue', queue, b)
  <1>1. <<b>> \in Seq(B) /\ Len(<<b>>) = 1 /\ <<b>>[1] = b
    OBVIOUS
  <1>2. ~degraded /\ queue' = queue \o Stamped(<<b>>)
    BY <1>1, PublishKeeps
  <1>3. Stamped(<<b>>) \in Seq(Entry(B)) /\ Len(Stamped(<<b>>)) = 1
    BY <1>1, StampedProperties DEF StreamInv, StreamTypes
  <1>4. Stamped(<<b>>)[1].body = b
    BY <1>1 DEF Stamped
  <1>5. queue \in Seq(Entry(B))
    BY DEF StreamInv, StreamTypes
  <1>6. PICK s \in Seq(Entry(B)) : s = Stamped(<<b>>)
    BY <1>3
  <1>7. PICK q \in Seq(Entry(B)) : q = queue \o s
    BY <1>5, ConcatProperties
  <1>8. /\ Len(queue) \in Nat
        /\ Len(q) = Len(queue) + Len(s)
        /\ \A i \in 1 .. Len(queue) : q[i] = queue[i]
        /\ \A i \in 1 .. Len(s) : q[Len(queue) + i] = s[i]
    BY <1>5, <1>7, ConcatAt
  <1>9. Len(s) = 1 /\ s[1].body = b
    BY <1>3, <1>4, <1>6
  <1>10. Extends(q, queue, b)
    BY <1>8, <1>9 DEF Extends
  <1>11. queue' = q
    BY <1>2, <1>6, <1>7, Zenon
  <1>12. QED
    BY <1>2, <1>10, <1>11, Zenon

\* Two, the one before the other.
LEMMA PublishTwo ==
    ASSUME NEW B, NEW M, StreamInv(B, M), NEW b \in B, NEW c \in B,
           Publish(<<b, c>>), subscribed, ~degraded'
    PROVE  /\ ~degraded
           /\ queue' \in Seq(Entry(B))
           /\ \E mid \in Seq(Entry(B)) :
                Extends(mid, queue, b) /\ Extends(queue', mid, c)
  <1>1. /\ <<b, c>> \in Seq(B) /\ Len(<<b, c>>) = 2
        /\ <<b, c>>[1] = b /\ <<b, c>>[2] = c
    OBVIOUS
  <1>2. ~degraded /\ queue' = queue \o Stamped(<<b, c>>)
    BY <1>1, PublishKeeps
  <1>3. Stamped(<<b, c>>) \in Seq(Entry(B)) /\ Len(Stamped(<<b, c>>)) = 2
    BY <1>1, StampedProperties DEF StreamInv, StreamTypes
  <1>4. Stamped(<<b, c>>)[1].body = b /\ Stamped(<<b, c>>)[2].body = c
    BY <1>1 DEF Stamped
  <1>5. queue \in Seq(Entry(B))
    BY DEF StreamInv, StreamTypes
  <1>6. PICK s \in Seq(Entry(B)) : s = Stamped(<<b, c>>)
    BY <1>3
  <1>7. PICK q \in Seq(Entry(B)) : q = queue \o s
    BY <1>5, ConcatProperties
  <1>8. PICK n \in Nat : n = Len(queue)
    BY <1>5, LenProperties
  <1>9. Len(s) = 2 /\ s[1].body = b /\ s[2].body = c
    BY <1>3, <1>4, <1>6
  <1>10. /\ Len(q) = n + 2
         /\ \A i \in 1 .. n : q[i] = queue[i]
         /\ q[n + 1].body = b
         /\ q[n + 2].body = c
    <2>1. /\ Len(q) = Len(queue) + Len(s)
          /\ \A i \in 1 .. Len(queue) : q[i] = queue[i]
          /\ \A i \in 1 .. Len(s) : q[Len(queue) + i] = s[i]
      BY <1>5, <1>7, ConcatAt
    <2>2. q[n + 1] = s[1] /\ q[n + 2] = s[2]
      BY <1>8, <1>9, <2>1
    <2>3. QED
      BY <1>8, <1>9, <2>1, <2>2
  <1>11. PICK e \in Entry(B) : e = q[n + 1]
    BY <1>10, ElementOfSeq
  <1>12. PICK mid \in Seq(Entry(B)) : mid = Append(queue, e)
    BY <1>5, AppendProperties
  <1>13. /\ Len(mid) = n + 1
         /\ \A i \in 1 .. n : mid[i] = queue[i]
         /\ mid[n + 1] = e
    BY <1>5, <1>8, <1>12, AppendProperties
  <1>14. Extends(mid, queue, b)
    BY <1>8, <1>10, <1>11, <1>13 DEF Extends
  <1>15. Extends(q, mid, c)
    <2>1. \A i \in 1 .. n + 1 : q[i] = mid[i]
      <3>1. q[n + 1] = mid[n + 1]
        BY <1>11, <1>13, Zenon
      <3>2. \A i \in 1 .. n : q[i] = mid[i]
        BY <1>10, <1>13, Zenon
      <3>3. \A i \in 1 .. n + 1 : i \in 1 .. n \/ i = n + 1
        OBVIOUS
      <3>4. QED
        BY <3>1, <3>2, <3>3, Zenon
    <2>2. Len(q) = Len(mid) + 1 /\ Len(mid) + 1 = n + 2
      BY <1>10, <1>13
    <2>3. \A i \in 1 .. Len(mid) : q[i] = mid[i]
      BY <1>13, <2>1, Zenon
    <2>4. q[Len(mid) + 1].body = c
      BY <1>10, <2>2, Zenon
    <2>5. QED
      BY <2>2, <2>3, <2>4, Zenon DEF Extends
  <1>16. queue' = q
    BY <1>2, <1>6, <1>7, Zenon
  <1>17. queue' \in Seq(Entry(B)) /\ Extends(queue', mid, c)
    BY <1>15, <1>16, Zenon
  <1>18. \E m \in Seq(Entry(B)) : Extends(m, queue, b) /\ Extends(queue', m, c)
    BY <1>14, <1>17, Zenon
  <1>19. QED
    BY <1>2, <1>17, <1>18, Zenon

\* What is shown in the end changes by what one more event says.
LEMMA AfterExtends ==
    ASSUME NEW B, NEW M, Carries(M, B), NEW w \in Seq(M), NEW s,
           NEW q \in Seq(Entry(B)), NEW p \in Seq(Entry(B)),
           NEW body \in B, Extends(p, q, body)
    PROVE  After(s, Way(w, p)) = Apply(After(s, Way(w, q)), body, "event")
  <1>1. \E x \in Seq(M) : x = Way(w, q) /\ IsWay(x, w, q)
    BY WayProperties
  <1>2. PICK x \in Seq(M) : x = Way(w, q)
    BY <1>1, Zenon
  <1>3. PICK m \in M : m = Event(body, FALSE)
    BY DEF Carries
  <1>4. Way(w, p) = Append(x, m)
    BY <1>2, <1>3, WayAppends, ZenonT(60)
  <1>5. After(s, Append(x, m)) = Apply(After(s, x), m.body, m.type)
    BY AfterAppend
  <1>6. m.body = body /\ m.type = "event"
    BY <1>3 DEF Event
  <1>7. QED
    BY <1>2, <1>4, <1>5, <1>6, Zenon

----------------------------------------------------------------------------
(* The inductive invariant *)

Shot == [state : Live \union Terminal \union {"unlisted"}, updatedAt : Nat]

\* What the events of the registry say.
Change == [type : {"agent_updated", "agent_evicted"}, agent : Agents, snapshot : Shot]

\* What the client is sent.
Note == [type : {"snapshot"}, body : View, degraded : BOOLEAN]
        \union [type : {"event"}, body : Change, degraded : BOOLEAN]

Asking == [is : {"idle", "asked", "answered"}, list : View]

ClientTypes ==
    /\ SocketTypeOK
    /\ known \in View
    /\ poll \in Asking
    /\ mount \in Asking
    /\ prompt \in BOOLEAN
    /\ prompts \in 0 .. MaxPrompts

\* An agent reports less often than its record changes.
ReportsCounted ==
    \A a \in Agents :
        /\ agentState[a] = "unknown" => progress[a] = 0
        /\ agentState[a] \in Live => progress[a] < updatedAt[a]

\* Once the socket is open, no answer of a poll is waited for.
PollDisowned == SocketLive => poll = Idle

\* An open socket has its subscription, a closed one has none, and before
\* onopen the snapshot is the first message still to be received.
SocketHasStream ==
    /\ socket = "open" => subscribed
    /\ socket = "closed" => ~subscribed
    /\ subscribed /\ socket = "connecting" =>
         wire # << >> /\ wire[1].type = "snapshot"

ReachesStore ==
    subscribed /\ socket \in {"connecting", "open"} =>
        \/ Upcoming = StoreView
        \/ degraded
        \/ \E i \in DOMAIN wire : wire[i].degraded

LiveInv ==
    /\ RegistryInv
    /\ ReportsCounted
    /\ StreamInv(Change, Note)
    /\ ClientTypes
    /\ PollDisowned
    /\ SocketHasStream
    /\ ReachesStore

----------------------------------------------------------------------------
(* What the events of the registry make of a view *)

\* One agent is shown as it is now.
LEMMA ApplyUpdated ==
    ASSUME NEW s \in View, NEW t \in View, NEW a \in Agents,
           \A b \in Agents \ {a} : t[b] = s[b],
           s[a].updatedAt <= t[a].updatedAt
    PROVE  Apply(s, [type |-> "agent_updated", agent |-> a, snapshot |-> t[a]], "event") = t
  <1> DEFINE body == [type |-> "agent_updated", agent |-> a, snapshot |-> t[a]]
  <1>1. body.type = "agent_updated" /\ body.agent = a /\ body.snapshot = t[a]
    OBVIOUS
  <1>2. s \in [Agents -> Shot] /\ t \in [Agents -> Shot]
    BY DEF View, Shot
  <1>3. s[a].updatedAt \in Nat /\ t[a].updatedAt \in Nat
    BY <1>2 DEF Shot
  <1>4. ~(s[a].updatedAt > t[a].updatedAt)
    BY <1>3
  <1> HIDE DEF body
  <1>5. Apply(s, body, "event") = [s EXCEPT ![a] = t[a]]
    BY <1>1, <1>4, Zenon DEF Apply
  <1>6. [s EXCEPT ![a] = t[a]] = t
    BY <1>2
  <1>7. QED
    BY <1>5, <1>6 DEF body

\* One agent is no longer shown.
LEMMA ApplyEvicted ==
    ASSUME NEW s \in View, NEW t \in View, NEW a \in Agents,
           \A b \in Agents \ {a} : t[b] = s[b], t[a] = Unlisted
    PROVE  Apply(s, [type |-> "agent_evicted", agent |-> a, snapshot |-> Unlisted], "event") = t
  <1> DEFINE body == [type |-> "agent_evicted", agent |-> a, snapshot |-> Unlisted]
  <1>1. body.type = "agent_evicted" /\ body.agent = a
    OBVIOUS
  <1>2. s \in [Agents -> Shot] /\ t \in [Agents -> Shot]
    BY DEF View, Shot
  <1> HIDE DEF body
  <1>3. Apply(s, body, "event") = [s EXCEPT ![a] = Unlisted]
    BY <1>1 DEF Apply
  <1>4. [s EXCEPT ![a] = Unlisted] = t
    BY <1>2
  <1>5. QED
    BY <1>3, <1>4 DEF body

\* Whatever arrives, what is shown is a view.
LEMMA ApplyView ==
    ASSUME NEW s \in View, NEW m \in Note
    PROVE  Apply(s, m.body, m.type) \in View
  <1>1. CASE m \in [type : {"snapshot"}, body : View, degraded : BOOLEAN]
    BY <1>1 DEF Apply
  <1>2. CASE m \in [type : {"event"}, body : Change, degraded : BOOLEAN]
    <2>1. m.type = "event" /\ m.body \in Change
      BY <1>2
    <2>2. PICK b \in Change : b = m.body
      BY <2>1
    <2>3. b.agent \in Agents /\ b.snapshot \in Shot /\ Unlisted \in Shot
          /\ b.type \in {"agent_updated", "agent_evicted"}
      BY DEF Change, Shot, Unlisted
    <2>4. View = [Agents -> Shot]
      BY DEF View, Shot
    <2>5. [s EXCEPT ![b.agent] = Unlisted] \in View
          /\ [s EXCEPT ![b.agent] = b.snapshot] \in View
      BY <2>3, <2>4
    <2>6. Apply(s, b, "event") \in View
      BY <2>3, <2>5 DEF Apply
    <2>7. QED
      BY <2>1, <2>2, <2>6
  <1>3. QED
    BY <1>1, <1>2 DEF Note

\* The store's own view.
LEMMA StoreViewType ==
    ASSUME RegistryTypeOK
    PROVE  StoreView \in View
  <1>1. \A a \in Agents :
          /\ updatedAt[a] \in Nat
          /\ Present(a) => agentState[a] \in Live \union Terminal
    BY DEF RegistryTypeOK, Present
  <1>2. \A a \in Agents :
          (IF Present(a) THEN [state |-> agentState[a], updatedAt |-> updatedAt[a]]
           ELSE Unlisted) \in Shot
    BY <1>1 DEF Shot, Unlisted
  <1>3. View = [Agents -> Shot]
    BY DEF View, Shot
  <1>4. QED
    BY <1>2, <1>3 DEF StoreView

LEMMA StoreViewNext ==
    ASSUME RegistryTypeOK'
    PROVE  StoreView' \in View
  <1>1. \A a \in Agents :
          /\ updatedAt'[a] \in Nat
          /\ Present(a)' => agentState'[a] \in Live \union Terminal
    BY DEF RegistryTypeOK, Present
  <1>2. \A a \in Agents :
          (IF Present(a)' THEN [state |-> agentState'[a], updatedAt |-> updatedAt'[a]]
           ELSE Unlisted) \in Shot
    BY <1>1 DEF Shot, Unlisted
  <1>3. View = [Agents -> Shot]
    BY DEF View, Shot
  <1>4. QED
    BY <1>2, <1>3 DEF StoreView

\* A mutation of one agent that leaves the others as they are.
Mutates(a) ==
    /\ Present(a)'
    /\ updatedAt[a] <= updatedAt'[a]
    /\ \A b \in Agents \ {a} :
         agentState'[b] = agentState[b] /\ updatedAt'[b] = updatedAt[b]

LEMMA MutationShown ==
    ASSUME RegistryTypeOK, RegistryTypeOK', NEW a \in Agents, Mutates(a)
    PROVE  /\ Updated(a) \in Change
           /\ Apply(StoreView, Updated(a), "event") = StoreView'
  <1>1. StoreView \in View /\ StoreView' \in View
    BY StoreViewType, StoreViewNext
  <1>2. View = [Agents -> Shot]
    BY DEF View, Shot
  <1>3. Updated(a) \in Change
    BY <1>1, <1>2 DEF Updated, Change
  <1>4. \A b \in Agents \ {a} : StoreView'[b] = StoreView[b]
    BY DEF StoreView, Present, Mutates
  <1>5. StoreView[a].updatedAt <= StoreView'[a].updatedAt
    <2>1. updatedAt[a] \in Nat /\ updatedAt'[a] \in Nat
      BY DEF RegistryTypeOK
    <2>2. StoreView'[a].updatedAt = updatedAt'[a]
      BY DEF StoreView, Mutates
    <2>3. StoreView[a].updatedAt \in {updatedAt[a], 0}
      BY DEF StoreView, Unlisted
    <2>4. QED
      BY <2>1, <2>2, <2>3 DEF Mutates
  <1>6. PICK s \in View, t \in View : s = StoreView /\ t = StoreView'
    BY <1>1
  <1>7. Apply(s, [type |-> "agent_updated", agent |-> a, snapshot |-> t[a]], "event") = t
    BY <1>4, <1>5, <1>6, ApplyUpdated
  <1>8. QED
    BY <1>3, <1>6, <1>7 DEF Updated

\* A settled agent, and the one that the window then rolls out, if any.
SettleIsShown(a) ==
    LET evictions == EvictedEvents(Append(finishedAgents, a)) IN
    /\ Settled(a) \in Change
    /\ \/ /\ evictions = << >>
          /\ Apply(StoreView, Settled(a), "event") = StoreView'
       \/ \E e \in Change :
            /\ evictions = <<e>>
            /\ Apply(Apply(StoreView, Settled(a), "event"), e, "event") = StoreView'

LEMMA SettleShown ==
    ASSUME RegistryInv, RegistryInv', NEW a \in Agents,
           SettleAgent(a, "completed", FALSE)
    PROVE  SettleIsShown(a)
  <1>1. RegistryTypeOK /\ RegistryTypeOK'
    BY DEF RegistryInv
  <1>2. PICK n \in Nat : n = Len(finishedAgents) /\ n <= MaxFinishedAgents
    <2>1. finishedAgents \in Seq(Agents) /\ settledOrder \in Seq(Agents)
      BY <1>1 DEF RegistryTypeOK
    <2>2. Len(finishedAgents) \in Nat /\ Len(settledOrder) \in Nat
      BY <2>1, LenProperties
    <2>3. Len(finishedAgents) = IF Len(settledOrder) > MaxFinishedAgents
                                THEN MaxFinishedAgents ELSE Len(settledOrder)
      BY DEF RegistryInv, WindowIsTail
    <2>4. QED
      BY <2>2, <2>3, RegistryAssumption
  <1>3. finishedAgents \in Seq(Agents)
    BY <1>1 DEF RegistryTypeOK
  <1>4. PICK q \in Seq(Agents) : q = Append(finishedAgents, a) /\ q = finishedAgents \o <<a>>
    BY <1>3, AppendProperties, AppendIsConcat
  <1>5. Len(q) = n + 1
    BY <1>2, <1>3, <1>4, AppendProperties
  <1>6. Range(<<a>>) = {a}
    BY SingleAgent
  <1>7. /\ \A b \in Agents : agentState'[b] = IF b \in Evicted(q) THEN "evicted"
                                              ELSE IF b = a THEN "completed"
                                              ELSE agentState[b]
        /\ \A b \in Agents : updatedAt'[b] = IF b = a THEN updatedAt[b] + 1
                                             ELSE updatedAt[b]
        /\ settledAs'[a] = "completed"
    BY <1>4, <1>6 DEF SettleAgent, SettleAgents, Retire
  <1>8. updatedAt[a] \in Nat /\ updatedAt'[a] = updatedAt[a] + 1
    BY <1>1, <1>7 DEF RegistryTypeOK
  <1>9. PICK shot \in Shot : /\ shot = [state |-> "completed", updatedAt |-> updatedAt'[a]]
                             /\ shot.updatedAt = updatedAt[a] + 1
    <2>1. PICK k \in Nat : k = updatedAt'[a] /\ k = updatedAt[a] + 1
      BY <1>8
    <2>2. [state |-> "completed", updatedAt |-> k] \in Shot
      BY DEF Shot, Terminal
    <2>3. [state |-> "completed", updatedAt |-> k].updatedAt = k
      OBVIOUS
    <2>4. QED
      BY <2>1, <2>2, <2>3
  <1>10. PICK told \in Change :
           /\ told = Settled(a)
           /\ told = [type |-> "agent_updated", agent |-> a, snapshot |-> shot]
    <2>1. [type |-> "agent_updated", agent |-> a, snapshot |-> shot] \in Change
      BY DEF Change
    <2>2. Settled(a) = [type |-> "agent_updated", agent |-> a, snapshot |-> shot]
      BY <1>7, <1>9 DEF Settled
    <2>3. QED
      BY <2>1, <2>2
  <1>11. CASE Excess(q) = 0
    <2>1. EvictedEvents(q) = << >>
      BY <1>11 DEF EvictedEvents
    <2>2. Evicted(q) = {}
      BY <1>11 DEF Evicted
    <2>3. Mutates(a)
      BY <1>7, <1>8, <2>2 DEF Mutates, Present, Absent
    <2>4. StoreView'[a] = shot
      BY <1>7, <1>9, <2>2 DEF StoreView, Present, Absent
    <2>5. Updated(a) = told
      BY <1>10, <2>4 DEF Updated
    <2>6. Apply(StoreView, told, "event") = StoreView'
      BY <1>1, <2>3, <2>5, MutationShown
    <2>7. QED
      BY <1>4, <1>10, <2>1, <2>6, Zenon DEF SettleIsShown
  <1>12. CASE Excess(q) = 1
    <2>1. PICK v \in Agents : v = q[1]
      BY <1>5, ElementOfSeq
    <2>2. Evicted(q) = {v}
      BY <1>12, <2>1 DEF Evicted
    <2>3. PICK e \in Change :
            e = [type |-> "agent_evicted", agent |-> v, snapshot |-> Unlisted]
      BY DEF Change, Shot, Unlisted
    <2>4. EvictedEvents(q) = <<e>>
      BY <1>12, <2>1, <2>3 DEF EvictedEvents
    <2>5. View = [Agents -> Shot]
      BY DEF View, Shot
    <2>6. PICK s \in View : s = StoreView
      BY <1>1, StoreViewType
    <2>7. PICK t \in View : t = StoreView'
      BY <1>1, StoreViewNext
    <2>8. PICK mid \in View : mid = [s EXCEPT ![a] = shot]
      BY <2>5, <2>6
    <2>9. mid[a] = shot /\ \A b \in Agents \ {a} : mid[b] = s[b]
      BY <2>5, <2>6, <2>8
    <2>10. s[a].updatedAt <= mid[a].updatedAt
      <3>1. s[a].updatedAt \in {updatedAt[a], 0}
        BY <2>6 DEF StoreView, Unlisted
      <3>2. QED
        BY <1>8, <1>9, <2>9, <3>1
    <2>11. Apply(s, told, "event") = mid
      <3>1. Apply(s, [type |-> "agent_updated", agent |-> a, snapshot |-> mid[a]], "event") = mid
        BY <2>9, <2>10, ApplyUpdated
      <3>2. QED
        BY <1>10, <2>9, <3>1
    <2>12. t[v] = Unlisted
      BY <1>7, <2>2, <2>7 DEF StoreView, Present, Absent
    <2>13. \A b \in Agents \ {v} : t[b] = mid[b]
      <3> TAKE b \in Agents \ {v}
      <3>1. CASE b = a
        <4>1. agentState'[a] = "completed"
          BY <1>7, <2>2, <3>1
        <4>2. t[a] = shot
          BY <1>9, <2>7, <4>1 DEF StoreView, Present, Absent
        <4>3. QED
          BY <2>9, <3>1, <4>2
      <3>2. CASE b # a
        <4>1. agentState'[b] = agentState[b] /\ updatedAt'[b] = updatedAt[b]
          BY <1>7, <2>2, <3>2
        <4>2. t[b] = s[b]
          BY <2>6, <2>7, <4>1 DEF StoreView, Present
        <4>3. QED
          BY <2>9, <3>2, <4>2
      <3>3. QED
        BY <3>1, <3>2
    <2>14. Apply(mid, e, "event") = t
      BY <2>3, <2>12, <2>13, ApplyEvicted
    <2>15. Apply(Apply(StoreView, Settled(a), "event"), e, "event") = StoreView'
      BY <1>10, <2>6, <2>7, <2>11, <2>14, Zenon
    <2>16. EvictedEvents(Append(finishedAgents, a)) = <<e>> /\ Settled(a) \in Change
      BY <1>4, <1>10, <2>4, Zenon
    <2>17. QED
      BY <2>15, <2>16 DEF SettleIsShown
  <1>13. Excess(q) \in {0, 1}
    BY <1>2, <1>5, RegistryAssumption DEF Excess
  <1>14. QED
    BY <1>11, <1>12, <1>13

----------------------------------------------------------------------------
(* The registry, in every step *)

\* The registry does not change.
LEMMA RegistryRests ==
    ASSUME RegistryInv, ReportsCounted, UNCHANGED registryVars
    PROVE  RegistryInv' /\ ReportsCounted' /\ StoreView' = StoreView
  <1>1. RegistryInv'
    BY RegistryStutter
  <1>2. ReportsCounted'
    BY DEF registryVars, ReportsCounted
  <1>3. StoreView' = StoreView
    BY DEF registryVars, StoreView, Present
  <1>4. QED
    BY <1>1, <1>2, <1>3

LEMMA SpawnRegisters ==
    ASSUME RegistryInv, ReportsCounted, NEW a \in Agents, RegisterAgent(a)
    PROVE  RegistryInv' /\ ReportsCounted' /\ Mutates(a)
  <1>1. RegistryInv'
    BY RegisterAgentInv
  <1>2. RegistryTypeOK
    BY DEF RegistryInv
  <1>3. updatedAt[a] \in Nat /\ updatedAt'[a] = updatedAt[a] + 1
        /\ agentState'[a] = "pending" /\ progress[a] = 0 /\ progress'[a] = 0
    BY <1>2 DEF RegistryTypeOK, RegisterAgent, ReportsCounted
  <1>4. \A b \in Agents \ {a} :
          /\ agentState'[b] = agentState[b]
          /\ updatedAt'[b] = updatedAt[b]
          /\ progress'[b] = progress[b]
    BY <1>2 DEF RegistryTypeOK, RegisterAgent
  <1>5. ReportsCounted'
    BY <1>3, <1>4 DEF ReportsCounted
  <1>6. Mutates(a)
    BY <1>3, <1>4 DEF Mutates, Present, Absent
  <1>7. QED
    BY <1>1, <1>5, <1>6

LEMMA ProgressUpdates ==
    ASSUME RegistryInv, ReportsCounted, NEW a \in Agents,
           MarkRunning(a) \/ (updatedAt[a] <= MaxReports /\ RecordProgress(a))
    PROVE  RegistryInv' /\ ReportsCounted' /\ Mutates(a)
  <1>1. RegistryTypeOK
    BY DEF RegistryInv
  <1>2. agentState[a] \in Live
    BY <1>1 DEF MarkRunning, RecordProgress, Updatable, Present, RegistryTypeOK, Absent
  <1>3. progress[a] \in Nat /\ updatedAt[a] \in Nat /\ progress[a] < updatedAt[a]
    BY <1>1, <1>2 DEF RegistryTypeOK, ReportsCounted
  <1>4. updatedAt'[a] = updatedAt[a] + 1 /\ agentState'[a] \in Live
    BY <1>1, <1>2 DEF RegistryTypeOK, MarkRunning, RecordProgress, Live
  <1>5. progress'[a] \in {progress[a], progress[a] + 1}
    BY <1>1 DEF RegistryTypeOK, MarkRunning, RecordProgress
  <1>6. \A b \in Agents \ {a} :
          /\ agentState'[b] = agentState[b]
          /\ updatedAt'[b] = updatedAt[b]
          /\ progress'[b] = progress[b]
    BY <1>1 DEF RegistryTypeOK, MarkRunning, RecordProgress
  <1>7. ReportsCounted'
    <2>1. progress'[a] < updatedAt'[a]
      BY <1>3, <1>4, <1>5
    <2>2. agentState'[a] # "unknown"
      BY <1>4 DEF Live
    <2>3. QED
      BY <1>6, <2>1, <2>2 DEF ReportsCounted
  <1>8. Mutates(a)
    <2>1. agentState'[a] \notin Absent
      BY <1>4 DEF Live, Absent
    <2>2. updatedAt[a] <= updatedAt'[a]
      BY <1>3, <1>4
    <2>3. QED
      BY <1>6, <2>1, <2>2 DEF Mutates, Present
  <1>9. RegistryInv'
    <2>1. CASE MarkRunning(a)
      BY <2>1, MarkRunningInv
    <2>2. CASE updatedAt[a] <= MaxReports /\ RecordProgress(a)
      <3>1. progress[a] < MaxReports
        BY <1>3, <2>2, RegistryAssumption
      <3>2. QED
        BY <2>2, <3>1, RecordProgressInv
    <2>3. QED
      BY <2>1, <2>2
  <1>10. QED
    BY <1>7, <1>8, <1>9

LEMMA SettleCounts ==
    ASSUME RegistryInv, ReportsCounted, NEW a \in Agents,
           SettleAgent(a, "completed", FALSE)
    PROVE  RegistryInv' /\ ReportsCounted'
  <1>1. PICK q \in Seq(Agents) : q = <<a>> /\ Distinct(q) /\ Range(q) = {a}
    BY SingleAgent
  <1>2. SettleAgents(q, "completed", FALSE) /\ "completed" \in Terminal /\ FALSE \in BOOLEAN
    BY <1>1 DEF SettleAgent, Terminal
  <1>3. RegistryInv'
    BY <1>1, <1>2, SettleAgentsInv
  <1>4. agentState'[a] \in {"completed", "evicted"}
    BY <1>1, <1>2, SettleAgentsStates
  <1>5. \A b \in Agents \ {a} :
          agentState'[b] = agentState[b] \/ agentState'[b] = "evicted"
    BY <1>1, <1>2, SettleAgentsStates
  <1>6. \A b \in Agents \ {a} : progress'[b] = progress[b]
    BY <1>1, <1>2, SettleAgentsRows
  <1>7. \A b \in Agents \ {a} : updatedAt'[b] = updatedAt[b]
    BY <1>1, <1>2 DEF SettleAgents, RegistryInv, RegistryTypeOK
  <1>8. ReportsCounted'
    <2>1. ASSUME NEW b \in Agents
          PROVE  /\ agentState'[b] = "unknown" => progress'[b] = 0
                 /\ agentState'[b] \in Live => progress'[b] < updatedAt'[b]
      <3>1. CASE b = a
        BY <1>4, <3>1 DEF Live
      <3>2. CASE b # a
        BY <1>5, <1>6, <1>7, <3>2 DEF ReportsCounted, Live
      <3>3. QED
        BY <3>1, <3>2
    <2>2. QED
      BY <2>1 DEF ReportsCounted
  <1>9. QED
    BY <1>3, <1>8

----------------------------------------------------------------------------
(* What the client will show, in every step of the stream *)

LEMMA UpcomingWay ==
    /\ Upcoming = After(known, Way(wire, queue))
    /\ Upcoming' = After(known', Way(wire', queue'))
  BY DEF Upcoming, OnTheWay, Way

LEMMA NotesCarryChanges == Carries(Note, Change)
  BY DEF Carries, Note, Event

\* One change is published, and it is that of the store.
LEMMA PublishOneReaches ==
    ASSUME StreamInv(Change, Note), ReachesStore, NEW b \in Change, Publish(<<b>>),
           UNCHANGED <<socket, known>>, Apply(StoreView, b, "event") = StoreView'
    PROVE  ReachesStore'
  <1> SUFFICES ASSUME subscribed', socket' \in {"connecting", "open"}, ~degraded',
                      ~ \E i \in DOMAIN wire' : wire'[i].degraded
               PROVE  Upcoming' = StoreView'
    BY DEF ReachesStore
  <1>1. UNCHANGED <<subscribed, wire, socket, known>>
    BY DEF Publish
  <1>2. /\ ~degraded
        /\ queue' \in Seq(Entry(Change))
        /\ Extends(queue', queue, b)
    BY <1>1, PublishOne
  <1>3. Upcoming = StoreView
    BY <1>1, <1>2 DEF ReachesStore
  <1>4. PICK p \in Seq(Entry(Change)) : p = queue' /\ Extends(p, queue, b)
    BY <1>2
  <1>5. queue \in Seq(Entry(Change)) /\ wire \in Seq(Note)
    BY DEF StreamInv, StreamTypes
  <1>6. After(known, Way(wire, p)) = Apply(After(known, Way(wire, queue)), b, "event")
    BY <1>4, <1>5, NotesCarryChanges, AfterExtends
  <1>7. QED
    BY <1>1, <1>3, <1>4, <1>6, UpcomingWay, Zenon

\* Two changes, which together are that of the store.
LEMMA PublishTwoReaches ==
    ASSUME StreamInv(Change, Note), ReachesStore, NEW b \in Change, NEW c \in Change,
           Publish(<<b, c>>), UNCHANGED <<socket, known>>,
           Apply(Apply(StoreView, b, "event"), c, "event") = StoreView'
    PROVE  ReachesStore'
  <1> SUFFICES ASSUME subscribed', socket' \in {"connecting", "open"}, ~degraded',
                      ~ \E i \in DOMAIN wire' : wire'[i].degraded
               PROVE  Upcoming' = StoreView'
    BY DEF ReachesStore
  <1>1. UNCHANGED <<subscribed, wire, socket, known>>
    BY DEF Publish
  <1>2. /\ ~degraded
        /\ queue' \in Seq(Entry(Change))
        /\ \E mid \in Seq(Entry(Change)) :
             Extends(mid, queue, b) /\ Extends(queue', mid, c)
    BY <1>1, PublishTwo
  <1>3. Upcoming = StoreView
    BY <1>1, <1>2 DEF ReachesStore
  <1>4. PICK p \in Seq(Entry(Change)) : p = queue'
    BY <1>2
  <1>5. PICK mid \in Seq(Entry(Change)) : Extends(mid, queue, b) /\ Extends(p, mid, c)
    BY <1>2, <1>4
  <1>6. queue \in Seq(Entry(Change)) /\ wire \in Seq(Note)
    BY DEF StreamInv, StreamTypes
  <1>7. After(known, Way(wire, mid)) = Apply(After(known, Way(wire, queue)), b, "event")
    BY <1>5, <1>6, NotesCarryChanges, AfterExtends
  <1>8. After(known, Way(wire, p)) = Apply(After(known, Way(wire, mid)), c, "event")
    BY <1>5, <1>6, NotesCarryChanges, AfterExtends
  <1>9. QED
    BY <1>1, <1>3, <1>4, <1>7, <1>8, UpcomingWay, Zenon

\* The next event leaves the queue: unmarked, it stays on the way.
LEMMA StreamReaches ==
    ASSUME StreamInv(Change, Note), ReachesStore, Stream,
           UNCHANGED <<socket, known>>, StoreView' = StoreView
    PROVE  ReachesStore'
  <1> SUFFICES ASSUME subscribed', socket' \in {"connecting", "open"},
                      ~ \E i \in DOMAIN wire' : wire'[i].degraded
               PROVE  Upcoming' = StoreView'
    BY DEF ReachesStore
  <1>1. queue \in Seq(Entry(Change)) /\ wire \in Seq(Note) /\ queue # << >>
        /\ subscribed /\ degraded \in BOOLEAN
    BY DEF StreamInv, StreamTypes, Stream
  <1>2. wire' = Append(wire, Event(Head(queue).body, degraded)) /\ queue' = Tail(queue)
    BY StreamSends
  <1>3. PICK m \in Note : m = Event(Head(queue).body, degraded)
    <2>1. Head(queue) \in Entry(Change)
      BY <1>1, HeadTailProperties
    <2>2. Head(queue).body \in Change
      BY <2>1 DEF Entry
    <2>3. QED
      BY <1>1, <2>2, NotesCarryChanges DEF Carries
  <1>4. PICK w \in Seq(Note) : w = Append(wire, m) /\ w = wire'
    BY <1>1, <1>2, <1>3, AppendProperties
  <1>5. /\ Len(wire) \in Nat
        /\ Len(w) = Len(wire) + 1
        /\ \A i \in 1 .. Len(wire) : w[i] = wire[i]
        /\ w[Len(wire) + 1] = m
        /\ DOMAIN w = 1 .. Len(w) /\ DOMAIN wire = 1 .. Len(wire)
    <2>1. PICK p \in Seq(Note) : p = wire
      BY <1>1
    <2>2. w = Append(p, m)
      BY <1>4, <2>1, Zenon
    <2>3. /\ Len(w) = Len(p) + 1
          /\ \A i \in 1 .. Len(p) : w[i] = p[i]
          /\ w[Len(p) + 1] = m
      BY <2>2, AppendProperties
    <2>4. Len(p) \in Nat /\ DOMAIN w = 1 .. Len(w) /\ DOMAIN p = 1 .. Len(p)
      BY LenProperties
    <2>5. QED
      BY <2>1, <2>3, <2>4, Zenon
  <1>6. ~degraded
    <2>1. Len(wire) + 1 \in DOMAIN w
      BY <1>5
    <2>2. ~m.degraded
      BY <1>4, <1>5, <2>1
    <2>3. QED
      BY <1>3, <2>2 DEF Event
  <1>7. ~ \E i \in DOMAIN wire : wire[i].degraded
    <2>1. ASSUME NEW i \in DOMAIN wire, wire[i].degraded
          PROVE  FALSE
      <3>1. i \in DOMAIN w /\ w[i] = wire[i]
        BY <1>5
      <3>2. QED
        BY <1>4, <2>1, <3>1
    <2>2. QED
      BY <2>1
  <1>8. Upcoming = StoreView
    BY <1>1, <1>6, <1>7 DEF ReachesStore
  <1>9. degraded = FALSE
    BY <1>1, <1>6
  <1>10. Way(Append(wire, Event(Head(queue).body, FALSE)), Tail(queue)) = Way(wire, queue)
    BY <1>1, NotesCarryChanges, WayForwards
  <1>11. Way(wire', queue') = Way(wire, queue)
    BY <1>2, <1>9, <1>10, Zenon
  <1>12. QED
    BY <1>8, <1>11, UpcomingWay, Zenon

\* A message arrives and is applied: the rest is on the way.
LEMMA ReceiveReaches ==
    ASSUME StreamInv(Change, Note), ReachesStore, Receive, socket = "open",
           ~Head(wire).degraded, StoreView' = StoreView,
           known' = Apply(known, Head(wire).body, Head(wire).type)
    PROVE  ReachesStore'
  <1> SUFFICES ASSUME subscribed', ~degraded',
                      ~ \E i \in DOMAIN wire' : wire'[i].degraded
               PROVE  Upcoming' = StoreView'
    BY DEF ReachesStore
  <1>1. /\ queue \in Seq(Entry(Change)) /\ wire \in Seq(Note) /\ wire # << >>
        /\ wire' = Tail(wire) /\ UNCHANGED <<subscribed, queue, degraded>>
    BY DEF StreamInv, StreamTypes, Receive
  <1>2. PICK w \in Seq(Note) : w = Tail(wire) /\ w = wire'
    BY <1>1, HeadTailProperties
  <1>3. /\ Len(w) = Len(wire) - 1
        /\ \A i \in 1 .. Len(w) : w[i] = wire[i + 1]
        /\ DOMAIN w = 1 .. Len(w) /\ DOMAIN wire = 1 .. Len(wire)
        /\ Len(wire) \in Nat /\ Head(wire) = wire[1]
    BY <1>1, <1>2, HeadTailProperties, LenProperties
  <1>4. ~ \E i \in DOMAIN wire : wire[i].degraded
    <2>1. ASSUME NEW i \in DOMAIN wire, wire[i].degraded
          PROVE  FALSE
      <3>1. CASE i = 1
        BY <1>3, <2>1, <3>1
      <3>2. CASE i # 1
        <4>1. i - 1 \in DOMAIN w /\ (i - 1) + 1 = i
          BY <1>3, <3>2
        <4>2. w[i - 1] = wire[i]
          BY <1>3, <4>1
        <4>3. QED
          BY <1>2, <2>1, <4>1, <4>2
      <3>3. QED
        BY <3>1, <3>2
    <2>2. QED
      BY <2>1
  <1>5. Upcoming = StoreView
    BY <1>1, <1>4 DEF ReachesStore
  <1>6. After(Apply(known, Head(wire).body, Head(wire).type), Way(Tail(wire), queue))
          = After(known, Way(wire, queue))
    BY <1>1, NotesCarryChanges, WayArrives
  <1>7. QED
    BY <1>1, <1>5, <1>6, UpcomingWay, Zenon

\* A snapshot of the store is on the way and nothing else.
LEMMA AcceptReaches ==
    ASSUME RegistryTypeOK, Connect(StoreView), StoreView' = StoreView
    PROVE  ReachesStore'
  <1>1. PICK s \in View : s = StoreView
    BY StoreViewType
  <1>2. PICK m \in Note : m = Snapshot(s) /\ m.body = s /\ m.type = "snapshot"
    <2>1. Snapshot(s) \in Note
      BY DEF Note, Snapshot
    <2>2. Snapshot(s).body = s /\ Snapshot(s).type = "snapshot"
      BY DEF Snapshot
    <2>3. QED
      BY <2>1, <2>2
  <1>3. wire' = <<m>> /\ queue' = << >>
    BY <1>1, <1>2 DEF Connect
  <1>4. <<m>> \in Seq(Note) /\ << >> \in Seq(Note)
        /\ << >> \in Seq(Entry(Change)) /\ Append(<< >>, m) = <<m>>
    OBVIOUS
  <1>5. Way(<<m>>, << >>) = <<m>>
    <2>1. \E x \in Seq(Note) : x = Way(<<m>>, << >>) /\ IsWay(x, <<m>>, << >>)
      BY <1>4, NotesCarryChanges, WayProperties
    <2>2. PICK x \in Seq(Note) : x = Way(<<m>>, << >>) /\ IsWay(x, <<m>>, << >>)
      BY <2>1, Zenon
    <2>3. Len(x) = 1 /\ x[1] = m
      BY <2>2 DEF IsWay
    <2>4. PICK y \in Seq(Note) : y = <<m>>
      BY <1>4
    <2>5. Len(y) = 1 /\ y[1] = m
      BY <2>4
    <2>6. x = y
      <3>1. Len(x) = Len(y) /\ \A i \in 1 .. Len(x) : x[i] = y[i]
        BY <2>3, <2>5
      <3>2. QED
        BY <3>1, SeqEqual
    <2>7. QED
      BY <2>2, <2>4, <2>6, Zenon
  <1>6. After(known', Append(<< >>, m)) = Apply(After(known', << >>), m.body, m.type)
    <2>1. PICK none \in Seq(Note) : none = << >>
      BY <1>4
    <2>2. \A shown : After(shown, Append(none, m))
                      = Apply(After(shown, none), m.body, m.type)
      BY AfterAppend
    <2>3. QED
      BY <2>1, <2>2, Zenon
  <1>7. Apply(After(known', << >>), m.body, m.type) = m.body
    BY <1>2 DEF Apply
  <1>8. Upcoming' = StoreView'
    BY <1>1, <1>2, <1>3, <1>4, <1>5, <1>6, <1>7, UpcomingWay, Zenon
  <1>9. QED
    BY <1>8 DEF ReachesStore

\* What the client shows before the snapshot arrives does not matter.
LEMMA UnopenedReaches ==
    ASSUME StreamInv(Change, Note), SocketHasStream, ReachesStore, ~SocketLive,
           UNCHANGED <<subscribed, queue, degraded, wire, socket>>,
           StoreView' = StoreView
    PROVE  ReachesStore'
  <1> SUFFICES ASSUME subscribed, socket = "connecting", Upcoming = StoreView
               PROVE  Upcoming' = StoreView'
    BY DEF ReachesStore, SocketLive
  <1>1. queue \in Seq(Entry(Change)) /\ wire \in Seq(Note)
    BY DEF StreamInv, StreamTypes
  <1>2. \E x \in Seq(Note) : x = Way(wire, queue) /\ IsWay(x, wire, queue)
    BY <1>1, NotesCarryChanges, WayProperties
  <1>3. PICK x \in Seq(Note) : x = Way(wire, queue) /\ IsWay(x, wire, queue)
    BY <1>2, Zenon
  <1>4. wire # << >> /\ wire[1].type = "snapshot"
    BY DEF SocketHasStream
  <1>5. Len(wire) \in Nat /\ Len(queue) \in Nat /\ Len(wire) # 0
    BY <1>1, <1>4, LenProperties, EmptySeq
  <1>6. 1 \in 1 .. Len(wire) /\ Len(x) = Len(wire) + Len(queue) /\ x[1] = wire[1]
    BY <1>3, <1>5 DEF IsWay
  <1>7. x # << >> /\ x[1].type = "snapshot"
    BY <1>4, <1>5, <1>6, EmptySeq
  <1>8. After(known, x) = After(known', x)
    BY <1>7, AfterSnapshot
  <1>9. wire' = wire /\ queue' = queue
    OBVIOUS
  <1>10. QED
    BY <1>3, <1>8, <1>9, UpcomingWay, Zenon

----------------------------------------------------------------------------
(* The invariant, step by step *)

LEMMA LiveInit == Init => LiveInv
  <1> SUFFICES ASSUME Init
               PROVE  LiveInv
    OBVIOUS
  <1>1. RegistryInit /\ StreamInit /\ socket = "connecting"
    BY DEF Init, SocketInit
  <1>2. RegistryInv
    BY <1>1, RegistryInitInv
  <1>3. ReportsCounted
    BY <1>1 DEF RegistryInit, ReportsCounted, Live
  <1>4. StreamInv(Change, Note)
    BY <1>1, StreamInitInv
  <1>5. NothingShown \in View
    BY DEF NothingShown, View, Unlisted
  <1>6. Idle \in Asking /\ Asked \in Asking
    BY <1>5 DEF Idle, Asked, Request, Asking
  <1>7. ClientTypes
    <2>1. known \in View /\ poll \in Asking /\ mount \in Asking
      BY <1>5, <1>6, Zenon DEF Init
    <2>2. prompt \in BOOLEAN
      BY DEF Init
    <2>3. prompts \in 0 .. MaxPrompts
      <3>1. prompts = 0
        BY DEF Init
      <3>2. QED
        BY <3>1, LiveAssumption
    <2>4. SocketTypeOK
      BY <1>1 DEF SocketTypeOK
    <2>5. QED
      BY <2>1, <2>2, <2>3, <2>4 DEF ClientTypes
  <1>8. subscribed = FALSE
    BY <1>1 DEF StreamInit
  <1>9. SocketHasStream /\ ReachesStore
    BY <1>1, <1>8 DEF SocketHasStream, ReachesStore
  <1>10. PollDisowned
    BY DEF PollDisowned, Init
  <1>11. QED
    BY <1>2, <1>3, <1>4, <1>7, <1>9, <1>10 DEF LiveInv

LEMMA LiveStutter ==
    ASSUME LiveInv, UNCHANGED vars
    PROVE  LiveInv'
  <1>1. /\ UNCHANGED registryVars
        /\ UNCHANGED streamVars
        /\ UNCHANGED <<socket, known, poll, mount, prompt, prompts>>
    BY DEF vars, socketVars, clientVars
  <1>2. RegistryInv' /\ ReportsCounted' /\ StoreView' = StoreView
    BY <1>1, RegistryRests DEF LiveInv
  <1>3. StreamInv(Change, Note)'
    BY <1>1, StreamStutter DEF LiveInv
  <1>4. ClientTypes' /\ PollDisowned'
    BY <1>1 DEF LiveInv, ClientTypes, PollDisowned, SocketLive, SocketTypeOK
  <1>5. UNCHANGED <<subscribed, queue, degraded, wire>>
    BY <1>1 DEF streamVars
  <1>6. SocketHasStream'
    BY <1>1, <1>5 DEF LiveInv, SocketHasStream
  <1>7. Upcoming' = Upcoming
    BY <1>1, <1>5, UpcomingWay, Zenon
  <1>8. ReachesStore'
    BY <1>1, <1>2, <1>5, <1>7 DEF LiveInv, ReachesStore
  <1>9. QED
    BY <1>2, <1>3, <1>4, <1>6, <1>8 DEF LiveInv

\* The effect that polls, after a change of the client's state.
LEMMA Rerendered ==
    ASSUME ClientTypes, PollDisowned, NEW x \in {poll, Idle}, Rerender(x)
    PROVE  poll' \in Asking /\ PollDisowned'
  <1>1. NothingShown \in View
    BY DEF NothingShown, View, Unlisted
  <1>2. Idle \in Asking /\ Asked \in Asking
    BY <1>1 DEF Idle, Asked, Request, Asking
  <1>3. poll' \in {x, Idle, Asked}
    BY DEF Rerender
  <1>4. poll' \in Asking
    BY <1>2, <1>3 DEF ClientTypes
  <1>5. ASSUME SocketLive'
        PROVE  poll' = Idle
    <2>1. CASE <<SocketLive, prompt, Active>>' = <<SocketLive, prompt, Active>>
      <3>1. SocketLive' = SocketLive
        BY <2>1
      <3>2. SocketLive
        BY <1>5, <3>1, Zenon
      <3>3. x = Idle
        BY <3>2 DEF PollDisowned
      <3>4. QED
        BY <2>1, <3>3 DEF Rerender
    <2>2. CASE ~(<<SocketLive, prompt, Active>>' = <<SocketLive, prompt, Active>>)
      <3>1. ~Wanted'
        BY <1>5 DEF Wanted
      <3>2. QED
        BY <2>2, <3>1, Zenon DEF Rerender
    <2>3. QED
      BY <2>1, <2>2
  <1>6. QED
    BY <1>4, <1>5 DEF PollDisowned

\* Publishing does not touch the client.
LEMMA PublishRests ==
    ASSUME LiveInv, NEW bodies, Publish(bodies), UNCHANGED <<socket, clientVars>>
    PROVE  ClientTypes' /\ PollDisowned' /\ SocketHasStream'
  <1>1. UNCHANGED <<subscribed, wire, socket, known, poll, mount, prompt, prompts>>
    BY DEF Publish, clientVars
  <1>2. QED
    BY <1>1 DEF LiveInv, ClientTypes, SocketTypeOK, PollDisowned, SocketLive,
                SocketHasStream

\* A mutation of one agent and its event.
LEMMA MutationInv ==
    ASSUME LiveInv, NEW a \in Agents, RegistryInv', ReportsCounted', Mutates(a),
           Publish(<<Updated(a)>>), UNCHANGED <<socket, clientVars>>
    PROVE  LiveInv'
  <1>1. RegistryTypeOK /\ RegistryTypeOK'
    BY DEF LiveInv, RegistryInv
  <1>2. PICK b \in Change : b = Updated(a) /\ Apply(StoreView, b, "event") = StoreView'
    BY <1>1, MutationShown
  <1>3. Publish(<<b>>) /\ <<b>> \in Seq(Change)
    BY <1>2
  <1>4. StreamInv(Change, Note)'
    BY <1>3, PublishInv DEF LiveInv
  <1>5. ReachesStore'
    BY <1>2, <1>3, PublishOneReaches DEF LiveInv, clientVars
  <1>6. ClientTypes' /\ PollDisowned' /\ SocketHasStream'
    BY PublishRests
  <1>7. QED
    BY <1>4, <1>5, <1>6 DEF LiveInv

LEMMA SpawnedInv ==
    ASSUME LiveInv, NEW a \in Agents, AgentSpawned(a)
    PROVE  LiveInv'
  <1>1. RegistryInv' /\ ReportsCounted' /\ Mutates(a)
    BY SpawnRegisters DEF LiveInv, AgentSpawned
  <1>2. QED
    BY <1>1, MutationInv DEF AgentSpawned

LEMMA ProgressesInv ==
    ASSUME LiveInv, NEW a \in Agents, AgentProgresses(a)
    PROVE  LiveInv'
  <1>1. RegistryInv' /\ ReportsCounted' /\ Mutates(a)
    BY ProgressUpdates DEF LiveInv, AgentProgresses
  <1>2. QED
    BY <1>1, MutationInv DEF AgentProgresses

LEMMA TwoInTurn ==
    ASSUME NEW B, NEW b \in B, NEW c \in B
    PROVE  <<b>> \o <<c>> = <<b, c>> /\ <<b, c>> \in Seq(B)
  <1>1. <<b>> \in Seq(B) /\ <<c>> \in Seq(B)
    OBVIOUS
  <1>2. <<b, c>> \in Seq(B)
    OBVIOUS
  <1>3. PICK p \in Seq(B) : p = <<b>>
    BY <1>1
  <1>4. PICK q \in Seq(B) : q = <<c>>
    BY <1>1
  <1>5. PICK r \in Seq(B) : r = <<b, c>>
    BY <1>2
  <1>6. Len(p) = 1 /\ p[1] = b /\ Len(q) = 1 /\ q[1] = c
    BY <1>3, <1>4
  <1>7. Len(r) = 2 /\ r[1] = b /\ r[2] = c
    BY <1>5
  <1>8. PICK z \in Seq(B) : z = p \o q
    BY ConcatProperties
  <1>9. Len(z) = 2 /\ z[1] = b /\ z[2] = c
    <2>1. /\ Len(z) = Len(p) + Len(q)
          /\ \A i \in 1 .. Len(p) : z[i] = p[i]
          /\ \A i \in 1 .. Len(q) : z[Len(p) + i] = q[i]
      BY <1>8, ConcatAt
    <2>2. QED
      BY <1>6, <2>1
  <1>10. z = r
    <2>1. Len(z) = Len(r) /\ \A i \in 1 .. Len(z) : z[i] = r[i]
      BY <1>7, <1>9
    <2>2. QED
      BY <2>1, SeqEqual
  <1>11. QED
    BY <1>2, <1>3, <1>4, <1>5, <1>8, <1>10, Zenon

LEMMA SettlesInv ==
    ASSUME LiveInv, NEW a \in Agents, AgentSettles(a)
    PROVE  LiveInv'
  <1> DEFINE evictions == EvictedEvents(Append(finishedAgents, a))
  <1>1. /\ SettleAgent(a, "completed", FALSE)
        /\ Publish(<<Settled(a)>> \o evictions)
        /\ UNCHANGED <<socket, clientVars>>
    BY DEF AgentSettles
  <1>2. RegistryInv /\ RegistryInv' /\ ReportsCounted'
    BY <1>1, SettleCounts DEF LiveInv
  <1>3. SettleIsShown(a)
    BY <1>1, <1>2, SettleShown
  <1>4. PICK b \in Change : b = Settled(a)
    BY <1>3 DEF SettleIsShown
  <1>5. StreamInv(Change, Note)' /\ ReachesStore'
    <2>1. CASE evictions = << >> /\ Apply(StoreView, Settled(a), "event") = StoreView'
      <3>1. <<b>> \o << >> = <<b>> /\ <<b>> \in Seq(Change)
        OBVIOUS
      <3>2. Publish(<<b>>)
        BY <1>1, <1>4, <2>1, <3>1, Zenon
      <3>3. Apply(StoreView, b, "event") = StoreView'
        BY <1>4, <2>1, Zenon
      <3>4. StreamInv(Change, Note)'
        BY <3>1, <3>2, PublishInv DEF LiveInv
      <3>5. ReachesStore'
        BY <1>1, <3>2, <3>3, PublishOneReaches DEF LiveInv, clientVars
      <3>6. QED
        BY <3>4, <3>5
    <2>2. ASSUME NEW e \in Change, evictions = <<e>>,
                 Apply(Apply(StoreView, Settled(a), "event"), e, "event") = StoreView'
          PROVE  StreamInv(Change, Note)' /\ ReachesStore'
      <3>1. <<b>> \o <<e>> = <<b, e>> /\ <<b, e>> \in Seq(Change)
        BY TwoInTurn
      <3>2. Publish(<<b, e>>)
        BY <1>1, <1>4, <2>2, <3>1, Zenon
      <3>3. Apply(Apply(StoreView, b, "event"), e, "event") = StoreView'
        BY <1>4, <2>2, Zenon
      <3>4. StreamInv(Change, Note)'
        BY <3>1, <3>2, PublishInv DEF LiveInv
      <3>5. ReachesStore'
        BY <1>1, <3>2, <3>3, PublishTwoReaches DEF LiveInv, clientVars
      <3>6. QED
        BY <3>4, <3>5
    <2>3. QED
      BY <1>3, <2>1, <2>2 DEF SettleIsShown
  <1>6. ClientTypes' /\ PollDisowned' /\ SocketHasStream'
    BY <1>1, PublishRests
  <1>7. QED
    BY <1>2, <1>5, <1>6 DEF LiveInv

LEMMA ForwardInv ==
    ASSUME LiveInv, Forward
    PROVE  LiveInv'
  <1>1. /\ Stream
        /\ UNCHANGED registryVars
        /\ UNCHANGED <<socket, known, poll, mount, prompt, prompts>>
    BY DEF Forward, clientVars
  <1>2. RegistryInv' /\ ReportsCounted' /\ StoreView' = StoreView
    BY <1>1, RegistryRests DEF LiveInv
  <1>3. StreamInv(Change, Note)'
    BY <1>1, NotesCarryChanges, StreamStepInv DEF LiveInv
  <1>4. ReachesStore'
    BY <1>1, <1>2, StreamReaches DEF LiveInv
  <1>5. ClientTypes' /\ PollDisowned'
    BY <1>1 DEF LiveInv, ClientTypes, PollDisowned, SocketLive, SocketTypeOK
  <1>6. SocketHasStream'
    <2>1. wire' = Append(wire, Event(Head(queue).body, degraded)) /\ subscribed' = subscribed
      BY <1>1, StreamSends DEF LiveInv
    <2>2. wire \in Seq(Note) /\ wire' \in Seq(Note)
      BY <1>3 DEF LiveInv, StreamInv, StreamTypes
    <2>3. wire # << >> => wire' # << >> /\ wire'[1] = wire[1]
      <3>1. ASSUME wire # << >>
            PROVE  wire' # << >> /\ wire'[1] = wire[1]
        <4>1. Len(wire) \in Nat /\ Len(wire) # 0
          BY <2>2, <3>1, LenProperties, EmptySeq
        <4>2. Len(wire') = Len(wire) + 1 /\ \A i \in 1 .. Len(wire) : wire'[i] = wire[i]
          BY <2>1
        <4>3. QED
          BY <2>2, <4>1, <4>2, EmptySeq
      <3>2. QED
        BY <3>1
    <2>4. QED
      BY <1>1, <2>1, <2>3 DEF LiveInv, SocketHasStream
  <1>7. QED
    BY <1>2, <1>3, <1>4, <1>5, <1>6 DEF LiveInv

LEMMA AcceptInv ==
    ASSUME LiveInv, Accept
    PROVE  LiveInv'
  <1>1. /\ Connect(StoreView) /\ socket = "connecting"
        /\ UNCHANGED registryVars
        /\ UNCHANGED <<socket, known, poll, mount, prompt, prompts>>
    BY DEF Accept, Accepts, clientVars
  <1>2. RegistryInv' /\ ReportsCounted' /\ StoreView' = StoreView
    BY <1>1, RegistryRests DEF LiveInv
  <1>3. RegistryTypeOK
    BY DEF LiveInv, RegistryInv
  <1>4. PICK s \in View : s = StoreView
    BY <1>3, StoreViewType
  <1>5. Snapshot(s) \in Note /\ Snapshot(s).type = "snapshot" /\ Connect(s)
    BY <1>1, <1>4 DEF Note, Snapshot
  <1>6. StreamInv(Change, Note)'
    BY <1>5, ConnectInv DEF LiveInv
  <1>7. ReachesStore'
    BY <1>1, <1>2, <1>3, AcceptReaches
  <1>8. ClientTypes' /\ PollDisowned'
    BY <1>1 DEF LiveInv, ClientTypes, PollDisowned, SocketLive, SocketTypeOK
  <1>9. SocketHasStream'
    <2>1. wire' = <<Snapshot(s)>> /\ wire' # << >> /\ wire'[1] = Snapshot(s)
      BY <1>5 DEF Connect
    <2>2. wire'[1].type = "snapshot"
      BY <1>5, <2>1
    <2>3. QED
      BY <1>1, <2>1, <2>2 DEF SocketHasStream
  <1>10. QED
    BY <1>2, <1>6, <1>7, <1>8, <1>9 DEF LiveInv

----------------------------------------------------------------------------
(* The client's steps *)

\* The handshake is over and the poll that was out is disowned.
LEMMA OpensInv ==
    ASSUME LiveInv, Opens
    PROVE  LiveInv'
  <1>1. /\ socket = "connecting" /\ subscribed /\ socket' = "open"
        /\ UNCHANGED registryVars
        /\ UNCHANGED streamVars
        /\ UNCHANGED <<known, mount, prompt, prompts>>
        /\ Rerender(poll)
    BY DEF Opens, SocketOpens
  <1>2. RegistryInv' /\ ReportsCounted' /\ StoreView' = StoreView
    BY <1>1, RegistryRests DEF LiveInv
  <1>3. StreamInv(Change, Note)'
    BY <1>1, StreamStutter DEF LiveInv
  <1>4. UNCHANGED <<subscribed, queue, degraded, wire>>
    BY <1>1 DEF streamVars
  <1>5. poll' \in Asking /\ PollDisowned'
    BY <1>1, Rerendered DEF LiveInv
  <1>6. ClientTypes'
    BY <1>1, <1>5 DEF LiveInv, ClientTypes, SocketTypeOK
  <1>7. SocketHasStream'
    BY <1>1, <1>4 DEF SocketHasStream
  <1>8. Upcoming' = Upcoming
    BY <1>1, <1>4, UpcomingWay, Zenon
  <1>9. ReachesStore'
    BY <1>1, <1>2, <1>4, <1>8 DEF LiveInv, ReachesStore
  <1>10. QED
    BY <1>2, <1>3, <1>5, <1>6, <1>7, <1>9 DEF LiveInv

\* A message arrives: a degraded one makes the socket close.
LEMMA MessageArrivesInv ==
    ASSUME LiveInv, MessageArrives
    PROVE  LiveInv'
  <1>1. /\ socket = "open" /\ Receive
        /\ socket' = IF Head(wire).degraded THEN "closing" ELSE socket
        /\ known' = Apply(known, Head(wire).body, Head(wire).type)
        /\ UNCHANGED registryVars
        /\ UNCHANGED <<mount, prompt, prompts>>
        /\ Rerender(poll)
    BY DEF MessageArrives, Receives
  <1>2. RegistryInv' /\ ReportsCounted' /\ StoreView' = StoreView
    BY <1>1, RegistryRests DEF LiveInv
  <1>3. StreamInv(Change, Note)'
    BY <1>1, ReceiveInv DEF LiveInv
  <1>4. poll' \in Asking /\ PollDisowned'
    BY <1>1, Rerendered DEF LiveInv
  <1>5. known' \in View
    <2>1. PICK m \in Note : m = Head(wire)
      BY <1>1, HeadTailProperties DEF Receive, LiveInv, StreamInv, StreamTypes
    <2>2. Apply(known, m.body, m.type) \in View
      BY ApplyView DEF LiveInv, ClientTypes
    <2>3. QED
      BY <1>1, <2>1, <2>2, Zenon
  <1>6. socket' \in {"open", "closing"}
    BY <1>1
  <1>7. ClientTypes'
    BY <1>1, <1>4, <1>5, <1>6 DEF LiveInv, ClientTypes, SocketTypeOK
  <1>8. subscribed /\ subscribed' = subscribed
    BY <1>1 DEF LiveInv, SocketHasStream, Receive
  <1>9. SocketHasStream'
    BY <1>6, <1>8 DEF SocketHasStream
  <1>10. ReachesStore'
    <2>1. CASE Head(wire).degraded
      <3>1. socket' = "closing"
        BY <1>1, <2>1
      <3>2. QED
        BY <3>1 DEF ReachesStore
    <2>2. CASE ~Head(wire).degraded
      BY <1>1, <1>2, <2>2, ReceiveReaches DEF LiveInv
    <2>3. QED
      BY <2>1, <2>2
  <1>11. QED
    BY <1>2, <1>3, <1>4, <1>7, <1>9, <1>10 DEF LiveInv

\* The connection breaks: nothing is on the way any more.
LEMMA ClosesInv ==
    ASSUME LiveInv, Closes
    PROVE  LiveInv'
  <1>1. /\ socket' = "closed" /\ Offline
        /\ UNCHANGED registryVars
        /\ UNCHANGED <<known, mount, prompt, prompts>>
        /\ Rerender(poll)
    BY DEF Closes, SocketCloses
  <1>2. RegistryInv' /\ ReportsCounted'
    BY <1>1, RegistryRests DEF LiveInv
  <1>3. StreamInv(Change, Note)'
    BY <1>1, OfflineInv DEF LiveInv
  <1>4. poll' \in Asking /\ PollDisowned'
    BY <1>1, Rerendered DEF LiveInv
  <1>5. ClientTypes'
    BY <1>1, <1>4 DEF LiveInv, ClientTypes, SocketTypeOK
  <1>6. subscribed' = FALSE
    BY <1>1 DEF Offline
  <1>7. SocketHasStream' /\ ReachesStore'
    BY <1>1, <1>6 DEF SocketHasStream, ReachesStore
  <1>8. QED
    BY <1>2, <1>3, <1>4, <1>5, <1>7 DEF LiveInv

\* The retry timer opens another connection, which has no subscription yet.
LEMMA RetriesInv ==
    ASSUME LiveInv, Retries
    PROVE  LiveInv'
  <1>1. /\ socket = "closed" /\ socket' = "connecting"
        /\ UNCHANGED registryVars
        /\ UNCHANGED streamVars
        /\ UNCHANGED <<known, poll, mount, prompt, prompts>>
    BY DEF Retries, Reconnects, clientVars
  <1>2. RegistryInv' /\ ReportsCounted'
    BY <1>1, RegistryRests DEF LiveInv
  <1>3. StreamInv(Change, Note)'
    BY <1>1, StreamStutter DEF LiveInv
  <1>4. ClientTypes'
    BY <1>1 DEF LiveInv, ClientTypes, SocketTypeOK
  <1>5. PollDisowned'
    BY <1>1 DEF PollDisowned, SocketLive
  <1>6. ~subscribed'
    BY <1>1 DEF LiveInv, SocketHasStream, streamVars
  <1>7. SocketHasStream' /\ ReachesStore'
    BY <1>1, <1>6 DEF SocketHasStream, ReachesStore
  <1>8. QED
    BY <1>2, <1>3, <1>4, <1>5, <1>7 DEF LiveInv

\* Requests and prompts: what is shown changes only while the socket is not live.
LEMMA ClientInv ==
    ASSUME LiveInv, UNCHANGED registryVars, UNCHANGED socketVars,
           ClientTypes', PollDisowned', known' = known \/ ~SocketLive
    PROVE  LiveInv'
  <1>1. UNCHANGED streamVars /\ socket' = socket
    BY DEF socketVars
  <1>2. RegistryInv' /\ ReportsCounted' /\ StoreView' = StoreView
    BY RegistryRests DEF LiveInv
  <1>3. StreamInv(Change, Note)'
    BY <1>1, StreamStutter DEF LiveInv
  <1>4. UNCHANGED <<subscribed, queue, degraded, wire, socket>>
    BY <1>1 DEF streamVars
  <1>5. SocketHasStream'
    BY <1>4 DEF LiveInv, SocketHasStream
  <1>6. ReachesStore'
    <2>1. CASE known' = known
      <3>1. Upcoming' = Upcoming
        BY <1>4, <2>1, UpcomingWay, Zenon
      <3>2. QED
        BY <1>2, <1>4, <3>1 DEF LiveInv, ReachesStore
    <2>2. CASE ~SocketLive
      BY <1>2, <1>4, <2>2, UnopenedReaches DEF LiveInv
    <2>3. QED
      BY <2>1, <2>2
  <1>7. QED
    BY <1>2, <1>3, <1>5, <1>6 DEF LiveInv

\* The store's answer to a request.
LEMMA AnswerType ==
    ASSUME RegistryInv
    PROVE  Request("answered", StoreView) \in Asking
  <1>1. StoreView \in View
    BY StoreViewType DEF RegistryInv
  <1>2. QED
    BY <1>1 DEF Request, Asking

\* A poll starts, or is answered, only while the socket is not live.
LEMMA PollingInv ==
    ASSUME LiveInv, Polling
    PROVE  LiveInv'
  <1>1. UNCHANGED registryVars /\ UNCHANGED socketVars
        /\ UNCHANGED <<mount, prompt, prompts>>
    BY DEF Polling, PollStarts, PollAnswered, PollArrives
  <1>2. socket' = socket
    BY <1>1 DEF socketVars
  <1>3. Idle # Asked /\ Idle.is = "idle" /\ NothingShown \in View
    BY DEF Idle, Asked, Request, NothingShown, View, Unlisted
  <1>4. Idle \in Asking /\ Asked \in Asking
    BY <1>3 DEF Idle, Asked, Request, Asking
  <1>5. CASE PollStarts
    <2>1. ~SocketLive /\ poll' = Asked /\ known' = known
      BY <1>5 DEF PollStarts, Wanted
    <2>2. ClientTypes'
      BY <1>1, <1>2, <1>4, <2>1 DEF LiveInv, ClientTypes, SocketTypeOK
    <2>3. PollDisowned'
      BY <1>2, <2>1 DEF PollDisowned, SocketLive
    <2>4. QED
      BY <1>1, <2>1, <2>2, <2>3, ClientInv
  <1>6. CASE PollAnswered
    <2>1. poll = Asked /\ poll' = Request("answered", StoreView) /\ known' = known
      BY <1>6 DEF PollAnswered
    <2>2. poll' \in Asking
      BY <2>1, AnswerType DEF LiveInv
    <2>3. ClientTypes'
      BY <1>1, <1>2, <2>1, <2>2 DEF LiveInv, ClientTypes, SocketTypeOK
    <2>4. ~SocketLive
      BY <1>3, <2>1 DEF LiveInv, PollDisowned
    <2>5. PollDisowned'
      BY <1>2, <2>4 DEF PollDisowned, SocketLive
    <2>6. QED
      BY <1>1, <2>1, <2>3, <2>5, ClientInv
  <1>7. CASE PollArrives
    <2>1. poll.is = "answered" /\ known' = poll.list /\ Rerender(Idle)
      BY <1>7 DEF PollArrives
    <2>2. ~SocketLive
      BY <1>3, <2>1 DEF LiveInv, PollDisowned
    <2>3. poll' \in Asking /\ PollDisowned'
      BY <2>1, Rerendered DEF LiveInv
    <2>4. known' \in View
      BY <2>1 DEF LiveInv, ClientTypes, Asking
    <2>5. ClientTypes'
      BY <1>1, <1>2, <2>3, <2>4 DEF LiveInv, ClientTypes, SocketTypeOK
    <2>6. QED
      BY <1>1, <2>2, <2>3, <2>5, ClientInv
  <1>8. QED
    BY <1>5, <1>6, <1>7 DEF Polling

\* The sync on mount: its answer counts only while the socket is not live.
LEMMA MountInv ==
    ASSUME LiveInv, MountAnswered \/ MountArrives
    PROVE  LiveInv'
  <1>1. UNCHANGED registryVars /\ UNCHANGED socketVars /\ UNCHANGED <<prompt, prompts>>
    BY DEF MountAnswered, MountArrives
  <1>2. socket' = socket
    BY <1>1 DEF socketVars
  <1>3. CASE MountAnswered
    <2>1. mount' = Request("answered", StoreView) /\ UNCHANGED <<known, poll>>
      BY <1>3 DEF MountAnswered
    <2>2. mount' \in Asking
      BY <2>1, AnswerType DEF LiveInv
    <2>3. ClientTypes'
      BY <1>1, <1>2, <2>1, <2>2 DEF LiveInv, ClientTypes, SocketTypeOK
    <2>4. PollDisowned'
      BY <1>2, <2>1 DEF LiveInv, PollDisowned, SocketLive
    <2>5. QED
      BY <1>1, <2>1, <2>3, <2>4, ClientInv
  <1>4. CASE MountArrives
    <2>1. /\ known' = IF SocketLive THEN known ELSE mount.list
          /\ mount' = Idle /\ Rerender(poll)
      BY <1>4 DEF MountArrives
    <2>2. poll' \in Asking /\ PollDisowned'
      BY <2>1, Rerendered DEF LiveInv
    <2>3. known' \in View
      BY <2>1 DEF LiveInv, ClientTypes, Asking
    <2>4. mount' \in Asking
      <3>1. NothingShown \in View
        BY DEF NothingShown, View, Unlisted
      <3>2. QED
        BY <2>1, <3>1 DEF Idle, Request, Asking
    <2>5. ClientTypes'
      BY <1>1, <1>2, <2>2, <2>3, <2>4 DEF LiveInv, ClientTypes, SocketTypeOK
    <2>6. known' = known \/ ~SocketLive
      BY <2>1
    <2>7. QED
      BY <1>1, <2>2, <2>5, <2>6, ClientInv
  <1>5. QED
    BY <1>3, <1>4

\* A prompt is submitted, or its POST returns.
LEMMA PromptInv ==
    ASSUME LiveInv, Submit \/ PromptReturns
    PROVE  LiveInv'
  <1>1. UNCHANGED registryVars /\ UNCHANGED socketVars /\ UNCHANGED <<known, mount>>
        /\ Rerender(poll)
    BY DEF Submit, PromptReturns
  <1>2. socket' = socket
    BY <1>1 DEF socketVars
  <1>3. prompt' \in BOOLEAN /\ prompts' \in 0 .. MaxPrompts
    <2>1. prompts \in 0 .. MaxPrompts
      BY DEF LiveInv, ClientTypes
    <2>2. CASE Submit
      <3>1. prompts < MaxPrompts /\ prompts' = prompts + 1 /\ prompt' = TRUE
        BY <2>2 DEF Submit
      <3>2. QED
        BY <2>1, <3>1, LiveAssumption
    <2>3. CASE PromptReturns
      <3>1. prompts' = prompts /\ prompt' = FALSE
        BY <2>3 DEF PromptReturns
      <3>2. QED
        BY <2>1, <3>1
    <2>4. QED
      BY <2>2, <2>3
  <1>4. poll' \in Asking /\ PollDisowned'
    BY <1>1, Rerendered DEF LiveInv
  <1>5. ClientTypes'
    BY <1>1, <1>2, <1>3, <1>4 DEF LiveInv, ClientTypes, SocketTypeOK
  <1>6. QED
    BY <1>1, <1>4, <1>5, ClientInv

----------------------------------------------------------------------------
(* The theorems about LiveUpdates *)

\* No step breaks the invariant.
LEMMA LiveNext == LiveInv /\ [Next]_vars => LiveInv'
  <1> SUFFICES ASSUME LiveInv, [Next]_vars
               PROVE  LiveInv'
    OBVIOUS
  <1>1. ASSUME NEW a \in Agents, AgentSpawned(a) \/ AgentProgresses(a) \/ AgentSettles(a)
        PROVE  LiveInv'
    BY <1>1, SpawnedInv, ProgressesInv, SettlesInv
  <1>2. CASE Forward
    BY <1>2, ForwardInv
  <1>3. CASE Accept
    BY <1>3, AcceptInv
  <1>4. CASE Opens
    BY <1>4, OpensInv
  <1>5. CASE MessageArrives
    BY <1>5, MessageArrivesInv
  <1>6. CASE Closes
    BY <1>6, ClosesInv
  <1>7. CASE Retries
    BY <1>7, RetriesInv
  <1>8. CASE Polling
    BY <1>8, PollingInv
  <1>9. CASE MountAnswered \/ MountArrives
    BY <1>9, MountInv
  <1>10. CASE Submit \/ PromptReturns
    BY <1>10, PromptInv
  <1>11. CASE UNCHANGED vars
    BY <1>11, LiveStutter
  <1>12. QED
    BY <1>1, <1>2, <1>3, <1>4, <1>5, <1>6, <1>7, <1>8, <1>9, <1>10, <1>11 DEF Next

\* However the registry, the stream, a connection that comes and goes, polls
\* and prompts interleave, the invariant holds.
THEOREM LiveInvariance == Spec => []LiveInv
  <1>1. Init => LiveInv
    BY LiveInit
  <1>2. LiveInv /\ [Next]_vars => LiveInv'
    BY LiveNext
  <1>3. QED
    BY <1>1, <1>2, PTL DEF Spec

\* The answers of the two requests are requests.
LEMMA AskingTypes == LiveInv => TypeOK
  <1>1. Asking = [is : {"idle", "asked", "answered"}, list : View]
    BY DEF Asking
  <1>2. QED
    BY <1>1 DEF LiveInv, RegistryInv, ClientTypes, TypeOK

\* What a connected client shows, with what is on the way to it, is the
\* registry as it is now, or it is about to be told of a loss (websocket.py,
\* agent_stream: subscribe before the snapshot; AppState.tsx, reducer; ws.ts,
\* onmessage).
THEOREM ClientReachesTheStore == Spec => []StreamReachesStore
  <1>1. LiveInv => StreamReachesStore
    BY AskingTypes DEF LiveInv, ReachesStore, StreamReachesStore
  <1>2. QED
    BY <1>1, LiveInvariance, PTL

\* The registry's own steps, settles that evict among them, lose nothing
\* silently either (events.py, publish; websocket.py, _stream_events).
THEOREM LiveStreamIsHonest == Spec => [](NoSilentGap /\ StreamContinues)
  <1>1. LiveInv => NoSilentGap /\ StreamContinues
    BY DEF LiveInv, StreamInv
  <1>2. QED
    BY <1>1, LiveInvariance, PTL

\* An event about an agent that is shown never takes it back in time.
LEMMA EventsMoveForward ==
    ASSUME NEW s \in View, NEW m \in Note, m.type = "event", NEW a \in Agents,
           s[a] # Unlisted, Apply(s, m.body, m.type)[a] # Unlisted
    PROVE  Apply(s, m.body, m.type)[a].updatedAt >= s[a].updatedAt
  <1>1. PICK b \in Change : b = m.body
    BY DEF Note
  <1>2. Apply(s, m.body, m.type) = Apply(s, b, "event")
    BY <1>1, Zenon
  <1>3. s \in [Agents -> Shot] /\ s[a].updatedAt \in Nat
    BY DEF View, Shot
  <1>4. b.agent \in Agents /\ b.snapshot.updatedAt \in Nat
        /\ b.type \in {"agent_updated", "agent_evicted"}
    BY DEF Change, Shot
  <1>5. CASE b.type = "agent_evicted"
    <2>1. Apply(s, b, "event") = [s EXCEPT ![b.agent] = Unlisted]
      BY <1>5 DEF Apply
    <2>2. a # b.agent
      BY <1>2, <1>3, <1>4, <2>1
    <2>3. Apply(s, b, "event")[a] = s[a]
      BY <1>3, <1>4, <2>1, <2>2
    <2>4. QED
      BY <1>2, <1>3, <2>3
  <1>6. CASE b.type = "agent_updated"
    <2>1. CASE s[b.agent].updatedAt > b.snapshot.updatedAt
      <3>1. Apply(s, b, "event") = s
        BY <1>6, <2>1 DEF Apply
      <3>2. QED
        BY <1>2, <1>3, <3>1
    <2>2. CASE ~(s[b.agent].updatedAt > b.snapshot.updatedAt)
      <3>1. Apply(s, b, "event") = [s EXCEPT ![b.agent] = b.snapshot]
        BY <1>6, <2>2 DEF Apply
      <3>2. CASE a = b.agent
        <4>1. Apply(s, b, "event")[a] = b.snapshot
          BY <1>3, <3>1, <3>2
        <4>2. b.snapshot.updatedAt >= s[a].updatedAt
          BY <1>3, <1>4, <2>2, <3>2
        <4>3. QED
          BY <1>2, <4>1, <4>2
      <3>3. CASE a # b.agent
        <4>1. Apply(s, b, "event")[a] = s[a]
          BY <1>3, <3>1, <3>3
        <4>2. QED
          BY <1>2, <1>3, <4>1
      <3>4. QED
        BY <3>2, <3>3
    <2>3. QED
      BY <2>1, <2>2
  <1>7. QED
    BY <1>4, <1>5, <1>6

\* While the socket is live, only its own messages change what is shown.
LEMMA OnlyMessagesShow ==
    ASSUME LiveInv, SocketLive, [Next]_vars
    PROVE  known' = known \/ MessageArrives
  <1>1. ASSUME NEW a \in Agents, AgentSpawned(a) \/ AgentProgresses(a) \/ AgentSettles(a)
        PROVE  known' = known
    BY <1>1 DEF AgentSpawned, AgentProgresses, AgentSettles, clientVars
  <1>2. CASE Forward \/ Accept \/ Opens \/ Closes \/ Retries
    BY <1>2 DEF Forward, Accept, Opens, Closes, Retries, clientVars
  <1>3. CASE Polling
    <2>1. ~PollArrives
      BY DEF LiveInv, PollDisowned, PollArrives, Idle, Request
    <2>2. QED
      BY <1>3, <2>1 DEF Polling, PollStarts, PollAnswered
  <1>4. CASE MountAnswered \/ MountArrives
    BY <1>4 DEF MountAnswered, MountArrives
  <1>5. CASE Submit \/ PromptReturns
    BY <1>5 DEF Submit, PromptReturns
  <1>6. CASE UNCHANGED vars
    BY <1>6 DEF vars, clientVars
  <1>7. QED
    BY <1>1, <1>2, <1>3, <1>4, <1>5, <1>6 DEF Next

\* An open socket's client never shows an agent older than before, unless it
\* is the snapshot that replaces a list which came in during the handshake
\* (AppState.tsx, agent_updated; useWebSocket.ts, the polling effect).
THEOREM LiveViewMovesForward == Spec => NoRollbackWhileOpen
  <1>1. LiveInv /\ LiveInv' /\ [Next]_vars
        => [\/ SocketLive /\ SocketLive' =>
                 \A a \in Agents :
                    known[a] # Unlisted /\ known'[a] # Unlisted
                    => known'[a].updatedAt >= known[a].updatedAt
            \/ MessageArrives /\ Head(wire).type = "snapshot"]_vars
    <2> SUFFICES ASSUME LiveInv, [Next]_vars, SocketLive,
                        ~(MessageArrives /\ Head(wire).type = "snapshot"),
                        NEW a \in Agents, known[a] # Unlisted, known'[a] # Unlisted
                 PROVE  known'[a].updatedAt >= known[a].updatedAt
      OBVIOUS
    <2>1. known[a].updatedAt \in Nat
      BY DEF LiveInv, ClientTypes, View
    <2>2. CASE known' = known
      BY <2>1, <2>2
    <2>3. CASE MessageArrives
      <3>1. PICK m \in Note : m = Head(wire)
        BY <2>3, HeadTailProperties
           DEF MessageArrives, Receives, Receive, LiveInv, StreamInv, StreamTypes
      <3>2. m.type = "event"
        BY <2>3, <3>1 DEF Note
      <3>3. known' = Apply(known, m.body, m.type)
        BY <2>3, <3>1, Zenon DEF MessageArrives
      <3>4. known \in View /\ Apply(known, m.body, m.type)[a] # Unlisted
        BY <3>3 DEF LiveInv, ClientTypes
      <3>5. Apply(known, m.body, m.type)[a].updatedAt >= known[a].updatedAt
        BY <3>2, <3>4, EventsMoveForward
      <3>6. QED
        BY <3>3, <3>5, Zenon
    <2>4. QED
      BY <2>2, <2>3, OnlyMessagesShow
  <1>2. QED
    BY <1>1, LiveInvariance, PTL DEF Spec, NoRollbackWhileOpen
=============================================================================
