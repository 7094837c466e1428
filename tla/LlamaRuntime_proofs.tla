------------------------ MODULE LlamaRuntime_proofs ------------------------
(***************************************************************************)
(* Proofs about LlamaRuntime, for any set of calls.                        *)
(***************************************************************************)
EXTENDS LlamaRuntime, ListLemmas

----------------------------------------------------------------------------
(* Queues *)

\* What popleft() leaves of a queue.
LEMMA AfterProperties ==
    ASSUME NEW q \in Seq(Calls), NEW i \in DOMAIN q
    PROVE  /\ After(q, i) \in Seq(Calls)
           /\ Len(After(q, i)) = Len(q) - i
           /\ \A k \in DOMAIN After(q, i) :
                i + k \in DOMAIN q /\ After(q, i)[k] = q[i + k]
  <1>1. i \in 1 .. Len(q) /\ Len(q) \in Nat
    BY LenProperties
  <1>2. /\ After(q, i) \in Seq(Calls)
        /\ Len(After(q, i)) = Len(q) - i
        /\ \A k \in 1 .. (Len(q) - i) : After(q, i)[k] = q[i + k]
    <2>1. i + 1 \in 1 .. (Len(q) + 1)
      BY <1>1
    <2>2. \A k \in (i + 1) .. Len(q) : q[k] \in Calls
      BY <1>1, ElementOfSeq
    <2>3. QED
      BY <1>1, <2>1, <2>2, SubSeqProperties DEF After
  <1>3. QED
    BY <1>1, <1>2, LenProperties

\* What remove() leaves of a queue.
LEMMA WithoutProperties ==
    ASSUME NEW q \in Seq(Calls), NEW i \in DOMAIN q
    PROVE  /\ Without(q, i) \in Seq(Calls)
           /\ Len(Without(q, i)) = Len(q) - 1
           /\ \A k \in DOMAIN Without(q, i) :
                Without(q, i)[k] = IF k < i THEN q[k] ELSE q[k + 1]
  <1> DEFINE front == SubSeq(q, 1, i - 1)
             back == After(q, i)
  <1>1. i \in 1 .. Len(q) /\ Len(q) \in Nat
    BY LenProperties
  <1>2. /\ front \in Seq(Calls)
        /\ Len(front) = i - 1
        /\ \A k \in 1 .. (i - 1) : front[k] = q[k]
    <2>1. \A k \in 1 .. (i - 1) : q[k] \in Calls
      BY <1>1, ElementOfSeq
    <2>2. QED
      BY <1>1, <2>1, SubSeqProperties
  <1>3. /\ back \in Seq(Calls)
        /\ Len(back) = Len(q) - i
        /\ \A k \in 1 .. (Len(q) - i) : back[k] = q[i + k]
    BY <1>1, AfterProperties, LenProperties
  <1> HIDE DEF front, back
  <1>4. /\ front \o back \in Seq(Calls)
        /\ Len(front \o back) = Len(q) - 1
        /\ \A k \in 1 .. (Len(q) - 1) :
             (front \o back)[k] = IF k < i THEN q[k] ELSE q[k + 1]
    <2>1. /\ front \o back \in Seq(Calls)
          /\ Len(front \o back) = Len(front) + Len(back)
          /\ \A k \in 1 .. Len(front) + Len(back) :
               (front \o back)[k] =
                 IF k <= Len(front) THEN front[k] ELSE back[k - Len(front)]
      BY <1>2, <1>3, ConcatProperties
    <2>2. ASSUME NEW k \in 1 .. (Len(q) - 1)
          PROVE  (front \o back)[k] = IF k < i THEN q[k] ELSE q[k + 1]
      <3>1. CASE k < i
        BY <1>1, <1>2, <1>3, <2>1, <3>1, SMTT(40)
      <3>2. CASE ~(k < i)
        <4>1. k - (i - 1) \in 1 .. (Len(q) - i) /\ i + (k - (i - 1)) = k + 1
          BY <1>1, <3>2
        <4>2. k \in 1 .. Len(front) + Len(back) /\ ~(k <= Len(front))
          BY <1>1, <1>2, <1>3, <3>2
        <4>3. (front \o back)[k] = back[k - (i - 1)]
          BY <1>2, <2>1, <4>2
        <4>4. QED
          BY <1>3, <3>2, <4>1, <4>3
      <3>3. QED
        BY <3>1, <3>2
    <2>3. QED
      BY <1>1, <1>2, <1>3, <2>1, <2>2, SMTT(40)
  <1>5. Without(q, i) = front \o back
    BY DEF Without, front, back
  <1>6. QED
    BY <1>1, <1>4, <1>5, LenProperties

\* r holds some entries of q, each once.
Remainder(q, r) ==
    /\ r \in Seq(Calls)
    /\ \A k \in DOMAIN r : \E i \in DOMAIN q : r[k] = q[i]
    /\ Distinct(r)

\* What a release() leaves of a queue keeps the order of its entries and adds
\* none: _PriorityGate.release() only pops from the front.
LEMMA AfterRemainder ==
    ASSUME NEW q \in Seq(Calls), Distinct(q), NEW i \in DOMAIN q
    PROVE  /\ Remainder(q, After(q, i))
           /\ ~Queued(q[i], After(q, i))
           /\ \A c : Queued(c, q) /\ c # q[i]
                       /\ (\A j \in 1 .. (i - 1) : q[j] # c)
                     => Queued(c, After(q, i))
  <1> DEFINE r == After(q, i)
  <1>1. i \in 1 .. Len(q) /\ Len(q) \in Nat /\ DOMAIN q = 1 .. Len(q)
    BY LenProperties
  <1>2. /\ r \in Seq(Calls)
        /\ DOMAIN r = 1 .. (Len(q) - i)
        /\ \A k \in DOMAIN r : i + k \in DOMAIN q /\ r[k] = q[i + k]
    BY <1>1, AfterProperties, LenProperties
  <1> HIDE DEF r
  <1>3. Remainder(q, r)
    <2>1. \A k \in DOMAIN r : \E j \in DOMAIN q : r[k] = q[j]
      BY <1>2
    <2>2. Distinct(r)
      BY <1>1, <1>2 DEF Distinct
    <2>3. QED
      BY <1>2, <2>1, <2>2 DEF Remainder
  <1>4. ~Queued(q[i], r)
    BY <1>1, <1>2 DEF Queued, Distinct
  <1>5. ASSUME NEW c, Queued(c, q), c # q[i],
               \A j \in 1 .. (i - 1) : q[j] # c
        PROVE  Queued(c, r)
    <2>1. PICK k \in DOMAIN q : q[k] = c
      BY <1>5 DEF Queued
    <2>2. k > i
      BY <1>1, <1>5, <2>1
    <2>3. k - i \in DOMAIN r /\ i + (k - i) = k
      BY <1>1, <1>2, <2>1, <2>2
    <2>4. QED
      BY <1>2, <2>1, <2>3 DEF Queued
  <1>6. QED
    BY <1>3, <1>4, <1>5 DEF r

\* A waiter that removes itself from its queue leaves the others in their
\* order: queue.remove(fut) of a cancelled acquire().
LEMMA WithoutRemainder ==
    ASSUME NEW q \in Seq(Calls), Distinct(q), NEW i \in DOMAIN q
    PROVE  /\ Remainder(q, Without(q, i))
           /\ ~Queued(q[i], Without(q, i))
           /\ \A c : Queued(c, q) /\ c # q[i] => Queued(c, Without(q, i))
  <1> DEFINE r == Without(q, i)
  <1>1. i \in 1 .. Len(q) /\ Len(q) \in Nat /\ DOMAIN q = 1 .. Len(q)
    BY LenProperties
  <1>2. /\ r \in Seq(Calls)
        /\ DOMAIN r = 1 .. (Len(q) - 1)
        /\ \A k \in DOMAIN r : r[k] = IF k < i THEN q[k] ELSE q[k + 1]
    BY <1>1, WithoutProperties, LenProperties
  <1> HIDE DEF r
  <1>3. Remainder(q, r)
    <2>1. \A k \in DOMAIN r : \E j \in DOMAIN q : r[k] = q[j]
      BY <1>1, <1>2
    <2>2. Distinct(r)
      BY <1>1, <1>2 DEF Distinct
    <2>3. QED
      BY <1>2, <2>1, <2>2 DEF Remainder
  <1>4. ~Queued(q[i], r)
    BY <1>1, <1>2 DEF Queued, Distinct
  <1>5. ASSUME NEW c, Queued(c, q), c # q[i]
        PROVE  Queued(c, r)
    <2>1. PICK k \in DOMAIN q : q[k] = c
      BY <1>5 DEF Queued
    <2>2. CASE k < i
      BY <1>1, <1>2, <2>1, <2>2 DEF Queued
    <2>3. CASE k > i
      <3>1. k - 1 \in DOMAIN r /\ ~(k - 1 < i) /\ (k - 1) + 1 = k
        BY <1>1, <1>2, <2>1, <2>3
      <3>2. QED
        BY <1>2, <2>1, <3>1 DEF Queued
    <2>4. QED
      BY <1>1, <1>5, <2>1, <2>2, <2>3
  <1>6. QED
    BY <1>3, <1>4, <1>5 DEF r

----------------------------------------------------------------------------
(* release() *)

\* The gate passes to d, which leaves the queues; a background d only when
\* no foreground call waits.
HandedTo(d) ==
    /\ fut[d] = "pending"
    /\ Grant(d)
    /\ locked' = locked
    /\ ~Queued(d, foreground')
    /\ ~Queued(d, background')
    /\ d \in Background => \A c \in Foreground : ~Waiting(c)

\* One release(): it hands the gate to a waiter that is still pending, the
\* foreground first, and forgets no other waiter, or it unlocks an empty gate.
LEMMA ReleaseProperties ==
    ASSUME TypeOK, CallShape, QueueMatchesWaiters, Release
    PROVE  /\ Remainder(foreground, foreground')
           /\ Remainder(background, background')
           /\ \A c \in Calls : fut'[c] = "pending" =>
                fut[c] = "pending" /\ Queued(c, Line(c)')
           /\ \/ /\ locked' = FALSE
                 /\ fut' = fut
                 /\ \A c \in Calls : fut[c] # "pending"
              \/ \E d \in Calls : HandedTo(d)
  <1> USE CallsAssumption
  <1>1. /\ foreground \in Seq(Calls) /\ background \in Seq(Calls)
        /\ fut \in [Calls -> {"none", "pending", "granted", "cancelled"}]
    BY DEF TypeOK
  <1>2. Distinct(foreground) /\ Distinct(background)
    BY DEF QueueMatchesWaiters, QueueOK, Distinct
  <1>3. /\ \A i \in DOMAIN foreground : foreground[i] \in Foreground
        /\ \A i \in DOMAIN background : background[i] \in Background
    BY DEF QueueMatchesWaiters, QueueOK
  <1>4. \A c \in Calls : fut[c] = "pending" => Waiting(c) /\ Queued(c, Line(c))
    BY DEF CallShape, Waiting, QueueMatchesWaiters
  <1>5. \A q : /\ Remainder(q, << >>)
               /\ q \in Seq(Calls) /\ Distinct(q) => Remainder(q, q)
    BY EmptySeq DEF Remainder, Distinct
  <1>6. CASE ReleaseToForeground
    <2>1. PICK i \in DOMAIN foreground :
            /\ FirstLive(foreground, i)
            /\ Grant(foreground[i])
            /\ foreground' = After(foreground, i)
            /\ UNCHANGED <<locked, background>>
      BY <1>6 DEF ReleaseToForeground
    <2> DEFINE d == foreground[i]
    <2>2. d \in Calls /\ d \notin Background /\ fut[d] = "pending"
      BY <1>1, <1>3, <2>1, LenProperties DEF FirstLive, Foreground
    <2>3. /\ Remainder(foreground, foreground')
          /\ ~Queued(d, foreground')
      BY <1>1, <1>2, <2>1, AfterRemainder
    <2>4. ~Queued(d, background')
      BY <1>3, <2>1, <2>2 DEF Queued
    <2>5. ASSUME NEW c \in Calls, fut'[c] = "pending"
          PROVE  fut[c] = "pending" /\ Queued(c, Line(c)')
      <3>1. fut[c] = "pending" /\ c # d
        BY <1>1, <2>1, <2>2, <2>5 DEF Grant
      <3>2. CASE c \in Background
        BY <1>4, <2>1, <3>1, <3>2 DEF Line
      <3>3. CASE c \notin Background
        <4>1. Queued(c, foreground)
          BY <1>4, <3>1, <3>3 DEF Line
        <4>2. \A j \in 1 .. (i - 1) : foreground[j] # c
          BY <2>1, <3>1 DEF FirstLive
        <4>3. Queued(c, foreground')
          BY <1>1, <1>2, <2>1, <3>1, <4>1, <4>2, AfterRemainder
        <4>4. QED
          BY <3>1, <3>3, <4>3 DEF Line
      <3>4. QED
        BY <3>2, <3>3
    <2>6. HandedTo(d)
      BY <2>1, <2>2, <2>3, <2>4 DEF HandedTo
    <2>7. QED
      BY <1>2, <1>1, <1>5, <2>1, <2>2, <2>3, <2>5, <2>6
  <1>7. CASE ReleaseToBackground
    <2>1. NoneLive(foreground) /\ foreground' = << >> /\ locked' = locked
      BY <1>7 DEF ReleaseToBackground
    <2>2. PICK i \in DOMAIN background :
            /\ FirstLive(background, i)
            /\ Grant(background[i])
            /\ background' = After(background, i)
      BY <1>7 DEF ReleaseToBackground
    <2> DEFINE d == background[i]
    <2>3. d \in Calls /\ fut[d] = "pending"
      BY <1>1, <2>2, LenProperties DEF FirstLive
    <2>4. /\ Remainder(background, background')
          /\ ~Queued(d, background')
      BY <1>1, <1>2, <2>2, AfterRemainder
    <2>5. ~Queued(d, foreground')
      BY <2>1 DEF Queued
    <2>6. \A c \in Foreground : fut[c] # "pending"
      BY <1>4, <2>1 DEF NoneLive, Queued, Line, Foreground
    <2>7. ASSUME NEW c \in Calls, fut'[c] = "pending"
          PROVE  fut[c] = "pending" /\ Queued(c, Line(c)')
      <3>1. fut[c] = "pending" /\ c # d
        BY <1>1, <2>2, <2>3, <2>7 DEF Grant
      <3>2. c \in Background
        BY <2>6, <3>1 DEF Foreground
      <3>3. Queued(c, background)
        BY <1>4, <3>1, <3>2 DEF Line
      <3>4. \A j \in 1 .. (i - 1) : background[j] # c
        BY <2>2, <3>1 DEF FirstLive
      <3>5. Queued(c, background')
        BY <1>1, <1>2, <2>2, <3>1, <3>3, <3>4, AfterRemainder
      <3>6. QED
        BY <3>1, <3>2, <3>5 DEF Line
    <2>8. HandedTo(d)
      BY <2>1, <2>2, <2>3, <2>4, <2>5, <2>6 DEF HandedTo, Waiting
    <2>9. QED
      BY <1>5, <2>1, <2>3, <2>4, <2>7, <2>8
  <1>8. CASE ReleaseUnlocks
    <2>1. \A c \in Calls : fut[c] # "pending"
      BY <1>4, <1>8 DEF ReleaseUnlocks, NoneLive, Queued, Line
    <2>2. QED
      BY <1>5, <1>8, <2>1 DEF ReleaseUnlocks
  <1>9. QED
    BY <1>6, <1>7, <1>8 DEF Release

----------------------------------------------------------------------------
(* The steps in which c gives the gate back *)

\* The owner of the gate gives it back and the invariant survives, whatever
\* becomes of the owner: the finally of generate(), or the done callback.
LEMMA ReleaseStep ==
    ASSUME IInv, Release,
           NEW c \in Calls, Owns(c), work[c] # "running",
           pc' \in [Calls -> {"new", "waiting", "running"} \union Outcomes],
           callback' \in [Calls -> BOOLEAN],
           pc'[c] \in {"ok", "crashed", "cancelled", "timeout"},
           ~callback'[c],
           \A e \in Calls : e # c => pc'[e] = pc[e] /\ callback'[e] = callback[e],
           UNCHANGED <<work, behind>>
    PROVE  /\ locked' \in BOOLEAN
           /\ foreground' \in Seq(Calls) /\ background' \in Seq(Calls)
           /\ fut' \in [Calls -> {"none", "pending", "granted", "cancelled"}]
           /\ \A e \in Calls : fut'[e] = "pending" => pc'[e] = "waiting"
           /\ GateOwned'
           /\ QueueMatchesWaiters'
           /\ BehindBound'
  <1> USE CallsAssumption
  <1>1. /\ locked \in BOOLEAN
        /\ foreground \in Seq(Calls) /\ background \in Seq(Calls)
        /\ fut \in [Calls -> {"none", "pending", "granted", "cancelled"}]
        /\ work \in [Calls -> {"none", "running", "ok", "crashed"}]
    BY DEF IInv, TypeOK
  <1>2. /\ Remainder(foreground, foreground')
        /\ Remainder(background, background')
        /\ \A e \in Calls : fut'[e] = "pending" =>
             fut[e] = "pending" /\ Queued(e, Line(e)')
        /\ \/ /\ locked' = FALSE
              /\ fut' = fut
              /\ \A e \in Calls : fut[e] # "pending"
           \/ \E d \in Calls : HandedTo(d)
    BY ReleaseProperties DEF IInv
  <1>3. locked /\ \A e \in Calls : Owns(e) => e = c
    BY DEF IInv, GateOwned
  <1>4. fut[c] # "pending"
    BY DEF Owns, IInv, CallShape, GateOwned
  <1>5. /\ locked' \in BOOLEAN
        /\ fut' \in [Calls -> {"none", "pending", "granted", "cancelled"}]
    <2>1. CASE \E d \in Calls : HandedTo(d)
      <3>1. PICK d \in Calls :
              locked' = locked /\ fut' = [fut EXCEPT ![d] = "granted"]
        BY <2>1 DEF HandedTo, Grant
      <3>2. QED
        BY <1>1, <3>1
    <2>2. CASE ~\E d \in Calls : HandedTo(d)
      BY <1>1, <1>2, <2>2
    <2>3. QED
      BY <2>1, <2>2
  <1>6. \A e \in Calls : fut'[e] = "pending" => pc'[e] = "waiting" /\ e # c
    BY <1>2, <1>4 DEF IInv, CallShape
  <1>7. \A e \in Calls : Owns(e)' => HandedTo(e)
    <2>1. SUFFICES ASSUME NEW e \in Calls, Owns(e)'
                   PROVE  HandedTo(e)
      OBVIOUS
    <2>2. e # c
      BY <2>1 DEF Owns
    <2>3. ~Owns(e)
      BY <1>3, <2>2
    <2>4. pc'[e] = "waiting" /\ fut'[e] = "granted" /\ fut[e] # "granted"
      BY <2>1, <2>2, <2>3 DEF Owns
    <2>5. QED
      BY <1>1, <1>2, <2>4 DEF HandedTo, Grant
  <1>8. \A d \in Calls : HandedTo(d) => Owns(d)'
    BY <1>1, <1>4 DEF HandedTo, Grant, Owns, IInv, CallShape
  <1>9. GateOwned'
    <2>1. \A e, d \in Calls : HandedTo(e) /\ HandedTo(d) => e = d
      BY <1>1 DEF HandedTo, Grant
    <2>2. locked' <=> \E e \in Calls : Owns(e)'
      <3>1. CASE \E d \in Calls : HandedTo(d)
        BY <1>3, <1>8, <3>1 DEF HandedTo
      <3>2. CASE ~\E d \in Calls : HandedTo(d)
        BY <1>2, <1>7, <3>2
      <3>3. QED
        BY <3>1, <3>2
    <2>3. \A e \in Calls : work'[e] # "running"
      BY <1>3 DEF IInv, GateOwned
    <2>4. QED
      BY <1>7, <2>1, <2>2, <2>3 DEF GateOwned
  <1>10. QueueMatchesWaiters'
    <2>1. \A e \in Calls : Waiting(e)' => locked' /\ Queued(e, Line(e))'
      <3>1. SUFFICES ASSUME NEW e \in Calls, Waiting(e)'
                     PROVE  locked' /\ Queued(e, Line(e)')
        BY DEF Queued
      <3>2. fut'[e] = "pending"
        BY <3>1 DEF Waiting
      <3>3. QED
        BY <1>2, <1>3, <3>2 DEF HandedTo
    <2>2. ASSUME NEW q, NEW r, NEW class, Remainder(q, r), q \in Seq(Calls),
                 QueueOK(q, class), \A d \in Calls : HandedTo(d) => ~Queued(d, r)
          PROVE  /\ \A k \in DOMAIN r :
                      /\ r[k] \in class
                      /\ pc'[r[k]] = "waiting"
                      /\ fut'[r[k]] \in {"pending", "cancelled"}
                 /\ \A j, k \in DOMAIN r : r[j] = r[k] => j = k
      <3>1. ASSUME NEW k \in DOMAIN r
            PROVE  /\ r[k] \in class
                   /\ pc'[r[k]] = "waiting"
                   /\ fut'[r[k]] \in {"pending", "cancelled"}
        <4>1. PICK j \in DOMAIN q : r[k] = q[j]
          BY <2>2 DEF Remainder
        <4>2. /\ r[k] \in class /\ r[k] \in Calls
              /\ pc[r[k]] = "waiting"
              /\ fut[r[k]] \in {"pending", "cancelled"}
          BY <2>2, <4>1, LenProperties DEF QueueOK
        <4>3. r[k] # c
          BY <4>2 DEF Owns, IInv, CallShape
        <4>4. fut'[r[k]] = fut[r[k]]
          BY <1>1, <1>2, <2>2, <4>2 DEF HandedTo, Grant, Queued
        <4>5. QED
          BY <4>2, <4>3, <4>4
      <3>2. QED
        BY <2>2, <3>1 DEF Remainder, Distinct
    <2>3. QueueOK(foreground, Foreground) /\ QueueOK(background, Background)
      BY DEF IInv, QueueMatchesWaiters
    <2>4. QueueOK(foreground, Foreground)'
      <3>1. \A d \in Calls : HandedTo(d) => ~Queued(d, foreground')
        BY DEF HandedTo
      <3>2. /\ \A k \in DOMAIN foreground' :
                 /\ foreground'[k] \in Foreground
                 /\ pc'[foreground'[k]] = "waiting"
                 /\ fut'[foreground'[k]] \in {"pending", "cancelled"}
            /\ \A j, k \in DOMAIN foreground' :
                 foreground'[j] = foreground'[k] => j = k
        BY <1>1, <1>2, <2>2, <2>3, <3>1
      <3>3. QED
        BY <3>2 DEF QueueOK, Foreground
    <2>5. QueueOK(background, Background)'
      <3>1. \A d \in Calls : HandedTo(d) => ~Queued(d, background')
        BY DEF HandedTo
      <3>2. /\ \A k \in DOMAIN background' :
                 /\ background'[k] \in Background
                 /\ pc'[background'[k]] = "waiting"
                 /\ fut'[background'[k]] \in {"pending", "cancelled"}
            /\ \A j, k \in DOMAIN background' :
                 background'[j] = background'[k] => j = k
        BY <1>1, <1>2, <2>2, <2>3, <3>1
      <3>3. QED
        BY <3>2 DEF QueueOK
    <2>6. QED
      BY <2>1, <2>4, <2>5 DEF QueueMatchesWaiters
  <1>11. BehindBound'
    <2>1. SUFFICES ASSUME NEW e \in Foreground, Waiting(e)', behind'[e] = 1,
                          NEW b \in Background,
                          pc'[b] = "waiting", fut'[b] = "granted"
                   PROVE  FALSE
      BY DEF BehindBound, IInv, Foreground
    <2>2. HandedTo(b)
      BY <1>7, <2>1 DEF Owns
    <2>3. e \in Calls /\ e # c /\ Waiting(e)
      BY <1>2, <1>6, <2>1 DEF Waiting, Foreground
    <2>4. QED
      BY <2>2, <2>3 DEF HandedTo
  <1>12. QED
    BY <1>2, <1>5, <1>6, <1>9, <1>10, <1>11 DEF Remainder

----------------------------------------------------------------------------
(* The invariant is inductive *)

\* The gate is created open and empty, and no call has been made.
LEMMA InitIInv == Init => IInv
  <1> SUFFICES ASSUME Init PROVE IInv
    OBVIOUS
  <1>1. DOMAIN foreground = {} /\ DOMAIN background = {}
    BY DEF Init
  <1>2. TypeOK
    BY EmptySeq DEF Init, TypeOK
  <1>3. CallShape /\ GateOwned /\ BehindBound /\ CrashCarried
    BY DEF Init, CallShape, GateOwned, BehindBound, CrashCarried, Owns,
           Waiting, Foreground
  <1>4. QueueMatchesWaiters
    BY <1>1 DEF Init, QueueMatchesWaiters, QueueOK, Waiting
  <1>5. QED
    BY <1>2, <1>3, <1>4 DEF IInv

\* Starting an inference: c took the free gate, or was handed it.
LEMMA StartStep ==
    ASSUME IInv, NEW c \in Calls, StartInference(c), locked' = TRUE,
           \/ pc[c] = "new" /\ ~locked /\ fut' = fut
           \/ /\ pc[c] = "waiting" /\ fut[c] = "granted"
              /\ fut' = [fut EXCEPT ![c] = "none"],
           UNCHANGED <<foreground, background, loaded, healthyFlag, interrupt,
                       callback, lastExit>>
    PROVE  IInv'
  <1> USE CallsAssumption
  <1>1. /\ pc' = [pc EXCEPT ![c] = "running"]
        /\ work' = [work EXCEPT ![c] = "running"]
        /\ pc \in [Calls -> {"new", "waiting", "running"} \union Outcomes]
        /\ work \in [Calls -> {"none", "running", "ok", "crashed"}]
        /\ fut \in [Calls -> {"none", "pending", "granted", "cancelled"}]
        /\ behind \in [Calls -> Nat]
        /\ foreground \in Seq(Calls) /\ background \in Seq(Calls)
    BY DEF StartInference, IInv, TypeOK
  <1>2. /\ work[c] = "none" /\ ~callback[c]
        /\ \A e \in Calls : e # c => ~Owns(e)
    BY DEF IInv, CallShape, GateOwned, Owns
  <1>3. fut[c] # "pending"
    BY DEF IInv, CallShape
  <1>4. \A e \in Calls : Waiting(e)' <=> Waiting(e)
    BY <1>1, <1>3 DEF Waiting
  <1>5. \A e \in Calls : Owns(e)' <=> e = c
    BY <1>1, <1>2, <1>3 DEF Owns, IInv, CallShape
  <1>6. TypeOK'
    <2>1. behind' \in [Calls -> Nat]
      BY <1>1 DEF StartInference
    <2>2. QED
      BY <1>1, <2>1 DEF IInv, TypeOK
  <1>7. CallShape'
    BY <1>1, <1>2 DEF IInv, CallShape
  <1>8. GateOwned'
    BY <1>1, <1>2, <1>5 DEF IInv, GateOwned
  <1>9. QueueMatchesWaiters'
    <2>1. \A e \in Calls : Waiting(e)' => locked' /\ Queued(e, Line(e)')
      BY <1>4 DEF IInv, QueueMatchesWaiters, Line
    <2>2. ASSUME NEW q \in Seq(Calls), NEW class, QueueOK(q, class)
          PROVE  /\ \A k \in DOMAIN q :
                      /\ q[k] \in class
                      /\ pc'[q[k]] = "waiting"
                      /\ fut'[q[k]] \in {"pending", "cancelled"}
                 /\ \A j, k \in DOMAIN q : q[j] = q[k] => j = k
      <3>1. ~(pc[c] = "waiting" /\ fut[c] \in {"pending", "cancelled"})
        OBVIOUS
      <3>2. \A k \in DOMAIN q : q[k] \in Calls
        BY LenProperties
      <3>3. \A k \in DOMAIN q : q[k] # c
        BY <2>2, <3>1 DEF QueueOK
      <3>4. QED
        BY <1>1, <2>2, <3>2, <3>3 DEF QueueOK
    <2>3. QueueOK(foreground, Foreground)'
      <3>1. QueueOK(foreground, Foreground)
        BY DEF IInv, QueueMatchesWaiters
      <3>2. QED
        BY <1>1, <2>2, <3>1 DEF QueueOK, Foreground
    <2>4. QueueOK(background, Background)'
      <3>1. QueueOK(background, Background)
        BY DEF IInv, QueueMatchesWaiters
      <3>2. QED
        BY <1>1, <2>2, <3>1 DEF QueueOK
    <2>5. QED
      BY <2>1, <2>3, <2>4 DEF QueueMatchesWaiters, Queued
  <1>10. BehindBound'
    <2>1. ASSUME NEW e \in Foreground
          PROVE  behind'[e] <= 1
      <3>1. e \in Calls /\ behind[e] <= 1
        BY DEF IInv, BehindBound, Foreground
      <3>2. CASE c \in Background /\ Waiting(e)
        <4>1. locked
          BY <3>1, <3>2 DEF IInv, QueueMatchesWaiters
        <4>2. pc[c] = "waiting" /\ fut[c] = "granted"
          BY <4>1
        <4>3. behind[e] # 1
          BY <3>2, <4>2 DEF IInv, BehindBound
        <4>4. QED
          BY <1>1, <3>1, <3>2, <4>3 DEF StartInference
      <3>3. CASE ~(c \in Background /\ Waiting(e))
        BY <1>1, <3>1, <3>3 DEF StartInference
      <3>4. QED
        BY <3>2, <3>3
    <2>2. \A b \in Background : ~(pc'[b] = "waiting" /\ fut'[b] = "granted")
      BY <1>1, <1>5 DEF Owns
    <2>3. QED
      BY <2>1, <2>2 DEF BehindBound, Foreground
  <1>11. CrashCarried'
    <2>1. lastExit = "crashed" => ~healthyFlag
      BY <1>2 DEF IInv, CrashCarried
    <2>2. QED
      BY <1>1, <1>5, <2>1 DEF CrashCarried
  <1>12. QED
    BY <1>6, <1>7, <1>8, <1>9, <1>10, <1>11 DEF IInv

\* Steps that leave the gate and its queues alone.
LEMMA QuietStep ==
    ASSUME IInv, UNCHANGED <<locked, foreground, background, behind>>,
           fut' \in [Calls -> {"none", "pending", "granted", "cancelled"}],
           \A e \in Calls :
             /\ Owns(e)' <=> Owns(e)
             /\ Waiting(e)' => Waiting(e)
             /\ work'[e] = "running" => work[e] = "running"
             /\ fut'[e] = "granted" => fut[e] = "granted"
             /\ pc'[e] = "waiting" => pc[e] = "waiting"
             /\ Queued(e, foreground) \/ Queued(e, background) =>
                  /\ pc'[e] = pc[e]
                  /\ fut'[e] \in {fut[e], "cancelled"}
    PROVE  GateOwned' /\ QueueMatchesWaiters' /\ BehindBound'
  <1> USE CallsAssumption
  <1>1. GateOwned'
    BY DEF IInv, GateOwned
  <1>2. QueueMatchesWaiters'
    <2>1. \A e \in Calls : Waiting(e)' => locked' /\ Queued(e, Line(e)')
      BY DEF IInv, QueueMatchesWaiters, Line
    <2>2. ASSUME NEW q \in {foreground, background}, NEW class,
                 QueueOK(q, class)
          PROVE  \A k \in DOMAIN q :
                   /\ pc'[q[k]] = "waiting"
                   /\ fut'[q[k]] \in {"pending", "cancelled"}
      <3>1. q \in Seq(Calls)
        BY DEF IInv, TypeOK
      <3>2. \A k \in DOMAIN q :
              /\ q[k] \in Calls
              /\ Queued(q[k], foreground) \/ Queued(q[k], background)
        BY <3>1, LenProperties DEF Queued
      <3>3. QED
        BY <2>2, <3>2 DEF QueueOK
    <2>3. QueueOK(foreground, Foreground) /\ QueueOK(background, Background)
      BY DEF IInv, QueueMatchesWaiters
    <2>4. QueueOK(foreground, Foreground)'
      BY <2>2, <2>3 DEF QueueOK, Foreground
    <2>5. QueueOK(background, Background)'
      BY <2>2, <2>3 DEF QueueOK
    <2>6. QED
      BY <2>1, <2>4, <2>5 DEF QueueMatchesWaiters, Queued
  <1>3. BehindBound'
    BY DEF IInv, BehindBound, Foreground
  <1>4. QED
    BY <1>1, <1>2, <1>3

\* What the four ways of giving the gate back have in common.
LEMMA OwnerLeaves ==
    ASSUME IInv, NEW c \in Calls,
           \/ WakeHandOff(c) \/ Completed(c) \/ Crashed(c)
           \/ ReleaseAfterAbandoned(c)
    PROVE  /\ Owns(c) /\ work[c] # "running"
           /\ UNCHANGED <<loaded, interrupt, work, history>>
           /\ Release
           /\ pc' \in [Calls -> {"new", "waiting", "running"} \union Outcomes]
           /\ callback' \in [Calls -> BOOLEAN]
           /\ healthyFlag' \in BOOLEAN
           /\ pc'[c] \in {"ok", "crashed", "cancelled", "timeout"}
           /\ ~callback'[c]
           /\ \A e \in Calls : e # c => pc'[e] = pc[e] /\ callback'[e] = callback[e]
  <1>1. /\ pc \in [Calls -> {"new", "waiting", "running"} \union Outcomes]
        /\ callback \in [Calls -> BOOLEAN]
        /\ {"ok", "crashed", "cancelled", "timeout"} \subseteq Outcomes
    BY DEF IInv, TypeOK, Outcomes
  <1>2. /\ Owns(c) /\ work[c] # "running"
        /\ UNCHANGED <<loaded, interrupt, work, history>>
        /\ Release
    BY DEF WakeHandOff, Completed, Crashed, ReleaseAfterAbandoned, Owns,
           IInv, CallShape
  <1>3. /\ pc' \in [Calls -> {"new", "waiting", "running"} \union Outcomes]
        /\ callback' \in [Calls -> BOOLEAN]
        /\ healthyFlag' \in BOOLEAN
        /\ pc'[c] \in {"ok", "crashed", "cancelled", "timeout"}
        /\ ~callback'[c]
        /\ \A e \in Calls : e # c => pc'[e] = pc[e] /\ callback'[e] = callback[e]
    <2>1. CASE WakeHandOff(c)
      BY <1>1, <2>1 DEF WakeHandOff, IInv, CallShape, TypeOK
    <2>2. CASE Completed(c) \/ Crashed(c)
      BY <1>1, <2>2, ZenonT(40) DEF Completed, Crashed, IInv, CallShape, TypeOK
    <2>3. CASE ReleaseAfterAbandoned(c)
      BY <1>1, <2>3 DEF ReleaseAfterAbandoned, IInv, CallShape, TypeOK
    <2>4. QED
      BY <2>1, <2>2, <2>3
  <1>4. QED
    BY <1>2, <1>3

\* The four ways of giving the gate back.
LEMMA GivingBack ==
    ASSUME IInv, NEW c \in Calls,
           \/ WakeHandOff(c) \/ Completed(c) \/ Crashed(c)
           \/ ReleaseAfterAbandoned(c)
    PROVE  IInv'
  <1>1. /\ pc \in [Calls -> {"new", "waiting", "running"} \union Outcomes]
        /\ callback \in [Calls -> BOOLEAN]
        /\ {"ok", "crashed", "cancelled", "timeout"} \subseteq Outcomes
    BY DEF IInv, TypeOK, Outcomes
  <1>2. /\ Owns(c) /\ work[c] # "running"
        /\ UNCHANGED <<loaded, interrupt, work, history>>
        /\ Release
    BY OwnerLeaves
  <1>3. /\ pc' \in [Calls -> {"new", "waiting", "running"} \union Outcomes]
        /\ callback' \in [Calls -> BOOLEAN]
        /\ healthyFlag' \in BOOLEAN
        /\ pc'[c] \in {"ok", "crashed", "cancelled", "timeout"}
        /\ ~callback'[c]
        /\ \A e \in Calls : e # c => pc'[e] = pc[e] /\ callback'[e] = callback[e]
    BY OwnerLeaves
  <1>4. /\ locked' \in BOOLEAN
        /\ foreground' \in Seq(Calls) /\ background' \in Seq(Calls)
        /\ fut' \in [Calls -> {"none", "pending", "granted", "cancelled"}]
        /\ \A e \in Calls : fut'[e] = "pending" => pc'[e] = "waiting"
        /\ GateOwned' /\ QueueMatchesWaiters' /\ BehindBound'
    BY <1>2, <1>3, ReleaseStep DEF history
  <1>5. TypeOK'
    BY <1>2, <1>3, <1>4 DEF IInv, TypeOK, history
  <1>6. CallShape'
    BY <1>1, <1>2, <1>3, <1>4 DEF IInv, CallShape
  <1>7. CrashCarried'
    <2>1. \A e \in Calls : Owns(e) => e = c
      BY <1>2 DEF IInv, GateOwned
    <2>2. \A e \in Calls : Owns(e)' => e # c /\ work[e] = "none"
      <3>1. SUFFICES ASSUME NEW e \in Calls, Owns(e)'
                     PROVE  e # c /\ work[e] = "none"
        OBVIOUS
      <3>2. e # c
        BY <1>3, <3>1 DEF Owns
      <3>3. pc[e] = "waiting"
        BY <1>3, <2>1, <3>1, <3>2 DEF Owns
      <3>4. QED
        BY <3>2, <3>3 DEF IInv, CallShape
    <2>3. lastExit = "crashed" => ~healthyFlag'
      <3>1. CASE WakeHandOff(c)
        <4>1. work[c] = "none"
          BY <3>1 DEF WakeHandOff, IInv, CallShape
        <4>2. QED
          BY <2>1, <3>1, <4>1 DEF WakeHandOff, IInv, CrashCarried
      <3>2. CASE Completed(c)
        BY <1>2, <3>2 DEF Completed, IInv, CrashCarried
      <3>3. CASE Crashed(c)
        BY <3>3 DEF Crashed
      <3>4. CASE ReleaseAfterAbandoned(c)
        BY <1>2, <3>4 DEF ReleaseAfterAbandoned, IInv, CrashCarried
      <3>5. QED
        BY <3>1, <3>2, <3>3, <3>4
    <2>4. QED
      BY <1>2, <2>2, <2>3 DEF CrashCarried, history
  <1>8. QED
    BY <1>4, <1>5, <1>6, <1>7 DEF IInv

\* Joining the end of a queue.
LEMMA QueuedStep ==
    ASSUME IInv, NEW c \in Calls, CallQueued(c)
    PROVE  IInv'
  <1> USE CallsAssumption
  <1>1. /\ pc[c] = "new" /\ locked /\ locked' = locked
        /\ pc' = [pc EXCEPT ![c] = "waiting"]
        /\ fut' = [fut EXCEPT ![c] = "pending"]
        /\ UNCHANGED <<loaded, healthyFlag, interrupt, work, callback, lastExit>>
        /\ pc \in [Calls -> {"new", "waiting", "running"} \union Outcomes]
        /\ fut \in [Calls -> {"none", "pending", "granted", "cancelled"}]
        /\ behind \in [Calls -> Nat]
        /\ foreground \in Seq(Calls) /\ background \in Seq(Calls)
    BY DEF CallQueued, IInv, TypeOK
  <1>2. work[c] = "none" /\ ~callback[c]
    BY <1>1 DEF IInv, CallShape
  <1>3. \A e \in Calls : Owns(e)' <=> Owns(e)
    BY <1>1, <1>2 DEF Owns
  <1>4. ASSUME NEW q \in Seq(Calls), NEW class, QueueOK(q, class), c \in class
        PROVE  /\ Append(q, c) \in Seq(Calls)
               /\ \A k \in DOMAIN Append(q, c) :
                    /\ Append(q, c)[k] \in class
                    /\ pc'[Append(q, c)[k]] = "waiting"
                    /\ fut'[Append(q, c)[k]] \in {"pending", "cancelled"}
               /\ \A j, k \in DOMAIN Append(q, c) :
                    Append(q, c)[j] = Append(q, c)[k] => j = k
               /\ \A e : e = c \/ Queued(e, q) => Queued(e, Append(q, c))
    <2> DEFINE r == Append(q, c)
    <2>1. /\ Len(q) \in Nat /\ DOMAIN q = 1 .. Len(q)
          /\ \A k \in DOMAIN q : q[k] \in Calls /\ q[k] # c
      BY <1>1, <1>4, LenProperties DEF QueueOK
    <2>2. /\ r \in Seq(Calls)
          /\ DOMAIN r = 1 .. (Len(q) + 1)
          /\ \A k \in DOMAIN q : r[k] = q[k]
          /\ r[Len(q) + 1] = c
      BY <2>1, AppendProperties, LenProperties
    <2> HIDE DEF r
    <2>3. \A k \in DOMAIN r : k \in DOMAIN q \/ k = Len(q) + 1
      BY <2>1, <2>2
    <2>4. \A k \in DOMAIN r : /\ r[k] \in class
                              /\ pc'[r[k]] = "waiting"
                              /\ fut'[r[k]] \in {"pending", "cancelled"}
      <3>1. SUFFICES ASSUME NEW k \in DOMAIN r
                     PROVE  /\ r[k] \in class
                            /\ pc'[r[k]] = "waiting"
                            /\ fut'[r[k]] \in {"pending", "cancelled"}
        OBVIOUS
      <3>2. CASE k \in DOMAIN q
        <4>1. r[k] = q[k] /\ q[k] \in Calls /\ q[k] # c
          BY <2>1, <2>2, <3>2
        <4>2. QED
          BY <1>1, <1>4, <3>2, <4>1 DEF QueueOK
      <3>3. CASE k = Len(q) + 1
        BY <1>1, <1>4, <2>2, <3>3
      <3>4. QED
        BY <2>3, <3>2, <3>3
    <2>5. \A j, k \in DOMAIN r : r[j] = r[k] => j = k
      BY <1>4, <2>1, <2>2, <2>3 DEF QueueOK
    <2>6. \A e : e = c \/ Queued(e, q) => Queued(e, r)
      BY <2>1, <2>2 DEF Queued
    <2>7. QED
      BY <2>2, <2>4, <2>5, <2>6 DEF r
  <1>5. ASSUME NEW q \in Seq(Calls), NEW class, QueueOK(q, class)
        PROVE  /\ \A k \in DOMAIN q :
                    /\ q[k] \in class
                    /\ pc'[q[k]] = "waiting"
                    /\ fut'[q[k]] \in {"pending", "cancelled"}
               /\ \A j, k \in DOMAIN q : q[j] = q[k] => j = k
    <2>1. \A k \in DOMAIN q : q[k] \in Calls /\ q[k] # c
      BY <1>1, <1>5, LenProperties DEF QueueOK
    <2>2. QED
      BY <1>1, <1>5, <2>1 DEF QueueOK
  <1>6. /\ QueueOK(foreground, Foreground) /\ QueueOK(background, Background)
        /\ \A e \in Calls : Waiting(e) => Queued(e, Line(e))
    BY DEF IInv, QueueMatchesWaiters
  <1>7. \A e \in Calls : Waiting(e)' => e = c \/ Waiting(e)
    BY <1>1 DEF Waiting
  <1>8. /\ foreground' \in Seq(Calls) /\ background' \in Seq(Calls)
        /\ QueueMatchesWaiters'
    <2>1. CASE c \in Background
      <3>1. background' = Append(background, c) /\ foreground' = foreground
        BY <2>1 DEF CallQueued
      <3>2. background' \in Seq(Calls) /\ QueueOK(background, Background)'
        BY <1>1, <1>4, <1>6, <2>1, <3>1, SMTT(40) DEF QueueOK
      <3>3. QueueOK(foreground, Foreground)'
        BY <1>1, <1>5, <1>6, <3>1 DEF QueueOK, Foreground
      <3>4. \A e \in Calls : e = c \/ Waiting(e) => Queued(e, Line(e)')
        BY <1>1, <1>4, <1>6, <2>1, <3>1 DEF Line
      <3>5. QED
        BY <1>1, <1>7, <3>1, <3>2, <3>3, <3>4 DEF QueueMatchesWaiters, Queued
    <2>2. CASE c \notin Background
      <3>1. foreground' = Append(foreground, c) /\ background' = background
        BY <2>2 DEF CallQueued
      <3>2. c \in Foreground
        BY <2>2 DEF Foreground
      <3>3. foreground' \in Seq(Calls) /\ QueueOK(foreground, Foreground)'
        BY <1>1, <1>4, <1>6, <3>1, <3>2, SMTT(40) DEF QueueOK, Foreground
      <3>4. QueueOK(background, Background)'
        BY <1>1, <1>5, <1>6, <3>1 DEF QueueOK
      <3>5. \A e \in Calls : e = c \/ Waiting(e) => Queued(e, Line(e)')
        BY <1>1, <1>4, <1>6, <2>2, <3>1, <3>2 DEF Line
      <3>6. QED
        BY <1>1, <1>7, <3>1, <3>3, <3>4, <3>5 DEF QueueMatchesWaiters, Queued
    <2>3. QED
      BY <2>1, <2>2
  <1>9. behind' = [behind EXCEPT ![c] = IF \E b \in Background : work[b] = "running"
                                        THEN 1 ELSE 0]
    BY DEF CallQueued
  <1>10. TypeOK'
    BY <1>1, <1>8, <1>9 DEF IInv, TypeOK
  <1>11. CallShape' /\ GateOwned' /\ CrashCarried'
    BY <1>1, <1>2, <1>3 DEF IInv, CallShape, GateOwned, CrashCarried
  <1>12. BehindBound'
    <2>1. SUFFICES ASSUME NEW e \in Foreground
                   PROVE  /\ behind'[e] <= 1
                          /\ Waiting(e)' /\ behind'[e] = 1 =>
                               \A b \in Background :
                                 ~(pc'[b] = "waiting" /\ fut'[b] = "granted")
      BY DEF BehindBound, Foreground
    <2>2. \A b \in Background : pc'[b] = "waiting" /\ fut'[b] = "granted" =>
                                  pc[b] = "waiting" /\ fut[b] = "granted"
      BY <1>1
    <2>3. CASE e = c
      <3>1. behind'[e] = IF \E b \in Background : work[b] = "running" THEN 1 ELSE 0
        BY <1>1, <1>9, <2>3
      <3>2. ASSUME NEW b \in Background, work[b] = "running",
                   NEW d \in Background, pc[d] = "waiting", fut[d] = "granted"
            PROVE  FALSE
        BY <3>2 DEF IInv, GateOwned, CallShape, Owns
      <3>3. QED
        BY <2>2, <3>1, <3>2
    <2>4. CASE e # c
      BY <1>1, <1>7, <1>9, <2>2, <2>4 DEF IInv, BehindBound, Foreground
    <2>5. QED
      BY <2>3, <2>4
  <1>13. QED
    BY <1>8, <1>10, <1>11, <1>12 DEF IInv

\* Leaving a queue before one's turn.
LEMMA WithdrawStep ==
    ASSUME IInv, NEW c \in Calls, WakeCancelled(c)
    PROVE  IInv'
  <1> USE CallsAssumption
  <1>1. /\ pc[c] = "waiting" /\ fut[c] = "cancelled"
        /\ pc' = [pc EXCEPT ![c] = "cancelled"]
        /\ UNCHANGED <<locked, fut, loaded, healthyFlag, interrupt, work,
                       callback, history>>
        /\ pc \in [Calls -> {"new", "waiting", "running"} \union Outcomes]
        /\ "cancelled" \in Outcomes
        /\ foreground \in Seq(Calls) /\ background \in Seq(Calls)
    BY DEF WakeCancelled, IInv, TypeOK, Outcomes
  <1>2. work[c] = "none" /\ ~callback[c]
    BY <1>1 DEF IInv, CallShape
  <1>3. \A e \in Calls : /\ Owns(e)' <=> Owns(e)
                         /\ Waiting(e)' <=> Waiting(e)
                         /\ Waiting(e) => e # c
    BY <1>1, <1>2 DEF Owns, Waiting
  <1>4. /\ QueueOK(foreground, Foreground) /\ QueueOK(background, Background)
        /\ Distinct(foreground) /\ Distinct(background)
        /\ \A e \in Calls : Waiting(e) => locked /\ Queued(e, Line(e))
    BY DEF IInv, QueueMatchesWaiters, QueueOK, Distinct
  <1>5. ASSUME NEW q, NEW r, NEW class, q \in Seq(Calls), QueueOK(q, class),
               Remainder(q, r), ~Queued(c, r)
        PROVE  /\ \A k \in DOMAIN r :
                    /\ r[k] \in class
                    /\ pc'[r[k]] = "waiting"
                    /\ fut'[r[k]] \in {"pending", "cancelled"}
               /\ \A j, k \in DOMAIN r : r[j] = r[k] => j = k
    <2>1. \A k \in DOMAIN r : /\ r[k] \in Calls
                              /\ \E i \in DOMAIN q : r[k] = q[i]
      BY <1>5, LenProperties DEF Remainder
    <2>2. \A k \in DOMAIN r : r[k] # c
      BY <1>5 DEF Queued
    <2>3. QED
      BY <1>1, <1>5, <2>1, <2>2 DEF QueueOK, Remainder, Distinct
  <1>6. /\ foreground' \in Seq(Calls) /\ background' \in Seq(Calls)
        /\ QueueMatchesWaiters'
    <2>1. CASE \E i \in DOMAIN foreground :
                 /\ foreground[i] = c
                 /\ foreground' = Without(foreground, i)
                 /\ UNCHANGED background
      <3>1. /\ Remainder(foreground, foreground') /\ ~Queued(c, foreground')
            /\ \A e : Queued(e, foreground) /\ e # c => Queued(e, foreground')
        BY <1>1, <1>4, <2>1, WithoutRemainder
      <3>2. c \in Foreground
        BY <1>4, <2>1 DEF QueueOK
      <3>3. /\ background' = background /\ ~Queued(c, background)
            /\ Remainder(background, background)
        BY <1>1, <1>4, <2>1, <3>2 DEF Queued, QueueOK, Foreground, Remainder
      <3>4. QueueOK(foreground, Foreground)'
        <4>1. /\ \A k \in DOMAIN foreground' :
                   /\ foreground'[k] \in Foreground
                   /\ pc'[foreground'[k]] = "waiting"
                   /\ fut'[foreground'[k]] \in {"pending", "cancelled"}
              /\ \A j, k \in DOMAIN foreground' :
                   foreground'[j] = foreground'[k] => j = k
          BY <1>1, <1>4, <1>5, <3>1
        <4>2. QED
          BY <4>1 DEF QueueOK, Foreground
      <3>5. QueueOK(background, Background)'
        BY <1>1, <1>4, <1>5, <3>3 DEF QueueOK
      <3>6. \A e \in Calls : Waiting(e)' => locked' /\ Queued(e, Line(e)')
        BY <1>1, <1>3, <1>4, <3>1, <3>3 DEF Line
      <3>7. QED
        BY <1>1, <3>1, <3>3, <3>4, <3>5, <3>6
           DEF QueueMatchesWaiters, Queued, Remainder
    <2>2. CASE \E i \in DOMAIN background :
                 /\ background[i] = c
                 /\ background' = Without(background, i)
                 /\ UNCHANGED foreground
      <3>1. /\ Remainder(background, background') /\ ~Queued(c, background')
            /\ \A e : Queued(e, background) /\ e # c => Queued(e, background')
        BY <1>1, <1>4, <2>2, WithoutRemainder
      <3>2. c \in Background
        BY <1>4, <2>2 DEF QueueOK
      <3>3. /\ foreground' = foreground /\ ~Queued(c, foreground)
            /\ Remainder(foreground, foreground)
        BY <1>1, <1>4, <2>2, <3>2 DEF Queued, QueueOK, Foreground, Remainder
      <3>4. QueueOK(foreground, Foreground)'
        BY <1>1, <1>4, <1>5, <3>3 DEF QueueOK, Foreground
      <3>5. QueueOK(background, Background)'
        BY <1>1, <1>4, <1>5, <3>1 DEF QueueOK
      <3>6. \A e \in Calls : Waiting(e)' => locked' /\ Queued(e, Line(e)')
        BY <1>1, <1>3, <1>4, <3>1, <3>3 DEF Line
      <3>7. QED
        BY <1>1, <3>1, <3>3, <3>4, <3>5, <3>6
           DEF QueueMatchesWaiters, Queued, Remainder
    <2>3. QED
      BY <2>1, <2>2 DEF WakeCancelled
  <1>7. TypeOK'
    BY <1>1, <1>6 DEF IInv, TypeOK, history
  <1>8. CallShape' /\ GateOwned' /\ CrashCarried'
    BY <1>1, <1>2, <1>3
       DEF IInv, CallShape, GateOwned, CrashCarried, history
  <1>9. BehindBound'
    BY <1>1, <1>3 DEF IInv, BehindBound, Foreground, history
  <1>10. QED
    BY <1>6, <1>7, <1>8, <1>9 DEF IInv

\* No step of the runtime breaks the invariant: one case per action of Next.
LEMMA NextIInv == IInv /\ [Next]_vars => IInv'
  <1> SUFFICES ASSUME IInv, [Next]_vars
               PROVE  IInv'
    OBVIOUS
  <1> USE CallsAssumption
  <1> DEFINE Fut == {"none", "pending", "granted", "cancelled"}
             At == {"new", "waiting", "running"} \union Outcomes
  <1>1. /\ fut \in [Calls -> Fut] /\ pc \in [Calls -> At]
        /\ callback \in [Calls -> BOOLEAN]
        /\ interrupt \in [Calls -> {"none", "timer", "cancel"}]
        /\ work \in [Calls -> {"none", "running", "ok", "crashed"}]
        /\ {"cancelled", "timeout", "value_error", "model_gone", "not_loaded"}
             \subseteq At
    BY DEF IInv, TypeOK, Outcomes
  <1>2. ASSUME NEW c \in Calls, CallUnloaded(c) PROVE IInv'
    <2>1. callback[c] = FALSE
      BY <1>1, <1>2 DEF CallUnloaded, IInv, CallShape
    <2>2. GateOwned' /\ QueueMatchesWaiters' /\ BehindBound'
      BY <1>1, <1>2, <2>1, QuietStep
         DEF CallUnloaded, Owns, Waiting, gateVars, history, Queued, IInv,
             QueueMatchesWaiters, QueueOK
    <2>3. TypeOK' /\ CallShape' /\ CrashCarried'
      BY <1>1, <1>2, <2>1
         DEF CallUnloaded, IInv, TypeOK, CallShape, CrashCarried, Owns,
             gateVars, history
    <2>4. QED
      BY <2>2, <2>3 DEF IInv
  <1>3. ASSUME NEW c \in Calls, CallFree(c) PROVE IInv'
    BY <1>3, StartStep DEF CallFree
  <1>4. ASSUME NEW c \in Calls, CallQueued(c) PROVE IInv'
    BY <1>4, QueuedStep
  <1>5. ASSUME NEW c \in Calls, Cancel(c) PROVE IInv'
    <2>1. /\ fut' \in [Calls -> Fut]
          /\ \A e \in Calls : fut'[e] # fut[e] =>
               fut[e] = "pending" /\ fut'[e] = "cancelled"
      BY <1>1, <1>5 DEF Cancel
    <2>2. GateOwned' /\ QueueMatchesWaiters' /\ BehindBound'
      BY <1>1, <1>5, <2>1, QuietStep DEF Cancel, Owns, Waiting, history
    <2>3. TypeOK' /\ CallShape' /\ CrashCarried'
      BY <1>1, <1>5, <2>1
         DEF Cancel, IInv, TypeOK, CallShape, CrashCarried, Owns, history
    <2>4. QED
      BY <2>2, <2>3 DEF IInv
  <1>6. ASSUME NEW c \in Calls, Timer(c) PROVE IInv'
    <2>1. GateOwned' /\ QueueMatchesWaiters' /\ BehindBound'
      BY <1>1, <1>6, QuietStep DEF Timer, Owns, Waiting, gateVars, history
    <2>2. TypeOK' /\ CallShape' /\ CrashCarried'
      BY <1>1, <1>6 DEF Timer, IInv, TypeOK, CallShape, CrashCarried, Owns,
                        gateVars, history
    <2>3. QED
      BY <2>1, <2>2 DEF IInv
  <1>7. ASSUME NEW c \in Calls, WakeGranted(c) PROVE IInv'
    <2>1. locked
      BY <1>7 DEF WakeGranted, IInv, GateOwned, Owns
    <2>2. QED
      BY <1>7, <2>1, StartStep DEF WakeGranted
  <1>8. ASSUME NEW c \in Calls, WakeModelGone(c) PROVE IInv'
    <2>1. ~Queued(c, foreground) /\ ~Queued(c, background) /\ ~callback[c]
      BY <1>1, <1>8 DEF WakeModelGone, Queued, IInv, QueueMatchesWaiters,
                        QueueOK, CallShape
    <2>2. GateOwned' /\ QueueMatchesWaiters' /\ BehindBound'
      BY <1>1, <1>8, <2>1, QuietStep DEF WakeModelGone, Owns, Waiting, history
    <2>3. TypeOK' /\ CallShape' /\ CrashCarried'
      BY <1>1, <1>8, <2>1
         DEF WakeModelGone, IInv, TypeOK, CallShape, CrashCarried, Owns, history
    <2>4. QED
      BY <2>2, <2>3 DEF IInv
  <1>9. ASSUME NEW c \in Calls,
               \/ WakeHandOff(c) \/ Completed(c) \/ Crashed(c)
               \/ ReleaseAfterAbandoned(c)
        PROVE  IInv'
    BY <1>9, GivingBack
  <1>10. ASSUME NEW c \in Calls, WakeCancelled(c) PROVE IInv'
    BY <1>10, WithdrawStep
  <1>11. ASSUME NEW c \in Calls, WakeNotInQueue(c) PROVE IInv'
    <2>1. ~callback[c]
      BY <1>1, <1>11 DEF WakeNotInQueue, IInv, CallShape
    <2>2. GateOwned' /\ QueueMatchesWaiters' /\ BehindBound'
      BY <1>1, <1>11, <2>1, QuietStep
         DEF WakeNotInQueue, Owns, Waiting, gateVars, history
    <2>3. TypeOK' /\ CallShape' /\ CrashCarried'
      BY <1>1, <1>11, <2>1
         DEF WakeNotInQueue, IInv, TypeOK, CallShape, CrashCarried, Owns,
             gateVars, history
    <2>4. QED
      BY <2>2, <2>3 DEF IInv
  <1>12. ASSUME NEW c \in Calls, ThreadExits(c) PROVE IInv'
    <2>1. PICK how \in {"ok", "crashed"} :
            work' = [work EXCEPT ![c] = how] /\ lastExit' = how
      BY <1>12 DEF ThreadExits
    <2>2. /\ work[c] = "running"
          /\ UNCHANGED <<gateVars, loaded, healthyFlag, pc, interrupt,
                         callback, behind>>
      BY <1>12 DEF ThreadExits
    <2>3. GateOwned' /\ QueueMatchesWaiters' /\ BehindBound'
      BY <1>1, <2>1, <2>2, QuietStep DEF Owns, Waiting, gateVars
    <2>4. TypeOK' /\ CallShape'
      BY <1>1, <2>1, <2>2 DEF IInv, TypeOK, CallShape, gateVars
    <2>5. Owns(c) /\ \A e \in Calls : Owns(e) => e = c
      BY <2>2 DEF IInv, GateOwned
    <2>6. CrashCarried'
      BY <1>1, <2>1, <2>2, <2>5 DEF CrashCarried, Owns, gateVars
    <2>7. QED
      BY <2>3, <2>4, <2>6 DEF IInv
  <1>13. ASSUME NEW c \in Calls, Abandon(c) PROVE IInv'
    <2>1. pc'[c] \in {"timeout", "cancelled"} /\ callback'[c]
      BY <1>1, <1>13 DEF Abandon
    <2>2. GateOwned' /\ QueueMatchesWaiters' /\ BehindBound'
      BY <1>1, <1>13, <2>1, QuietStep
         DEF Abandon, Owns, Waiting, gateVars, history, Queued, IInv,
             QueueMatchesWaiters, QueueOK
    <2>3. TypeOK' /\ CallShape' /\ CrashCarried'
      BY <1>1, <1>13, <2>1
         DEF Abandon, IInv, TypeOK, CallShape, CrashCarried, Owns, gateVars,
             history
    <2>4. QED
      BY <2>2, <2>3 DEF IInv
  <1>14. ASSUME Close PROVE IInv'
    <2>1. GateOwned' /\ QueueMatchesWaiters' /\ BehindBound'
      BY <1>1, <1>14, QuietStep
         DEF Close, Owns, Waiting, gateVars, callVars, history
    <2>2. TypeOK' /\ CallShape' /\ CrashCarried'
      BY <1>14 DEF Close, IInv, TypeOK, CallShape, CrashCarried, Owns,
                   gateVars, callVars, history
    <2>3. QED
      BY <2>1, <2>2 DEF IInv
  <1>15. ASSUME UNCHANGED vars PROVE IInv'
    <2>1. GateOwned' /\ QueueMatchesWaiters' /\ BehindBound'
      BY <1>1, <1>15, QuietStep
         DEF vars, Owns, Waiting, gateVars, callVars, history
    <2>2. TypeOK' /\ CallShape' /\ CrashCarried'
      BY <1>15 DEF vars, IInv, TypeOK, CallShape, CrashCarried, Owns,
                   gateVars, callVars, history
    <2>3. QED
      BY <2>1, <2>2 DEF IInv
  <1>16. QED
    BY <1>2, <1>3, <1>4, <1>5, <1>6, <1>7, <1>8, <1>9, <1>10, <1>11, <1>12,
       <1>13, <1>14, <1>15 DEF Next, Progress, Terminated

\* The inductive invariant of the runtime holds throughout: the shape of every
\* call in generate(), the owner of the gate, the queues of _PriorityGate, the
\* count of background generations a foreground caller sat through, and the
\* whereabouts of every crash of llama.cpp.
THEOREM Invariance == Spec => []IInv
  BY InitIInv, NextIInv, PTL DEF Spec

----------------------------------------------------------------------------
(* What follows from it *)

(* Every reachable state is well typed. *)
THEOREM TypeCorrect == Spec => []TypeOK
  BY Invariance, PTL DEF IInv

(* The gate is locked exactly while one call owns it, and every inference  *)
(* thread has it: no cancellation, timeout or crash loses or shares it.    *)
THEOREM GateSafe == Spec => []GateOwned
  BY Invariance, PTL DEF IInv

(* At most one thread is ever inside llama.cpp. *)
THEOREM MutualExclusion == Spec => []OneInference
  <1>1. IInv => OneInference
    BY DEF IInv, GateOwned, OneInference
  <1>2. QED
    BY <1>1, Invariance, PTL

(* Every waiter is in its queue, under a held gate; queues hold no others. *)
THEOREM NoWaiterForgotten == Spec => []QueueMatchesWaiters
  BY Invariance, PTL DEF IInv

(* A foreground caller waits behind at most one background generation. *)
THEOREM ForegroundPriority == Spec => []BehindAtMostOne
  <1>1. IInv => BehindAtMostOne
    BY DEF IInv, BehindBound, BehindAtMostOne
  <1>2. QED
    BY <1>1, Invariance, PTL

(* A llama.cpp crash that the event loop has seen is on the health flag. *)
THEOREM CrashesReported == Spec => []CrashReported
  <1>1. IInv => CrashReported
    BY DEF IInv, CrashCarried, CallShape, CrashReported, Owns, Outcomes, Healthy
  <1>2. QED
    BY <1>1, Invariance, PTL

----------------------------------------------------------------------------
(* The gate implements ModelTurn *)

\* An element and what follows it.
LEMMA HeadOfCons ==
    ASSUME NEW U, NEW e \in U, NEW r \in Seq(U)
    PROVE  /\ Append(<< >>, e) \o r # << >>
           /\ Head(Append(<< >>, e) \o r) = e
           /\ Tail(Append(<< >>, e) \o r) = r
  <1>1. PICK one \in Seq(U) : one = Append(<< >>, e)
    BY EmptySeq, AppendProperties
  <1>2. Len(one) = 1 /\ one[1] = e
    BY <1>1, EmptySeq, AppendProperties
  <1>3. PICK all \in Seq(U) : all = one \o r
    BY ConcatProperties
  <1>4. /\ Len(all) = 1 + Len(r) /\ Len(r) \in Nat
        /\ \A i \in 1 .. 1 + Len(r) : all[i] = IF i <= 1 THEN one[i] ELSE r[i - 1]
    <2>1. /\ Len(all) = Len(one) + Len(r)
          /\ \A i \in 1 .. Len(one) + Len(r) :
               all[i] = IF i <= Len(one) THEN one[i] ELSE r[i - Len(one)]
      BY <1>3, ConcatProperties
    <2>2. QED
      BY <1>2, <2>1, LenProperties
  <1>5. all # << >> /\ Head(all) = e
    BY <1>2, <1>4, EmptySeq
  <1>6. /\ Tail(all) \in Seq(U) /\ Len(Tail(all)) = Len(r)
        /\ \A i \in 1 .. Len(r) : Tail(all)[i] = r[i]
    <2>1. /\ Tail(all) \in Seq(U) /\ Len(Tail(all)) = Len(all) - 1
          /\ \A i \in 1 .. Len(Tail(all)) : Tail(all)[i] = all[i + 1]
      BY <1>5, HeadTailProperties
    <2>2. Len(Tail(all)) = Len(r)
      BY <1>4, <2>1
    <2>3. \A i \in 1 .. Len(r) : all[i + 1] = r[i]
      <3> TAKE i \in 1 .. Len(r)
      <3>1. i + 1 \in 1 .. 1 + Len(r) /\ ~(i + 1 <= 1) /\ (i + 1) - 1 = i
        BY <1>4
      <3>2. QED
        BY <1>4, <3>1
    <2>4. QED
      BY <2>1, <2>2, <2>3
  <1>7. Tail(all) = r
    BY <1>6, SeqEqual
  <1>8. QED
    BY <1>1, <1>3, <1>5, <1>7

\* e leaves the line; rest is what it leaves.
Leaves(line, e, rest) ==
    \E i \in DOMAIN line : line[i] = e /\ rest = Turn!Without(line, i)

\* A line that loses the element in its middle.
LEMMA WithoutMiddle ==
    ASSUME NEW U, NEW e \in U, NEW front \in Seq(U), NEW back \in Seq(U)
    PROVE  Leaves(Append(front, e) \o back, e, front \o back)
  <1>1. PICK upto \in Seq(U) : upto = Append(front, e)
    BY AppendProperties
  <1>2. PICK n \in Nat, m \in Nat : n = Len(front) /\ m = Len(back)
    BY LenProperties
  <1>3. /\ Len(upto) = n + 1
        /\ \A j \in 1 .. n : upto[j] = front[j]
        /\ upto[n + 1] = e
    BY <1>1, <1>2, AppendProperties
  <1>4. PICK all \in Seq(U) : all = upto \o back
    BY ConcatProperties
  <1>5. /\ Len(all) = (n + 1) + m
        /\ DOMAIN all = 1 .. (n + 1) + m
        /\ \A j \in 1 .. (n + 1) + m :
             all[j] = IF j <= n + 1 THEN upto[j] ELSE back[j - (n + 1)]
    <2>1. /\ Len(all) = Len(upto) + Len(back)
          /\ \A j \in 1 .. Len(upto) + Len(back) :
               all[j] = IF j <= Len(upto) THEN upto[j] ELSE back[j - Len(upto)]
      BY <1>4, ConcatProperties
    <2>2. DOMAIN all = 1 .. Len(all)
      BY LenProperties
    <2>3. QED
      BY <1>2, <1>3, <2>1, <2>2
  <1>6. PICK i \in DOMAIN all : i = n + 1
    BY <1>5
  <1>7. all[i] = e
    BY <1>3, <1>5, <1>6
  <1>8. /\ SubSeq(all, 1, i - 1) \in Seq(U)
        /\ SubSeq(all, i + 1, Len(all)) \in Seq(U)
        /\ Len(SubSeq(all, 1, i - 1)) = i - 1
        /\ \A j \in 1 .. i - 1 : SubSeq(all, 1, i - 1)[j] = all[j]
        /\ \A j \in 1 .. Len(all) - i : SubSeq(all, i + 1, Len(all))[j] = all[i + j]
        /\ Len(SubSeq(all, i + 1, Len(all))) = Len(all) - i
    BY AroundPosition, ZenonT(40)
  <1>9. PICK f \in Seq(U), b \in Seq(U) :
          f = SubSeq(all, 1, i - 1) /\ b = SubSeq(all, i + 1, Len(all))
    BY <1>8
  <1>10. Len(f) = n /\ \A j \in 1 .. n : f[j] = front[j]
    <2>1. /\ Len(f) = i - 1
          /\ \A j \in 1 .. i - 1 : f[j] = all[j]
      BY <1>8, <1>9, Zenon
    <2>2. i - 1 = n
      BY <1>6
    <2>3. \A j \in 1 .. n : all[j] = front[j]
      BY <1>3, <1>5
    <2>4. QED
      BY <2>1, <2>2, <2>3
  <1>11. Len(b) = m /\ \A j \in 1 .. m : b[j] = back[j]
    <2>1. /\ Len(b) = Len(all) - i
          /\ \A j \in 1 .. Len(all) - i : b[j] = all[i + j]
      BY <1>8, <1>9, Zenon
    <2>2. Len(b) = m /\ \A j \in 1 .. m : b[j] = all[(n + 1) + j]
      <3>1. Len(all) - i = m
        BY <1>5, <1>6
      <3>2. QED
        BY <1>6, <2>1, <3>1
    <2>3. \A j \in 1 .. m : all[(n + 1) + j] = back[j]
      <3> TAKE j \in 1 .. m
      <3>1. /\ (n + 1) + j \in 1 .. (n + 1) + m /\ ~((n + 1) + j <= n + 1)
            /\ ((n + 1) + j) - (n + 1) = j
        OBVIOUS
      <3>2. QED
        BY <1>5, <3>1
    <2>4. QED
      BY <2>2, <2>3
  <1>12. f = front /\ b = back
    BY <1>2, <1>10, <1>11, SeqEqual
  <1>13. Turn!Without(all, i) = f \o b
    BY <1>9 DEF Turn!Without
  <1>14. Turn!Without(all, i) = front \o back
    BY <1>12, <1>13, Zenon
  <1>15. Leaves(all, e, front \o back)
    BY <1>7, <1>14, Zenon DEF Leaves
  <1>16. QED
    BY <1>1, <1>4, <1>15, Zenon

\* The line of q: what the abstract gate sees of a queue.  A release() of q[i]
\* takes the head of the line, the done futures it pops are not in it.
LEMMA LineOfRelease ==
    ASSUME NEW q \in Seq(Calls), Distinct(q), NEW i \in DOMAIN q,
           FirstLive(q, i)
    PROVE  /\ Filter(q, Live) # << >>
           /\ Head(Filter(q, Live)) = q[i]
           /\ Tail(Filter(q, Live)) = Filter(After(q, i), Live \ {q[i]})
  <1>1. PICK front \in Seq(Calls), back \in Seq(Calls) :
          /\ q = Append(front, q[i]) \o back
          /\ back = After(q, i)
          /\ \A j \in DOMAIN front : j \in 1 .. i - 1 /\ front[j] = q[j]
    <2>1. /\ SubSeq(q, 1, i - 1) \in Seq(Calls)
          /\ SubSeq(q, i + 1, Len(q)) \in Seq(Calls)
          /\ Len(SubSeq(q, 1, i - 1)) = i - 1
          /\ \A j \in 1 .. i - 1 : SubSeq(q, 1, i - 1)[j] = q[j]
          /\ q = Append(SubSeq(q, 1, i - 1), q[i]) \o SubSeq(q, i + 1, Len(q))
      BY AroundPosition, ZenonT(40)
    <2>2. DOMAIN SubSeq(q, 1, i - 1) = 1 .. i - 1
      BY <2>1, LenProperties
    <2>3. QED
      BY <2>1, <2>2 DEF After
  <1>2. PICK e \in Calls : e = q[i] /\ e \in Live
    BY LenProperties DEF FirstLive, Live
  <1>3. Filter(front, Live) = << >>
    <2>1. Range(front) \intersect Live = {}
      BY <1>1 DEF FirstLive, Live, Range
    <2>2. QED
      BY <2>1, FilterNone
  <1>4. Filter(q, Live) = Append(<< >>, e) \o Filter(back, Live)
    <2>1. PICK upto \in Seq(Calls) : upto = Append(front, e)
      BY AppendProperties
    <2>2. Filter(upto \o back, Live) = Filter(upto, Live) \o Filter(back, Live)
      BY FilterConcat, SMTT(40)
    <2>3. Filter(upto, Live) = Append(Filter(front, Live), e)
      BY <1>2, <2>1, FilterAppend
    <2>4. QED
      BY <1>1, <1>2, <1>3, <2>1, <2>2, <2>3, Zenon
  <1>5. Filter(back, Live) = Filter(back, Live \ {e})
    <2>1. ~Queued(e, back)
      BY <1>1, <1>2, AfterRemainder
    <2>2. Range(back) \intersect Live = Range(back) \intersect (Live \ {e})
      BY <2>1 DEF Queued, Range
    <2>3. QED
      BY <2>2, FilterAgree
  <1>6. PICK r \in Seq(Calls) : r = Filter(back, Live)
    BY FilterSeq
  <1>7. /\ Append(<< >>, e) \o r # << >>
        /\ Head(Append(<< >>, e) \o r) = e
        /\ Tail(Append(<< >>, e) \o r) = r
    BY HeadOfCons
  <1>8. QED
    BY <1>1, <1>2, <1>4, <1>5, <1>6, <1>7, Zenon

\* A queue whose futures are all done is an empty line.
LEMMA LineOfNoneLive ==
    ASSUME NEW q \in Seq(Calls), NoneLive(q)
    PROVE  Filter(q, Live) = << >>
  <1>1. Range(q) \intersect Live = {}
    BY DEF NoneLive, Live, Range
  <1>2. QED
    BY <1>1, FilterNone

\* The calls of S that q has before its entry i, and those it has after it.
Around(q, i, S, f, b) ==
    /\ q[i] \in S => Filter(q, S) = Append(f, q[i]) \o b
    /\ q[i] \notin S => Filter(q, S) = f \o b
    /\ Filter(q, S \ {q[i]}) = f \o b
    /\ Filter(Without(q, i), S) = f \o b

\* A queue around one of its entries, as seen through any set of calls.
LEMMA LineAround ==
    ASSUME NEW q \in Seq(Calls), Distinct(q), NEW i \in DOMAIN q, NEW S
    PROVE  \E f, b \in Seq(Calls) : Around(q, i, S, f, b)
  <1>1. PICK front \in Seq(Calls), back \in Seq(Calls) :
          /\ q = Append(front, q[i]) \o back
          /\ Without(q, i) = front \o back
    <2>1. /\ SubSeq(q, 1, i - 1) \in Seq(Calls)
          /\ SubSeq(q, i + 1, Len(q)) \in Seq(Calls)
          /\ q = Append(SubSeq(q, 1, i - 1), q[i]) \o SubSeq(q, i + 1, Len(q))
      BY AroundPosition, Zenon
    <2>2. QED
      BY <2>1 DEF Without, After
  <1>2. PICK e \in Calls : e = q[i]
    BY LenProperties
  <1>3. PICK upto \in Seq(Calls) : upto = Append(front, e)
    BY AppendProperties
  <1>4. \A T : /\ Filter(upto \o back, T) = Filter(upto, T) \o Filter(back, T)
              /\ Filter(front \o back, T) = Filter(front, T) \o Filter(back, T)
              /\ Filter(upto, T) = IF e \in T THEN Append(Filter(front, T), e)
                                  ELSE Filter(front, T)
    <2> TAKE T
    <2>1. Filter(upto \o back, T) = Filter(upto, T) \o Filter(back, T)
      BY FilterConcat, SMTT(40)
    <2>2. Filter(front \o back, T) = Filter(front, T) \o Filter(back, T)
      BY FilterConcat, SMTT(40)
    <2>3. Filter(upto, T) = IF e \in T THEN Append(Filter(front, T), e)
                            ELSE Filter(front, T)
      BY <1>3, FilterAppend
    <2>4. QED
      BY <2>1, <2>2, <2>3, Zenon
  <1>5. q = upto \o back
    BY <1>1, <1>2, <1>3, Zenon
  <1>6. e \notin Range(front) /\ e \notin Range(back)
    <2>1. ~Queued(e, Without(q, i))
      BY <1>2, WithoutRemainder
    <2>2. e \notin Range(front \o back)
      BY <1>1, <2>1 DEF Queued, Range
    <2>3. QED
      BY <2>2, RangeConcatenation
  <1>7. PICK f \in Seq(Calls), b \in Seq(Calls) :
          f = Filter(front, S) /\ b = Filter(back, S)
    BY FilterSeq
  <1>8. PICK T : T = S \ {e}
    OBVIOUS
  <1>9. Filter(front, T) = f /\ Filter(back, T) = b
    <2>1. /\ Range(front) \intersect T = Range(front) \intersect S
          /\ Range(back) \intersect T = Range(back) \intersect S
      BY <1>6, <1>8
    <2>2. Filter(front, T) = Filter(front, S)
      BY <2>1, FilterAgree
    <2>3. Filter(back, T) = Filter(back, S)
      BY <2>1, FilterAgree
    <2>4. QED
      BY <1>7, <2>2, <2>3
  <1>10. Filter(q, T) = f \o b
    <2>1. e \notin T
      BY <1>8
    <2>2. QED
      BY <1>4, <1>5, <1>9, <2>1, Zenon
  <1>11. Filter(Without(q, i), S) = f \o b
    BY <1>1, <1>4, <1>7, Zenon
  <1>12. e \in S => Filter(q, S) = Append(f, e) \o b
    BY <1>4, <1>5, <1>7, Zenon
  <1>13. e \notin S => Filter(q, S) = f \o b
    BY <1>4, <1>5, <1>7, Zenon
  <1>14. Around(q, i, S, f, b)
    BY <1>2, <1>8, <1>10, <1>11, <1>12, <1>13, Zenon DEF Around
  <1>15. QED
    BY <1>14

\* A waiter whose future is cancelled leaves its line.
LEMMA LineOfWithdrawal ==
    ASSUME NEW q \in Seq(Calls), Distinct(q), NEW i \in DOMAIN q, q[i] \in Live
    PROVE  Leaves(Filter(q, Live), q[i], Filter(q, Live \ {q[i]}))
  <1>1. PICK f \in Seq(Calls), b \in Seq(Calls) : Around(q, i, Live, f, b)
    BY LineAround
  <1>2. PICK e \in Calls : e = q[i]
    BY LenProperties
  <1>3. Leaves(Append(f, e) \o b, e, f \o b)
    BY WithoutMiddle
  <1>4. /\ Filter(q, Live) = Append(f, e) \o b
        /\ Filter(q, Live \ {e}) = f \o b
    BY <1>1, <1>2, Zenon DEF Around
  <1>5. QED
    BY <1>2, <1>3, <1>4, Zenon

\* Its entry leaves the queue later, unseen.
LEMMA LineOfRemoval ==
    ASSUME NEW q \in Seq(Calls), Distinct(q), NEW i \in DOMAIN q, q[i] \notin Live
    PROVE  Filter(Without(q, i), Live) = Filter(q, Live)
  <1>1. PICK f \in Seq(Calls), b \in Seq(Calls) : Around(q, i, Live, f, b)
    BY LineAround
  <1>2. QED
    BY <1>1, Zenon DEF Around

\* A caller that joins a queue joins the line.
LEMMA LineOfJoin ==
    ASSUME NEW q \in Seq(Calls), NEW c \in Calls, ~Queued(c, q)
    PROVE  /\ Filter(q, Live \union {c}) = Filter(q, Live)
           /\ Filter(q, Live \ {c}) = Filter(q, Live)
           /\ Filter(Append(q, c), Live \union {c}) = Append(Filter(q, Live), c)
  <1>1. c \notin Range(q)
    BY DEF Queued, Range
  <1>2. PICK more, less : more = Live \union {c} /\ less = Live \ {c}
    OBVIOUS
  <1>3. /\ Range(q) \intersect more = Range(q) \intersect Live
        /\ Range(q) \intersect less = Range(q) \intersect Live
    BY <1>1, <1>2
  <1>4. Filter(q, more) = Filter(q, Live) /\ Filter(q, less) = Filter(q, Live)
    BY <1>3, FilterAgree
  <1>5. Filter(Append(q, c), more) = IF c \in more THEN Append(Filter(q, more), c)
                                     ELSE Filter(q, more)
    BY FilterAppend
  <1>6. c \in more
    BY <1>2
  <1>7. QED
    BY <1>2, <1>4, <1>5, <1>6, Zenon

----------------------------------------------------------------------------
(* What the steps of the runtime are to ModelTurn *)

\* A step that moves neither the gate nor a pending future is not seen.
LEMMA UnseenStep ==
    ASSUME UNCHANGED <<foreground, background>>,
           \A e \in Calls : /\ Owns(e)' <=> Owns(e)
                            /\ fut'[e] = "pending" <=> fut[e] = "pending"
    PROVE  UNCHANGED <<Holder, ForegroundLine, BackgroundLine>>
  <1>1. Holder' = Holder /\ Live' = Live
    BY DEF Holder, Live
  <1>2. QED
    BY <1>1 DEF ForegroundLine, BackgroundLine

\* What the invariant says of the two queues.
LEMMA QueueFacts ==
    ASSUME IInv
    PROVE  /\ foreground \in Seq(Calls) /\ Distinct(foreground)
           /\ background \in Seq(Calls) /\ Distinct(background)
           /\ \A i \in DOMAIN foreground : foreground[i] \in Foreground
           /\ \A i \in DOMAIN background : background[i] \in Background
           /\ \A c \in Calls : pc[c] # "waiting" =>
                ~Queued(c, foreground) /\ ~Queued(c, background)
           /\ \A c \in Calls : c \in Background => ~Queued(c, foreground)
           /\ \A c \in Calls : c \in Foreground => ~Queued(c, background)
  BY DEF IInv, TypeOK, QueueMatchesWaiters, QueueOK, Distinct, Queued, Foreground

\* A release() by the owner of the gate.
LEMMA PassOnStep ==
    ASSUME IInv, NEW c \in Calls,
           \/ WakeHandOff(c) \/ Completed(c) \/ Crashed(c)
           \/ ReleaseAfterAbandoned(c)
    PROVE  Turn!PassOn
  <1>1. /\ Owns(c) /\ Release
        /\ pc'[c] \in {"ok", "crashed", "cancelled", "timeout"} /\ ~callback'[c]
        /\ \A e \in Calls : e # c => pc'[e] = pc[e] /\ callback'[e] = callback[e]
    BY OwnerLeaves
  <1>2. /\ foreground \in Seq(Calls) /\ Distinct(foreground)
        /\ background \in Seq(Calls) /\ Distinct(background)
        /\ \A i \in DOMAIN foreground : foreground[i] \in Foreground
        /\ \A i \in DOMAIN background : background[i] \in Background
    BY QueueFacts
  <1>3. fut \in [Calls -> {"none", "pending", "granted", "cancelled"}]
    BY DEF IInv, TypeOK
  <1>4. Holder # {} /\ \A e \in Calls : Owns(e) => e = c
    BY <1>1 DEF Holder, IInv, GateOwned
  <1>5. ASSUME NEW d \in Calls, fut[d] = "pending", Grant(d)
        PROVE  Holder' = {d} /\ Live' = Live \ {d}
    <2>1. \A e \in Calls : fut'[e] = IF e = d THEN "granted" ELSE fut[e]
      BY <1>3, <1>5 DEF Grant
    <2>2. pc[d] = "waiting" /\ d # c
      BY <1>1, <1>5 DEF IInv, CallShape, Owns
    <2>3. \A e \in Calls : Owns(e)' <=> e = d
      <3>1. Owns(d)'
        BY <1>1, <2>1, <2>2 DEF Owns
      <3>2. ~Owns(c)'
        BY <1>1 DEF Owns
      <3>3. ASSUME NEW e \in Calls, e # c, e # d
            PROVE  ~Owns(e)'
        BY <1>1, <1>4, <2>1, <3>3 DEF Owns
      <3>4. QED
        BY <3>1, <3>2, <3>3
    <2>4. QED
      BY <2>1, <2>3 DEF Holder, Live
  <1>6. CASE ReleaseToForeground
    <2>1. PICK i \in DOMAIN foreground :
            /\ FirstLive(foreground, i)
            /\ Grant(foreground[i])
            /\ foreground' = After(foreground, i)
            /\ background' = background
      BY <1>6 DEF ReleaseToForeground
    <2>2. PICK d \in Calls : d = foreground[i] /\ d \in Foreground
      BY <1>2 DEF Foreground
    <2>3. Holder' = {d} /\ Live' = Live \ {d}
      BY <1>5, <2>1, <2>2 DEF FirstLive
    <2>4. /\ Filter(foreground, Live) # << >>
          /\ Head(Filter(foreground, Live)) = foreground[i]
          /\ Tail(Filter(foreground, Live)) =
               Filter(After(foreground, i), Live \ {foreground[i]})
      BY <1>2, <2>1, LineOfRelease
    <2>5. Filter(background, Live \ {d}) = Filter(background, Live)
      BY <1>2, <2>2, QueueFacts, LineOfJoin
    <2>6. /\ ForegroundLine # << >> /\ Head(ForegroundLine) = d
          /\ ForegroundLine' = Tail(ForegroundLine)
          /\ BackgroundLine' = BackgroundLine
      BY <2>1, <2>2, <2>3, <2>4, <2>5, Zenon DEF ForegroundLine, BackgroundLine
    <2>7. QED
      BY <1>4, <2>3, <2>6, Zenon DEF Turn!PassOn
  <1>7. CASE ReleaseToBackground
    <2>1. NoneLive(foreground) /\ foreground' = << >>
      BY <1>7 DEF ReleaseToBackground
    <2>2. PICK i \in DOMAIN background :
            /\ FirstLive(background, i)
            /\ Grant(background[i])
            /\ background' = After(background, i)
      BY <1>7 DEF ReleaseToBackground
    <2>3. PICK d \in Calls : d = background[i]
      BY <1>2, CallsAssumption
    <2>4. Holder' = {d} /\ Live' = Live \ {d}
      BY <1>5, <2>2, <2>3 DEF FirstLive
    <2>5. /\ Filter(background, Live) # << >>
          /\ Head(Filter(background, Live)) = background[i]
          /\ Tail(Filter(background, Live)) =
               Filter(After(background, i), Live \ {background[i]})
      BY <1>2, <2>2, LineOfRelease
    <2>6. Filter(foreground, Live) = << >> /\ Filter(<< >>, Live \ {d}) = << >>
      BY <1>2, <2>1, LineOfNoneLive, FilterEmpty
    <2>7. /\ BackgroundLine # << >> /\ Head(BackgroundLine) = d
          /\ BackgroundLine' = Tail(BackgroundLine)
          /\ ForegroundLine = << >> /\ ForegroundLine' = ForegroundLine
      BY <2>1, <2>2, <2>3, <2>4, <2>5, <2>6, Zenon
         DEF ForegroundLine, BackgroundLine
    <2>8. QED
      BY <1>4, <2>4, <2>7, Zenon DEF Turn!PassOn
  <1>8. CASE ReleaseUnlocks
    <2>1. /\ NoneLive(foreground) /\ NoneLive(background)
          /\ foreground' = << >> /\ background' = << >> /\ fut' = fut
      BY <1>8 DEF ReleaseUnlocks
    <2>2. Live' = Live
      BY <2>1 DEF Live
    <2>3. Holder' = {}
      <3>1. \A e \in Calls : ~Owns(e)'
        BY <1>1, <1>4, <2>1 DEF Owns
      <3>2. QED
        BY <3>1 DEF Holder
    <2>4. /\ Filter(foreground, Live) = << >> /\ Filter(background, Live) = << >>
          /\ Filter(<< >>, Live) = << >>
      BY <1>2, <2>1, LineOfNoneLive, FilterEmpty
    <2>5. /\ ForegroundLine = << >> /\ ForegroundLine' = ForegroundLine
          /\ BackgroundLine = << >> /\ BackgroundLine' = BackgroundLine
      BY <2>1, <2>2, <2>4, Zenon DEF ForegroundLine, BackgroundLine
    <2>6. QED
      BY <1>4, <2>3, <2>5, Zenon DEF Turn!PassOn
  <1>9. QED
    BY <1>1, <1>6, <1>7, <1>8 DEF Release

\* A call that finds the gate free.
LEMMA TakeStep ==
    ASSUME IInv, NEW c \in Calls, CallFree(c)
    PROVE  Turn!Take(c)
  <1>1. /\ ~locked /\ UNCHANGED <<foreground, background, fut, callback>>
        /\ pc' = [pc EXCEPT ![c] = "running"]
        /\ pc \in [Calls -> {"new", "waiting", "running"} \union Outcomes]
    BY DEF CallFree, StartInference, IInv, TypeOK
  <1>2. \A e \in Calls : ~Owns(e)
    BY <1>1 DEF IInv, GateOwned
  <1>3. \A e \in Calls : Owns(e)' <=> e = c
    BY <1>1, <1>2 DEF Owns
  <1>4. Holder = {} /\ Holder' = {c} /\ Live' = Live
    BY <1>1, <1>2, <1>3 DEF Holder, Live
  <1>5. UNCHANGED <<ForegroundLine, BackgroundLine>>
    BY <1>1, <1>4 DEF ForegroundLine, BackgroundLine
  <1>6. QED
    BY <1>4, <1>5 DEF Turn!Take

\* A call that finds it taken.
LEMMA JoinStep ==
    ASSUME IInv, NEW c \in Calls, CallQueued(c)
    PROVE  Turn!Join(c)
  <1>1. /\ locked /\ pc[c] = "new"
        /\ pc' = [pc EXCEPT ![c] = "waiting"]
        /\ fut' = [fut EXCEPT ![c] = "pending"]
        /\ callback' = callback
        /\ pc \in [Calls -> {"new", "waiting", "running"} \union Outcomes]
        /\ fut \in [Calls -> {"none", "pending", "granted", "cancelled"}]
    BY DEF CallQueued, IInv, TypeOK
  <1>2. ~Owns(c) /\ ~Owns(c)' /\ \A e \in Calls : Owns(e)' <=> Owns(e)
    BY <1>1 DEF Owns, IInv, CallShape
  <1>3. Holder # {} /\ c \notin Holder /\ Holder' = Holder
    BY <1>1, <1>2 DEF Holder, IInv, GateOwned
  <1>4. Live' = Live \union {c}
    BY <1>1 DEF Live
  <1>5. /\ foreground \in Seq(Calls) /\ ~Queued(c, foreground)
        /\ background \in Seq(Calls) /\ ~Queued(c, background)
    BY <1>1, QueueFacts
  <1>6. /\ Filter(foreground, Live \union {c}) = Filter(foreground, Live)
        /\ Filter(background, Live \union {c}) = Filter(background, Live)
    BY <1>5, LineOfJoin
  <1>7. CASE c \in Background
    <2>1. background' = Append(background, c) /\ foreground' = foreground
      BY <1>7 DEF CallQueued
    <2>2. PICK line : line = Append(Filter(background, Live), c)
      OBVIOUS
    <2>3. Filter(Append(background, c), Live \union {c}) = line
      BY <1>5, <2>2, LineOfJoin, Zenon
    <2>4. BackgroundLine' = Append(BackgroundLine, c) /\ ForegroundLine' = ForegroundLine
      BY <1>4, <1>6, <2>1, <2>2, <2>3, Zenon DEF ForegroundLine, BackgroundLine
    <2>5. QED
      BY <1>3, <1>7, <2>4, Zenon DEF Turn!Join
  <1>8. CASE c \notin Background
    <2>1. foreground' = Append(foreground, c) /\ background' = background
      BY <1>8 DEF CallQueued
    <2>2. PICK line : line = Append(Filter(foreground, Live), c)
      OBVIOUS
    <2>3. Filter(Append(foreground, c), Live \union {c}) = line
      BY <1>5, <2>2, LineOfJoin, Zenon
    <2>4. ForegroundLine' = Append(ForegroundLine, c) /\ BackgroundLine' = BackgroundLine
      BY <1>4, <1>6, <2>1, <2>2, <2>3, Zenon DEF ForegroundLine, BackgroundLine
    <2>5. QED
      BY <1>3, <1>8, <2>4, Zenon DEF Turn!Join
  <1>9. QED
    BY <1>7, <1>8

\* A caller that is cancelled in line.
LEMMA WithdrawTurn ==
    ASSUME IInv, NEW c \in Calls, Cancel(c), fut[c] = "pending"
    PROVE  Turn!Withdraw(c)
  <1> USE CallsAssumption
  <1>1. /\ fut' = [fut EXCEPT ![c] = "cancelled"]
        /\ UNCHANGED <<foreground, background, pc, callback>>
        /\ fut \in [Calls -> {"none", "pending", "granted", "cancelled"}]
    BY DEF Cancel, IInv, TypeOK
  <1>2. Live' = Live \ {c} /\ c \in Live /\ Holder' = Holder
    BY <1>1 DEF Live, Holder, Owns
  <1>3. Queued(c, Line(c))
    BY DEF IInv, CallShape, QueueMatchesWaiters, Waiting
  <1>4. /\ foreground \in Seq(Calls) /\ Distinct(foreground)
        /\ background \in Seq(Calls) /\ Distinct(background)
    BY QueueFacts
  <1>5. CASE c \in Background
    <2>1. PICK i \in DOMAIN background : background[i] = c
      BY <1>3, <1>5 DEF Line, Queued
    <2>2. Leaves(Filter(background, Live), background[i],
                 Filter(background, Live \ {background[i]}))
      BY <1>2, <1>4, <2>1, LineOfWithdrawal
    <2>3. ~Queued(c, foreground)
      BY <1>5, QueueFacts
    <2>4. Filter(foreground, Live \ {c}) = Filter(foreground, Live)
      BY <1>4, <2>3, LineOfJoin
    <2>5. /\ Leaves(BackgroundLine, c, BackgroundLine')
          /\ ForegroundLine' = ForegroundLine
      BY <1>1, <1>2, <2>1, <2>2, <2>4, Zenon DEF ForegroundLine, BackgroundLine
    <2>6. QED
      BY <1>2, <2>5, Zenon DEF Turn!Withdraw, Leaves
  <1>6. CASE c \notin Background
    <2>1. PICK i \in DOMAIN foreground : foreground[i] = c
      BY <1>3, <1>6 DEF Line, Queued
    <2>2. Leaves(Filter(foreground, Live), foreground[i],
                 Filter(foreground, Live \ {foreground[i]}))
      BY <1>2, <1>4, <2>1, LineOfWithdrawal
    <2>3. ~Queued(c, background)
      BY <1>6, QueueFacts DEF Foreground
    <2>4. Filter(background, Live \ {c}) = Filter(background, Live)
      BY <1>4, <2>3, LineOfJoin
    <2>5. /\ Leaves(ForegroundLine, c, ForegroundLine')
          /\ BackgroundLine' = BackgroundLine
      BY <1>1, <1>2, <2>1, <2>2, <2>4, Zenon DEF ForegroundLine, BackgroundLine
    <2>6. QED
      BY <1>2, <2>5, Zenon DEF Turn!Withdraw, Leaves
  <1>7. QED
    BY <1>5, <1>6

\* It wakes up later and takes its dead entry out of its queue.
LEMMA RemovalStep ==
    ASSUME IInv, NEW c \in Calls, WakeCancelled(c)
    PROVE  UNCHANGED <<Holder, ForegroundLine, BackgroundLine>>
  <1>1. /\ pc[c] = "waiting" /\ fut[c] = "cancelled"
        /\ pc' = [pc EXCEPT ![c] = "cancelled"]
        /\ UNCHANGED <<fut, callback>>
        /\ pc \in [Calls -> {"new", "waiting", "running"} \union Outcomes]
    BY DEF WakeCancelled, IInv, TypeOK
  <1>2. \A e \in Calls : Owns(e)' <=> Owns(e)
    BY <1>1 DEF Owns, IInv, CallShape
  <1>3. Holder' = Holder /\ Live' = Live /\ c \notin Live
    BY <1>1, <1>2 DEF Holder, Live
  <1>4. /\ foreground \in Seq(Calls) /\ Distinct(foreground)
        /\ background \in Seq(Calls) /\ Distinct(background)
    BY QueueFacts
  <1>5. CASE \E i \in DOMAIN foreground :
               /\ foreground[i] = c
               /\ foreground' = Without(foreground, i)
               /\ UNCHANGED background
    <2>1. PICK i \in DOMAIN foreground :
            /\ foreground[i] = c
            /\ foreground' = Without(foreground, i)
            /\ background' = background
      BY <1>5
    <2>2. Filter(Without(foreground, i), Live) = Filter(foreground, Live)
      BY <1>3, <1>4, <2>1, LineOfRemoval
    <2>3. QED
      BY <1>3, <2>1, <2>2, Zenon DEF ForegroundLine, BackgroundLine
  <1>6. CASE \E i \in DOMAIN background :
               /\ background[i] = c
               /\ background' = Without(background, i)
               /\ UNCHANGED foreground
    <2>1. PICK i \in DOMAIN background :
            /\ background[i] = c
            /\ background' = Without(background, i)
            /\ foreground' = foreground
      BY <1>6
    <2>2. Filter(Without(background, i), Live) = Filter(background, Live)
      BY <1>3, <1>4, <2>1, LineOfRemoval
    <2>3. QED
      BY <1>3, <2>1, <2>2, Zenon DEF ForegroundLine, BackgroundLine
  <1>7. QED
    BY <1>5, <1>6 DEF WakeCancelled

\* The steps that move a call, its thread or its callback, but not the gate.
LEMMA QuietTurn ==
    ASSUME IInv, NEW c \in Calls,
           \/ CallUnloaded(c) \/ Timer(c) \/ WakeGranted(c) \/ WakeModelGone(c)
           \/ WakeNotInQueue(c) \/ ThreadExits(c) \/ Abandon(c)
           \/ Cancel(c) /\ fut[c] # "pending"
    PROVE  UNCHANGED <<Holder, ForegroundLine, BackgroundLine>>
  <1>1. /\ pc \in [Calls -> {"new", "waiting", "running"} \union Outcomes]
        /\ fut \in [Calls -> {"none", "pending", "granted", "cancelled"}]
        /\ callback \in [Calls -> BOOLEAN]
    BY DEF IInv, TypeOK
  <1>2. UNCHANGED <<foreground, background>>
    BY DEF CallUnloaded, Timer, WakeGranted, WakeModelGone, WakeNotInQueue,
           ThreadExits, Abandon, Cancel, gateVars
  <1>3. \A e \in Calls : fut'[e] = "pending" <=> fut[e] = "pending"
    BY <1>1 DEF CallUnloaded, Timer, WakeGranted, WakeModelGone, WakeNotInQueue,
                ThreadExits, Abandon, Cancel, gateVars
  <1>4. \A e \in Calls : Owns(e)' <=> Owns(e)
    <2>1. CASE CallUnloaded(c)
      BY <1>1, <2>1 DEF CallUnloaded, gateVars, Owns, IInv, CallShape
    <2>2. CASE Timer(c)
      BY <2>2 DEF Timer, gateVars, Owns
    <2>3. CASE WakeGranted(c)
      BY <1>1, <2>3 DEF WakeGranted, StartInference, Owns
    <2>4. CASE WakeModelGone(c)
      BY <1>1, <2>4 DEF WakeModelGone, Owns
    <2>5. CASE WakeNotInQueue(c)
      BY <1>1, <2>5 DEF WakeNotInQueue, gateVars, Owns
    <2>6. CASE ThreadExits(c)
      BY <2>6 DEF ThreadExits, gateVars, Owns
    <2>7. CASE Abandon(c)
      BY <1>1, <2>7 DEF Abandon, gateVars, Owns
    <2>8. CASE Cancel(c) /\ fut[c] # "pending"
      BY <2>8 DEF Cancel, Owns
    <2>9. QED
      BY <2>1, <2>2, <2>3, <2>4, <2>5, <2>6, <2>7, <2>8
  <1>5. QED
    BY <1>2, <1>3, <1>4, UnseenStep

(* The gate implements ModelTurn: one user at a time, two lines served in  *)
(* order, foreground before background - for any calls, whatever is        *)
(* cancelled, times out, crashes or is closed (_PriorityGate).             *)
THEOREM RuntimeRefines == Spec => ImplementsModelTurn
  <1>1. Init => Turn!Init
    <2> SUFFICES ASSUME Init PROVE Turn!Init
      OBVIOUS
    <2>1. Holder = {}
      BY DEF Init, Holder, Owns
    <2>2. ForegroundLine = << >> /\ BackgroundLine = << >>
      BY FilterEmpty DEF Init, ForegroundLine, BackgroundLine
    <2>3. QED
      BY <2>1, <2>2 DEF Turn!Init
  <1>2. IInv /\ [Next]_vars => [Turn!Next]_(Turn!vars)
    <2> SUFFICES ASSUME IInv, [Next]_vars
                 PROVE  \/ Turn!Next
                        \/ UNCHANGED <<Holder, ForegroundLine, BackgroundLine>>
      BY DEF Turn!vars
    <2>1. ASSUME NEW c \in Calls,
                 \/ CallUnloaded(c) \/ CallFree(c) \/ CallQueued(c)
                 \/ Cancel(c) \/ Timer(c) \/ Progress(c) \/ ThreadExits(c)
          PROVE  \/ Turn!Take(c) \/ Turn!Join(c) \/ Turn!Withdraw(c)
                 \/ Turn!PassOn
                 \/ UNCHANGED <<Holder, ForegroundLine, BackgroundLine>>
      BY <2>1, TakeStep, JoinStep, WithdrawTurn, PassOnStep, RemovalStep,
         QuietTurn DEF Progress
    <2>2. ASSUME Close \/ UNCHANGED vars
          PROVE  UNCHANGED <<Holder, ForegroundLine, BackgroundLine>>
      BY <2>2, UnseenStep DEF Close, vars, gateVars, callVars, Owns
    <2>3. QED
      BY <2>1, <2>2 DEF Next, Terminated, Turn!Next
  <1>3. QED
    BY <1>1, <1>2, Invariance, PTL DEF Spec, ImplementsModelTurn, Turn!Spec

(* The depth that the busy guard reads counts every caller that uses the   *)
(* model or waits for it, and beyond those only entries of cancelled ones. *)
THEOREM HonestDepth == Spec => []DepthIsHonest
  <1>1. IInv => DepthIsHonest
    <2> SUFFICES ASSUME IInv PROVE DepthIsHonest
      OBVIOUS
    <2>1. locked <=> Holder # {}
      BY DEF IInv, GateOwned, Holder
    <2>2. ASSUME NEW q \in {foreground, background}
          PROVE  /\ Len(Filter(q, Live)) + Len(Filter(q, Cancelled)) = Len(q)
                 /\ Len(Filter(q, Live)) \in Nat
                 /\ Len(Filter(q, Cancelled)) \in Nat
      <3>1. q \in Seq(Calls)
        BY QueueFacts
      <3>2. Range(q) \subseteq Live \union Cancelled
        BY <3>1, LenProperties
           DEF Range, Live, Cancelled, IInv, QueueMatchesWaiters, QueueOK
      <3>3. Live \intersect Cancelled = {}
        BY DEF Live, Cancelled
      <3>4. Filter(q, Live) \in Seq(Calls) /\ Filter(q, Cancelled) \in Seq(Calls)
        BY <3>1, FilterSeq
      <3>5. QED
        BY <3>1, <3>2, <3>3, <3>4, FilterSplit, LenProperties
    <2>3. QED
      BY <2>1, <2>2
         DEF DepthIsHonest, QueueDepth, Turn!Depth, ForegroundLine, BackgroundLine
  <1>2. QED
    BY <1>1, Invariance, PTL
=============================================================================
