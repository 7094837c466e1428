--------------------------- MODULE Audit_proofs ---------------------------
(***************************************************************************)
(* Proofs about the audit database and its two writers.  The audit service *)
(* (AuditService) implements AuditTrail, and nothing but a failing         *)
(* transaction or a full queue loses an event - for any requests, sizes of *)
(* queue and batch, and number of failures.  The retention policy          *)
(* (Retention) clears what is due and nothing else - for any rows, windows *)
(* and number of days.                                                     *)
(***************************************************************************)
EXTENDS AuditService, Retention, ListLemmas, FiniteSetTheorems

----------------------------------------------------------------------------
(* The inductive invariant *)

Entries == Events \union {Stop}

\* How far the consumer, its batch and the shutdown can be apart.
Shape ==
    /\ consumer \in {"get", "stopped"} => batch = << >>
    /\ consumer = "writing" => batch # << >> /\ retry = 0
    /\ consumer = "retrying" => retry < Len(batch)
    /\ Len(batch) <= BatchMax
    /\ consumer = "stopped" => stopSeen
    /\ stopSeen => queue = << >> /\ closing # "open"
    /\ closing = "ended" => consumer \in {"stopped", "cancelled"}
    /\ consumer = "cancelled" => closing = "ended"

\* The sentinel is the last entry the queue ever gets.
StopIsLast ==
    \A i \in DOMAIN queue : queue[i] = Stop => i = Len(queue) /\ closing # "open"

\* What is anywhere was accepted, what was accepted or given up was recorded,
\* and nothing is recorded before what it needs.
Known ==
    /\ Range(rows) \subseteq accepted
    /\ Range(Undecided) \subseteq accepted
    /\ \A e \in accepted \union logged : e.kind \in recorded[e.request]
    /\ \A r \in Requests : \A kind \in recorded[r] : Needed(kind) \subseteq recorded[r]

\* The parent of an event: the row its foreign key names.
Parent(e) == Event(e.request, IF e.kind = "request" THEN "session" ELSE "request")

\* Every event stands behind its parent.
ParentsFirst(line) ==
    \A i \in DOMAIN line :
        \/ line[i].kind \in {"session", "stop"}
        \/ \E j \in 1 .. i - 1 : line[j] = Parent(line[i])

\* Everything that was accepted, in order, if nothing was lost.
Line == (rows \o batch) \o queue

\* As long as no transaction failed and the queue never overflowed, nothing
\* is missing and the batches are rows in waiting.
Intact ==
    faults = 0 /\ ~overflowed =>
        /\ retry = 0 /\ consumer # "retrying"
        /\ Distinct(Line) /\ ParentsFirst(Line)
        /\ Range(Line) \ {Stop} = accepted
        /\ closing = "open" =>
             \A r \in Requests : \A kind \in recorded[r] : Event(r, kind) \in accepted
        /\ logged \intersect accepted = {}

IInv == TypeOK /\ Shape /\ StopIsLast /\ Known /\ Distinct(Undecided) /\ Intact

----------------------------------------------------------------------------
(* What is where *)

LEMMA StopIsNoEvent == Stop \notin Events
  BY DEF Stop, Events, Kinds

LEMMA Types ==
    ASSUME TypeOK
    PROVE  /\ queue \in Seq(Entries) /\ batch \in Seq(Events) /\ rows \in Seq(Events)
           /\ InHand \in Seq(Events)
           /\ Filter(queue, Events) \in Seq(Events)
           /\ Undecided \in Seq(Events)
           /\ FirstCommits \in Seq(Events) /\ Range(FirstCommits) = Range(rows)
           /\ Line \in Seq(Entries)
  <1>1. queue \in Seq(Entries) /\ batch \in Seq(Events) /\ rows \in Seq(Events)
    BY DEF TypeOK, Entries
  <1>2. InHand \in Seq(Events)
    <2>1. retry + 1 \in Int /\ Len(batch) \in Int
      BY <1>1, LenProperties, AuditAssumption DEF TypeOK
    <2>2. \A i \in retry + 1 .. Len(batch) : batch[i] \in Events
      <3> TAKE i \in retry + 1 .. Len(batch)
      <3>1. i \in 1 .. Len(batch)
        BY <1>1, LenProperties, AuditAssumption DEF TypeOK
      <3>2. QED
        BY <1>1, <3>1, ElementOfSeq
    <2>3. QED
      BY <2>1, <2>2, SubSeqProperties DEF InHand
  <1>3. Filter(queue, Events) \in Seq(Events)
    BY <1>1, FilterInto
  <1>4. Undecided \in Seq(Events)
    BY <1>2, <1>3, ConcatProperties DEF Undecided
  <1>5. FirstCommits \in Seq(Events) /\ Range(FirstCommits) = Range(rows)
    BY <1>1, FirstsRange DEF FirstCommits
  <1>6. Line \in Seq(Entries)
    <2>1. PICK more \in Seq(Events) : more = rows \o batch
      BY <1>1, ConcatProperties
    <2>2. more \in Seq(Entries)
      BY SeqMonotonic DEF Entries
    <2>3. QED
      BY <1>1, <2>1, <2>2, ConcatProperties DEF Line
  <1>7. QED
    BY <1>1, <1>2, <1>3, <1>4, <1>5, <1>6

\* As long as the service is open there are only events in the queue.
LEMMA WhileOpen ==
    ASSUME TypeOK, StopIsLast, closing = "open"
    PROVE  queue \in Seq(Events) /\ Filter(queue, Events) = queue
  <1>1. queue \in Seq(Entries)
    BY DEF TypeOK, Entries
  <1>2. Range(queue) \subseteq Events
    BY <1>1 DEF StopIsLast, Range, Entries
  <1>3. queue \in Seq(Events)
    BY <1>1, <1>2, SeqOfRange, SeqMonotonic
  <1>4. QED
    BY <1>2, <1>3, FilterAll

\* What the retry has left of its batch.
LEMMA Remainder ==
    ASSUME NEW U, NEW q \in Seq(U), NEW n \in Nat
    PROVE  /\ n = 0 => SubSeq(q, n + 1, Len(q)) = q
           /\ q = << >> => SubSeq(q, n + 1, Len(q)) = << >>
           /\ n < Len(q) =>
                /\ SubSeq(q, n + 1, Len(q)) # << >>
                /\ Head(SubSeq(q, n + 1, Len(q))) = q[n + 1]
                /\ Tail(SubSeq(q, n + 1, Len(q))) = SubSeq(q, (n + 1) + 1, Len(q))
                /\ n + 1 = Len(q) => SubSeq(q, (n + 1) + 1, Len(q)) = << >>
  <1>1. Len(q) \in Nat
    BY LenProperties
  <1>2. ASSUME n = 0 PROVE SubSeq(q, n + 1, Len(q)) = q
    BY <1>2, SubSeqFull
  <1>3. ASSUME q = << >> PROVE SubSeq(q, n + 1, Len(q)) = << >>
    <2>1. Len(q) = 0
      BY <1>3, EmptySeq
    <2>2. n + 1 \in Int /\ Len(q) \in Int /\ Len(q) < n + 1
      BY <2>1
    <2>3. QED
      BY <2>2, SubSeqEmpty
  <1>4. ASSUME n < Len(q)
        PROVE  /\ SubSeq(q, n + 1, Len(q)) # << >>
               /\ Head(SubSeq(q, n + 1, Len(q))) = q[n + 1]
               /\ Tail(SubSeq(q, n + 1, Len(q))) = SubSeq(q, (n + 1) + 1, Len(q))
               /\ n + 1 = Len(q) => SubSeq(q, (n + 1) + 1, Len(q)) = << >>
    <2>1. n + 1 \in 1 .. Len(q) /\ Len(q) \in n + 1 .. Len(q)
      BY <1>1, <1>4
    <2>2. /\ Head(SubSeq(q, n + 1, Len(q))) = q[n + 1]
          /\ Tail(SubSeq(q, n + 1, Len(q))) = SubSeq(q, (n + 1) + 1, Len(q))
      BY <2>1, HeadTailOfSubSeq
    <2>3. SubSeq(q, n + 1, Len(q)) # << >>
      <3>1. n \in 0 .. Len(q)
        BY <1>1, <1>4
      <3>2. PICK rest \in Seq(U) : /\ rest = SubSeq(q, n + 1, Len(q))
                                   /\ Len(rest) = Len(q) - n
        BY <3>1, DropProperties
      <3>3. Len(rest) # 0
        BY <1>1, <1>4, <3>2
      <3>4. QED
        BY <3>2, <3>3, EmptySeq
    <2>4. n + 1 = Len(q) => SubSeq(q, (n + 1) + 1, Len(q)) = << >>
      <3>1. (n + 1) + 1 \in Int /\ Len(q) \in Int /\ (n + 1 = Len(q) => Len(q) < (n + 1) + 1)
        BY <1>1
      <3>2. QED
        BY <3>1, SubSeqEmpty
    <2>5. QED
      BY <2>2, <2>3, <2>4
  <1>5. QED
    BY <1>2, <1>3, <1>4

\* What storing q makes of the database, as AuditTrail sees it.
LEMMA StoreMore ==
    ASSUME TypeOK, NEW q \in Seq(Events), Distinct(q)
    PROVE  Firsts(rows \o q) = Trail!StoredWith(q)
  <1>1. rows \in Seq(Events) /\ FirstCommits \in Seq(Events)
        /\ Range(FirstCommits) = Range(rows)
    BY Types
  <1>2. Firsts(rows \o q) = FirstCommits \o Filter(q, Events \ Range(rows))
    BY <1>1, FirstsConcat DEF FirstCommits
  <1>3. Trail!Fresh = Events \ Range(rows)
    BY <1>1 DEF Trail!Fresh, Range
  <1>4. Trail!Filter(q, Trail!Fresh) = Filter(q, Trail!Fresh)
    BY DEF Filter, Trail!Filter, AtPlaces, Trail!AtPlaces
  <1>5. QED
    BY <1>2, <1>3, <1>4 DEF Trail!StoredWith

----------------------------------------------------------------------------
(* Parents *)

\* A list in which everything has its parent before it, and one more entry.
LEMMA ParentsOfAppend ==
    ASSUME NEW q \in Seq(Entries), NEW e \in Entries
    PROVE  /\ ParentsFirst(Append(q, e)) => ParentsFirst(q)
           /\ ParentsFirst(q) /\ (e.kind \in {"session", "stop"} \/ Parent(e) \in Range(q))
                => ParentsFirst(Append(q, e))
  <1>1. PICK n \in Nat : n = Len(q) /\ DOMAIN q = 1 .. n
    BY LenProperties
  <1>2. PICK more \in Seq(Entries) : more = Append(q, e)
    BY AppendProperties
  <1>3. /\ DOMAIN more = 1 .. n + 1
        /\ \A i \in 1 .. n : more[i] = q[i]
        /\ more[n + 1] = e
    BY <1>1, <1>2, AppendProperties, LenProperties
  <1>4. \A i \in 1 .. n : \A x : (\E j \in 1 .. i - 1 : more[j] = x) <=>
                                 (\E j \in 1 .. i - 1 : q[j] = x)
    BY <1>3
  <1>5. ASSUME ParentsFirst(more) PROVE ParentsFirst(q)
    BY <1>1, <1>3, <1>4, <1>5 DEF ParentsFirst
  <1>6. ASSUME ParentsFirst(q), e.kind \in {"session", "stop"} \/ Parent(e) \in Range(q)
        PROVE  ParentsFirst(more)
    <2> SUFFICES ASSUME NEW i \in 1 .. n + 1
                 PROVE  \/ more[i].kind \in {"session", "stop"}
                        \/ \E j \in 1 .. i - 1 : more[j] = Parent(more[i])
      BY <1>3 DEF ParentsFirst
    <2>1. CASE i \in 1 .. n
      BY <1>1, <1>3, <1>4, <1>6, <2>1 DEF ParentsFirst
    <2>2. CASE i = n + 1
      <3>1. (n + 1) - 1 = n
        OBVIOUS
      <3>2. Parent(e) \in Range(q) => \E j \in 1 .. n : more[j] = Parent(e)
        BY <1>1, <1>3 DEF Range
      <3>3. QED
        BY <1>3, <1>6, <2>2, <3>1, <3>2
    <2>3. QED
      BY <2>1, <2>2
  <1>7. QED
    BY <1>2, <1>5, <1>6

\* Behind its parents a batch meets no foreign key that refuses it.
LEMMA BatchIsAccepted ==
    ASSUME TypeOK, Distinct(Line), ParentsFirst(Line)
    PROVE  AcceptsAll(batch)
  <1> SUFFICES ASSUME NEW i \in DOMAIN batch
               PROVE  Accepts(rows \o SubSeq(batch, 1, i - 1), batch[i])
    BY DEF AcceptsAll
  <1>1. queue \in Seq(Entries) /\ batch \in Seq(Events) /\ rows \in Seq(Events)
    BY Types
  <1>2. PICK m \in Nat : m = Len(rows)
    BY <1>1, LenProperties
  <1>3. /\ i \in 1 .. Len(batch) /\ Len(batch) \in Nat
        /\ batch[i] \in Events
    BY <1>1, LenProperties, ElementOfSeq
  <1>4. PICK more \in Seq(Events) : more = rows \o batch
    BY <1>1, ConcatProperties
  <1>5. /\ Len(more) = m + Len(batch)
        /\ \A j \in 1 .. m : more[j] = rows[j]
        /\ \A j \in 1 .. Len(batch) : more[m + j] = batch[j]
    BY <1>1, <1>2, <1>4, ConcatAt
  <1>6. more \in Seq(Entries) /\ Line = more \o queue /\ Line \in Seq(Entries)
    BY <1>4, Types, SeqMonotonic DEF Line, Entries
  <1>7. /\ DOMAIN Line = 1 .. Len(more) + Len(queue)
        /\ \A j \in 1 .. Len(more) : Line[j] = more[j]
        /\ Len(queue) \in Nat
    BY <1>1, <1>6, ConcatAt, LenProperties
  <1>8. PICK front : front = SubSeq(batch, 1, i - 1)
    OBVIOUS
  <1>9. /\ front \in Seq(Events) /\ Len(front) = i - 1
        /\ \A j \in 1 .. i - 1 : front[j] = batch[j]
    BY <1>1, <1>8, AroundPosition
  <1>10. PICK table \in Seq(Events) : table = rows \o front
    BY <1>1, <1>9, ConcatProperties
  <1>11. /\ DOMAIN table = 1 .. m + (i - 1)
         /\ \A j \in 1 .. m + (i - 1) : table[j] = Line[j]
    <2>1. /\ Len(table) = m + (i - 1)
          /\ \A j \in 1 .. m : table[j] = rows[j]
          /\ \A j \in 1 .. i - 1 : table[m + j] = front[j]
      BY <1>1, <1>2, <1>9, <1>10, ConcatAt
    <2>2. ASSUME NEW j \in 1 .. m PROVE table[j] = Line[j]
      <3>1. j \in 1 .. Len(more)
        BY <1>3, <1>5
      <3>2. QED
        BY <1>5, <1>7, <2>1, <3>1
    <2>3. ASSUME NEW j \in 1 .. i - 1 PROVE table[m + j] = Line[m + j]
      <3>1. m + j \in 1 .. Len(more) /\ j \in 1 .. Len(batch)
        BY <1>3, <1>5
      <3>2. table[m + j] = batch[j]
        BY <1>9, <2>1
      <3>3. QED
        BY <1>5, <1>7, <3>1, <3>2
    <2>4. \A j \in 1 .. m + (i - 1) : j \in 1 .. m \/ (j - m \in 1 .. i - 1 /\ m + (j - m) = j)
      BY <1>3
    <2>5. \A j \in 1 .. m + (i - 1) : table[j] = Line[j]
      <3> TAKE j \in 1 .. m + (i - 1)
      <3>1. CASE j \in 1 .. m
        BY <2>2, <3>1
      <3>2. CASE j - m \in 1 .. i - 1 /\ m + (j - m) = j
        BY <2>3, <3>2
      <3>3. QED
        BY <2>4, <3>1, <3>2
    <2>6. QED
      BY <2>1, <2>5, LenProperties
  <1>12. PICK k \in DOMAIN Line : k = m + i /\ k - 1 = m + (i - 1) /\ Line[k] = batch[i]
    <2>1. m + i \in 1 .. Len(more) /\ m + i \in DOMAIN Line /\ (m + i) - 1 = m + (i - 1)
      BY <1>3, <1>5, <1>7
    <2>2. QED
      BY <1>3, <1>5, <1>7, <2>1
  <1>13. PICK e \in Events : e = batch[i]
    BY <1>3
  <1>14. e.kind # "session" => \E j \in DOMAIN table : table[j] = Parent(e)
    <2>1. e.kind # "stop"
      BY DEF Events, Kinds
    <2>2. e.kind # "session" => \E j \in 1 .. k - 1 : Line[j] = Parent(e)
      BY <1>12, <1>13, <2>1 DEF ParentsFirst
    <2>3. QED
      BY <1>11, <1>12, <2>2
  <1>15. \A j \in DOMAIN table : table[j] # e
    <2> SUFFICES ASSUME NEW j \in DOMAIN table PROVE table[j] # e
      OBVIOUS
    <2>1. j \in 1 .. m + (i - 1) /\ table[j] = Line[j]
      BY <1>11
    <2>2. DOMAIN Line = 1 .. (m + Len(batch)) + Len(queue)
      BY <1>5, <1>7
    <2>3. j \in DOMAIN Line /\ j # k
      BY <1>3, <1>7, <1>12, <2>1, <2>2, SMTT(40)
    <2>4. QED
      BY <1>12, <1>13, <2>1, <2>3 DEF Distinct
  <1>16. Accepts(table, e)
    <2>1. e.kind \in Kinds
      BY DEF Events
    <2>2. CASE e.kind = "session"
      BY <2>2 DEF Accepts
    <2>3. CASE e.kind = "request"
      <3>1. PICK j \in DOMAIN table : table[j] = Event(e.request, "session")
        BY <1>14, <2>3 DEF Parent
      <3>2. SessionStored(table)
        BY <3>1 DEF SessionStored, Event
      <3>3. ~In(e, table)
        BY <1>15 DEF In
      <3>4. QED
        BY <2>3, <3>2, <3>3 DEF Accepts
    <2>4. CASE e.kind \in {"response", "spawned", "ended"}
      <3>1. In(Event(e.request, "request"), table)
        BY <1>14, <2>4 DEF Parent, In
      <3>2. QED
        BY <2>4, <3>1 DEF Accepts
    <2>5. QED
      BY <2>1, <2>2, <2>3, <2>4 DEF Kinds
  <1>17. QED
    BY <1>8, <1>10, <1>13, <1>16

----------------------------------------------------------------------------
(* Producers *)

LEMMA EventTypes ==
    ASSUME NEW r \in Requests, NEW kind \in Kinds
    PROVE  /\ Event(r, kind) \in Events /\ Event(r, kind) \in Entries
           /\ Event(r, kind).kind = kind /\ Event(r, kind).request = r
           /\ Event(r, kind) # Stop
  BY StopIsNoEvent DEF Event, Events, Entries

\* An event not recorded before is new everywhere, and its parent is accepted
\* if nothing was lost.
LEMMA NewEvent ==
    ASSUME IInv, NEW r \in Requests, NEW kind \in Kinds, closing = "open",
           kind \notin recorded[r], Needed(kind) \subseteq recorded[r]
    PROVE  /\ Event(r, kind) \notin accepted /\ Event(r, kind) \notin logged
           /\ faults = 0 /\ ~overflowed =>
                kind = "session" \/ Parent(Event(r, kind)) \in accepted
  <1>1. Event(r, kind) \notin accepted /\ Event(r, kind) \notin logged
    BY EventTypes DEF IInv, Known
  <1>2. ASSUME faults = 0, ~overflowed, kind # "session"
        PROVE  Parent(Event(r, kind)) \in accepted
    <2>1. \A k \in recorded[r] : Event(r, k) \in accepted
      BY <1>2 DEF IInv, Intact
    <2>2. Parent(Event(r, kind)) =
            Event(r, IF kind = "request" THEN "session" ELSE "request")
      BY EventTypes DEF Parent
    <2>3. CASE kind = "request"
      <3>1. "session" \in recorded[r]
        BY <2>3 DEF Needed
      <3>2. QED
        BY <2>1, <2>2, <2>3, <3>1
    <2>4. CASE kind \in {"response", "spawned"}
      <3>1. "request" \in recorded[r]
        BY <2>4 DEF Needed
      <3>2. QED
        BY <2>1, <2>2, <2>4, <3>1
    <2>5. CASE kind = "ended"
      <3>1. "spawned" \in recorded[r]
        BY <2>5 DEF Needed
      <3>2. Needed("spawned") \subseteq recorded[r]
        BY <3>1 DEF IInv, Known
      <3>3. "request" \in recorded[r]
        BY <3>2 DEF Needed
      <3>4. QED
        BY <2>1, <2>2, <2>5, <3>3
    <2>6. QED
      BY <1>2, <2>3, <2>4, <2>5 DEF Kinds
  <1>3. QED
    BY <1>1, <1>2

\* What recording an event changes but for the queue.
LEMMA RecordedStep ==
    ASSUME TypeOK, NEW r \in Requests, NEW kind \in Kinds,
           recorded' = [recorded EXCEPT ![r] = @ \union {kind}],
           Needed(kind) \subseteq recorded[r],
           \A q \in Requests : \A k \in recorded[q] : Needed(k) \subseteq recorded[q]
    PROVE  /\ recorded' \in [Requests -> SUBSET Kinds]
           /\ \A q \in Requests : recorded[q] \subseteq recorded'[q]
           /\ kind \in recorded'[r]
           /\ \A q \in Requests : \A k \in recorded'[q] :
                k \in recorded[q] \/ (q = r /\ k = kind)
           /\ \A q \in Requests : \A k \in recorded'[q] : Needed(k) \subseteq recorded'[q]
  BY DEF TypeOK

\* The queue has room.
LEMMA EmitQueued ==
    ASSUME IInv, NEW r \in Requests, NEW kind \in Kinds, Emit(r, kind),
           closing = "open", Len(queue) < MaxQueueSize
    PROVE  Trail!Accept(Event(r, kind)) /\ IInv'
  <1>1. PICK e \in Events : e = Event(r, kind) /\ e \in Entries /\ e # Stop
    BY EventTypes
  <1>2. e.kind = kind /\ e.request = r
    BY <1>1, EventTypes
  <1>3. /\ queue' = Append(queue, e) /\ accepted' = accepted \union {e}
        /\ UNCHANGED <<closing, consumer, batch, retry, stopSeen, rows, faults,
                       logged, overflowed>>
    BY <1>1 DEF Emit, Put
  <1>4. /\ e \notin accepted /\ e \notin logged
        /\ faults = 0 /\ ~overflowed => e.kind = "session" \/ Parent(e) \in accepted
    BY <1>1, <1>2, NewEvent DEF Emit
  <1>5. /\ queue \in Seq(Entries) /\ InHand \in Seq(Events)
        /\ Filter(queue, Events) \in Seq(Events)
        /\ Undecided \in Seq(Events) /\ Line \in Seq(Entries)
    BY Types DEF IInv
  <1>6. InHand' = InHand /\ FirstCommits' = FirstCommits
    BY <1>3 DEF InHand, FirstCommits
  <1>7. Filter(queue', Events) = Append(Filter(queue, Events), e)
    <2>1. PICK q \in Seq(Entries) : q = queue
      BY <1>5
    <2>2. Filter(Append(q, e), Events) = Append(Filter(q, Events), e)
      BY <1>1, FilterAppend
    <2>3. QED
      BY <1>3, <2>1, <2>2, Zenon
  <1>8. Undecided' = Append(Undecided, e)
    <2>1. PICK hand \in Seq(Events), line \in Seq(Events) :
            hand = InHand /\ line = Filter(queue, Events)
      BY <1>5
    <2>2. hand \o Append(line, e) = Append(hand \o line, e)
      BY ConcatAppend
    <2>3. QED
      BY <1>6, <1>7, <2>1, <2>2, Zenon DEF Undecided
  <1>9. Line' = Append(Line, e)
    <2>1. PICK more \in Seq(Entries) : more = rows \o batch
      <3>1. rows \o batch \in Seq(Events)
        BY Types, ConcatProperties DEF IInv
      <3>2. QED
        BY <3>1, SeqMonotonic DEF Entries
    <2>2. more \o Append(queue, e) = Append(more \o queue, e)
      BY <1>1, <1>5, ConcatAppend
    <2>3. rows' \o batch' = more
      BY <1>3, <2>1
    <2>4. QED
      BY <1>3, <2>1, <2>2, <2>3, Zenon DEF Line
  <1>10. /\ recorded' \in [Requests -> SUBSET Kinds]
         /\ \A q \in Requests : recorded[q] \subseteq recorded'[q]
         /\ kind \in recorded'[r]
         /\ \A q \in Requests : \A k \in recorded'[q] :
              k \in recorded[q] \/ (q = r /\ k = kind)
         /\ \A q \in Requests : \A k \in recorded'[q] : Needed(k) \subseteq recorded'[q]
    BY RecordedStep DEF IInv, Known, Emit
  <1>11. /\ queue' \in Seq(Entries) /\ Len(queue') = Len(queue) + 1
         /\ \A i \in 1 .. Len(queue) : queue'[i] = queue[i]
         /\ queue'[Len(queue) + 1] = e
    BY <1>1, <1>3, <1>5, AppendProperties
  <1>12. TypeOK'
    BY <1>1, <1>3, <1>10, <1>11 DEF IInv, TypeOK, Entries
  <1>13. Shape'
    BY <1>3 DEF IInv, Shape
  <1>14. StopIsLast'
    <2>1. queue \in Seq(Events)
      BY WhileOpen DEF IInv
    <2>2. \A i \in 1 .. Len(queue') : queue'[i] # Stop
      <3>1. PICK n \in Nat : n = Len(queue)
        BY <1>5, LenProperties
      <3>2. \A i \in 1 .. n : queue[i] \in Events
        BY <2>1, <3>1, ElementOfSeq
      <3>3. \A i \in 1 .. n + 1 : i \in 1 .. n \/ i = n + 1
        OBVIOUS
      <3>4. /\ Len(queue') = n + 1 /\ queue'[n + 1] = e
            /\ \A i \in 1 .. n : queue'[i] = queue[i]
        BY <1>11, <3>1
      <3>5. \A i \in 1 .. n + 1 : queue'[i] \in Events
        <4>1. \A i \in 1 .. n : queue'[i] \in Events
          BY <3>2, <3>4
        <4>2. QED
          BY <3>3, <3>4, <4>1
      <3>6. QED
        BY <3>4, <3>5, StopIsNoEvent
    <2>3. QED
      BY <1>11, <2>2, LenProperties DEF StopIsLast
  <1>15. /\ Distinct(Undecided') /\ Range(Undecided') = Range(Undecided) \union {e}
    <2>1. e \notin Range(Undecided) /\ Distinct(Undecided)
      BY <1>4 DEF IInv, Known
    <2>2. QED
      BY <1>5, <1>8, <2>1, AppendDistinct
  <1>16. Known'
    <2>1. Range(rows)' \subseteq accepted' /\ Range(Undecided)' \subseteq accepted'
      BY <1>3, <1>15 DEF IInv, Known
    <2>2. \A x \in accepted' \union logged' : x.kind \in recorded'[x.request]
      <3>1. accepted \union logged \subseteq Events
        BY DEF IInv, TypeOK
      <3>2. \A x \in accepted \union logged : x.request \in Requests
        BY <3>1 DEF Events
      <3>3. QED
        BY <1>2, <1>3, <1>10, <3>2 DEF IInv, Known
    <2>3. QED
      BY <1>10, <2>1, <2>2 DEF Known
  <1>17. Intact'
    <2> SUFFICES ASSUME faults = 0, ~overflowed
                 PROVE  /\ retry' = 0 /\ consumer' # "retrying"
                        /\ Distinct(Line') /\ ParentsFirst(Line')
                        /\ Range(Line') \ {Stop} = accepted'
                        /\ closing' = "open" => \A q \in Requests :
                             \A k \in recorded'[q] : Event(q, k) \in accepted'
                        /\ logged' \intersect accepted' = {}
      BY <1>3 DEF Intact
    <2>1. /\ retry = 0 /\ consumer # "retrying"
          /\ Distinct(Line) /\ ParentsFirst(Line)
          /\ Range(Line) \ {Stop} = accepted
          /\ \A q \in Requests : \A k \in recorded[q] : Event(q, k) \in accepted
          /\ logged \intersect accepted = {}
      BY DEF IInv, Intact
    <2>2. Distinct(Line') /\ Range(Line') = Range(Line) \union {e}
      <3>1. e \notin Range(Line)
        BY <1>1, <1>4, <2>1
      <3>2. QED
        BY <1>1, <1>5, <1>9, <2>1, <3>1, AppendDistinct
    <2>3. ParentsFirst(Line')
      <3>1. e.kind \in {"session", "stop"} \/ Parent(e) \in Range(Line)
        BY <1>4, <2>1
      <3>2. QED
        BY <1>1, <1>5, <1>9, <2>1, <3>1, ParentsOfAppend
    <2>4. \A q \in Requests : \A k \in recorded'[q] : Event(q, k) \in accepted'
      BY <1>1, <1>3, <1>10, <2>1
    <2>5. QED
      BY <1>1, <1>3, <1>4, <2>1, <2>2, <2>3, <2>4
  <1>18. Trail!Accept(e)
    BY <1>3, <1>6, <1>8 DEF Trail!Accept, Service
  <1>19. QED
    BY <1>1, <1>12, <1>13, <1>14, <1>15, <1>16, <1>17, <1>18 DEF IInv

\* What is undecided once the oldest entry of the queue is dropped.
LEMMA OldestDropped ==
    ASSUME IInv, closing = "open", ~(Len(queue) < MaxQueueSize)
    PROVE  /\ Head(queue) \in Events /\ Tail(queue) \in Seq(Events)
           /\ Len(InHand) + 1 \in DOMAIN Undecided
           /\ Undecided[Len(InHand) + 1] = Head(queue)
           /\ Trail!Without(Len(InHand) + 1) = InHand \o Tail(queue)
           /\ InHand \o Tail(queue) \in Seq(Events)
           /\ Distinct(InHand \o Tail(queue))
           /\ Range(InHand \o Tail(queue)) \subseteq Range(Undecided)
           /\ Head(queue) \in Range(Undecided)
  <1>1. queue # << >>
    <2>1. Len(queue) # 0
      BY AuditAssumption
    <2>2. QED
      BY <2>1, EmptySeq
  <1>2. /\ queue \in Seq(Events) /\ InHand \in Seq(Events)
        /\ Undecided \in Seq(Events) /\ Undecided = InHand \o queue
    BY WhileOpen, Types DEF IInv, Undecided
  <1>3. PICK head \in Events, tail \in Seq(Events) : head = Head(queue) /\ tail = Tail(queue)
    BY <1>1, <1>2, HeadTailProperties
  <1>4. PICK hand \in Seq(Events) : hand = InHand
    BY <1>2
  <1>5. PICK all : all = Undecided /\ all \in Seq(Events) /\ all = InHand \o queue
    BY <1>2
  <1>6. /\ Len(InHand) + 1 \in DOMAIN all
        /\ all[Len(InHand) + 1] = head
        /\ SubSeq(all, 1, Len(InHand)) = InHand
        /\ SubSeq(all, Len(InHand) + 2, Len(all)) = tail
    <2>1. PICK q \in Seq(Events) : q = queue /\ q # << >> /\ Head(q) = head /\ Tail(q) = tail
      BY <1>1, <1>2, <1>3, Zenon
    <2>2. /\ Len(hand) + 1 \in DOMAIN (hand \o q)
          /\ (hand \o q)[Len(hand) + 1] = Head(q)
          /\ SubSeq(hand \o q, 1, Len(hand)) = hand
          /\ SubSeq(hand \o q, Len(hand) + 2, Len(hand \o q)) = Tail(q)
      BY <2>1, AroundHead
    <2>3. QED
      BY <1>4, <1>5, <2>1, <2>2, Zenon
  <1>7. Trail!Without(Len(InHand) + 1) = InHand \o tail
    <2>1. PICK n \in Nat : n = Len(InHand)
      BY <1>2, LenProperties
    <2>2. (n + 1) - 1 = n /\ (n + 1) + 1 = n + 2
      OBVIOUS
    <2>3. SubSeq(all, 1, n) = InHand /\ SubSeq(all, n + 2, Len(all)) = tail
      BY <1>6, <2>1
    <2>4. Trail!Without(n + 1) =
            SubSeq(all, 1, (n + 1) - 1) \o SubSeq(all, (n + 1) + 1, Len(all))
      BY <1>5 DEF Trail!Without
    <2>5. QED
      BY <2>1, <2>2, <2>3, <2>4
  <1>8. /\ Distinct(hand \o tail) /\ hand \o tail \in Seq(Events)
        /\ Range(hand \o tail) \subseteq Range(Undecided)
        /\ head \in Range(Undecided)
    <2>1. /\ Distinct(hand) /\ Distinct(queue)
          /\ Range(hand) \intersect Range(queue) = {}
      BY <1>2, <1>4, PartsDistinct DEF IInv
    <2>2. /\ Distinct(tail) /\ Range(tail) = Range(queue) \ {head} /\ head \in Range(queue)
      BY <1>1, <1>2, <1>3, <2>1, TailDistinct
    <2>3. /\ Distinct(hand) /\ Distinct(tail)
          /\ Range(hand) \intersect Range(tail) = {}
      BY <2>1, <2>2
    <2>4. /\ Distinct(hand \o tail) /\ hand \o tail \in Seq(Events)
          /\ Range(hand \o tail) = Range(hand) \union Range(tail)
      BY <2>3, ConcatDistinct
    <2>5. Range(Undecided) = Range(hand) \union Range(queue)
      BY <1>2, <1>4, RangeConcatenation
    <2>6. QED
      BY <2>2, <2>4, <2>5
  <1>9. QED
    BY <1>3, <1>4, <1>5, <1>6, <1>7, <1>8, Zenon

\* The queue is full: its oldest event makes room.
LEMMA EmitDisplaces ==
    ASSUME IInv, NEW r \in Requests, NEW kind \in Kinds, Emit(r, kind),
           closing = "open", ~(Len(queue) < MaxQueueSize)
    PROVE  Trail!AcceptFor(Len(InHand) + 1, Event(r, kind)) /\ IInv'
  <1>1. PICK e \in Events : e = Event(r, kind) /\ e \in Entries /\ e # Stop
    BY EventTypes
  <1>2. e.kind = kind /\ e.request = r
    BY <1>1, EventTypes
  <1>3. /\ queue' = Append(Tail(queue), e) /\ accepted' = accepted \union {e}
        /\ logged' = logged \union {Head(queue)} /\ overflowed' = TRUE
        /\ UNCHANGED <<closing, consumer, batch, retry, stopSeen, rows, faults>>
    BY <1>1 DEF Emit, Put
  <1>4. e \notin accepted
    BY <1>1, <1>2, NewEvent DEF Emit
  <1>5. /\ Len(InHand) + 1 \in DOMAIN Undecided
        /\ Undecided[Len(InHand) + 1] = Head(queue)
        /\ Trail!Without(Len(InHand) + 1) = InHand \o Tail(queue)
    BY OldestDropped
  <1>6. PICK head \in Events, tail \in Seq(Events) :
          head = Head(queue) /\ tail = Tail(queue)
    BY OldestDropped
  <1>7. PICK left \in Seq(Events) :
          /\ left = InHand \o tail
          /\ Distinct(left)
          /\ Range(left) \subseteq Range(Undecided)
          /\ head \in Range(Undecided)
    BY <1>6, OldestDropped
  <1>8. InHand' = InHand /\ FirstCommits' = FirstCommits
    BY <1>3 DEF InHand, FirstCommits
  <1>9. queue' \in Seq(Events) /\ Filter(queue', Events) = Append(tail, e)
    <2>1. queue' = Append(tail, e) /\ Append(tail, e) \in Seq(Events)
      BY <1>3, <1>6, AppendProperties
    <2>2. Range(Append(tail, e)) \subseteq Events
      BY <2>1, LenProperties, ElementOfSeq DEF Range
    <2>3. QED
      BY <2>1, <2>2, FilterAll
  <1>10. Undecided' = Append(left, e)
    <2>1. PICK hand \in Seq(Events) : hand = InHand
      BY Types DEF IInv
    <2>2. hand \o Append(tail, e) = Append(hand \o tail, e)
      BY <1>6, ConcatAppend
    <2>3. Undecided' = hand \o Append(tail, e)
      BY <1>8, <1>9, <2>1, Zenon DEF Undecided
    <2>4. QED
      BY <1>7, <2>1, <2>2, <2>3, Zenon
  <1>11. Trail!AcceptFor(Len(InHand) + 1, e)
    BY <1>3, <1>5, <1>6, <1>7, <1>8, <1>10 DEF Trail!AcceptFor, Service
  <1>12. /\ recorded' \in [Requests -> SUBSET Kinds]
         /\ \A q \in Requests : recorded[q] \subseteq recorded'[q]
         /\ kind \in recorded'[r]
         /\ \A q \in Requests : \A k \in recorded'[q] : Needed(k) \subseteq recorded'[q]
    BY RecordedStep DEF IInv, Known, Emit
  <1>13. TypeOK'
    <2>1. queue' \in Seq(Events \union {Stop})
      BY <1>9, SeqMonotonic
    <2>2. accepted' \subseteq Events /\ logged' \subseteq Events
      BY <1>3, <1>6 DEF IInv, TypeOK
    <2>3. QED
      BY <1>3, <1>12, <2>1, <2>2 DEF IInv, TypeOK
  <1>14. Shape'
    BY <1>3 DEF IInv, Shape
  <1>15. StopIsLast'
    BY <1>9, LenProperties, ElementOfSeq, StopIsNoEvent DEF StopIsLast
  <1>16. Distinct(Undecided') /\ Range(Undecided') \subseteq Range(Undecided) \union {e}
    <2>1. e \notin Range(left)
      BY <1>4, <1>7 DEF IInv, Known
    <2>2. /\ Distinct(Append(left, e))
          /\ Range(Append(left, e)) = Range(left) \union {e}
      <3>1. Distinct(left)
        BY <1>7
      <3>2. QED
        BY <2>1, <3>1, AppendDistinct
    <2>3. Range(Append(left, e)) \subseteq Range(Undecided) \union {e}
      BY <1>7, <2>2
    <2>4. QED
      BY <1>10, <2>2, <2>3, Zenon
  <1>17. Known'
    <2>1. Range(rows)' \subseteq accepted' /\ Range(Undecided)' \subseteq accepted'
      BY <1>3, <1>16 DEF IInv, Known
    <2>2. \A x \in accepted' \union logged' : x.kind \in recorded'[x.request]
      <3>1. accepted \subseteq Events /\ logged \subseteq Events
        BY DEF IInv, TypeOK
      <3>2. \A x \in accepted \union logged : x.request \in Requests
        BY <3>1 DEF Events
      <3>3. head \in accepted
        BY <1>7 DEF IInv, Known
      <3>4. \A x \in accepted' \union logged' : x \in accepted \union logged \/ x = e
        BY <1>3, <1>6, <3>3
      <3>5. QED
        BY <1>2, <1>12, <3>2, <3>4 DEF IInv, Known
    <2>3. QED
      BY <1>12, <2>1, <2>2 DEF Known
  <1>18. Intact'
    BY <1>3 DEF Intact
  <1>19. QED
    BY <1>1, <1>11, <1>13, <1>14, <1>15, <1>16, <1>17, <1>18 DEF IInv

\* After close() an event leaves a log record, nothing else.
LEMMA EmitRefused ==
    ASSUME IInv, NEW r \in Requests, NEW kind \in Kinds, Emit(r, kind),
           closing # "open"
    PROVE  Trail!Refuse(Event(r, kind)) /\ IInv'
  <1>1. PICK e \in Events : e = Event(r, kind) /\ e.kind = kind /\ e.request = r
    BY EventTypes
  <1>2. /\ logged' = logged \union {e}
        /\ UNCHANGED <<queue, closing, consumer, batch, retry, stopSeen, rows,
                       accepted, overflowed, faults>>
    BY <1>1 DEF Emit
  <1>3. /\ Undecided' = Undecided /\ FirstCommits' = FirstCommits /\ Line' = Line
    BY <1>2 DEF Undecided, InHand, FirstCommits, Line
  <1>4. Trail!Refuse(e)
    BY <1>2, <1>3 DEF Trail!Refuse, Service, IInv, TypeOK
  <1>5. /\ recorded' \in [Requests -> SUBSET Kinds]
        /\ \A q \in Requests : recorded[q] \subseteq recorded'[q]
        /\ kind \in recorded'[r]
        /\ \A q \in Requests : \A k \in recorded'[q] : Needed(k) \subseteq recorded'[q]
    BY RecordedStep DEF IInv, Known, Emit
  <1>6. TypeOK' /\ Shape' /\ StopIsLast'
    BY <1>2, <1>5 DEF IInv, TypeOK, Shape, StopIsLast
  <1>7. e \notin accepted
    BY <1>1 DEF IInv, Known, Emit
  <1>8. Known'
    <2>1. accepted \subseteq Events /\ logged \subseteq Events
      BY DEF IInv, TypeOK
    <2>2. \A x \in accepted \union logged : x.request \in Requests
      BY <2>1 DEF Events
    <2>3. \A x \in accepted' \union logged' : x.kind \in recorded'[x.request]
      BY <1>1, <1>2, <1>5, <2>2 DEF IInv, Known
    <2>4. Range(rows)' \subseteq accepted' /\ Range(Undecided)' \subseteq accepted'
      BY <1>2, <1>3 DEF IInv, Known
    <2>5. QED
      BY <1>5, <2>3, <2>4 DEF Known
  <1>9. Intact'
    BY <1>2, <1>3, <1>7 DEF IInv, Intact, ParentsFirst
  <1>10. QED
    BY <1>1, <1>3, <1>4, <1>6, <1>8, <1>9 DEF IInv

LEMMA EmitStep ==
    ASSUME IInv, NEW r \in Requests, NEW kind \in Kinds, Emit(r, kind)
    PROVE  Trail!Next /\ IInv'
  <1>1. Event(r, kind) \in Events
    BY EventTypes
  <1>2. CASE closing = "open" /\ Len(queue) < MaxQueueSize
    BY <1>1, <1>2, EmitQueued DEF Trail!Next
  <1>3. CASE closing = "open" /\ ~(Len(queue) < MaxQueueSize)
    BY <1>1, <1>3, EmitDisplaces, OldestDropped DEF Trail!Next
  <1>4. CASE closing # "open"
    BY <1>1, <1>4, EmitRefused DEF Trail!Next
  <1>5. QED
    BY <1>2, <1>3, <1>4

----------------------------------------------------------------------------
(* close() *)

\* The sentinel finds room, or the oldest event makes room for it.
LEMMA CloseStep ==
    ASSUME IInv, Close
    PROVE  Trail!Close /\ IInv'
  <1>1. /\ closing = "open" /\ closing' = "draining"
        /\ UNCHANGED <<consumer, batch, retry, stopSeen, rows, recorded, accepted, faults>>
    BY DEF Close
  <1>2. InHand' = InHand /\ FirstCommits' = FirstCommits
    BY <1>1 DEF InHand, FirstCommits
  <1>3. queue \in Seq(Events) /\ Filter(queue, Events) = queue /\ InHand \in Seq(Events)
    BY <1>1, WhileOpen, Types DEF IInv
  <1>4. Service = "open" /\ Service' = "closing"
    BY <1>1 DEF Service
  <1>5. ASSUME NEW kept \in Seq(Events), queue' = Append(kept, Stop)
        PROVE  /\ Filter(queue', Events) = kept /\ queue' \in Seq(Entries)
               /\ StopIsLast'
    <2>1. kept \in Seq(Entries) /\ Stop \in Entries
      BY SeqMonotonic DEF Entries
    <2>2. Range(kept) \subseteq Events
      BY LenProperties, ElementOfSeq DEF Range
    <2>3. Filter(queue', Events) = kept
      BY <1>5, <2>1, <2>2, FilterAppend, FilterAll, StopIsNoEvent
    <2>4. /\ queue' \in Seq(Entries) /\ Len(queue') = Len(kept) + 1
          /\ \A i \in 1 .. Len(kept) : queue'[i] = kept[i]
      BY <1>5, <2>1, AppendProperties
    <2>5. StopIsLast'
      <3>1. PICK n \in Nat : n = Len(kept)
        BY LenProperties
      <3>2. \A i \in 1 .. n : queue'[i] # Stop
        BY <2>4, <3>1, ElementOfSeq, StopIsNoEvent
      <3>3. DOMAIN queue' = 1 .. n + 1 /\ Len(queue') = n + 1
        BY <2>4, <3>1, LenProperties
      <3>4. \A i \in 1 .. n + 1 : i \in 1 .. n \/ i = n + 1
        OBVIOUS
      <3>5. QED
        BY <1>1, <3>2, <3>3, <3>4 DEF StopIsLast
    <2>6. QED
      BY <2>3, <2>4, <2>5
  <1>6. Shape'
    <2>1. ~stopSeen
      BY <1>1 DEF IInv, Shape
    <2>2. QED
      BY <1>1, <2>1 DEF IInv, Shape
  <1>7. CASE Len(queue) < MaxQueueSize
    <2>1. queue' = Append(queue, Stop) /\ UNCHANGED <<logged, overflowed>>
      BY <1>7 DEF Close, Put
    <2>2. Undecided' = Undecided
      BY <1>2, <1>3, <1>5, <2>1 DEF Undecided
    <2>3. Trail!Close
      BY <1>2, <1>4, <2>1, <2>2 DEF Trail!Close
    <2>4. TypeOK' /\ StopIsLast'
      BY <1>1, <1>3, <1>5, <2>1 DEF IInv, TypeOK, Entries
    <2>5. Known'
      BY <1>1, <2>1, <2>2 DEF IInv, Known
    <2>6. Line' = Append(Line, Stop) /\ Line \in Seq(Entries)
      <3>1. PICK more \in Seq(Entries) : more = rows \o batch
        <4>1. rows \o batch \in Seq(Events)
          BY Types, ConcatProperties DEF IInv
        <4>2. QED
          BY <4>1, SeqMonotonic DEF Entries
      <3>2. queue \in Seq(Entries) /\ Stop \in Entries
        BY Types DEF IInv, Entries
      <3>3. more \o Append(queue, Stop) = Append(more \o queue, Stop)
        BY <3>2, ConcatAppend
      <3>4. rows' \o batch' = more
        BY <1>1, <3>1
      <3>5. Line' = Append(Line, Stop)
        BY <2>1, <3>1, <3>3, <3>4, Zenon DEF Line
      <3>6. QED
        BY <3>5, Types DEF IInv
    <2>7. Intact'
      <3> SUFFICES ASSUME faults = 0, ~overflowed
                   PROVE  /\ Distinct(Line') /\ ParentsFirst(Line')
                          /\ Range(Line') \ {Stop} = accepted
        BY <1>1, <2>1 DEF IInv, Intact
      <3>1. /\ Distinct(Line) /\ ParentsFirst(Line)
            /\ Range(Line) \ {Stop} = accepted
        BY DEF IInv, Intact
      <3>2. Stop \notin Range(Line) /\ Stop \in Entries
        <4>1. PICK more \in Seq(Events) : more = rows \o batch
          BY Types, ConcatProperties DEF IInv
        <4>2. Line \in Seq(Events)
          BY <1>3, <4>1, ConcatProperties DEF Line
        <4>3. Range(Line) \subseteq Events
          BY <4>2, LenProperties, ElementOfSeq DEF Range
        <4>4. QED
          BY <4>3, StopIsNoEvent DEF Entries
      <3>3. Distinct(Line') /\ Range(Line') = Range(Line) \union {Stop}
        BY <2>6, <3>1, <3>2, AppendDistinct
      <3>4. ParentsFirst(Line')
        <4>1. Stop.kind = "stop"
          BY DEF Stop
        <4>2. QED
          BY <2>6, <3>1, <3>2, <4>1, ParentsOfAppend
      <3>5. QED
        BY <3>1, <3>3, <3>4, <3>2
    <2>8. Distinct(Undecided')
      BY <2>2 DEF IInv
    <2>9. QED
      BY <1>6, <2>3, <2>4, <2>5, <2>7, <2>8 DEF IInv
  <1>8. CASE ~(Len(queue) < MaxQueueSize)
    <2>1. PICK head \in Events, tail \in Seq(Events) :
            head = Head(queue) /\ tail = Tail(queue)
      BY <1>1, <1>8, OldestDropped
    <2>2. PICK left \in Seq(Events) :
            /\ left = InHand \o tail
            /\ Distinct(left)
            /\ Range(left) \subseteq Range(Undecided)
            /\ head \in Range(Undecided)
      BY <1>1, <1>8, <2>1, OldestDropped
    <2>3. /\ queue' = Append(tail, Stop) /\ logged' = logged \union {head}
          /\ overflowed' = TRUE
      BY <1>8, <2>1 DEF Close, Put
    <2>4. Undecided' = left
      BY <1>2, <1>5, <2>2, <2>3 DEF Undecided
    <2>5. Trail!Close
      <3>1. /\ Len(InHand) + 1 \in DOMAIN Undecided
            /\ Undecided[Len(InHand) + 1] = head
            /\ Trail!Without(Len(InHand) + 1) = left
        BY <1>1, <1>8, <2>1, <2>2, OldestDropped
      <3>2. QED
        BY <1>2, <1>4, <2>3, <2>4, <3>1 DEF Trail!Close
    <2>6. TypeOK' /\ StopIsLast'
      BY <1>1, <1>5, <2>3 DEF IInv, TypeOK, Entries
    <2>7. Known'
      <3>1. head \in accepted
        BY <2>2 DEF IInv, Known
      <3>2. QED
        BY <1>1, <2>2, <2>3, <2>4, <3>1 DEF IInv, Known
    <2>8. Intact'
      BY <2>3 DEF Intact
    <2>9. QED
      BY <1>6, <2>2, <2>4, <2>5, <2>6, <2>7, <2>8 DEF IInv
  <1>9. QED
    BY <1>7, <1>8

----------------------------------------------------------------------------
(* The consumer *)

\* What taking n events makes of the queue, as TakeBatch has it.
Takes(n, stop, taken, left) ==
    /\ IsBatch(n)
    /\ stop <=> n < Len(queue) /\ n < BatchMax
    /\ taken = SubSeq(queue, 1, n)
    /\ left = SubSeq(queue, n + (IF stop THEN 2 ELSE 1), Len(queue))

\* Taking a batch moves the front of the queue into the hand; the sentinel it
\* may take along is the last entry.
LEMMA TakeParts ==
    ASSUME IInv, NEW n \in 0 .. Len(queue), NEW stop \in BOOLEAN,
           NEW taken, NEW left, Takes(n, stop, taken, left)
    PROVE  /\ taken \in Seq(Events) /\ Len(taken) = n /\ n <= BatchMax
           /\ left \in Seq(Entries)
           /\ stop => left = << >> /\ closing # "open" /\ queue = Append(taken, Stop)
           /\ ~stop => queue = taken \o left
           /\ \A i \in DOMAIN left :
                left[i] = Stop => i = Len(left) /\ closing # "open"
  <1>1. queue \in Seq(Entries)
    BY Types DEF IInv
  <1>2. PICK len \in Nat : /\ len = Len(queue) /\ n \in 0 .. len
                           /\ DOMAIN queue = 1 .. len
    BY <1>1, LenProperties
  <1>3. /\ IsBatch(n)
        /\ stop <=> n < Len(queue) /\ n < BatchMax
        /\ taken = SubSeq(queue, 1, n)
        /\ left = SubSeq(queue, n + (IF stop THEN 2 ELSE 1), Len(queue))
    BY DEF Takes
  <1>4. PICK rest : rest = SubSeq(queue, n + 1, Len(queue))
    OBVIOUS
  <1>5. \A i \in 1 .. len : queue[i] \in Entries
    BY <1>1, <1>2, ElementOfSeq
  <1>6. \A i \in 1 .. n : queue[i] \in Events
    <2>1. \A i \in 1 .. n : queue[i] # Stop
      BY <1>3 DEF IsBatch
    <2>2. QED
      BY <1>2, <1>5, <2>1 DEF Entries
  <1>7. taken \in Seq(Events) /\ Len(taken) = n
    <2>1. /\ taken \in Seq(Events)
          /\ Len(taken) = IF 1 <= n THEN n - 1 + 1 ELSE 0
      BY <1>3, <1>6, SubSeqProperties
    <2>2. QED
      BY <1>2, <2>1
  <1>8. /\ rest \in Seq(Entries) /\ Len(rest) = len - n
        /\ \A i \in 1 .. len - n : rest[i] = queue[n + i]
    BY <1>1, <1>2, <1>4, DropProperties
  <1>9. queue = taken \o rest
    <2>1. 1 \in 1 .. Len(queue) + 1 /\ n \in 1 - 1 .. Len(queue)
          /\ Len(queue) \in n .. Len(queue)
      BY <1>2
    <2>2. taken \o rest = SubSeq(queue, 1, Len(queue))
      BY <1>1, <1>3, <1>4, <2>1, ConcatAdjacentSubSeq
    <2>3. QED
      BY <1>1, <2>2, SubSeqFull
  <1>10. n <= BatchMax
    BY <1>3 DEF IsBatch
  <1>11. CASE stop
    <2>1. n + 1 \in 1 .. len /\ queue[n + 1] = Stop
      <3>1. n < Len(queue) /\ n < BatchMax
        BY <1>3, <1>11
      <3>2. queue[n + 1] = Stop
        BY <1>3, <3>1 DEF IsBatch
      <3>3. QED
        BY <1>2, <3>1, <3>2
    <2>2. n + 1 = len /\ closing # "open"
      BY <1>2, <2>1 DEF IInv, StopIsLast
    <2>3. left = SubSeq(queue, n + 2, Len(queue))
      BY <1>3, <1>11
    <2>4. left = << >>
      <3>1. n + 2 \in Int /\ Len(queue) \in Int /\ Len(queue) < n + 2
        BY <1>2, <2>2
      <3>2. QED
        BY <2>3, <3>1, SubSeqEmpty
    <2>5. rest = <<Stop>>
      <3>1. Len(rest) = 1 /\ rest[1] = Stop
        BY <1>2, <1>8, <2>1, <2>2
      <3>2. QED
        BY <1>8, <3>1
    <2>6. queue = Append(taken, Stop)
      <3>1. taken \in Seq(Entries) /\ Stop \in Entries
        BY <1>7, SeqMonotonic DEF Entries
      <3>2. QED
        BY <1>9, <2>5, <3>1, AppendIsConcat
    <2>7. left \in Seq(Entries) /\ DOMAIN left = {}
      <3>1. << >> \in Seq(Entries) /\ DOMAIN << >> = {}
        BY EmptySeq
      <3>2. QED
        BY <2>4, <3>1, Zenon
    <2>8. QED
      BY <1>7, <1>10, <1>11, <2>2, <2>4, <2>6, <2>7
  <1>12. CASE ~stop
    <2>1. DOMAIN rest = 1 .. len - n
      BY <1>8, LenProperties
    <2>2. ASSUME NEW i \in DOMAIN rest, rest[i] = Stop
          PROVE  i = Len(rest) /\ closing # "open"
      <3>1. n + i \in 1 .. len /\ queue[n + i] = Stop
        BY <1>2, <1>8, <2>1, <2>2
      <3>2. n + i = len /\ closing # "open"
        BY <1>2, <3>1 DEF IInv, StopIsLast
      <3>3. QED
        BY <1>2, <1>8, <2>1, <3>2
    <2>3. left = rest
      BY <1>3, <1>4, <1>12
    <2>4. QED
      BY <1>7, <1>8, <1>9, <1>10, <1>12, <2>2, <2>3
  <1>13. QED
    BY <1>11, <1>12

LEMMA TakeStep ==
    ASSUME IInv, TakeBatch
    PROVE  UNCHANGED Trail!trailVars /\ IInv'
  <1>1. PICK n \in 0 .. Len(queue) :
          LET stop == n < Len(queue) /\ n < BatchMax IN
          /\ IsBatch(n)
          /\ stopSeen' = stop
          /\ queue' = SubSeq(queue, n + (IF stop THEN 2 ELSE 1), Len(queue))
          /\ IF n = 0 THEN EndBatch(stop)
             ELSE batch' = SubSeq(queue, 1, n) /\ consumer' = "writing"
    BY DEF TakeBatch
  <1>2. PICK stop \in BOOLEAN : stop <=> n < Len(queue) /\ n < BatchMax
    OBVIOUS
  <1>3. PICK taken : taken = SubSeq(queue, 1, n)
    OBVIOUS
  <1>4. /\ queue' = SubSeq(queue, n + (IF stop THEN 2 ELSE 1), Len(queue))
        /\ stopSeen' = stop
        /\ n = 0 => EndBatch(stop)
        /\ n # 0 => batch' = taken /\ consumer' = "writing"
    BY <1>1, <1>2, <1>3
  <1>5. /\ taken \in Seq(Events) /\ Len(taken) = n /\ n <= BatchMax
        /\ queue' \in Seq(Entries)
        /\ stop => queue' = << >> /\ closing # "open" /\ queue = Append(taken, Stop)
        /\ ~stop => queue = taken \o queue'
        /\ \A i \in DOMAIN queue' :
             queue'[i] = Stop => i = Len(queue') /\ closing # "open"
    <2>1. PICK left : left = queue'
      OBVIOUS
    <2>2. left = SubSeq(queue, n + (IF stop THEN 2 ELSE 1), Len(queue))
      BY <1>4, <2>1, Zenon
    <2>3. Takes(n, stop, taken, left)
      BY <1>1, <1>2, <1>3, <2>2 DEF Takes
    <2>4. /\ taken \in Seq(Events) /\ Len(taken) = n /\ n <= BatchMax
          /\ left \in Seq(Entries)
          /\ stop => left = << >> /\ closing # "open" /\ queue = Append(taken, Stop)
          /\ ~stop => queue = taken \o left
          /\ \A i \in DOMAIN left :
               left[i] = Stop => i = Len(left) /\ closing # "open"
      BY <2>3, TakeParts
    <2>5. QED
      BY <2>1, <2>4, Zenon
  <1>6. /\ consumer = "get" /\ queue # << >> /\ retry' = 0
        /\ UNCHANGED <<closing, rows, recorded, accepted, logged, overflowed, faults>>
    BY DEF TakeBatch, history
  <1>7. batch' = taken
    <2>1. CASE n = 0
      <3>1. taken = << >>
        BY <1>5, <2>1, EmptySeq
      <3>2. QED
        BY <1>4, <2>1, <3>1 DEF EndBatch
    <2>2. QED
      BY <1>4, <2>1
  <1>9. n = 0 => stop
    <2>1. Len(queue) \in Nat \ {0}
      BY <1>6, Types, EmptySeq, LenProperties DEF IInv
    <2>2. QED
      BY <1>2, <2>1, AuditAssumption
  <1>10. consumer' = IF n = 0 THEN "stopped" ELSE "writing"
    BY <1>4, <1>9 DEF EndBatch
  <1>11. batch = << >> /\ closing # "ended"
    BY <1>6 DEF IInv, Shape
  <1>12. TypeOK'
    BY <1>4, <1>5, <1>6, <1>7, <1>10, AuditAssumption DEF IInv, TypeOK, Entries
  <1>13. Shape'
    <2>1. n # 0 => taken # << >>
      BY <1>5, EmptySeq
    <2>2. n = 0 => taken = << >>
      BY <1>5, EmptySeq
    <2>3. QED
      BY <1>4, <1>5, <1>6, <1>7, <1>9, <1>10, <1>11, <2>1, <2>2 DEF Shape
  <1>14. StopIsLast'
    BY <1>5, <1>6 DEF StopIsLast
  <1>15. taken \in Seq(Entries) /\ Stop \in Entries /\ Filter(taken, Events) = taken
    <2>1. Range(taken) \subseteq Events
      BY <1>5, LenProperties, ElementOfSeq DEF Range
    <2>2. QED
      BY <1>5, <2>1, FilterAll, SeqMonotonic DEF Entries
  <1>16. Undecided' = Undecided
    <2>1. InHand = << >>
      BY <1>5, <1>11, Remainder, Types DEF IInv, TypeOK, InHand
    <2>2. InHand' = taken
      <3>1. SubSeq(taken, 0 + 1, Len(taken)) = taken
        BY <1>5, Remainder
      <3>2. QED
        BY <1>6, <1>7, <3>1 DEF InHand
    <2>3. PICK kept \in Seq(Events) : kept = Filter(queue', Events)
      BY <1>5, FilterInto
    <2>4. PICK all \in Seq(Events) : all = Filter(queue, Events)
      BY Types DEF IInv
    <2>5. all = taken \o kept
      <3>1. CASE stop
        <4>1. kept = << >>
          BY <1>5, <2>3, <3>1, FilterEmpty
        <4>2. Filter(Append(taken, Stop), Events) = taken
          BY <1>15, FilterAppend, StopIsNoEvent
        <4>3. taken \o << >> = taken
          BY <1>5, ConcatEmptySeq
        <4>4. QED
          BY <1>5, <2>4, <3>1, <4>1, <4>2, <4>3, Zenon
      <3>2. CASE ~stop
        <4>1. PICK front \in Seq(Entries), left \in Seq(Entries) :
                front = taken /\ left = queue'
          BY <1>5, <1>15
        <4>2. Filter(front \o left, Events) = Filter(front, Events) \o Filter(left, Events)
          BY FilterConcat
        <4>3. QED
          BY <1>5, <1>15, <2>3, <2>4, <3>2, <4>1, <4>2, Zenon
      <3>3. QED
        BY <3>1, <3>2
    <2>6. << >> \o all = all
      BY ConcatEmptySeq
    <2>7. QED
      BY <2>1, <2>2, <2>3, <2>4, <2>5, <2>6, Zenon DEF Undecided
  <1>17. UNCHANGED Trail!trailVars
    BY <1>6, <1>16 DEF Trail!trailVars, FirstCommits, Service
  <1>18. Known'
    BY <1>6, <1>16 DEF IInv, Known
  <1>19. PICK more \in Seq(Entries) : more = rows \o taken
    <2>1. rows \o taken \in Seq(Events)
      BY <1>5, Types, ConcatProperties DEF IInv
    <2>2. QED
      BY <2>1, SeqMonotonic DEF Entries
  <1>20. Line' \in Seq(Entries) /\ (Line = Line' \/ Line = Append(Line', Stop))
    <2>1. Line' = more \o queue'
      BY <1>6, <1>7, <1>19 DEF Line
    <2>2. Line' \in Seq(Entries)
      BY <1>5, <1>19, <2>1, ConcatProperties
    <2>3. rows \in Seq(Events) /\ rows \in Seq(Entries)
      BY Types, SeqMonotonic DEF IInv, Entries
    <2>4. Line = rows \o queue
      <3>1. rows \o << >> = rows
        BY <2>3, ConcatEmptySeq
      <3>2. QED
        BY <1>11, <3>1, Zenon DEF Line
    <2>5. CASE stop
      <3>1. rows \o Append(taken, Stop) = Append(rows \o taken, Stop)
        <4>1. PICK r \in Seq(Entries), t \in Seq(Entries) : r = rows /\ t = taken
          BY <1>15, <2>3
        <4>2. Stop \in Entries
          BY DEF Entries
        <4>3. r \o Append(t, Stop) = Append(r \o t, Stop)
          BY <4>2, ConcatAppend
        <4>4. QED
          BY <4>1, <4>3, Zenon
      <3>2. more \o << >> = more
        BY <1>19, ConcatEmptySeq
      <3>3. QED
        BY <1>5, <1>19, <2>1, <2>2, <2>4, <2>5, <3>1, <3>2, Zenon
    <2>6. CASE ~stop
      <3>1. rows \o (taken \o queue') = (rows \o taken) \o queue'
        <4>1. PICK r \in Seq(Entries), t \in Seq(Entries), u \in Seq(Entries) :
                r = rows /\ t = taken /\ u = queue'
          BY <1>5, <1>15, <2>3
        <4>2. (r \o t) \o u = r \o (t \o u)
          BY ConcatAssociative
        <4>3. QED
          BY <4>1, <4>2, Zenon
      <3>2. QED
        BY <1>5, <1>19, <2>1, <2>2, <2>4, <2>6, <3>1, Zenon
    <2>7. QED
      BY <2>5, <2>6
  <1>21. Intact'
    <2> SUFFICES ASSUME faults = 0, ~overflowed
                 PROVE  /\ Distinct(Line') /\ ParentsFirst(Line')
                        /\ Range(Line') \ {Stop} = accepted
      BY <1>6, <1>10 DEF IInv, Intact
    <2>1. /\ Distinct(Line) /\ ParentsFirst(Line)
          /\ Range(Line) \ {Stop} = accepted
      BY DEF IInv, Intact
    <2>2. CASE Line = Line'
      BY <2>1, <2>2
    <2>3. CASE Line = Append(Line', Stop)
      <3>1. PICK line \in Seq(Entries) : line = Line'
        BY <1>20
      <3>2. Distinct(Append(line, Stop)) /\ ParentsFirst(Append(line, Stop))
        BY <2>1, <2>3, <3>1, Zenon
      <3>3. Distinct(line) /\ ParentsFirst(line)
        BY <1>15, <3>2, DistinctAppend, ParentsOfAppend
      <3>4. Range(Append(line, Stop)) = Range(line) \union {Stop}
        BY <1>15, RangeAppend
      <3>5. Range(line) \ {Stop} = accepted
        BY <2>1, <2>3, <3>1, <3>4
      <3>6. QED
        BY <3>1, <3>3, <3>5, Zenon
    <2>4. QED
      BY <1>20, <2>2, <2>3
  <1>22. Distinct(Undecided')
    BY <1>16 DEF IInv
  <1>23. QED
    BY <1>12, <1>13, <1>14, <1>17, <1>18, <1>21, <1>22 DEF IInv

\* What is in the hand and behind it.
LEMMA HandParts ==
    ASSUME IInv
    PROVE  \E hand \in Seq(Events), kept \in Seq(Events) :
             /\ hand = InHand /\ kept = Filter(queue, Events)
             /\ Undecided = hand \o kept
             /\ Distinct(hand) /\ Distinct(kept)
             /\ Range(hand) \subseteq accepted /\ Range(kept) \subseteq accepted
  <1>1. PICK hand \in Seq(Events), kept \in Seq(Events) :
          hand = InHand /\ kept = Filter(queue, Events)
    BY Types DEF IInv
  <1>2. Undecided = hand \o kept
    BY <1>1 DEF Undecided
  <1>3. Distinct(hand) /\ Distinct(kept)
    BY <1>2, PartsDistinct DEF IInv
  <1>4. Range(hand) \subseteq accepted /\ Range(kept) \subseteq accepted
    BY <1>2, RangeConcatenation DEF IInv, Known
  <1>5. QED
    BY <1>1, <1>2, <1>3, <1>4

\* What a commit makes of the database.
LEMMA Stored ==
    ASSUME IInv, NEW q \in Seq(Events), Distinct(q), Range(q) \subseteq accepted,
           rows' = rows \o q
    PROVE  /\ rows' \in Seq(Events) /\ Range(rows') \subseteq accepted
           /\ FirstCommits' = Trail!StoredWith(q)
  <1>1. rows \in Seq(Events)
    BY Types DEF IInv
  <1>2. rows' \in Seq(Events) /\ Range(rows') = Range(rows) \union Range(q)
    BY <1>1, ConcatProperties, RangeConcatenation
  <1>3. FirstCommits' = Trail!StoredWith(q)
    BY StoreMore DEF IInv, FirstCommits
  <1>4. QED
    BY <1>2, <1>3 DEF IInv, Known

\* How a transaction can fail.
LEMMA FailedOutcome ==
    ASSUME TypeOK, NEW q, Failed(q)
    PROVE  /\ rows' = rows \/ rows' = rows \o q
           /\ faults' \in 0 .. MaxFaults
           /\ faults' = 0 => faults = 0 /\ ~AcceptsAll(q)
  BY AuditAssumption DEF TypeOK, Failed

\* The front of what is undecided is stored.
LEMMA StoreFront ==
    ASSUME NEW q \in Seq(Events), NEW left \in Seq(Events), q # << >>,
           Undecided = q \o left, Undecided' = left,
           FirstCommits' = Trail!StoredWith(q), logged' = logged,
           closing \in {"open", "draining"}, closing' = closing
    PROVE  Len(q) \in 1 .. Len(Undecided) /\ Trail!Store(Len(q))
  <1>1. PICK all \in Seq(Events) : all = Undecided /\ all = q \o left
    BY ConcatProperties
  <1>2. PICK m \in Nat \ {0} : m = Len(q)
    BY EmptySeq, LenProperties
  <1>3. m \in 1 .. Len(all)
    <2>1. Len(all) = Len(q) + Len(left) /\ Len(left) \in Nat
      BY <1>1, ConcatProperties, LenProperties
    <2>2. QED
      BY <1>2, <2>1
  <1>4. SubSeq(all, 1, m) = q /\ SubSeq(all, m + 1, Len(all)) = left
    BY <1>1, <1>2, SplitConcat
  <1>5. Service # "ended" /\ Service' = Service
    BY DEF Service
  <1>6. Trail!Store(m)
    BY <1>1, <1>3, <1>4, <1>5 DEF Trail!Store
  <1>7. QED
    BY <1>1, <1>2, <1>3, <1>6, Zenon

\* The oldest undecided event is given up, whether it was stored or not.
LEMMA GiveUpHead ==
    ASSUME NEW q \in Seq(Events), NEW left \in Seq(Events), NEW e \in Events,
           q # << >>, e = Head(q), Undecided = q \o left,
           Undecided' = Tail(q) \o left,
           FirstCommits' \in {FirstCommits, Trail!StoredWith(<<e>>)},
           logged' = logged \union {e},
           closing \in {"open", "draining"}, closing' = closing
    PROVE  Trail!GiveUp
  <1>1. PICK all \in Seq(Events) : all = Undecided /\ all = q \o left
    BY ConcatProperties
  <1>2. all # << >> /\ Head(all) = e /\ Tail(all) = Tail(q) \o left
    BY <1>1, HeadConcat
  <1>3. Service # "ended" /\ Service' = Service
    BY DEF Service
  <1>4. QED
    BY <1>1, <1>2, <1>3, Zenon DEF Trail!GiveUp

\* The batch is the hand while it is written.
LEMMA WriteHand ==
    ASSUME IInv, consumer = "writing"
    PROVE  /\ InHand = batch /\ batch # << >> /\ retry = 0 /\ batch \in Seq(Events)
           /\ closing \in {"open", "draining"}
  <1>1. batch # << >> /\ retry = 0 /\ batch \in Seq(Events)
    BY DEF IInv, Shape, TypeOK
  <1>2. InHand = batch
    <2>1. SubSeq(batch, 0 + 1, Len(batch)) = batch
      BY <1>1, Remainder
    <2>2. QED
      BY <1>1, <2>1 DEF InHand
  <1>3. closing \in {"open", "draining"}
    BY DEF IInv, Shape, TypeOK
  <1>4. QED
    BY <1>1, <1>2, <1>3

\* Without a failed transaction the batch is the next rows of the line.
LEMMA BatchGoesThrough ==
    ASSUME IInv, faults = 0, ~overflowed
    PROVE  AcceptsAll(batch)
  BY BatchIsAccepted DEF IInv, Intact

LEMMA WriteStep ==
    ASSUME IInv, WriteBatch
    PROVE  Trail!Next /\ IInv'
  <1>1. /\ consumer = "writing" /\ EndBatch(stopSeen)
        /\ UNCHANGED <<queue, closing, retry, stopSeen, recorded, accepted, overflowed>>
    BY DEF WriteBatch, WriteUnchanged
  <1>2. /\ InHand = batch /\ batch # << >> /\ retry = 0 /\ batch \in Seq(Events)
        /\ closing \in {"open", "draining"}
    BY <1>1, WriteHand
  <1>3. batch' = << >> /\ consumer' = IF stopSeen THEN "stopped" ELSE "get"
    BY <1>1 DEF EndBatch
  <1>4. PICK hand \in Seq(Events), kept \in Seq(Events) :
          /\ hand = batch /\ kept = Filter(queue, Events)
          /\ Undecided = hand \o kept
          /\ Distinct(hand) /\ Distinct(kept)
          /\ Range(hand) \subseteq accepted /\ Range(kept) \subseteq accepted
    BY <1>2, HandParts
  <1>5. Undecided' = kept
    <2>1. InHand' = << >>
      <3>1. << >> \in Seq(Events)
        BY EmptySeq
      <3>2. SubSeq(<< >>, 0 + 1, Len(<< >>)) = << >>
        BY <3>1, Remainder
      <3>3. QED
        BY <1>1, <1>2, <1>3, <3>2 DEF InHand
    <2>2. << >> \o kept = kept
      BY ConcatEmptySeq
    <2>3. QED
      BY <1>1, <1>4, <2>1, <2>2, Zenon DEF Undecided
  <1>6. Shape' /\ StopIsLast'
    <2>1. Len(batch') = 0
      BY <1>3, EmptySeq
    <2>2. stopSeen \in BOOLEAN
      BY DEF IInv, TypeOK
    <2>3. QED
      BY <1>1, <1>2, <1>3, <2>1, <2>2, AuditAssumption DEF IInv, Shape, StopIsLast
  <1>7. << >> \in Seq(Events)
    BY EmptySeq
  <1>8. CASE Committed(batch) /\ UNCHANGED logged
    <2>1. rows' = rows \o hand /\ faults' = faults
      BY <1>4, <1>8 DEF Committed
    <2>2. /\ rows' \in Seq(Events) /\ Range(rows') \subseteq accepted
          /\ FirstCommits' = Trail!StoredWith(hand)
      BY <1>4, <2>1, Stored
    <2>3. Len(hand) \in 1 .. Len(Undecided) /\ Trail!Store(Len(hand))
      <3>1. hand # << >>
        BY <1>2, <1>4
      <3>2. QED
        BY <1>1, <1>2, <1>4, <1>5, <1>8, <2>2, <3>1, StoreFront
    <2>4. TypeOK'
      BY <1>1, <1>3, <1>7, <1>8, <2>1, <2>2 DEF IInv, TypeOK
    <2>5. Known'
      BY <1>1, <1>4, <1>5, <1>8, <2>2 DEF IInv, Known
    <2>6. Line' = Line
      <3>1. rows' \in Seq(Events) /\ rows' \o << >> = rows'
        BY <2>2, ConcatEmptySeq
      <3>2. QED
        BY <1>1, <1>3, <1>4, <2>1, <3>1, Zenon DEF Line
    <2>7. Intact'
      BY <1>1, <1>2, <1>3, <1>8, <2>1, <2>6 DEF IInv, Intact, ParentsFirst
    <2>8. QED
      BY <1>4, <1>5, <1>6, <2>3, <2>4, <2>5, <2>7 DEF IInv, Trail!Next
  <1>9. CASE Len(batch) = 1 /\ Failed(batch) /\ logged' = logged \union {batch[1]}
    <2>1. PICK e \in Events : e = batch[1] /\ e \in Range(hand)
      BY <1>2, <1>4, <1>9, LenProperties, ElementOfSeq DEF Range
    <2>2. batch = <<e>> /\ Head(hand) = e /\ Tail(hand) = << >>
      <3>1. batch = <<e>>
        BY <1>2, <1>9, <2>1
      <3>2. QED
        BY <1>4, <3>1
    <2>3. /\ rows' = rows \/ rows' = rows \o hand
          /\ faults' \in 0 .. MaxFaults
          /\ faults' = 0 => faults = 0 /\ ~AcceptsAll(batch)
      BY <1>4, <1>9, FailedOutcome DEF IInv
    <2>4. /\ rows' \in Seq(Events) /\ Range(rows') \subseteq accepted
          /\ FirstCommits' \in {FirstCommits, Trail!StoredWith(<<e>>)}
      <3>1. CASE rows' = rows
        BY <3>1 DEF IInv, TypeOK, Known, FirstCommits
      <3>2. CASE rows' = rows \o hand
        <4>1. hand = <<e>>
          BY <1>4, <2>2
        <4>2. /\ rows' \in Seq(Events) /\ Range(rows') \subseteq accepted
              /\ FirstCommits' = Trail!StoredWith(hand)
          BY <1>4, <3>2, Stored
        <4>3. QED
          BY <4>1, <4>2, Zenon
      <3>3. QED
        BY <2>3, <3>1, <3>2
    <2>5. Trail!GiveUp
      <3>1. hand # << >> /\ e = Head(hand)
        BY <1>2, <1>4, <2>2
      <3>2. Undecided' = Tail(hand) \o kept
        <4>1. << >> \o kept = kept
          BY ConcatEmptySeq
        <4>2. QED
          BY <1>5, <2>2, <4>1, Zenon
      <3>3. logged' = logged \union {e} /\ closing' = closing
        BY <1>1, <1>9, <2>1
      <3>4. QED
        BY <1>2, <1>4, <2>4, <3>1, <3>2, <3>3, GiveUpHead
    <2>6. TypeOK'
      BY <1>1, <1>3, <1>7, <1>9, <2>1, <2>3, <2>4 DEF IInv, TypeOK
    <2>7. Known'
      <3>1. e \in accepted
        BY <1>4, <2>1
      <3>2. QED
        BY <1>1, <1>4, <1>5, <1>9, <2>1, <2>4, <3>1 DEF IInv, Known
    <2>8. Intact'
      <3> SUFFICES ASSUME faults' = 0, ~overflowed PROVE FALSE
        BY <1>1 DEF Intact
      <3>1. QED
        BY <2>3, BatchGoesThrough
    <2>9. QED
      BY <1>4, <1>5, <1>6, <2>5, <2>6, <2>7, <2>8 DEF IInv, Trail!Next
  <1>10. QED
    BY <1>8, <1>9 DEF WriteBatch

LEMMA FailStep ==
    ASSUME IInv, BatchFails
    PROVE  (Trail!Next \/ UNCHANGED Trail!trailVars) /\ IInv'
  <1>1. /\ consumer = "writing" /\ Len(batch) > 1 /\ Failed(batch)
        /\ consumer' = "retrying"
        /\ UNCHANGED <<queue, closing, batch, retry, stopSeen, recorded, accepted,
                       logged, overflowed>>
    BY DEF BatchFails, WriteUnchanged
  <1>2. /\ InHand = batch /\ batch # << >> /\ retry = 0 /\ batch \in Seq(Events)
        /\ closing \in {"open", "draining"}
    BY <1>1, WriteHand
  <1>3. PICK hand \in Seq(Events), kept \in Seq(Events) :
          /\ hand = batch /\ kept = Filter(queue, Events)
          /\ Undecided = hand \o kept
          /\ Distinct(hand) /\ Range(hand) \subseteq accepted
    BY <1>2, HandParts
  <1>4. Undecided' = Undecided
    BY <1>1 DEF Undecided, InHand
  <1>5. /\ rows' = rows \/ rows' = rows \o hand
        /\ faults' \in 0 .. MaxFaults
        /\ faults' = 0 => faults = 0 /\ ~AcceptsAll(batch)
    BY <1>1, <1>3, FailedOutcome DEF IInv
  <1>6. /\ rows' \in Seq(Events) /\ Range(rows') \subseteq accepted
        /\ FirstCommits' = FirstCommits \/ FirstCommits' = Trail!StoredWith(hand)
    <2>1. CASE rows' = rows
      BY <2>1 DEF IInv, TypeOK, Known, FirstCommits
    <2>2. CASE rows' = rows \o hand
      BY <1>3, <2>2, Stored
    <2>3. QED
      BY <1>5, <2>1, <2>2
  <1>7. Service' = Service /\ Service # "ended"
    BY <1>1, <1>2 DEF Service
  <1>8. Trail!Next \/ UNCHANGED Trail!trailVars
    <2>1. CASE FirstCommits' = FirstCommits
      BY <1>1, <1>4, <1>7, <2>1 DEF Trail!trailVars
    <2>2. CASE FirstCommits' = Trail!StoredWith(hand)
      <3>1. PICK all \in Seq(Events) : all = Undecided /\ all = hand \o kept
        BY <1>3, ConcatProperties
      <3>2. PICK m \in Nat \ {0} : m = Len(hand)
        BY <1>2, <1>3, EmptySeq, LenProperties
      <3>3. m \in 1 .. Len(all)
        <4>1. Len(all) = Len(hand) + Len(kept) /\ Len(kept) \in Nat
          BY <3>1, ConcatProperties, LenProperties
        <4>2. QED
          BY <3>2, <4>1
      <3>4. SubSeq(all, 1, m) = hand
        BY <3>1, <3>2, SplitConcat
      <3>5. Trail!StoreUnnoticed(m)
        BY <1>1, <1>4, <1>7, <2>2, <3>1, <3>3, <3>4 DEF Trail!StoreUnnoticed
      <3>6. QED
        BY <3>1, <3>3, <3>5 DEF Trail!Next
    <2>3. QED
      BY <1>6, <2>1, <2>2
  <1>9. TypeOK'
    BY <1>1, <1>5, <1>6 DEF IInv, TypeOK
  <1>10. Shape' /\ StopIsLast'
    BY <1>1, <1>2 DEF IInv, Shape, StopIsLast
  <1>11. Known'
    BY <1>1, <1>4, <1>6 DEF IInv, Known
  <1>12. Intact'
    <2> SUFFICES ASSUME faults' = 0, ~overflowed PROVE FALSE
      BY <1>1 DEF Intact
    <2>1. QED
      BY <1>5, BatchGoesThrough
  <1>13. Distinct(Undecided')
    BY <1>4 DEF IInv
  <1>14. QED
    BY <1>8, <1>9, <1>10, <1>11, <1>12, <1>13 DEF IInv

LEMMA RetryStep ==
    ASSUME IInv, RetryOne
    PROVE  Trail!Next /\ IInv'
  <1>1. PICK e : e = batch[retry + 1]
    OBVIOUS
  <1>2. /\ consumer = "retrying" /\ retry' = retry + 1
        /\ \/ Committed(<<e>>) /\ UNCHANGED logged
           \/ Failed(<<e>>) /\ logged' = logged \union {e}
        /\ retry' = Len(batch) => EndBatch(stopSeen)
        /\ retry' # Len(batch) => UNCHANGED <<consumer, batch>>
        /\ UNCHANGED <<queue, closing, stopSeen, recorded, accepted, overflowed>>
    BY <1>1 DEF RetryOne, WriteUnchanged
  <1>3. /\ retry \in Nat /\ retry < Len(batch) /\ Len(batch) <= BatchMax
        /\ batch \in Seq(Events) /\ Len(batch) \in Nat
        /\ closing \in {"open", "draining"}
    BY <1>2, AuditAssumption, LenProperties DEF IInv, Shape, TypeOK
  <1>4. PICK hand \in Seq(Events), kept \in Seq(Events) :
          /\ hand = InHand /\ kept = Filter(queue, Events)
          /\ Undecided = hand \o kept
          /\ Distinct(hand) /\ Range(hand) \subseteq accepted
    BY HandParts
  <1>5. /\ hand # << >> /\ Head(hand) = e
        /\ InHand' = Tail(hand)
    <2>1. /\ hand # << >> /\ Head(hand) = e
          /\ Tail(hand) = SubSeq(batch, (retry + 1) + 1, Len(batch))
          /\ retry + 1 = Len(batch) => SubSeq(batch, (retry + 1) + 1, Len(batch)) = << >>
      BY <1>1, <1>3, <1>4, Remainder DEF InHand
    <2>2. CASE retry' = Len(batch)
      <3>1. batch' = << >>
        BY <1>2, <2>2 DEF EndBatch
      <3>2. InHand' = << >>
        <4>1. << >> \in Seq(Events) /\ retry + 1 \in Nat
          BY <1>3, EmptySeq
        <4>2. SubSeq(<< >>, (retry + 1) + 1, Len(<< >>)) = << >>
          BY <4>1, Remainder
        <4>3. QED
          BY <1>2, <3>1, <4>2 DEF InHand
      <3>3. QED
        BY <1>2, <2>1, <2>2, <3>2
    <2>3. CASE retry' # Len(batch)
      BY <1>2, <2>1, <2>3 DEF InHand
    <2>4. QED
      BY <2>1, <2>2, <2>3
  <1>6. PICK rest \in Seq(Events) :
          /\ rest = Tail(hand)
          /\ e \in Events /\ e \in Range(hand)
    <2>1. Head(hand) \in Range(hand)
      BY <1>4, <1>5, TailDistinct
    <2>2. QED
      BY <1>5, <2>1, HeadTailProperties
  <1>7. Undecided' = rest \o kept
    BY <1>2, <1>4, <1>5, <1>6 DEF Undecided
  <1>8. /\ Distinct(Undecided') /\ Range(Undecided') \subseteq accepted
        /\ Undecided = <<e>> \o Undecided' /\ Undecided' \in Seq(Events)
        /\ <<e>> \in Seq(Events)
    <2>1. PICK all \in Seq(Events) : all = Undecided /\ all = hand \o kept
      BY <1>4, ConcatProperties
    <2>2. all # << >> /\ Head(all) = e /\ Tail(all) = rest \o kept
      BY <1>5, <1>6, <2>1, HeadConcat
    <2>3. /\ Tail(all) \in Seq(Events) /\ Distinct(Tail(all))
          /\ Range(Tail(all)) \subseteq Range(all)
      BY <2>1, <2>2, TailDistinct DEF IInv
    <2>4. all = <<e>> \o Tail(all)
      <3>1. 1 \in 1 .. Len(all) /\ Len(all) \in 1 .. Len(all)
        BY <2>2, EmptySeq, LenProperties
      <3>2. SubSeq(all, 1, Len(all)) = <<all[1]>> \o SubSeq(all, 1 + 1, Len(all))
        BY <3>1, SubSeqRecursiveFirst
      <3>3. SubSeq(all, 1, Len(all)) = all /\ Tail(all) = SubSeq(all, 2, Len(all))
        BY <2>2, SubSeqFull, TailIsSubSeq
      <3>4. all[1] = e /\ 1 + 1 = 2
        BY <2>2
      <3>5. QED
        BY <3>2, <3>3, <3>4
    <2>5. Undecided' = Tail(all)
      BY <1>7, <2>2
    <2>6. Undecided = <<e>> \o Undecided'
      BY <2>1, <2>4, <2>5, Zenon
    <2>7. Range(all) \subseteq accepted
      BY <2>1 DEF IInv, Known
    <2>8. <<e>> \in Seq(Events)
      BY <1>6
    <2>9. /\ Distinct(Undecided') /\ Range(Undecided') \subseteq Range(all)
          /\ Undecided' \in Seq(Events)
      BY <2>3, <2>5, Zenon
    <2>10. QED
      BY <2>6, <2>7, <2>8, <2>9
  <1>9. PICK left \in Seq(Events) : left = Undecided'
    BY <1>8
  <1>10. Shape' /\ StopIsLast'
    <2>1. CASE retry' = Len(batch)
      <3>1. batch' = << >> /\ consumer' = IF stopSeen THEN "stopped" ELSE "get"
        BY <1>2, <2>1 DEF EndBatch
      <3>2. Len(batch') = 0
        BY <3>1, EmptySeq
      <3>3. stopSeen \in BOOLEAN
        BY DEF IInv, TypeOK
      <3>4. QED
        BY <1>2, <1>3, <3>1, <3>2, <3>3, AuditAssumption DEF IInv, Shape, StopIsLast
    <2>2. CASE retry' # Len(batch)
      <3>1. retry' < Len(batch)
        BY <1>2, <1>3, <2>2
      <3>2. QED
        BY <1>2, <1>3, <2>2, <3>1 DEF IInv, Shape, StopIsLast
    <2>3. QED
      BY <2>1, <2>2
  <1>11. /\ batch' \in Seq(Events) /\ retry' \in 0 .. BatchMax
         /\ consumer' \in {"get", "retrying", "stopped"}
    <2>1. retry' \in 0 .. BatchMax
      BY <1>2, <1>3, AuditAssumption
    <2>2. CASE retry' = Len(batch)
      BY <1>2, <2>1, <2>2, EmptySeq DEF EndBatch
    <2>3. CASE retry' # Len(batch)
      BY <1>2, <1>3, <2>1, <2>3
    <2>4. QED
      BY <2>2, <2>3
  <1>12. Intact'
    <2> SUFFICES ASSUME faults' = 0, ~overflowed PROVE FALSE
      BY <1>2 DEF Intact
    <2>1. CASE Committed(<<e>>)
      BY <1>2, <2>1 DEF Committed, IInv, Intact
    <2>2. CASE Failed(<<e>>)
      BY <1>2, <2>2, FailedOutcome DEF IInv, Intact
    <2>3. QED
      BY <1>2, <2>1, <2>2
  <1>13. PICK one \in Seq(Events) :
           /\ one = <<e>> /\ Distinct(one) /\ Range(one) \subseteq accepted
           /\ one # << >> /\ Len(one) = 1
    <2>1. e \in accepted
      BY <1>4, <1>6
    <2>2. Distinct(<<e>>) /\ Range(<<e>>) = {e}
      BY DEF Distinct, Range
    <2>3. QED
      BY <1>8, <2>1, <2>2
  <1>14. CASE Committed(<<e>>) /\ UNCHANGED logged
    <2>1. rows' = rows \o one /\ faults' = faults
      BY <1>13, <1>14 DEF Committed
    <2>2. /\ rows' \in Seq(Events) /\ Range(rows') \subseteq accepted
          /\ FirstCommits' = Trail!StoredWith(one)
      BY <1>13, <2>1, Stored
    <2>3. Undecided = one \o left
      BY <1>8, <1>9, <1>13, Zenon
    <2>4. 1 \in 1 .. Len(Undecided) /\ Trail!Store(1)
      <3>1. Len(one) \in 1 .. Len(Undecided) /\ Trail!Store(Len(one))
        BY <1>2, <1>3, <1>9, <1>13, <1>14, <2>2, <2>3, StoreFront
      <3>2. QED
        BY <1>13, <3>1
    <2>5. TypeOK'
      BY <1>2, <1>11, <1>14, <2>1, <2>2 DEF IInv, TypeOK
    <2>6. Known'
      BY <1>2, <1>8, <1>14, <2>2 DEF IInv, Known
    <2>7. QED
      BY <1>8, <1>10, <1>12, <2>4, <2>5, <2>6 DEF IInv, Trail!Next
  <1>15. CASE Failed(<<e>>) /\ logged' = logged \union {e}
    <2>1. /\ rows' = rows \/ rows' = rows \o one
          /\ faults' \in 0 .. MaxFaults
      BY <1>13, <1>15, FailedOutcome DEF IInv
    <2>2. /\ rows' \in Seq(Events) /\ Range(rows') \subseteq accepted
          /\ FirstCommits' \in {FirstCommits, Trail!StoredWith(<<e>>)}
      <3>1. CASE rows' = rows
        BY <3>1 DEF IInv, TypeOK, Known, FirstCommits
      <3>2. CASE rows' = rows \o one
        <4>1. /\ rows' \in Seq(Events) /\ Range(rows') \subseteq accepted
              /\ FirstCommits' = Trail!StoredWith(one)
          BY <1>13, <3>2, Stored
        <4>2. QED
          BY <1>13, <4>1, Zenon
      <3>3. QED
        BY <2>1, <3>1, <3>2
    <2>3. Trail!GiveUp
      <3>1. Undecided' = Tail(hand) \o kept
        BY <1>6, <1>7
      <3>2. QED
        BY <1>2, <1>3, <1>4, <1>5, <1>6, <1>15, <2>2, <3>1, GiveUpHead
    <2>4. TypeOK'
      BY <1>2, <1>6, <1>11, <1>15, <2>1, <2>2 DEF IInv, TypeOK
    <2>5. Known'
      BY <1>2, <1>4, <1>6, <1>8, <1>15, <2>2 DEF IInv, Known
    <2>6. QED
      BY <1>8, <1>10, <1>12, <2>3, <2>4, <2>5 DEF IInv, Trail!Next
  <1>16. QED
    BY <1>2, <1>14, <1>15

----------------------------------------------------------------------------
(* The shutdown ends *)

LEMMA DrainedStep ==
    ASSUME IInv, Drained
    PROVE  Trail!Drained /\ IInv'
  <1>1. /\ closing = "draining" /\ consumer = "stopped" /\ closing' = "ended"
        /\ UNCHANGED <<queue, consumer, batch, retry, stopSeen, rows, recorded,
                       accepted, logged, overflowed, faults>>
    BY DEF Drained, history
  <1>2. /\ Undecided' = Undecided /\ FirstCommits' = FirstCommits /\ Line' = Line
    BY <1>1 DEF Undecided, InHand, FirstCommits, Line
  <1>3. Undecided = << >>
    <2>1. batch = << >> /\ queue = << >> /\ retry \in Nat /\ batch \in Seq(Events)
      BY <1>1, AuditAssumption DEF IInv, Shape, TypeOK
    <2>2. InHand = << >>
      BY <2>1, Remainder DEF InHand
    <2>3. Filter(queue, Events) = << >>
      BY <2>1, FilterEmpty
    <2>4. << >> \o << >> = << >>
      BY EmptySeq, ConcatEmptySeq
    <2>5. QED
      BY <2>2, <2>3, <2>4, Zenon DEF Undecided
  <1>4. Trail!Drained
    BY <1>1, <1>2, <1>3 DEF Trail!Drained, Service
  <1>5. IInv'
    BY <1>1, <1>2 DEF IInv, TypeOK, Shape, StopIsLast, Known, Intact, ParentsFirst
  <1>6. QED
    BY <1>4, <1>5

LEMMA CutOffStep ==
    ASSUME IInv, DrainTimesOut
    PROVE  Trail!CutOff /\ IInv'
  <1>1. /\ closing = "draining" /\ closing' = "ended" /\ consumer' = "cancelled"
        /\ UNCHANGED <<queue, batch, retry, stopSeen, rows, recorded,
                       accepted, logged, overflowed, faults>>
    BY DEF DrainTimesOut
  <1>2. /\ Undecided' = Undecided /\ FirstCommits' = FirstCommits /\ Line' = Line
    BY <1>1 DEF Undecided, InHand, FirstCommits, Line
  <1>3. Trail!CutOff
    BY <1>1, <1>2 DEF Trail!CutOff, Service
  <1>4. IInv'
    BY <1>1, <1>2 DEF IInv, TypeOK, Shape, StopIsLast, Known, Intact, ParentsFirst
  <1>5. QED
    BY <1>3, <1>4

----------------------------------------------------------------------------
(* The theorems *)

LEMMA InitIInv ==
    ASSUME Init
    PROVE  Trail!Init /\ IInv
  <1>1. /\ << >> \in Seq(Entries) /\ << >> \in Seq(Events) /\ Len(<< >>) = 0
        /\ DOMAIN << >> = {}
    BY EmptySeq
  <1>2. InHand = << >>
    <2>1. SubSeq(<< >>, 0 + 1, Len(<< >>)) = << >>
      BY <1>1, Remainder
    <2>2. QED
      BY <2>1 DEF Init, InHand
  <1>3. << >> \o << >> = << >>
    BY <1>1, ConcatEmptySeq
  <1>4. Undecided = << >> /\ FirstCommits = << >> /\ Line = << >>
    <2>1. Filter(queue, Events) = << >>
      BY FilterEmpty DEF Init
    <2>2. Undecided = << >>
      BY <1>2, <1>3, <2>1, Zenon DEF Undecided
    <2>3. FirstCommits = << >>
      BY FirstsEmpty DEF Init, FirstCommits
    <2>4. Line = << >>
      BY <1>3, Zenon DEF Init, Line
    <2>5. QED
      BY <2>2, <2>3, <2>4
  <1>5. Trail!Init
    BY <1>4 DEF Trail!Init, Init, Service
  <1>6. TypeOK
    <2>1. queue \in Seq(Entries) /\ batch \in Seq(Events) /\ rows \in Seq(Events)
      BY <1>1, Zenon DEF Init
    <2>2. retry \in 0 .. BatchMax /\ faults \in 0 .. MaxFaults
      BY AuditAssumption DEF Init
    <2>3. recorded \in [Requests -> SUBSET Kinds]
      BY DEF Init
    <2>4. QED
      BY <2>1, <2>2, <2>3 DEF Init, TypeOK, Entries
  <1>7. Shape /\ StopIsLast
    BY <1>1, AuditAssumption DEF Init, Shape, StopIsLast
  <1>8. Range(<< >>) = {} /\ Distinct(<< >>) /\ ParentsFirst(<< >>)
    BY <1>1 DEF Range, Distinct, ParentsFirst
  <1>9. Known /\ Distinct(Undecided)
    <2>1. rows = << >> /\ accepted = {} /\ logged = {}
      BY DEF Init
    <2>2. \A r \in Requests : recorded[r] = {}
      BY DEF Init
    <2>3. Range(rows) = {} /\ Range(Undecided) = {}
      BY <1>4, <1>8, <2>1, Zenon
    <2>4. Distinct(Undecided)
      BY <1>4, <1>8, Zenon
    <2>5. Known
      BY <2>1, <2>2, <2>3 DEF Known
    <2>6. QED
      BY <2>4, <2>5
  <1>10. Intact
    <2>1. Distinct(Line) /\ ParentsFirst(Line) /\ Range(Line) = {}
      BY <1>4, <1>8, Zenon
    <2>2. QED
      BY <2>1 DEF Init, Intact
  <1>11. QED
    BY <1>5, <1>6, <1>7, <1>9, <1>10 DEF IInv

\* Every step keeps the invariant and is a step of AuditTrail or none.
LEMMA StepMaps ==
    ASSUME IInv, [Next]_vars
    PROVE  IInv' /\ [Trail!Next]_(Trail!trailVars)
  <1>1. ASSUME NEW r \in Requests, NEW kind \in Kinds, Emit(r, kind)
        PROVE  IInv' /\ Trail!Next
    BY <1>1, EmitStep
  <1>2. CASE TakeBatch
    BY <1>2, TakeStep
  <1>3. CASE WriteBatch
    BY <1>3, WriteStep
  <1>4. CASE BatchFails
    BY <1>4, FailStep
  <1>5. CASE RetryOne
    BY <1>5, RetryStep
  <1>6. CASE Close
    BY <1>6, CloseStep DEF Trail!Next
  <1>7. CASE Drained
    BY <1>7, DrainedStep DEF Trail!Next
  <1>8. CASE DrainTimesOut
    BY <1>8, CutOffStep DEF Trail!Next
  <1>9. CASE UNCHANGED vars
    <2>1. UNCHANGED <<queue, closing, consumer, batch, retry, stopSeen, rows,
                      recorded, accepted, logged, overflowed, faults>>
      BY <1>9 DEF vars, auditVars, history
    <2>2. /\ Undecided' = Undecided /\ FirstCommits' = FirstCommits /\ Line' = Line
          /\ Service' = Service
      BY <2>1 DEF Undecided, InHand, FirstCommits, Line, Service
    <2>3. UNCHANGED Trail!trailVars
      BY <2>1, <2>2 DEF Trail!trailVars
    <2>4. IInv'
      BY <2>1, <2>2 DEF IInv, TypeOK, Shape, StopIsLast, Known, Intact, ParentsFirst
    <2>5. QED
      BY <2>3, <2>4
  <1>10. QED
    BY <1>1, <1>2, <1>3, <1>4, <1>5, <1>6, <1>7, <1>8, <1>9
    DEF Next, Consume, Terminated

\* Queue, batch, tables and log stay in order whatever is recorded and whatever fails.
THEOREM Invariance == Spec => []IInv
  <1>1. Init => IInv
    BY InitIInv
  <1>2. IInv /\ [Next]_vars => IInv'
    BY StepMaps
  <1>3. QED
    BY <1>1, <1>2, PTL DEF Spec

(* Only a failing transaction or a full queue makes the service give up an *)
(* event it accepted, whatever the requests, the sizes and the schedule:   *)
(* the foreign keys refuse nothing that was recorded in order              *)
(* (orchestration/pipeline.py, audit/models.py).                           *)
THEOREM OnlyFaultsLoseEvents == Spec => []OnlyFaultsLose
  <1>1. IInv => OnlyFaultsLose
    BY DEF IInv, Intact, OnlyFaultsLose
  <1>2. QED
    BY <1>1, Invariance, PTL

(* The queue with its overflow, the batches with their retry, lost         *)
(* acknowledgements and the shutdown implement AuditTrail: each step of    *)
(* the writer is a step of the promise or is not seen there.               *)
THEOREM ServiceImplementsTrail == Spec => ImplementsAuditTrail
  <1>1. Init => Trail!Init
    BY InitIInv
  <1>2. IInv /\ [Next]_vars => [Trail!Next]_(Trail!trailVars)
    BY StepMaps
  <1>3. QED
    BY <1>1, <1>2, Invariance, PTL DEF Spec, Trail!Spec, ImplementsAuditTrail

----------------------------------------------------------------------------
(* Retention: the tables *)

\* The four tables and the order in which a run visits them.
LEMMA TableNames ==
    /\ Names = {"prompt_responses", "agent_events", "prompt_requests", "sessions"}
    /\ DOMAIN Tables = 1 .. 4 /\ Len(Tables) = 4
    /\ Tables[1] = "prompt_responses"
    /\ Tables[2] = "agent_events"
    /\ Tables[3] = "prompt_requests"
    /\ Tables[4] = "sessions"
  <1>1. /\ DOMAIN Tables = 1 .. 4 /\ Len(Tables) = 4
        /\ Tables[1] = "prompt_responses" /\ Tables[2] = "agent_events"
        /\ Tables[3] = "prompt_requests" /\ Tables[4] = "sessions"
    BY DEF Tables
  <1>2. Names = {"prompt_responses", "agent_events", "prompt_requests", "sessions"}
    <2>1. DOMAIN Tables = {1, 2, 3, 4}
      BY <1>1
    <2>2. QED
      BY <1>1, <2>1 DEF Names
  <1>3. QED
    BY <1>1, <1>2

\* The place of a table in that order.
Place == [t \in Names |-> CHOOSE i \in DOMAIN Tables : Tables[i] = t]

LEMMA Places ==
    /\ Place \in [Names -> 1 .. 4]
    /\ \A t \in Names : Tables[Place[t]] = t
    /\ \A i \in 1 .. 4 : Tables[i] \in Names /\ Place[Tables[i]] = i
    /\ Place["prompt_responses"] = 1
    /\ Place["agent_events"] = 2
    /\ Place["prompt_requests"] = 3
    /\ Place["sessions"] = 4
  <1>1. \A t \in Names : \E i \in 1 .. 4 : Tables[i] = t
    BY TableNames
  <1>2. \A t \in Names : Place[t] \in 1 .. 4 /\ Tables[Place[t]] = t
    BY <1>1, TableNames DEF Place
  <1>3. \A i \in 1 .. 4, j \in 1 .. 4 : Tables[i] = Tables[j] => i = j
    BY TableNames
  <1>4. \A i \in 1 .. 4 : Tables[i] \in Names
    BY TableNames
  <1>5. \A i \in 1 .. 4 : Place[Tables[i]] = i
    BY <1>2, <1>3, <1>4
  <1>6. Place \in [Names -> 1 .. 4]
    BY <1>2 DEF Place
  <1>7. QED
    BY <1>2, <1>4, <1>5, <1>6, TableNames

----------------------------------------------------------------------------
(* Retention: the inductive invariant *)

\* The tables are tables of finitely many rows.
Finite ==
    /\ DOMAIN dates = Names
    /\ \A t \in Names : IsFiniteSet(DOMAIN dates[t])
    /\ DOMAIN due = Names
    /\ \A t \in Names : IsFiniteSet(due[t])

\* The tables behind a run, which it will not visit again.
Behind(t) == run.is = "finished" \/ (run.is = "running" /\ Place[t] < run.next)

Ahead(t) == run.is = "running" /\ Place[t] >= run.next

Expired(t) == TooOld(t, run.windows, run.now)

\* What is behind a run stays clean: a row written meanwhile is not too old.
Clean == ~run.dry => \A t \in Names : Behind(t) => Expired(t) = {}

\* What is ahead of a run is what was due when it began, but for the sessions
\* that came back to life; what is behind it was counted.
Counted ==
    \A t \in Names :
        /\ Ahead(t) => IF t = "sessions" THEN Expired(t) \subseteq due[t]
                       ELSE Expired(t) = due[t]
        /\ Behind(t) =>
             \/ affected[t] = Cardinality(due[t])
             \/ t = "sessions" /\ affected[t] < Cardinality(due[t])

RetentionInv ==
    /\ RetentionTypeOK
    /\ Finite
    /\ KeysIntact
    /\ Clean
    /\ Counted

\* Too old are rows of the table, each of a day before the run began.
LEMMA ExpiredProperties ==
    ASSUME RetentionTypeOK, NEW t \in Names
    PROVE  /\ Expired(t) \subseteq DOMAIN dates[t]
           /\ \A i \in DOMAIN dates[t] :
                i \in Expired(t) <=>
                  run.windows[t] # 0 /\ dates[t][i] + run.windows[t] < run.now
           /\ run.windows[t] \in Nat
           /\ run.now \in 0 .. today
  BY DEF Expired, TooOld, RetentionTypeOK

\* An empty database.
LEMMA InitRetentionInv == RetentionInit => RetentionInv
  <1> SUFFICES ASSUME RetentionInit
               PROVE  RetentionInv
    OBVIOUS
  <1>1. /\ today = 0
        /\ \A t \in Names : dates[t] = << >> /\ DOMAIN dates[t] = {}
        /\ DOMAIN dates = Names
    BY DEF RetentionInit
  <1>2. run = [is |-> "none", dry |-> TRUE, windows |-> NoWindows, now |-> 0, next |-> 1]
    BY DEF RetentionInit, Run
  <1>3. NoWindows \in [Names -> Nat]
    BY DEF NoWindows
  <1>4. RetentionTypeOK
    <2>1. today \in 0 .. MaxDay /\ 0 \in 0 .. today
      BY <1>1, RetentionAssumption
    <2>2. run \in [is : {"none", "running", "finished"}, dry : BOOLEAN,
                   windows : [Names -> Nat], now : 0 .. today, next : DOMAIN Tables]
      BY <1>2, <1>3, <2>1, TableNames
    <2>3. /\ sessionOf \in [Prompts -> Sessions \union {Null}]
          /\ requestOf \in [AgentEvents -> Prompts \union {Null}]
          /\ affected \in [Names -> Nat]
      BY <1>3 DEF RetentionInit
    <2>4. QED
      BY <1>1, <2>1, <2>2, <2>3 DEF RetentionTypeOK
  <1>5. Finite
    BY <1>1, FS_EmptySet DEF RetentionInit, Finite, Nothing
  <1>6. KeysIntact
    BY <1>1, TableNames DEF KeysIntact
  <1>7. Clean /\ Counted
    BY <1>2 DEF Clean, Counted, Behind, Ahead
  <1>8. QED
    BY <1>4, <1>5, <1>6, <1>7 DEF RetentionInv

----------------------------------------------------------------------------
(* The application's steps *)

LEMMA IdsByTable ==
    /\ Ids["sessions"] = Sessions
    /\ Ids["agent_events"] = AgentEvents
    /\ Ids["prompt_requests"] = Prompts
    /\ Ids["prompt_responses"] = Prompts
  BY TableNames DEF Ids

\* What one more row, of this day, makes of a table.
LEMMA WrittenProperties ==
    ASSUME RetentionTypeOK, Finite, NEW t \in Names, NEW id \in Ids[t]
    PROVE  /\ DOMAIN Written(t, id) = DOMAIN dates[t] \union {id}
           /\ DOMAIN Written(t, id) \subseteq Ids[t]
           /\ IsFiniteSet(DOMAIN Written(t, id))
           /\ Written(t, id)[id] = today
           /\ \A i \in DOMAIN dates[t] \ {id} : Written(t, id)[i] = dates[t][i]
  <1>1. DOMAIN Written(t, id) = DOMAIN dates[t] \union {id}
    BY DEF Written
  <1>2. IsFiniteSet(DOMAIN dates[t] \union {id})
    BY FS_AddElement DEF Finite
  <1>3. QED
    BY <1>1, <1>2 DEF RetentionTypeOK, Written

\* The tables grow by rows of this day, and only a session may be touched.
OnlyGrows ==
    /\ UNCHANGED <<today, process>>
    /\ DOMAIN dates' = Names
    /\ \A t \in Names :
         /\ DOMAIN dates[t] \subseteq DOMAIN dates'[t]
         /\ DOMAIN dates'[t] \subseteq Ids[t]
         /\ IsFiniteSet(DOMAIN dates'[t])
         /\ \A i \in DOMAIN dates'[t] :
              \/ dates'[t][i] = today
              \/ i \in DOMAIN dates[t] /\ dates'[t][i] = dates[t][i]
         /\ t # "sessions" => \A i \in DOMAIN dates[t] : dates'[t][i] = dates[t][i]

\* A new row is never too old for a run that is under way.
LEMMA NothingAges ==
    ASSUME RetentionInv, OnlyGrows, NEW t \in Names
    PROVE  /\ Expired(t)' \subseteq Expired(t)
           /\ t # "sessions" => Expired(t)' = Expired(t)
  <1>1. /\ run' = run /\ run.windows[t] \in Nat /\ run.now \in 0 .. today
        /\ today \in Nat
    BY ExpiredProperties DEF RetentionInv, OnlyGrows, process, RetentionTypeOK
  <1>2. \A i \in DOMAIN dates[t] : dates[t][i] \in Nat
    BY DEF RetentionInv, RetentionTypeOK
  <1>3. CASE run.windows[t] = 0
    BY <1>1, <1>3 DEF Expired, TooOld
  <1>4. CASE run.windows[t] # 0
    <2>1. Expired(t) = {i \in DOMAIN dates[t] : dates[t][i] + run.windows[t] < run.now}
      BY <1>4 DEF Expired, TooOld
    <2>2. Expired(t)' = {i \in DOMAIN dates'[t] : dates'[t][i] + run.windows[t] < run.now}
      BY <1>1, <1>4 DEF Expired, TooOld
    <2>3. ~(today + run.windows[t] < run.now)
      BY <1>1
    <2>4. Expired(t)' \subseteq Expired(t)
      BY <2>1, <2>2, <2>3 DEF OnlyGrows
    <2>5. ASSUME t # "sessions", NEW i \in Expired(t)
          PROVE  i \in Expired(t)'
      BY <2>1, <2>2, <2>5 DEF OnlyGrows
    <2>6. QED
      BY <2>4, <2>5
  <1>5. QED
    BY <1>3, <1>4

\* So writing leaves everything as it was but the keys.
LEMMA GrowthInv ==
    ASSUME RetentionInv, OnlyGrows,
           sessionOf' \in [Prompts -> Sessions \union {Null}],
           requestOf' \in [AgentEvents -> Prompts \union {Null}],
           KeysIntact'
    PROVE  RetentionInv'
  <1>1. UNCHANGED <<today, run, affected, due>>
    BY DEF OnlyGrows, process
  <1>2. RetentionTypeOK'
    <2>1. \A t \in Names : \A i \in DOMAIN dates'[t] : dates'[t][i] \in 0 .. today
      BY DEF RetentionInv, RetentionTypeOK, OnlyGrows
    <2>2. QED
      BY <1>1, <2>1 DEF RetentionInv, RetentionTypeOK, OnlyGrows
  <1>3. Finite'
    BY <1>1 DEF RetentionInv, Finite, OnlyGrows
  <1>4. \A t \in Names : (Behind(t)' <=> Behind(t)) /\ (Ahead(t)' <=> Ahead(t))
    BY <1>1 DEF Behind, Ahead
  <1>5. Clean'
    BY <1>1, <1>4, NothingAges DEF RetentionInv, Clean
  <1>6. Counted'
    <2>1. ASSUME NEW t \in Names
          PROVE  Ahead(t)' => IF t = "sessions" THEN Expired(t)' \subseteq due'[t]
                              ELSE Expired(t)' = due'[t]
      BY <1>1, <1>4, NothingAges DEF RetentionInv, Counted
    <2>2. ASSUME NEW t \in Names
          PROVE  Behind(t)' =>
                   \/ affected'[t] = Cardinality(due'[t])
                   \/ t = "sessions" /\ affected'[t] < Cardinality(due'[t])
      BY <1>1, <1>4 DEF RetentionInv, Counted
    <2>3. QED
      BY <2>1, <2>2 DEF Counted
  <1>7. QED
    BY <1>2, <1>3, <1>5, <1>6 DEF RetentionInv

\* A prompt is recorded with its session.
LEMMA RecordPromptInv ==
    ASSUME RetentionInv, NEW r \in Prompts, NEW s \in Sessions, RecordPrompt(r, s)
    PROVE  RetentionInv'
  <1>1. /\ r \notin DOMAIN dates["prompt_requests"]
        /\ dates' = [dates EXCEPT !["sessions"] = Written("sessions", s),
                                !["prompt_requests"] = Written("prompt_requests", r)]
        /\ sessionOf' = [sessionOf EXCEPT ![r] = s]
        /\ UNCHANGED <<today, requestOf, process>>
    BY DEF RecordPrompt, Has
  <1>2. RetentionTypeOK /\ Finite /\ KeysIntact /\ DOMAIN dates = Names
    BY DEF RetentionInv, Finite
  <1>3. /\ DOMAIN dates' = Names
        /\ dates'["sessions"] = Written("sessions", s)
        /\ dates'["prompt_requests"] = Written("prompt_requests", r)
        /\ \A t \in Names \ {"sessions", "prompt_requests"} : dates'[t] = dates[t]
    BY <1>1, <1>2, TableNames
  <1>4. /\ DOMAIN Written("sessions", s) = DOMAIN dates["sessions"] \union {s}
        /\ DOMAIN Written("sessions", s) \subseteq Ids["sessions"]
        /\ IsFiniteSet(DOMAIN Written("sessions", s))
        /\ Written("sessions", s)[s] = today
        /\ \A i \in DOMAIN dates["sessions"] \ {s} :
             Written("sessions", s)[i] = dates["sessions"][i]
    <2>1. "sessions" \in Names /\ s \in Ids["sessions"]
      BY TableNames, IdsByTable
    <2>2. QED
      BY <1>2, <2>1, WrittenProperties
  <1>5. /\ DOMAIN Written("prompt_requests", r) = DOMAIN dates["prompt_requests"] \union {r}
        /\ DOMAIN Written("prompt_requests", r) \subseteq Ids["prompt_requests"]
        /\ IsFiniteSet(DOMAIN Written("prompt_requests", r))
        /\ Written("prompt_requests", r)[r] = today
        /\ \A i \in DOMAIN dates["prompt_requests"] \ {r} :
             Written("prompt_requests", r)[i] = dates["prompt_requests"][i]
    <2>1. "prompt_requests" \in Names /\ r \in Ids["prompt_requests"]
      BY TableNames, IdsByTable
    <2>2. QED
      BY <1>2, <2>1, WrittenProperties
  <1>6. OnlyGrows
    <2>1. ASSUME NEW t \in Names \ {"sessions", "prompt_requests"}
          PROVE  /\ dates'[t] = dates[t] /\ DOMAIN dates[t] \subseteq Ids[t]
                 /\ IsFiniteSet(DOMAIN dates[t])
      BY <1>2, <1>3 DEF RetentionTypeOK, Finite
    <2>2. QED
      BY <1>1, <1>3, <1>4, <1>5, <2>1 DEF OnlyGrows
  <1>7. /\ sessionOf' \in [Prompts -> Sessions \union {Null}]
        /\ requestOf' \in [AgentEvents -> Prompts \union {Null}]
    BY <1>1, <1>2 DEF RetentionTypeOK
  <1>8. KeysIntact'
    <2>1. \A q \in DOMAIN dates'["prompt_responses"] : q \in DOMAIN dates'["prompt_requests"]
      BY <1>2, <1>3, <1>5, TableNames DEF KeysIntact, Has
    <2>2. \A q \in DOMAIN dates'["prompt_requests"] :
            sessionOf'[q] # Null => sessionOf'[q] \in DOMAIN dates'["sessions"]
      <3>1. \A q \in DOMAIN dates["prompt_requests"] : q \in Prompts /\ q # r
        BY <1>1, <1>2, IdsByTable, TableNames DEF RetentionTypeOK
      <3>2. sessionOf'[r] = s /\ \A q \in Prompts \ {r} : sessionOf'[q] = sessionOf[q]
        BY <1>1, <1>2 DEF RetentionTypeOK
      <3>3. QED
        BY <1>2, <1>3, <1>4, <1>5, <3>1, <3>2 DEF KeysIntact, Has
    <2>3. \A e \in DOMAIN dates'["agent_events"] :
            requestOf'[e] # Null => requestOf'[e] \in DOMAIN dates'["prompt_requests"]
      BY <1>1, <1>2, <1>3, <1>5, TableNames DEF KeysIntact, Has
    <2>4. QED
      BY <2>1, <2>2, <2>3 DEF KeysIntact, Has
  <1>9. QED
    BY <1>6, <1>7, <1>8, GrowthInv

\* A response is recorded after its prompt.
LEMMA RecordResponseInv ==
    ASSUME RetentionInv, NEW r \in Prompts, RecordResponse(r)
    PROVE  RetentionInv'
  <1>1. /\ r \in DOMAIN dates["prompt_requests"]
        /\ r \notin DOMAIN dates["prompt_responses"]
        /\ dates' = [dates EXCEPT !["prompt_responses"] = Written("prompt_responses", r)]
        /\ UNCHANGED <<today, sessionOf, requestOf, process>>
    BY DEF RecordResponse, Has
  <1>2. RetentionTypeOK /\ Finite /\ KeysIntact /\ DOMAIN dates = Names
    BY DEF RetentionInv, Finite
  <1>3. /\ DOMAIN dates' = Names
        /\ dates'["prompt_responses"] = Written("prompt_responses", r)
        /\ \A t \in Names \ {"prompt_responses"} : dates'[t] = dates[t]
    BY <1>1, <1>2, TableNames
  <1>4. /\ DOMAIN Written("prompt_responses", r) = DOMAIN dates["prompt_responses"] \union {r}
        /\ DOMAIN Written("prompt_responses", r) \subseteq Ids["prompt_responses"]
        /\ IsFiniteSet(DOMAIN Written("prompt_responses", r))
        /\ Written("prompt_responses", r)[r] = today
        /\ \A i \in DOMAIN dates["prompt_responses"] \ {r} :
             Written("prompt_responses", r)[i] = dates["prompt_responses"][i]
    <2>1. "prompt_responses" \in Names /\ r \in Ids["prompt_responses"]
      BY TableNames, IdsByTable
    <2>2. QED
      BY <1>2, <2>1, WrittenProperties
  <1>5. OnlyGrows
    <2>1. ASSUME NEW t \in Names \ {"prompt_responses"}
          PROVE  /\ dates'[t] = dates[t] /\ DOMAIN dates[t] \subseteq Ids[t]
                 /\ IsFiniteSet(DOMAIN dates[t])
      BY <1>2, <1>3 DEF RetentionTypeOK, Finite
    <2>2. QED
      BY <1>1, <1>3, <1>4, <2>1 DEF OnlyGrows
  <1>6. KeysIntact'
    BY <1>1, <1>2, <1>3, <1>4, TableNames DEF KeysIntact, Has
  <1>7. QED
    BY <1>1, <1>2, <1>5, <1>6, GrowthInv DEF RetentionTypeOK

\* So is an event of one of its agents.
LEMMA RecordAgentInv ==
    ASSUME RetentionInv, NEW e \in AgentEvents, NEW r \in Prompts, RecordAgent(e, r)
    PROVE  RetentionInv'
  <1>1. /\ r \in DOMAIN dates["prompt_requests"]
        /\ e \notin DOMAIN dates["agent_events"]
        /\ dates' = [dates EXCEPT !["agent_events"] = Written("agent_events", e)]
        /\ requestOf' = [requestOf EXCEPT ![e] = r]
        /\ UNCHANGED <<today, sessionOf, process>>
    BY DEF RecordAgent, Has
  <1>2. RetentionTypeOK /\ Finite /\ KeysIntact /\ DOMAIN dates = Names
    BY DEF RetentionInv, Finite
  <1>3. /\ DOMAIN dates' = Names
        /\ dates'["agent_events"] = Written("agent_events", e)
        /\ \A t \in Names \ {"agent_events"} : dates'[t] = dates[t]
    BY <1>1, <1>2, TableNames
  <1>4. /\ DOMAIN Written("agent_events", e) = DOMAIN dates["agent_events"] \union {e}
        /\ DOMAIN Written("agent_events", e) \subseteq Ids["agent_events"]
        /\ IsFiniteSet(DOMAIN Written("agent_events", e))
        /\ Written("agent_events", e)[e] = today
        /\ \A i \in DOMAIN dates["agent_events"] \ {e} :
             Written("agent_events", e)[i] = dates["agent_events"][i]
    <2>1. "agent_events" \in Names /\ e \in Ids["agent_events"]
      BY TableNames, IdsByTable
    <2>2. QED
      BY <1>2, <2>1, WrittenProperties
  <1>5. OnlyGrows
    <2>1. ASSUME NEW t \in Names \ {"agent_events"}
          PROVE  /\ dates'[t] = dates[t] /\ DOMAIN dates[t] \subseteq Ids[t]
                 /\ IsFiniteSet(DOMAIN dates[t])
      BY <1>2, <1>3 DEF RetentionTypeOK, Finite
    <2>2. QED
      BY <1>1, <1>3, <1>4, <2>1 DEF OnlyGrows
  <1>6. requestOf' \in [AgentEvents -> Prompts \union {Null}]
    BY <1>1, <1>2 DEF RetentionTypeOK
  <1>7. KeysIntact'
    <2>1. requestOf'[e] = r /\ \A f \in AgentEvents \ {e} : requestOf'[f] = requestOf[f]
      BY <1>1, <1>2 DEF RetentionTypeOK
    <2>2. DOMAIN dates["agent_events"] \subseteq AgentEvents
      BY <1>2, IdsByTable, TableNames DEF RetentionTypeOK
    <2>3. QED
      BY <1>1, <1>2, <1>3, <1>4, <2>1, <2>2, TableNames DEF KeysIntact, Has
  <1>8. QED
    BY <1>1, <1>2, <1>5, <1>6, <1>7, GrowthInv DEF RetentionTypeOK

\* A run under way keeps the day it began on.
LEMMA DayPassesInv ==
    ASSUME RetentionInv, DayPasses
    PROVE  RetentionInv'
  <1>1. /\ today' = today + 1 /\ today' \in 0 .. MaxDay
        /\ \A d \in 0 .. today : d \in 0 .. today'
        /\ UNCHANGED <<dates, sessionOf, requestOf, run, affected, due>>
    BY RetentionAssumption DEF DayPasses, database, process, RetentionInv, RetentionTypeOK
  <1>2. RetentionTypeOK'
    BY <1>1 DEF RetentionInv, RetentionTypeOK
  <1>3. Finite' /\ KeysIntact'
    BY <1>1 DEF RetentionInv, Finite, KeysIntact, Has
  <1>4. Clean' /\ Counted'
    BY <1>1 DEF RetentionInv, Clean, Counted, Behind, Ahead, Expired, TooOld
  <1>5. QED
    BY <1>2, <1>3, <1>4 DEF RetentionInv

----------------------------------------------------------------------------
(* The run's steps *)

RunType == [is : {"none", "running", "finished"}, dry : BOOLEAN,
            windows : [Names -> Nat], now : 0 .. today, next : DOMAIN Tables]

\* A run begins with nothing behind it.
LEMMA BeginInv ==
    ASSUME RetentionInv, NEW days \in Defaults, NEW override \in Overrides, NEW dry \in BOOLEAN,
           Begin(days, override, dry)
    PROVE  RetentionInv'
  <1> DEFINE windows == Windows(days, override)
  <1>1. windows \in [Names -> Nat]
    BY RetentionAssumption DEF Windows
  <1>2. /\ run' = [is |-> "running", dry |-> dry, windows |-> windows, now |-> today, next |-> 1]
        /\ affected' = [t \in Names |-> 0]
        /\ due' = [t \in Names |-> TooOld(t, windows, today)]
        /\ UNCHANGED <<today, dates, sessionOf, requestOf>>
    BY DEF Begin, Run, NoWindows, database
  <1> HIDE DEF windows
  <1>3. RetentionTypeOK /\ Finite /\ KeysIntact
    BY DEF RetentionInv
  <1>4. /\ run'.is = "running" /\ run'.windows = windows /\ run'.now = today
        /\ run'.next = 1 /\ run'.dry = dry
    BY <1>2
  <1>5. RetentionTypeOK'
    <2>1. today \in 0 .. today
      BY <1>3, RetentionAssumption DEF RetentionTypeOK
    <2>2. run' \in RunType
      BY <1>1, <1>2, <2>1, TableNames DEF RunType
    <2>3. affected' \in [Names -> Nat]
      BY <1>2
    <2>4. QED
      BY <1>2, <1>3, <2>2, <2>3 DEF RetentionTypeOK, RunType
  <1>6. Finite'
    <2>1. ASSUME NEW t \in Names
          PROVE  IsFiniteSet(due'[t])
      <3>1. due'[t] = TooOld(t, windows, today) /\ IsFiniteSet(DOMAIN dates[t])
        BY <1>2, <1>3 DEF Finite
      <3>2. TooOld(t, windows, today) \in SUBSET (DOMAIN dates[t])
        BY DEF TooOld
      <3>3. QED
        BY <3>1, <3>2, FS_Subset
    <2>2. QED
      BY <1>2, <1>3, <2>1 DEF Finite
  <1>7. KeysIntact'
    BY <1>2, <1>3 DEF KeysIntact, Has
  <1>8. \A t \in Names : ~Behind(t)' /\ Expired(t)' = due'[t]
    <2>1. \A t \in Names : ~(Place[t] < 1)
      BY Places
    <2>2. \A t \in Names : Expired(t)' = TooOld(t, windows, today)
      BY <1>2, <1>4 DEF Expired, TooOld
    <2>3. QED
      BY <1>2, <1>4, <2>1, <2>2 DEF Behind
  <1>9. Clean' /\ Counted'
    BY <1>8 DEF Clean, Counted
  <1>10. QED
    BY <1>5, <1>6, <1>7, <1>9 DEF RetentionInv

\* The table a run stands at passes from ahead of it to behind it.
LEMMA TablePasses ==
    ASSUME RetentionTypeOK, NextTable
    PROVE  /\ Tables[run.next] \in Names
           /\ Ahead(Tables[run.next])
           /\ \A u \in Names :
                /\ Behind(u)' <=> Behind(u) \/ u = Tables[run.next]
                /\ Ahead(u)' <=> Ahead(u) /\ u # Tables[run.next]
           /\ run' \in RunType /\ UNCHANGED today
           /\ run'.windows = run.windows /\ run'.now = run.now /\ run'.dry = run.dry
  <1>1. run \in RunType /\ run.is = "running" /\ run.next \in 1 .. 4
    BY TableNames DEF RetentionTypeOK, RunType, NextTable
  <1>2. /\ Tables[run.next] \in Names /\ Place[Tables[run.next]] = run.next
        /\ \A u \in Names : Place[u] \in 1 .. 4 /\ (Place[u] = run.next => u = Tables[run.next])
    BY <1>1, Places
  <1>3. today' = today
    BY DEF NextTable
  <1>4. CASE run.next = 4
    <2>1. run' = [run EXCEPT !.is = "finished"]
      BY <1>4, TableNames DEF NextTable
    <2>2. run' \in RunType
      BY <1>1, <2>1 DEF RunType
    <2>3. QED
      BY <1>1, <1>2, <1>3, <1>4, <2>1, <2>2 DEF RunType, Behind, Ahead
  <1>5. CASE run.next # 4
    <2>1. run' = [run EXCEPT !.next = @ + 1]
      BY <1>5, TableNames DEF NextTable
    <2>2. run.next + 1 \in DOMAIN Tables
      BY <1>1, <1>5, TableNames
    <2>3. run' \in RunType
      BY <1>1, <2>1, <2>2 DEF RunType
    <2>4. QED
      BY <1>1, <1>2, <1>3, <1>5, <2>1, <2>3 DEF RunType, Behind, Ahead
  <1>6. QED
    BY <1>4, <1>5

\* What a DELETE leaves of each table.
LEMMA DeleteProperties ==
    ASSUME RetentionTypeOK, Finite, NEW t \in Names, NEW gone, Delete(t, gone)
    PROVE  /\ DOMAIN dates' = Names
           /\ \A u \in Names :
                /\ DOMAIN dates'[u] = DOMAIN dates[u] \ Cascade(t, gone)[u]
                /\ \A i \in DOMAIN dates'[u] : dates'[u][i] = dates[u][i]
           /\ Cascade(t, gone)[t] = gone
           /\ \A u \in Names \ {t} :
                Cascade(t, gone)[u] =
                  IF u = "prompt_responses" /\ t = "prompt_requests" THEN gone ELSE {}
  BY DEF Delete, Cascade, Without

\* A DELETE and what it takes along or sets to null leave no key dangling.
LEMMA DeleteKeys ==
    ASSUME RetentionTypeOK, Finite, KeysIntact, NEW t \in Names, NEW gone, Delete(t, gone)
    PROVE  /\ KeysIntact'
           /\ sessionOf' \in [Prompts -> Sessions \union {Null}]
           /\ requestOf' \in [AgentEvents -> Prompts \union {Null}]
  <1> DEFINE taken == Cascade(t, gone)
  <1>1. /\ \A u \in Names : DOMAIN dates'[u] = DOMAIN dates[u] \ taken[u]
        /\ taken[t] = gone
        /\ \A u \in Names \ {t} :
             taken[u] = IF u = "prompt_responses" /\ t = "prompt_requests" THEN gone ELSE {}
    BY DeleteProperties
  <1>2. /\ sessionOf' = [r \in Prompts |->
                          IF t = "sessions" /\ sessionOf[r] \in gone THEN Null ELSE sessionOf[r]]
        /\ requestOf' = [e \in AgentEvents |->
                          IF t = "prompt_requests" /\ requestOf[e] \in gone THEN Null
                          ELSE requestOf[e]]
    BY DEF Delete
  <1>3. /\ DOMAIN dates["prompt_requests"] \subseteq Prompts
        /\ DOMAIN dates["agent_events"] \subseteq AgentEvents
    BY IdsByTable, TableNames DEF RetentionTypeOK
  <1> HIDE DEF taken
  <1>4. \A r \in DOMAIN dates'["prompt_responses"] : r \in DOMAIN dates'["prompt_requests"]
    BY <1>1, TableNames DEF KeysIntact, Has
  <1>5. \A r \in DOMAIN dates'["prompt_requests"] :
          sessionOf'[r] # Null => sessionOf'[r] \in DOMAIN dates'["sessions"]
    BY <1>1, <1>2, <1>3, TableNames DEF KeysIntact, Has
  <1>6. \A e \in DOMAIN dates'["agent_events"] :
          requestOf'[e] # Null => requestOf'[e] \in DOMAIN dates'["prompt_requests"]
    BY <1>1, <1>2, <1>3, TableNames DEF KeysIntact, Has
  <1>7. KeysIntact'
    BY <1>4, <1>5, <1>6 DEF KeysIntact, Has
  <1>8. QED
    BY <1>2, <1>7 DEF RetentionTypeOK

\* A run takes its next table: counted and, unless the run is dry, cleared.
LEMMA NextTableInv ==
    ASSUME RetentionInv, NextTable
    PROVE  RetentionInv'
  <1> DEFINE t == Tables[run.next]
             old == Expired(t)
             taken == IF run.dry THEN [u \in Names |-> {}] ELSE Cascade(t, old)
  <1>1. RetentionTypeOK /\ Finite /\ KeysIntact /\ Clean /\ Counted
    BY DEF RetentionInv
  <1>2. /\ t \in Names
        /\ Ahead(t)
        /\ \A u \in Names :
             /\ Behind(u)' <=> Behind(u) \/ u = t
             /\ Ahead(u)' <=> Ahead(u) /\ u # t
        /\ run' \in RunType /\ UNCHANGED today
        /\ run'.windows = run.windows /\ run'.now = run.now /\ run'.dry = run.dry
    BY <1>1, TablePasses
  <1>3. /\ affected' = [affected EXCEPT ![t] = Cardinality(old)]
        /\ IF run.dry THEN UNCHANGED database ELSE Delete(t, old)
        /\ due' = due
    BY DEF NextTable, Expired
  <1>4. /\ DOMAIN dates' = Names
        /\ \A u \in Names :
             /\ DOMAIN dates'[u] = DOMAIN dates[u] \ taken[u]
             /\ \A i \in DOMAIN dates'[u] : dates'[u][i] = dates[u][i]
        /\ ~run.dry => taken[t] = old
        /\ \A u \in Names \ {t} :
             taken[u] # {} => u = "prompt_responses" /\ t = "prompt_requests"
    <2>1. CASE run.dry
      BY <1>1, <1>3, <2>1 DEF database, Finite
    <2>2. CASE ~run.dry
      <3>1. Delete(t, old)
        BY <1>3, <2>2
      <3> HIDE DEF t, old
      <3>2. QED
        BY <1>1, <1>2, <2>2, <3>1, DeleteProperties
    <2>3. QED
      BY <2>1, <2>2
  <1>5. /\ KeysIntact'
        /\ sessionOf' \in [Prompts -> Sessions \union {Null}]
        /\ requestOf' \in [AgentEvents -> Prompts \union {Null}]
    <2>1. CASE run.dry
      BY <1>1, <1>3, <2>1 DEF database, KeysIntact, Has, RetentionTypeOK
    <2>2. CASE ~run.dry
      <3>1. Delete(t, old)
        BY <1>3, <2>2
      <3> HIDE DEF t, old
      <3>2. QED
        BY <1>1, <1>2, <3>1, DeleteKeys
    <2>3. QED
      BY <2>1, <2>2
  <1> HIDE DEF taken
  <1>6. \A u \in Names : Expired(u)' = Expired(u) \ taken[u]
    BY <1>2, <1>4 DEF Expired, TooOld
  <1>7. IsFiniteSet(old) /\ Cardinality(old) \in Nat
    <2>1. old \in SUBSET (DOMAIN dates[t]) /\ IsFiniteSet(DOMAIN dates[t])
      BY <1>1, <1>2 DEF Expired, TooOld, Finite
    <2> HIDE DEF t, old
    <2>2. QED
      BY <2>1, FS_Subset, FS_CardinalityType
  <1>8. RetentionTypeOK'
    <2>1. affected' \in [Names -> Nat]
      BY <1>1, <1>2, <1>3, <1>7 DEF RetentionTypeOK
    <2>2. \A u \in Names : DOMAIN dates'[u] \subseteq DOMAIN dates[u]
      BY <1>4
    <2>3. \A u \in Names : /\ DOMAIN dates'[u] \subseteq Ids[u]
                           /\ \A i \in DOMAIN dates'[u] : dates'[u][i] \in 0 .. today
      BY <1>1, <1>4, <2>2 DEF RetentionTypeOK
    <2>4. run' \in [is : {"none", "running", "finished"}, dry : BOOLEAN,
                    windows : [Names -> Nat], now : 0 .. today', next : DOMAIN Tables]
      BY <1>2 DEF RunType
    <2>5. QED
      BY <1>1, <1>2, <1>5, <2>1, <2>3, <2>4 DEF RetentionTypeOK
  <1>9. Finite'
    <2>1. ASSUME NEW u \in Names
          PROVE  IsFiniteSet(DOMAIN dates'[u])
      <3>1. DOMAIN dates'[u] \in SUBSET (DOMAIN dates[u]) /\ IsFiniteSet(DOMAIN dates[u])
        BY <1>1, <1>4 DEF Finite
      <3>2. QED
        BY <3>1, FS_Subset
    <2>2. QED
      BY <1>1, <1>3, <1>4, <2>1 DEF Finite
  <1>10. Clean'
    BY <1>1, <1>2, <1>4, <1>6 DEF Clean
  <1>11. Counted'
    <2>1. ASSUME NEW u \in Names, Ahead(u)'
          PROVE  IF u = "sessions" THEN Expired(u)' \subseteq due'[u] ELSE Expired(u)' = due'[u]
      <3>1. Ahead(u) /\ u # t
        BY <1>2, <2>1
      <3>2. taken[u] = {}
        <4>1. SUFFICES ASSUME taken[u] # {}
                       PROVE  FALSE
          OBVIOUS
        <4>2. u = "prompt_responses" /\ t = "prompt_requests"
          BY <1>4, <3>1, <4>1
        <4>3. Place[t] = run.next
          BY <1>1, Places, TableNames DEF RetentionTypeOK
        <4>4. QED
          BY <3>1, <4>2, <4>3, Places DEF Ahead
      <3>3. Expired(u)' = Expired(u)
        BY <1>6, <3>2
      <3>4. QED
        BY <1>1, <1>3, <3>1, <3>3 DEF Counted
    <2>2. ASSUME NEW u \in Names, Behind(u)'
          PROVE  \/ affected'[u] = Cardinality(due'[u])
                 \/ u = "sessions" /\ affected'[u] < Cardinality(due'[u])
      <3>1. CASE u = t
        <4>1. affected'[u] = Cardinality(old)
          BY <1>1, <1>2, <1>3, <3>1 DEF RetentionTypeOK
        <4>2. IF u = "sessions" THEN old \in SUBSET due[u] ELSE old = due[u]
          BY <1>1, <1>2, <3>1 DEF Counted
        <4>3. IsFiniteSet(due[u])
          BY <1>1 DEF Finite
        <4> HIDE DEF t, old
        <4>4. CASE u = "sessions"
          BY <1>3, <1>7, <4>1, <4>2, <4>3, <4>4, FS_Subset, FS_CardinalityType
        <4>5. CASE u # "sessions"
          BY <1>3, <4>1, <4>2, <4>5
        <4>6. QED
          BY <4>4, <4>5
      <3>2. CASE u # t
        <4>1. Behind(u) /\ affected'[u] = affected[u]
          BY <1>1, <1>2, <1>3, <2>2, <3>2 DEF RetentionTypeOK
        <4>2. QED
          BY <1>1, <1>3, <4>1 DEF Counted
      <3>3. QED
        BY <3>1, <3>2
    <2>3. QED
      BY <2>1, <2>2 DEF Counted
  <1>12. QED
    BY <1>5, <1>8, <1>9, <1>10, <1>11 DEF RetentionInv

\* A run that is interrupted has nothing to answer for.
LEMMA InterruptedInv ==
    ASSUME RetentionInv, Interrupted
    PROVE  RetentionInv'
  <1>1. /\ run' = [run EXCEPT !.is = "none"]
        /\ UNCHANGED <<today, dates, sessionOf, requestOf, affected, due>>
        /\ run \in RunType
    BY DEF Interrupted, database, RetentionInv, RetentionTypeOK, RunType
  <1>2. run' \in RunType /\ run'.is = "none"
    BY <1>1 DEF RunType
  <1>3. RetentionTypeOK'
    BY <1>1, <1>2 DEF RetentionInv, RetentionTypeOK, RunType
  <1>4. Finite' /\ KeysIntact'
    BY <1>1 DEF RetentionInv, Finite, KeysIntact, Has
  <1>5. Clean' /\ Counted'
    BY <1>2 DEF Clean, Counted, Behind, Ahead
  <1>6. QED
    BY <1>3, <1>4, <1>5 DEF RetentionInv

\* The invariant is inductive.
LEMMA NextRetentionInv == RetentionInv /\ [RetentionNext]_retentionVars => RetentionInv'
  <1> SUFFICES ASSUME RetentionInv, [RetentionNext]_retentionVars
               PROVE  RetentionInv'
    OBVIOUS
  <1>1. CASE UNCHANGED retentionVars
    <2>1. UNCHANGED <<today, dates, sessionOf, requestOf, run, affected, due>>
      BY <1>1 DEF retentionVars, database, process
    <2>2. RetentionTypeOK' /\ Finite' /\ KeysIntact'
      BY <2>1 DEF RetentionInv, RetentionTypeOK, Finite, KeysIntact, Has
    <2>3. Clean' /\ Counted'
      BY <2>1 DEF RetentionInv, Clean, Counted, Behind, Ahead, Expired, TooOld
    <2>4. QED
      BY <2>2, <2>3 DEF RetentionInv
  <1>2. QED
    BY <1>1, DayPassesInv, RecordPromptInv, RecordResponseInv, RecordAgentInv,
       BeginInv, NextTableInv, InterruptedInv DEF RetentionNext

\* Every reachable state satisfies the invariant.
THEOREM RetentionInvariance == RetentionSpec => []RetentionInv
  BY InitRetentionInv, NextRetentionInv, PTL DEF RetentionSpec

----------------------------------------------------------------------------
(* Retention: what follows from it *)

\* "The next run finishes the job" (retention.py:13): the keys hold at all
\* times, and a run that finished left no row older than its window.
THEOREM JobGetsDone == RetentionSpec => []NextRunFinishesTheJob
  <1>1. RetentionInv => NextRunFinishesTheJob
    BY DEF RetentionInv, NextRunFinishesTheJob, Clean, Behind, Expired
  <1>2. QED
    BY <1>1, RetentionInvariance, PTL

\* The report of a run is honest, dry or not (retention.py:35).
THEOREM ReportsAreHonest == RetentionSpec => []CountsAreHonest
  <1>1. RetentionInv => CountsAreHonest
    BY DEF RetentionInv, CountsAreHonest, Counted, Behind
  <1>2. QED
    BY <1>1, RetentionInvariance, PTL

\* A row leaves only through a run that is not dry, when its window - or, for
\* a response, its prompt's - has passed (retention.py, audit/models.py).
THEOREM NothingLeavesEarly == RetentionSpec => OnlyExpiredRowsLeave
  <1> DEFINE Due(t, i) ==
        /\ ~run.dry
        /\ \/ run.windows[t] > 0 /\ dates[t][i] < today - run.windows[t]
           \/ t = "prompt_responses"
              /\ run.windows["prompt_requests"] > 0
              /\ dates["prompt_requests"][i] < today - run.windows["prompt_requests"]
  <1>1. ASSUME RetentionInv, RetentionNext,
               NEW t \in Names, NEW i \in DOMAIN dates[t] \ DOMAIN dates'[t]
        PROVE  Due(t, i)
    <2>1. RetentionTypeOK /\ Finite /\ DOMAIN dates = Names
      BY <1>1 DEF RetentionInv, Finite
    <2>2. NextTable
      <3>1. ~(UNCHANGED dates)
        BY <1>1
      <3>2. ASSUME NEW r \in Prompts, NEW s \in Sessions, RecordPrompt(r, s)
            PROVE  FALSE
        BY <1>1, <2>1, <3>2 DEF RecordPrompt, Written
      <3>3. ASSUME NEW r \in Prompts, RecordResponse(r)
            PROVE  FALSE
        BY <1>1, <2>1, <3>3 DEF RecordResponse, Written
      <3>4. ASSUME NEW e \in AgentEvents, NEW r \in Prompts, RecordAgent(e, r)
            PROVE  FALSE
        BY <1>1, <2>1, <3>4 DEF RecordAgent, Written
      <3>5. ~DayPasses /\ ~Interrupted
        BY <3>1 DEF DayPasses, Interrupted, database
      <3>6. ~ \E days \in Defaults, override \in Overrides, dry \in BOOLEAN :
                Begin(days, override, dry)
        BY <3>1 DEF Begin, database
      <3>7. QED
        BY <1>1, <3>2, <3>3, <3>4, <3>5, <3>6 DEF RetentionNext
    <2> DEFINE u == Tables[run.next]
               old == Expired(u)
    <2>3. ~run.dry /\ Delete(u, old)
      BY <1>1, <2>2 DEF NextTable, database, Expired
    <2>4. u \in Names
      BY <2>1, TableNames, Places DEF RetentionTypeOK
    <2> HIDE DEF u, old
    <2>5. /\ i \in Cascade(u, old)[t]
          /\ i \in old
          /\ t = u \/ (t = "prompt_responses" /\ u = "prompt_requests")
      BY <1>1, <2>1, <2>3, <2>4, DeleteProperties
    <2>6. /\ i \in DOMAIN dates[u]
          /\ run.windows[u] # 0 /\ dates[u][i] + run.windows[u] < run.now
          /\ run.windows[u] \in Nat /\ run.now \in 0 .. today
      BY <2>1, <2>4, <2>5, ExpiredProperties DEF old
    <2>7. dates[u][i] \in 0 .. today /\ today \in Nat
      BY <2>1, <2>4, <2>6 DEF RetentionTypeOK
    <2>8. run.windows[u] > 0 /\ dates[u][i] < today - run.windows[u]
      BY <2>6, <2>7
    <2>9. QED
      BY <2>3, <2>5, <2>8
  <1>2. RetentionInv /\ [RetentionNext]_retentionVars
          => [\A t \in Names :
                \A i \in DOMAIN dates[t] \ DOMAIN dates'[t] : Due(t, i)]_retentionVars
    BY <1>1
  <1>3. QED
    BY <1>2, RetentionInvariance, PTL DEF RetentionSpec, OnlyExpiredRowsLeave

=============================================================================
