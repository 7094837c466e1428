---------------------------- MODULE AuditService ----------------------------
(***************************************************************************)
(* The audit writer: backend/app/audit/service.py with the transactions of *)
(* audit/db.py and the keys of audit/models.py.                            *)
(*                                                                         *)
(* Producers enqueue without awaiting; one consumer task takes batches and *)
(* awaits Postgres; close() queues the stop sentinel and waits a bounded   *)
(* time.  Interleaved are the producers, the consumer, Postgres and the    *)
(* shutdown.  Each prompt request records its events in the order of       *)
(* orchestration/pipeline.py, all requests under one session; the agent    *)
(* it spawns leaves two events, whenever the request is known.             *)
(***************************************************************************)
EXTENDS Lists

CONSTANTS
    Requests,       \* the prompt requests of the run
    MaxQueueSize,   \* max_queue_size
    BatchMax,       \* _BATCH_MAX
    MaxFaults,      \* bound of the model: transactions Postgres fails
    LostAck         \* whether a commit may take effect and still fail

ASSUME AuditAssumption ==
    /\ MaxQueueSize \in Nat \ {0}
    /\ BatchMax \in Nat \ {0}
    /\ MaxFaults \in Nat
    /\ LostAck \in BOOLEAN

VARIABLES
    queue,       \* _queue: events, and Stop
    closing,     \* close(): open, draining, or ended; _closed but for open
    consumer,    \* the consumer task: where it awaits, or how it ended
    batch,       \* the events it took and still has to account for
    retry,       \* how many of them the event-by-event retry is through with
    stopSeen,    \* it took the sentinel along
    rows,        \* the rows of all tables, in order of commit
    (* history *)
    recorded,    \* the kinds of event each request recorded
    accepted,    \* the events _enqueue put into the queue
    logged,      \* events given up with a log record
    overflowed,  \* an event was dropped for want of room
    faults       \* transactions Postgres failed

auditVars == <<queue, closing, consumer, batch, retry, stopSeen, rows>>
history == <<recorded, accepted, logged, overflowed, faults>>
vars == <<auditVars, history>>

Kinds == {"session", "request", "response", "spawned", "ended"}

Events == [request : Requests, kind : Kinds]

Event(r, kind) == [request |-> r, kind |-> kind]

Stop == [request |-> "none", kind |-> "stop"]

In(e, q) == \E i \in DOMAIN q : q[i] = e

Init ==
    /\ queue = << >>
    /\ closing = "open"
    /\ consumer = "get"
    /\ batch = << >>
    /\ retry = 0
    /\ stopSeen = FALSE
    /\ rows = << >>
    /\ recorded = [r \in Requests |-> {}]
    /\ accepted = {}
    /\ logged = {}
    /\ overflowed = FALSE
    /\ faults = 0

----------------------------------------------------------------------------
(* Producers *)

\* put_nowait(), after the oldest entry of a full queue was dropped and logged.
Put(e) ==
    IF Len(queue) < MaxQueueSize
    THEN /\ queue' = Append(queue, e)
         /\ UNCHANGED <<logged, overflowed>>
    ELSE /\ queue' = Append(Tail(queue), e)
         /\ logged' = logged \union {Head(queue)}
         /\ overflowed' = TRUE

\* Variant with a fault: the request is recorded without its session.
NeededWithoutSession(kind) ==
    CASE kind \in {"session", "request"} -> {}
      [] kind \in {"response", "spawned"} -> {"request"}
      [] kind = "ended" -> {"spawned"}

\* What the pipeline recorded before it records an event of this kind.
Needed(kind) ==
    CASE kind = "session" -> {}
      [] kind = "request" -> {"session"}
      [] kind \in {"response", "spawned"} -> {"request"}
      [] kind = "ended" -> {"spawned"}

\* _enqueue(); after close() it only leaves a log record.
Emit(r, kind) ==
    /\ kind \notin recorded[r]
    /\ Needed(kind) \subseteq recorded[r]
    /\ recorded' = [recorded EXCEPT ![r] = @ \union {kind}]
    /\ IF closing = "open"
       THEN Put(Event(r, kind)) /\ accepted' = accepted \union {Event(r, kind)}
       ELSE /\ logged' = logged \union {Event(r, kind)}
            /\ UNCHANGED <<queue, accepted, overflowed>>
    /\ UNCHANGED <<closing, consumer, batch, retry, stopSeen, rows, faults>>

----------------------------------------------------------------------------
(* The consumer *)

\* The batch is done with; the sentinel ends the task.
EndBatch(stop) ==
    /\ consumer' = IF stop THEN "stopped" ELSE "get"
    /\ batch' = << >>

\* How many events one batch takes: up to the sentinel, or BatchMax.
IsBatch(n) ==
    /\ n <= BatchMax
    /\ \A i \in 1 .. n : queue[i] # Stop
    /\ n < BatchMax /\ n < Len(queue) => queue[n + 1] = Stop

\* get() returns and the batch is filled.  The sentinel is taken along when it
\* ends the batch; a full batch leaves it for the next round.
TakeBatch ==
    /\ consumer = "get"
    /\ queue # << >>
    /\ \E n \in 0 .. Len(queue) :
        LET taken == SubSeq(queue, 1, n)
            stop  == n < Len(queue) /\ n < BatchMax
        IN
        /\ IsBatch(n)
        /\ stopSeen' = stop
        /\ queue' = SubSeq(queue, n + (IF stop THEN 2 ELSE 1), Len(queue))
        /\ IF n = 0
           THEN EndBatch(stop)
           ELSE batch' = taken /\ consumer' = "writing"
    /\ retry' = 0
    /\ UNCHANGED <<closing, rows, history>>

SessionStored(table) == \E i \in DOMAIN table : table[i].kind = "session"

\* INSERT of e into a database that holds the rows of table: foreign keys, the
\* primary key of a request, and the upsert of the session.
Accepts(table, e) ==
    CASE e.kind = "session" -> TRUE
      [] e.kind = "request" -> SessionStored(table) /\ ~In(e, table)
      [] e.kind \in {"response", "spawned", "ended"} -> In(Event(e.request, "request"), table)

\* One transaction that inserts the events of q in turn.
AcceptsAll(q) == \A i \in DOMAIN q : Accepts(rows \o SubSeq(q, 1, i - 1), q[i])

Committed(q) ==
    /\ AcceptsAll(q)
    /\ rows' = rows \o q
    /\ UNCHANGED faults

\* A constraint refuses it, or the connection fails - perhaps after the commit.
Failed(q) ==
    \/ ~AcceptsAll(q) /\ UNCHANGED <<rows, faults>>
    \/ /\ faults < MaxFaults
       /\ faults' = faults + 1
       /\ \/ rows' = rows
          \/ LostAck /\ AcceptsAll(q) /\ rows' = rows \o q

WriteUnchanged == UNCHANGED <<queue, closing, stopSeen, recorded, accepted,
                              overflowed>>

\* The batch is written, or it was one event and is given up.
WriteBatch ==
    /\ consumer = "writing"
    /\ \/ Committed(batch) /\ UNCHANGED logged
       \/ Len(batch) = 1 /\ Failed(batch) /\ logged' = logged \union {batch[1]}
    /\ EndBatch(stopSeen)
    /\ UNCHANGED retry
    /\ WriteUnchanged

\* The batch failed: its events are to be retried one by one.
BatchFails ==
    /\ consumer = "writing"
    /\ Len(batch) > 1
    /\ Failed(batch)
    /\ consumer' = "retrying"
    /\ UNCHANGED <<batch, retry, logged>>
    /\ WriteUnchanged

\* Variant with a fault: the batch is retried from its end.
RetryFromEnd ==
    /\ consumer = "retrying"
    /\ LET e == batch[Len(batch) - retry] IN
         \/ Committed(<<e>>) /\ UNCHANGED logged
         \/ Failed(<<e>>) /\ logged' = logged \union {e}
    /\ retry' = retry + 1
    /\ IF retry' = Len(batch)
       THEN EndBatch(stopSeen)
       ELSE UNCHANGED <<consumer, batch>>
    /\ WriteUnchanged

\* Variant with a fault: an event is retried until it succeeds.
RetryUntilStored ==
    /\ consumer = "retrying"
    /\ \/ /\ Committed(<<batch[retry + 1]>>)
          /\ retry' = retry + 1
       \/ Failed(<<batch[retry + 1]>>) /\ UNCHANGED retry
    /\ IF retry' = Len(batch)
       THEN EndBatch(stopSeen)
       ELSE UNCHANGED <<consumer, batch>>
    /\ UNCHANGED logged
    /\ WriteUnchanged

\* The next event of the failed batch, in a transaction of its own.
RetryOne ==
    /\ consumer = "retrying"
    /\ LET e == batch[retry + 1] IN
         \/ Committed(<<e>>) /\ UNCHANGED logged
         \/ Failed(<<e>>) /\ logged' = logged \union {e}
    /\ retry' = retry + 1
    /\ IF retry' = Len(batch)
       THEN EndBatch(stopSeen)
       ELSE UNCHANGED <<consumer, batch>>
    /\ WriteUnchanged

----------------------------------------------------------------------------
(* close() *)

Close ==
    /\ closing = "open"
    /\ closing' = "draining"
    /\ Put(Stop)
    /\ UNCHANGED <<consumer, batch, retry, stopSeen, rows, recorded, accepted,
                   faults>>

Drained ==
    /\ closing = "draining"
    /\ consumer = "stopped"
    /\ closing' = "ended"
    /\ UNCHANGED <<queue, consumer, batch, retry, stopSeen, rows,
                   history>>

\* The drain exceeds its timeout because Postgres hangs: the consumer is
\* cancelled in the transaction it awaits, which rolls back; what it held and
\* what is queued is lost.
DrainTimesOut ==
    /\ closing = "draining"
    /\ consumer \in {"writing", "retrying"}
    /\ consumer' = "cancelled"
    /\ closing' = "ended"
    /\ UNCHANGED <<queue, batch, retry, stopSeen, rows, recorded,
                   accepted, logged, overflowed, faults>>
----------------------------------------------------------------------------

Consume == TakeBatch \/ WriteBatch \/ BatchFails \/ RetryOne

Terminated == closing = "ended" /\ UNCHANGED vars

Next ==
    \/ \E r \in Requests, kind \in Kinds : Emit(r, kind)
    \/ Consume
    \/ Close \/ Drained \/ DrainTimesOut
    \/ Terminated

Spec == Init /\ [][Next]_vars

(* The consumer runs whenever it can, Postgres answers every statement in  *)
(* the end, and close() sees the consumer end.  Nobody owes an event or a  *)
(* shutdown.                                                               *)
FairSpec == Spec /\ WF_vars(Consume) /\ WF_vars(Drained)

----------------------------------------------------------------------------
(* Properties *)

TypeOK ==
    /\ queue \in Seq(Events \union {Stop})
    /\ closing \in {"open", "draining", "ended"}
    /\ consumer \in {"get", "writing", "retrying", "stopped", "cancelled"}
    /\ batch \in Seq(Events)
    /\ retry \in 0 .. BatchMax
    /\ stopSeen \in BOOLEAN
    /\ rows \in Seq(Events)
    /\ recorded \in [Requests -> SUBSET Kinds]
    /\ accepted \subseteq Events
    /\ logged \subseteq Events
    /\ overflowed \in BOOLEAN
    /\ faults \in 0 .. MaxFaults

\* What the consumer holds and has not decided yet.
InHand == SubSeq(batch, retry + 1, Len(batch))

Pending == {e \in Events : In(e, queue) \/ In(e, InHand)}

(* Only faults and overflow lose events: batching and the order in which a *)
(* request records respect the foreign keys, so Postgres refuses nothing   *)
(* on its own account.                                                     *)
OnlyFaultsLose ==
    /\ TypeOK
    /\ faults = 0 /\ ~overflowed => logged \intersect accepted = {}

\* A row the retry inserted a second time does not count.
FirstCommits == Firsts(rows)

Undecided == InHand \o Filter(queue, Events)

Service ==
    CASE closing = "open"     -> "open"
      [] closing = "draining" -> "closing"
      [] closing = "ended"    -> "ended"

Trail == INSTANCE AuditTrail WITH
    backlog <- Undecided,
    stored <- FirstCommits,
    given <- logged,
    service <- Service

(* The queue with its overflow policy, the batches with their event-by-    *)
(* event retry, failing transactions, lost acknowledgements and a shutdown *)
(* that races them keep the promise of AuditTrail: no event disappears     *)
(* without a log record (failure policy, service.py:9-22), what is stored  *)
(* keeps the order in which it was recorded, and a drain that ends by      *)
(* itself has decided everything (service.py:328-329).                     *)
ImplementsAuditTrail == Trail!Spec

(* Every event is decided, however many transactions fail, unless the      *)
(* drain gave up on it.                                                    *)
EveryEventDecided ==
    \A e \in Events : e \in Pending ~> (e \notin Pending \/ consumer = "cancelled")
=============================================================================
