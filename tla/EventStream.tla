---------------------------- MODULE EventStream ----------------------------
(***************************************************************************)
(* The way of a store event to one WebSocket client: EventBus and          *)
(* Subscription (backend/app/state/events.py) and the connection handler   *)
(* that drains the subscription (backend/app/api/websocket.py).            *)
(*                                                                         *)
(* Subscriptions share nothing but the sequence number, so one is          *)
(* modelled.  publish() runs inside the store's mutation and the handler   *)
(* subscribes and reads the store without an await in between; the         *)
(* interleaved parties are the publishers, the streaming task - which      *)
(* suspends in send_json() while the transport's buffer is full - the      *)
(* client, and whatever breaks the connection.                             *)
(*                                                                         *)
(* Next lets anyone publish anything; LiveUpdates publishes the changes of *)
(* the registry instead.                                                   *)
(***************************************************************************)
EXTENDS Naturals, Sequences

CONSTANTS
    Bodies,    \* what an event may say
    MaxQueue,  \* max_queue of the bus
    MaxWire,   \* bound of the model: messages the transport buffers
    MaxSeq     \* bound of the model: events ever published

ASSUME StreamAssumption == MaxQueue \in Nat \ {0} /\ MaxWire \in Nat \ {0}

VARIABLES
    seq,         \* EventBus._seq
    subscribed,  \* the subscription is in the bus's registry
    queue,       \* Subscription._queue
    degraded,    \* Subscription._degraded
    afterSeq,    \* snapshot_seq of the connection
    wire,        \* messages sent and not yet received by the client
    (* history *)
    sent,        \* the newest state the client was sent, as a sequence number
    silentGap    \* an event was lost and the next message did not say so

streamVars == <<seq, subscribed, queue, degraded, afterSeq, wire, sent, silentGap>>

Offline ==
    /\ subscribed' = FALSE
    /\ queue' = << >>
    /\ degraded' = FALSE
    /\ wire' = << >>
    /\ UNCHANGED <<seq, afterSeq, sent, silentGap>>

StreamInit ==
    /\ seq = 0
    /\ subscribed = FALSE
    /\ queue = << >>
    /\ degraded = FALSE
    /\ afterSeq = 0
    /\ wire = << >>
    /\ sent = 0
    /\ silentGap = FALSE

Snapshot(body) == [type |-> "snapshot", body |-> body, degraded |-> FALSE]

Event(body, flag) == [type |-> "event", body |-> body, degraded |-> flag]

Stamped(bodies) == [i \in 1 .. Len(bodies) |-> [seq |-> seq + i, body |-> bodies[i]]]

\* How many entries of q are over the limit of the subscriber queue.
Overflow(q) == IF Len(q) > MaxQueue THEN Len(q) - MaxQueue ELSE 0

\* Variant with a fault: a loss is not remembered.
PublishSilently(bodies) ==
    LET all == queue \o Stamped(bodies) IN
    /\ seq' = seq + Len(bodies)
    /\ queue' = IF subscribed THEN SubSeq(all, Overflow(all) + 1, Len(all)) ELSE queue
    /\ UNCHANGED <<degraded, subscribed, afterSeq, wire, sent, silentGap>>

\* Variant with a fault: a full queue loses the newest events.
PublishDropsNewest(bodies) ==
    LET all == queue \o Stamped(bodies) IN
    /\ seq' = seq + Len(bodies)
    /\ IF subscribed
       THEN /\ queue' = SubSeq(all, 1, Len(all) - Overflow(all))
            /\ degraded' = (degraded \/ Overflow(all) > 0)
       ELSE UNCHANGED <<queue, degraded>>
    /\ UNCHANGED <<subscribed, afterSeq, wire, sent, silentGap>>

\* publish() of the bodies in turn: a full queue loses its oldest events and
\* the subscription is marked degraded.
Publish(bodies) ==
    LET all == queue \o Stamped(bodies) IN
    /\ seq' = seq + Len(bodies)
    /\ IF subscribed
       THEN /\ queue' = SubSeq(all, Overflow(all) + 1, Len(all))
            /\ degraded' = (degraded \/ Overflow(all) > 0)
       ELSE UNCHANGED <<queue, degraded>>
    /\ UNCHANGED <<subscribed, afterSeq, wire, sent, silentGap>>

\* The handler accepts, subscribes, notes bus.seq and sends the snapshot.
Connect(body) ==
    /\ ~subscribed
    /\ subscribed' = TRUE
    /\ queue' = << >>
    /\ degraded' = FALSE
    /\ afterSeq' = seq
    /\ wire' = <<Snapshot(body)>>
    /\ sent' = seq
    /\ UNCHANGED <<seq, silentGap>>

\* _stream_events(): one event leaves the queue; the ones the snapshot covers
\* are skipped, the flag is read and cleared and goes out with the event.
Stream ==
    /\ subscribed
    /\ queue # << >>
    /\ Len(wire) < MaxWire
    /\ queue' = Tail(queue)
    /\ LET event == Head(queue) IN
         IF event.seq <= afterSeq
         THEN UNCHANGED <<degraded, wire, sent, silentGap>>
         ELSE /\ degraded' = FALSE
              /\ wire' = Append(wire, Event(event.body, degraded))
              /\ sent' = event.seq
              /\ silentGap' = (silentGap \/ (event.seq # sent + 1 /\ ~degraded))
    /\ UNCHANGED <<seq, subscribed, afterSeq>>

\* The connection breaks, on whichever side: the handler unsubscribes, and
\* what was on its way is lost.
Disconnect == subscribed /\ Offline

Receive ==
    /\ wire # << >>
    /\ wire' = Tail(wire)
    /\ UNCHANGED <<seq, subscribed, queue, degraded, afterSeq, sent, silentGap>>

StreamNext ==
    \/ seq < MaxSeq /\ \E body \in Bodies : Publish(<<body>>)
    \/ \E body \in Bodies : Connect(body)
    \/ Stream
    \/ Receive
    \/ Disconnect

StreamSpec == StreamInit /\ [][StreamNext]_streamVars

----------------------------------------------------------------------------
(* Properties *)

\* Everything sent and queued, in the order it will arrive.
OnTheWay == wire \o [i \in DOMAIN queue |-> Event(queue[i].body, FALSE)]

Message == [type : {"snapshot", "event"}, body : Bodies, degraded : BOOLEAN]

StreamTypeOK ==
    /\ seq \in Nat
    /\ subscribed \in BOOLEAN
    /\ queue \in Seq([seq : Nat, body : Bodies])
    /\ degraded \in BOOLEAN
    /\ afterSeq \in Nat
    /\ wire \in Seq(Message)
    /\ sent \in Nat
    /\ silentGap \in BOOLEAN

(* A client never misses a change without being told: whenever an event    *)
(* was dropped for it, the next message it is sent is marked degraded      *)
(* (websocket.py, _stream_events), however overflow, delivery and the      *)
(* clearing of the flag interleave.                                        *)
NoSilentGap == ~silentGap

(* What a subscribed client still has coming is a gapless run of events up *)
(* to the newest one, never more than the queue's limit, and it continues  *)
(* what the client has - snapshot included - unless the subscription is    *)
(* marked degraded, in which case there is a next event to carry the mark. *)
StreamContinues ==
    subscribed =>
        /\ Len(queue) <= MaxQueue
        /\ \A i \in DOMAIN queue : queue[i].seq = seq - Len(queue) + i
        /\ ~degraded => sent + Len(queue) = seq
        /\ degraded => queue # << >>
        /\ afterSeq <= sent /\ sent + Len(queue) <= seq
=============================================================================
