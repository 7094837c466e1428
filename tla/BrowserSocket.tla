--------------------------- MODULE BrowserSocket ---------------------------
(***************************************************************************)
(* The socket a browser keeps open to the server                           *)
(* (frontend/src/api/ws.ts), at the other end of an EventStream: it        *)
(* connects, hands over every message, closes itself after a degraded one, *)
(* and tries again after every close.                                      *)
(*                                                                         *)
(* The two ends of a broken connection notice it in one step: a server     *)
(* that notices late keeps a subscription nobody reads.  What a message    *)
(* does to the page is up to LiveUpdates and ChatUpdates.                  *)
(***************************************************************************)
EXTENDS EventStream

CONSTANT WsEnabled   \* ws_enabled: with FALSE every handshake is refused

ASSUME SocketAssumption == WsEnabled \in BOOLEAN

VARIABLE socket      \* connecting, open, closing after a degraded message, closed

socketVars == <<streamVars, socket>>

SocketInit == StreamInit /\ socket = "connecting"

\* wsStatus = "open", which lasts until onclose.
SocketLive == socket \in {"open", "closing"}

\* The server accepts the handshake and sends body as its snapshot.
Accepts(body) ==
    /\ WsEnabled
    /\ socket = "connecting"
    /\ Connect(body)
    /\ UNCHANGED socket

SocketOpens ==
    /\ socket = "connecting"
    /\ subscribed
    /\ socket' = "open"
    /\ UNCHANGED streamVars

\* Variant with a fault: the degraded mark is not looked at.
ReceivesTrusting == socket = "open" /\ Receive /\ UNCHANGED socket

\* onmessage; after a degraded message the socket is closed.
Receives ==
    /\ socket = "open"
    /\ Receive
    /\ socket' = IF Head(wire).degraded THEN "closing" ELSE socket

\* onclose: a refusal, a break, or the close() above.
SocketCloses ==
    /\ socket \in {"connecting", "open", "closing"}
    /\ socket' = "closed"
    /\ Offline

\* The retry timer.
Reconnects ==
    /\ socket = "closed"
    /\ socket' = "connecting"
    /\ UNCHANGED streamVars

SocketTypeOK == socket \in {"connecting", "open", "closing", "closed"}
=============================================================================
