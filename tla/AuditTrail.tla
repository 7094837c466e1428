----------------------------- MODULE AuditTrail -----------------------------
(***************************************************************************)
(* What the audit service promises everyone who records an event           *)
(* (backend/app/audit/service.py, module docstring): recording never waits *)
(* and never fails; an event accepted before the shutdown is stored in the *)
(* order of acceptance or given up with a log record, and nothing is both  *)
(* undecided and forgotten; a shutdown decides what is left or cuts it     *)
(* off.                                                                    *)
(*                                                                         *)
(* A step is left open where the promise is open: which event makes room   *)
(* in a full queue, how much is stored at once, and whether a store that   *)
(* is reported as failed took place.                                       *)
(***************************************************************************)
EXTENDS Lists

CONSTANT Events

VARIABLES
    backlog,   \* accepted and undecided, oldest first
    stored,    \* what the database holds, in the order of the first commit
    given,     \* given up with a log record
    service    \* open, closing, or ended

trailVars == <<backlog, stored, given, service>>

Init ==
    /\ backlog = << >>
    /\ stored = << >>
    /\ given = {}
    /\ service = "open"

Without(i) == SubSeq(backlog, 1, i - 1) \o SubSeq(backlog, i + 1, Len(backlog))

Fresh == {e \in Events : \A i \in DOMAIN stored : stored[i] # e}

StoredWith(events) == stored \o Filter(events, Fresh)

Accept(e) ==
    /\ service = "open"
    /\ backlog' = Append(backlog, e)
    /\ UNCHANGED <<stored, given, service>>

\* A full queue: an older event is given up for the new one.
AcceptFor(i, e) ==
    /\ service = "open"
    /\ i \in DOMAIN backlog
    /\ backlog' = Append(Without(i), e)
    /\ given' = given \union {backlog[i]}
    /\ UNCHANGED <<stored, service>>

\* After close() an event is only logged.
Refuse(e) ==
    /\ service # "open"
    /\ given' = given \union {e}
    /\ UNCHANGED <<backlog, stored, service>>

\* The n oldest events are stored.
Store(n) ==
    /\ service # "ended"
    /\ n \in 1 .. Len(backlog)
    /\ stored' = StoredWith(SubSeq(backlog, 1, n))
    /\ backlog' = SubSeq(backlog, n + 1, Len(backlog))
    /\ UNCHANGED <<given, service>>

\* The store is reported as failed and will be tried again.
StoreUnnoticed(n) ==
    /\ service # "ended"
    /\ n \in 1 .. Len(backlog)
    /\ stored' = StoredWith(SubSeq(backlog, 1, n))
    /\ UNCHANGED <<backlog, given, service>>

\* The oldest event is given up, stored or not.
GiveUp ==
    /\ service # "ended"
    /\ backlog # << >>
    /\ stored' \in {stored, StoredWith(<<Head(backlog)>>)}
    /\ given' = given \union {Head(backlog)}
    /\ backlog' = Tail(backlog)
    /\ UNCHANGED service

\* close(): the sentinel may itself need room.
Close ==
    /\ service = "open"
    /\ service' = "closing"
    /\ \/ UNCHANGED <<backlog, given>>
       \/ \E i \in DOMAIN backlog :
            backlog' = Without(i) /\ given' = given \union {backlog[i]}
    /\ UNCHANGED stored

Drained ==
    /\ service = "closing"
    /\ backlog = << >>
    /\ service' = "ended"
    /\ UNCHANGED <<backlog, stored, given>>

CutOff ==
    /\ service = "closing"
    /\ service' = "ended"
    /\ UNCHANGED <<backlog, stored, given>>

Next ==
    \/ \E e \in Events :
        \/ Accept(e)
        \/ \E i \in DOMAIN backlog : AcceptFor(i, e)
        \/ Refuse(e)
    \/ \E n \in 1 .. Len(backlog) : Store(n) \/ StoreUnnoticed(n)
    \/ GiveUp
    \/ Close \/ Drained \/ CutOff

Spec == Init /\ [][Next]_trailVars
=============================================================================
