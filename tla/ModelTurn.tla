----------------------------- MODULE ModelTurn -----------------------------
(***************************************************************************)
(* What the gate of backend/app/llm/runtime.py promises its users: the     *)
(* model is used by one call at a time, callers form one line per priority *)
(* class, a caller may give up its place at any time, and whoever leaves   *)
(* the model hands it to the oldest foreground caller in line, else to the *)
(* oldest background one, else leaves it free.                             *)
(*                                                                         *)
(* There are no futures, no dead queue entries and no threads here:        *)
(* LlamaRuntime shows that all of those are invisible.                     *)
(***************************************************************************)
EXTENDS Naturals, Sequences

CONSTANTS Calls, Background

VARIABLES
    holder,         \* the call using the model, as a set of at most one
    foregroundLine,
    backgroundLine

vars == <<holder, foregroundLine, backgroundLine>>

Init ==
    /\ holder = {}
    /\ foregroundLine = << >>
    /\ backgroundLine = << >>

\* A free model is taken at once.
Take(c) ==
    /\ holder = {}
    /\ holder' = {c}
    /\ UNCHANGED <<foregroundLine, backgroundLine>>

\* A busy one is queued for.
Join(c) ==
    /\ holder # {}
    /\ c \notin holder
    /\ IF c \in Background
       THEN backgroundLine' = Append(backgroundLine, c) /\ UNCHANGED foregroundLine
       ELSE foregroundLine' = Append(foregroundLine, c) /\ UNCHANGED backgroundLine
    /\ UNCHANGED holder

Without(line, i) == SubSeq(line, 1, i - 1) \o SubSeq(line, i + 1, Len(line))

\* A caller in line gives up.
Withdraw(c) ==
    /\ \/ \E i \in DOMAIN foregroundLine :
            /\ foregroundLine[i] = c
            /\ foregroundLine' = Without(foregroundLine, i)
            /\ UNCHANGED backgroundLine
       \/ \E i \in DOMAIN backgroundLine :
            /\ backgroundLine[i] = c
            /\ backgroundLine' = Without(backgroundLine, i)
            /\ UNCHANGED foregroundLine
    /\ UNCHANGED holder

\* The user of the model leaves it.
PassOn ==
    /\ holder # {}
    /\ \/ /\ foregroundLine # << >>
          /\ holder' = {Head(foregroundLine)}
          /\ foregroundLine' = Tail(foregroundLine)
          /\ UNCHANGED backgroundLine
       \/ /\ foregroundLine = << >>
          /\ backgroundLine # << >>
          /\ holder' = {Head(backgroundLine)}
          /\ backgroundLine' = Tail(backgroundLine)
          /\ UNCHANGED foregroundLine
       \/ /\ foregroundLine = << >>
          /\ backgroundLine = << >>
          /\ holder' = {}
          /\ UNCHANGED <<foregroundLine, backgroundLine>>

\* What the pipeline's busy guard compares with its limit.
Depth == (IF holder = {} THEN 0 ELSE 1) + Len(foregroundLine) + Len(backgroundLine)

Next ==
    \/ \E c \in Calls : Take(c) \/ Join(c) \/ Withdraw(c)
    \/ PassOn

Spec == Init /\ [][Next]_vars
=============================================================================
