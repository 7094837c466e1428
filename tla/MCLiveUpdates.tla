--------------------------- MODULE MCLiveUpdates ---------------------------
(* LiveUpdates with one client and a few agents. *)
EXTENDS LiveUpdates

CONSTANTS a1, a2

OneAgent  == {a1}
TwoAgents == {a1, a2}
NoBodies  == {}
=============================================================================
