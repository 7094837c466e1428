--------------------------- MODULE MCChatUpdates ---------------------------
(* ChatUpdates with one client and, in one of the runs, another page. *)
EXTENDS ChatUpdates

CONSTANTS mine, theirs

OwnRequests   == 1 .. 2
OwnSession    == {mine}
OwnSessions   == <<mine>>
OwnOnly       == <<mine, mine>>

OwnAndOther   == 1 .. 3
BothSessions  == {mine, theirs}
BothInOrder   == <<mine, theirs>>
ThirdIsTheirs == <<mine, mine, theirs>>

FirstAndLast  == <<"governance", "responding">>
NoBodies      == {}
=============================================================================
