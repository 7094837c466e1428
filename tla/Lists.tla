------------------------------- MODULE Lists -------------------------------
(* The queues of the program, as lists. *)
EXTENDS Naturals, Sequences

\* The entries of the list q at the places N, in the order of q.
AtPlaces(q, N) ==
    LET kept[n \in 0 .. Len(q)] ==
          IF n = 0 THEN << >>
          ELSE IF n \in N THEN Append(kept[n - 1], q[n])
          ELSE kept[n - 1]
    IN  kept[Len(q)]

\* The members of S in q, in the order of q.
Filter(q, S) == AtPlaces(q, {i \in DOMAIN q : q[i] \in S})

\* What q lists, each once and in the order of its first occurrence.
Firsts(q) == AtPlaces(q, {i \in DOMAIN q : \A j \in 1 .. i - 1 : q[j] # q[i]})

\* The lists of the list, one behind the other.
Joined(lists) ==
    LET upTo[n \in 0 .. Len(lists)] ==
          IF n = 0 THEN << >> ELSE upTo[n - 1] \o lists[n]
    IN  upTo[Len(lists)]
=============================================================================
