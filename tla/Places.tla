------------------------------- MODULE Places -------------------------------
(***************************************************************************)
(* Where messages are in the queues of an active object: a queue holds     *)
(* events of several kinds, and a property is about those of one kind.     *)
(***************************************************************************)
EXTENDS Sequences

\* The places of s that hold an element of P.
Positions(s, P) == {i \in DOMAIN s : s[i] \in P}

\* The messages s carries in the elements of P, and that each is there once.
Carried(s, P) == {s[i].msg : i \in Positions(s, P)}
OnceIn(s, P)  == \A i, j \in Positions(s, P) : s[i].msg = s[j].msg => i = j

\* Every one of the messages is in one of the places, and in one only.
EachInOnePlace(messages, places) ==
    /\ UNION {places[i] : i \in DOMAIN places} = messages
    /\ \A i, j \in DOMAIN places : i # j => places[i] \cap places[j] = {}
=============================================================================
