------------------------------- MODULE IdPool -------------------------------
(***************************************************************************)
(* What an allocator of identifiers promises: an identifier that is handed *)
(* out is not handed out again until it has been given back, and only an   *)
(* identifier that is out can be given back.                               *)
(***************************************************************************)
CONSTANT Ids

VARIABLE live

TypeOK == live \subseteq Ids

Init == live = {}

Acquire(i) == i \in Ids \ live /\ live' = live \cup {i}

Release(i) == i \in live /\ live' = live \ {i}

Next == \E i \in Ids : Acquire(i) \/ Release(i)

Spec == Init /\ [][Next]_live
=============================================================================
