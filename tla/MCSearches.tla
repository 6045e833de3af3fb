------------------------------ MODULE MCSearches ------------------------------
(* Two links; two packets are sent through the client of one of them. *)
EXTENDS Searches

InOrder == [c \in Clients |-> IF c = "c1" THEN 1 ELSE 2]
ByName == [p \in Packets |-> IF p = "q1" THEN "c2" ELSE "c1"]
Numbered == [p \in Packets |-> IF p = "p2" THEN 2 ELSE 1]

==============================================================================
