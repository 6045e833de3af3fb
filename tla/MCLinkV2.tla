------------------------------ MODULE MCLinkV2 ------------------------------
(* LinkV2 with the constants of its runs. *)
EXTENDS LinkV2

OneWay == [p \in Packets |-> "A"]
BothWays == [p \in Packets |-> IF p = "p3" THEN "B" ELSE "A"]
Never == [p \in Packets |-> 0]
Cosmos == [s \in Sides |-> 0]
GnoOnB == [s \in Sides |-> IF s = "B" THEN 1 ELSE 0]
P3Expires == [p \in Packets |-> IF p = "p3" THEN 3 ELSE 0]
====
