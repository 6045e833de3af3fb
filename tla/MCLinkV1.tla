------------------------------- MODULE MCLinkV1 -------------------------------
(* Two channels of the connection, the id of each on one chain being the     *)
(* other's on the other chain.  x is unordered and y is ordered; p1 on x     *)
(* expires by height and p2 on y by time, and p3, which comes after p2,      *)
(* never does.  f, on z, is for a third chain, where z has the id that y has *)
(* on B; it expires by time.                                                 *)
EXTENDS LinkV1

Crossed == [c \in Channels |-> CASE c = "x" -> 0 [] c = "y" -> 1 [] c = "z" -> 2]
CrossedB == [c \in Channels |-> IF c = "x" THEN 1 ELSE 0]
OnChannel == [p \in Packets |-> CASE p = "p1" -> "x" [] p = "f" -> "z" [] OTHER -> "y"]
InSequence == [p \in Packets |-> IF p = "p3" THEN 2 ELSE 1]
ByHeight == [p \in Packets |-> IF p = "p1" THEN 5 ELSE 0]
ByTime == [p \in Packets |-> IF p \in {"p2", "f"} THEN 4 ELSE 0]
\* For one packet alone, before any other makes blocks.
Soon == [p \in Packets |-> 3]
Never == [p \in Packets |-> 0]

==============================================================================
