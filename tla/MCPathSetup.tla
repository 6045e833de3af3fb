----------------------------- MODULE MCPathSetup -----------------------------
(* One add-path command for IBC v1, or two for v2 beside each other, on      *)
(* chains one of which has a light client already.                          *)
EXTENDS PathSetup

OneOrTwo == {<<1, 0>>, <<2, 2>>}
OneOnA == [s \in Sides |-> IF s = "A" THEN 1 ELSE 0]

==============================================================================
