---------------------------- MODULE MCStaleness ----------------------------
(* Two links, whose trusting periods leave just the room ConfigFits asks for. *)
EXTENDS Staleness

JustEnough == [k \in Clients |-> IF FirstOfLink(k) THEN 30 ELSE 33]

==============================================================================
