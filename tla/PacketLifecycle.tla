--------------------------- MODULE PacketLifecycle ---------------------------
(***************************************************************************)
(* What a relayed path promises about its packets, with no relayer in it:  *)
(* a packet that was sent is either received and then acknowledged, or     *)
(* timed out, it never goes back, and it never stays half way.  LinkV2 is  *)
(* shown to implement this specification.                                  *)
(***************************************************************************)
CONSTANT Packets

VARIABLE state      \* how far each packet has come

States == {"unsent", "sent", "received", "acked", "timedout"}

\* Move every packet of S, and no other, from one state to the next.
Move(S, from, to) ==
  /\ S # {}
  /\ \A p \in S : state[p] = from
  /\ state' = [p \in Packets |-> IF p \in S THEN to ELSE state[p]]

Init == state = [p \in Packets |-> "unsent"]

Send(S)        == Move(S, "unsent", "sent")
Receive(S)     == Move(S, "sent", "received")
Acknowledge(S) == Move(S, "received", "acked")
TimeOut(S)     == Move(S, "sent", "timedout")

Next == \E S \in SUBSET Packets : Send(S) \/ Receive(S) \/ Acknowledge(S) \/ TimeOut(S)

\* The two ways out of "sent", and the one way out of "received", of packet p.
Deliver(p) == \E S \in SUBSET Packets : p \in S /\ (Receive(S) \/ TimeOut(S))
Finish(p)  == \E S \in SUBSET Packets : p \in S /\ Acknowledge(S)

Spec ==
  /\ Init
  /\ [][Next]_state
  /\ \A p \in Packets : WF_state(Deliver(p)) /\ WF_state(Finish(p))

==============================================================================
