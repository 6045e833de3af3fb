----------------------------- MODULE LinkV1Proofs -----------------------------
(***************************************************************************)
(* Proofs about LinkV1, for any channels, ids, orders and timeouts, and    *)
(* any number of faults: that no round saves a height past something that  *)
(* is still owed, that the filters by channel find whatever is above the   *)
(* saved heights, and that a batch is refused for expired packets, for     *)
(* packets of another connection, and for the order of its list only.      *)
(***************************************************************************)
EXTENDS LinkV1, WellFoundedInduction, TLAPS

-------------------------------------------------------------------------------
(***************************************************************************)
(* The invariant.                                                          *)
(***************************************************************************)

\* What is owed is not below the saved heights, and what the round at hand
\* has on its heights it still carries.
PacketKept(p) ==
  p \in Ours /\ Pending(p) =>
    /\ sent[p] >= packetHeight
    /\ phase = "split" /\ sent[p] <= newPacket => p \in batch
    /\ phase = "relay" /\ sent[p] <= newPacket => p \in batch \union toTimeout
    /\ phase \in {"acks", "relayAcks"} /\ sent[p] <= newPacket => p \in toTimeout
    /\ phase = "timeouts" /\ sent[p] <= newPacket => p \in batch
    /\ phase = "save" => sent[p] > newPacket

AckKept(p) ==
  Unacked(p) =>
    /\ rcvd[p] >= ackHeight
    /\ phase = "relayAcks" /\ rcvd[p] <= newAck => p \in batch
    /\ phase \in {"timeouts", "save"} => rcvd[p] > newAck

Inv ==
  /\ TypeOK
  /\ packetHeight <= height["A"] /\ newPacket <= height["A"]
  /\ ackHeight <= height["B"] /\ newAck <= height["B"]
  /\ \A p \in Packets : rcvd[p] # 0 => sent[p] # 0 /\ p \in Ours
  /\ phase \in {"split", "relay"} => \A p \in batch : sent[p] # 0
  /\ \A p \in Packets : PacketKept(p) /\ AckKept(p)

-------------------------------------------------------------------------------
(***************************************************************************)
(* The filters.                                                            *)
(***************************************************************************)

\* filterUnreceived keeps a pending packet: no other packet has its sequence
\* on the channel it asks of.
LEMMA PendingFound ==
  ASSUME NEW p \in Ours, Pending(p), sent[p] >= packetHeight
  PROVE  p \in getPendingPackets
<1>0. p \in Packets /\ ChannelOf[p] \in Connection  BY DEF Ours
<1>1. p \in querySentPackets  BY <1>0 DEF Pending, querySentPackets, SentAlike
<1>2. querySentPackets \subseteq Packets  BY DEF querySentPackets
<1>3. Sequence[p] \in packetsPerDestination(querySentPackets, packetId)[packetId[p]]
  BY <1>1 DEF packetsPerDestination
<1>4. ASSUME NEW q \in Ours, IdB[ChannelOf[q]] = packetId[p], Sequence[q] = Sequence[p]
      PROVE  rcvd[q] = 0
  <2>0. q \in Packets /\ ChannelOf[q] \in Connection  BY DEF Ours
  <2>1. ChannelOf[q] = ChannelOf[p]
    BY <1>0, <1>4, <2>0, ChannelAssumption DEF packetId
  <2>2. q = p  BY <1>0, <1>4, <2>0, <2>1, PacketAssumption
  <2> QED  BY <2>2 DEF Pending
<1>5. Sequence[p] \in queryUnreceivedPackets(packetId[p],
                      packetsPerDestination(querySentPackets, packetId)[packetId[p]])
  BY <1>3, <1>4 DEF queryUnreceivedPackets
<1> QED  BY <1>1, <1>5 DEF getPendingPackets, Pending

\* And an acknowledgement that is owed, whose packet is committed.
LEMMA UnackedFound ==
  ASSUME NEW p \in Packets, Unacked(p), sent[p] # 0, rcvd[p] >= ackHeight
  PROVE  p \in getPendingAcks
<1>1. p \in queryWrittenAcks  BY DEF Unacked, queryWrittenAcks
<1>2. Sequence[p] \in packetsPerDestination(queryWrittenAcks, ackId)[ackId[p]]
  BY <1>1 DEF packetsPerDestination
<1>3. IdA[ChannelOf[p]] = ackId[p]  BY DEF ackId
<1>4. Sequence[p] \in queryUnreceivedAcks(ackId[p],
                      packetsPerDestination(queryWrittenAcks, ackId)[ackId[p]])
  BY <1>2, <1>3 DEF queryUnreceivedAcks, Unacked
<1> QED  BY <1>1, <1>4 DEF getPendingAcks

LEMMA InvInit == Init => Inv
BY PacketAssumption DEF Init, Inv, TypeOK, Sides, Phases, Outcomes, PacketKept, AckKept, Pending, Unacked

-------------------------------------------------------------------------------
(***************************************************************************)
(* The steps.                                                              *)
(***************************************************************************)

LEMMA NewBlockInv ==
  ASSUME Inv, NEW s \in Sides, NEW S \in SUBSET Packets, NewBlock(s, S)
  PROVE  Inv'
<1>1. /\ height \in [Sides -> Nat \ {0}] /\ height' = [height EXCEPT ![s] = @ + 1]
      /\ sent' = [p \in Packets |-> IF p \in S THEN height[s] + 1 ELSE sent[p]]
      /\ s = "B" => S = {}
      /\ \A p \in S : sent[p] = 0
      /\ UNCHANGED <<rcvd, outcome, packetHeight, ackHeight, phase, newPacket, newAck,
                     batch, toTimeout, header, faults>>
  BY DEF NewBlock, Inv, TypeOK, savedVars, roundVars
<1>2. /\ height'["A"] \in Nat /\ height'["B"] \in Nat
      /\ height'["A"] >= height["A"] /\ height'["B"] >= height["B"]
      /\ S # {} => height'["A"] = height["A"] + 1 /\ s = "A"
  BY <1>1 DEF Sides
<1>3. TypeOK'  BY <1>1 DEF Inv, TypeOK, Sides
<1>4. \A p \in Packets : rcvd'[p] # 0 => sent'[p] # 0 /\ p \in Ours  BY <1>1 DEF Inv, TypeOK
<1>5. phase' \in {"split", "relay"} => \A p \in batch' : sent'[p] # 0
  BY <1>1 DEF Inv, TypeOK
<1>6. ASSUME NEW p \in Packets PROVE (PacketKept(p) /\ AckKept(p))'
  <2>1. PacketKept(p) /\ AckKept(p)  BY DEF Inv
  <2>2. AckKept(p)'  BY <1>1, <2>1 DEF AckKept, Unacked
  <2>3. CASE p \in S
    <3>1. sent'[p] = height["A"] + 1  BY <1>1, <1>2, <2>3
    <3>2. /\ height["A"] \in Nat /\ packetHeight <= height["A"] /\ newPacket <= height["A"]
          /\ packetHeight \in Nat /\ newPacket \in Nat
      BY <1>1 DEF Inv, TypeOK, Sides
    <3> QED  BY <1>1, <2>2, <3>1, <3>2 DEF PacketKept
  <2>4. CASE p \notin S
    <3>1. sent'[p] = sent[p]  BY <1>1, <2>4
    <3> QED  BY <1>1, <2>1, <2>2, <3>1 DEF PacketKept, Pending
  <2> QED  BY <2>3, <2>4
<1>7. packetHeight' <= height'["A"] /\ newPacket' <= height'["A"]
      /\ ackHeight' <= height'["B"] /\ newAck' <= height'["B"]
  BY <1>1, <1>2 DEF Inv, TypeOK, Sides
<1> QED  BY <1>3, <1>4, <1>5, <1>6, <1>7 DEF Inv

\* What the other relayer does is to packets of the third chain.
LEMMA OtherInv ==
  ASSUME Inv, NEW q \in Packets, OtherRelays(q)
  PROVE  Inv'
<1>1. /\ q \notin Ours /\ height' = [height EXCEPT !["A"] = @ + 1]
      /\ outcome' = [outcome EXCEPT ![q] = "acked"]
      /\ UNCHANGED <<sent, rcvd, packetHeight, ackHeight, phase, newPacket, newAck,
                     batch, toTimeout, header, faults>>
  BY DEF OtherRelays, savedVars, roundVars
<1>2. TypeOK'  BY <1>1 DEF Inv, TypeOK, Sides, Outcomes
<1>3. ASSUME NEW p \in Packets PROVE (PacketKept(p) /\ AckKept(p))'
  <2>1. PacketKept(p) /\ AckKept(p) /\ (rcvd[p] # 0 => p \in Ours)  BY DEF Inv
  <2>2. p \in Ours => outcome'[p] = outcome[p]  BY <1>1 DEF Inv, TypeOK
  <2>3. PacketKept(p)'  BY <1>1, <2>1, <2>2 DEF PacketKept, Pending
  <2>4. AckKept(p)'  BY <1>1, <2>1, <2>2 DEF AckKept, Unacked
  <2> QED  BY <2>3, <2>4
<1>4. packetHeight' <= height'["A"] /\ newPacket' <= height'["A"]
      /\ ackHeight' <= height'["B"] /\ newAck' <= height'["B"]
  BY <1>1 DEF Inv, TypeOK, Sides
<1> QED  BY <1>1, <1>2, <1>3, <1>4 DEF Inv

\* The steps of a round that leave the chains alone.
LEMMA SearchesInv ==
  ASSUME Inv, SearchPackets \/ SplitPackets \/ SearchAcks \/ BatchDone \/ Save
  PROVE  Inv'
<1>1. /\ UNCHANGED <<height, sent, rcvd, outcome, faults>>
  BY DEF SearchPackets, SplitPackets, SearchAcks, BatchDone, Save, chainVars
<1>2. height["A"] \in Nat /\ height["B"] \in Nat /\ newPacket \in Nat /\ newAck \in Nat
      /\ sent \in [Packets -> Nat] /\ rcvd \in [Packets -> Nat]
  BY DEF Inv, TypeOK, Sides
<1>3. ASSUME NEW p \in Packets
      PROVE  PacketKept(p) /\ AckKept(p) /\ (Pending(p)' <=> Pending(p)) /\ (Unacked(p)' <=> Unacked(p))
  BY <1>1 DEF Inv, Pending, Unacked
<1>4. CASE SearchPackets
  <2>1. /\ phase' = "split" /\ newPacket' = height["A"] /\ batch' = getPendingPackets
        /\ header = 0 /\ UNCHANGED <<packetHeight, ackHeight, newAck, toTimeout, header>>
    BY <1>4 DEF SearchPackets, savedVars, Inv, TypeOK
  <2>2. getPendingPackets \subseteq {p \in Packets : sent[p] # 0}
    BY DEF getPendingPackets, querySentPackets
  <2>3. TypeOK'  BY <1>1, <1>2, <2>1, <2>2 DEF Inv, TypeOK, Phases
  <2>4. ASSUME NEW p \in Packets PROVE (PacketKept(p) /\ AckKept(p))'
    <3>1. p \in Ours /\ Pending(p) => sent[p] >= packetHeight  BY <1>3 DEF PacketKept
    <3> QED  BY <1>1, <1>3, <2>1, <3>1, PendingFound DEF PacketKept, AckKept
  <2> QED  BY <1>1, <1>2, <2>1, <2>2, <2>3, <2>4 DEF Inv
<1>5. CASE SplitPackets
  <2>1. /\ phase = "split" /\ phase' = "relay" /\ batch' \subseteq batch
        /\ batch' \union toTimeout' = batch /\ header = 0
        /\ UNCHANGED <<packetHeight, ackHeight, newPacket, newAck, header>>
    BY <1>5 DEF SplitPackets, savedVars, Inv, TypeOK
  <2>2. TypeOK'  BY <1>1, <2>1 DEF Inv, TypeOK, Phases
  <2>3. ASSUME NEW p \in Packets PROVE (PacketKept(p) /\ AckKept(p))'
    BY <1>1, <1>3, <2>1 DEF PacketKept, AckKept
  <2> QED  BY <1>1, <2>1, <2>2, <2>3 DEF Inv
<1>6. CASE SearchAcks
  <2>1. /\ phase = "acks" /\ phase' = "relayAcks" /\ newAck' = height["B"] /\ batch' = getPendingAcks
        /\ header = 0 /\ UNCHANGED <<packetHeight, ackHeight, newPacket, toTimeout, header>>
    BY <1>6 DEF SearchAcks, savedVars, Inv, TypeOK
  <2>2. getPendingAcks \subseteq Packets  BY DEF getPendingAcks, queryWrittenAcks
  <2>3. TypeOK'  BY <1>1, <1>2, <2>1, <2>2 DEF Inv, TypeOK, Phases
  <2>4. ASSUME NEW p \in Packets PROVE (PacketKept(p) /\ AckKept(p))'
    <3>1. Unacked(p) => rcvd[p] >= ackHeight /\ sent[p] # 0
      BY <1>3 DEF AckKept, Inv, Unacked
    <3> QED  BY <1>1, <1>3, <2>1, <3>1, UnackedFound DEF PacketKept, AckKept
  <2> QED  BY <1>1, <1>2, <2>1, <2>2, <2>3, <2>4 DEF Inv
<1>7. CASE BatchDone
  <2>1. /\ batch = {} /\ phase \in {"relay", "relayAcks", "timeouts"} /\ phase' = Then[phase]
        /\ IF phase = "relayAcks" THEN batch' = toTimeout /\ toTimeout' = {}
                                  ELSE UNCHANGED <<batch, toTimeout>>
        /\ header = 0 /\ UNCHANGED <<packetHeight, ackHeight, newPacket, newAck, header>>
    BY <1>7 DEF BatchDone, Then, savedVars, Inv, TypeOK
  <2>2. \/ phase = "relay" /\ phase' = "acks"
        \/ phase = "relayAcks" /\ phase' = "timeouts"
        \/ phase = "timeouts" /\ phase' = "save"
    BY <2>1 DEF Then
  <2>3. TypeOK'  BY <1>1, <2>1, <2>2 DEF Inv, TypeOK, Phases
  <2>4. ASSUME NEW p \in Packets PROVE (PacketKept(p) /\ AckKept(p))'
    <3>1. p \notin batch  BY <2>1
    <3> QED  BY <1>1, <1>2, <1>3, <2>1, <2>2, <3>1 DEF PacketKept, AckKept
  <2> QED  BY <1>1, <2>1, <2>2, <2>3, <2>4 DEF Inv
<1>8. CASE Save
  <2>1. /\ phase = "save" /\ phase' = "idle" /\ packetHeight' = newPacket /\ ackHeight' = newAck
        /\ newPacket' = 0 /\ newAck' = 0 /\ UNCHANGED <<batch, toTimeout, header>>
    BY <1>8 DEF Save
  <2>2. TypeOK'  BY <1>1, <2>1 DEF Inv, TypeOK, Phases
  <2>3. ASSUME NEW p \in Packets PROVE (PacketKept(p) /\ AckKept(p))'
    BY <1>1, <1>2, <1>3, <2>1 DEF PacketKept, AckKept
  <2> QED  BY <1>1, <1>2, <2>1, <2>2, <2>3 DEF Inv
<1> QED  BY <1>4, <1>5, <1>6, <1>7, <1>8

LEMMA UpdateClientInv ==
  ASSUME Inv, UpdateClient
  PROVE  Inv'
<1>1. /\ phase \in {"relay", "relayAcks", "timeouts"} /\ batch # {} /\ header = 0
      /\ header' = (IF height[Prover] < neededHeight THEN BlockWaitedFor ELSE height[Prover])
      /\ height' = [height EXCEPT ![Prover] = header', ![Verifier] = BlockAfter(Verifier)]
      /\ UNCHANGED <<sent, rcvd, outcome, packetHeight, ackHeight, phase, newPacket, newAck,
                     batch, toTimeout, faults>>
  BY DEF UpdateClient, Then, savedVars
<1>2. Prover \in Sides /\ Verifier \in Sides /\ Prover # Verifier /\ Sides = {Prover, Verifier}
  BY DEF Prover, Verifier, Sides
<1>3. /\ header' \in Nat \ {0} /\ header' >= height[Prover]
      /\ BlockAfter(Verifier) \in Nat \ {0} /\ BlockAfter(Verifier) >= height[Verifier]
  BY <1>1, <1>2 DEF Inv, TypeOK, BlockAfter, BlockWaitedFor
<1>4. /\ height' \in [Sides -> Nat \ {0}] /\ \A s \in Sides : height'[s] >= height[s]
  BY <1>1, <1>2, <1>3 DEF Inv, TypeOK
<1>5. TypeOK'  BY <1>1, <1>3, <1>4 DEF Inv, TypeOK
<1>6. \A p \in Packets : (PacketKept(p) /\ AckKept(p))'
  BY <1>1 DEF Inv, PacketKept, AckKept, Pending, Unacked
<1>7. /\ packetHeight' <= height'["A"] /\ newPacket' <= height'["A"]
      /\ ackHeight' <= height'["B"] /\ newAck' <= height'["B"]
  BY <1>1, <1>4 DEF Inv, TypeOK, Sides
<1> QED  BY <1>1, <1>5, <1>6, <1>7 DEF Inv

\* What a batch that is executed does on the chains.
Executed ==
  /\ \A s \in Sides : height'[s] \in Nat \ {0} /\ height'[s] >= height[s]
  /\ height' \in [Sides -> Nat \ {0}] /\ rcvd' \in [Packets -> Nat]
  /\ outcome' \in [Packets -> Outcomes] /\ UNCHANGED sent
  /\ \A p \in Packets : rcvd'[p] # 0 => sent[p] # 0 /\ p \in Ours
  /\ \A p \in Packets : Pending(p)' => Pending(p) /\ (phase \in {"relay", "timeouts"} => p \notin batch)
  /\ \A p \in Packets : Unacked(p)' =>
       \/ Unacked(p) /\ rcvd'[p] = rcvd[p] /\ (phase = "relayAcks" => p \notin batch)
       \/ phase = "relay" /\ rcvd'[p] >= height["B"]

LEMMA SubmitsExecute ==
  ASSUME Inv, Submits
  PROVE  Executed
<1>0. TypeOK /\ batch \subseteq Packets  BY DEF Inv, TypeOK
<1>1. CASE receivePackets
  <2>1. /\ phase = "relay" /\ height' = [height EXCEPT !["B"] = @ + 1]
        /\ rcvd' = [p \in Packets |-> IF p \in batch /\ rcvd[p] = 0 THEN height["B"] + 1 ELSE rcvd[p]]
        /\ UNCHANGED <<sent, outcome>>
    BY <1>1 DEF receivePackets, Commits
  <2>2. \A p \in batch : sent[p] # 0 /\ p \in Ours  BY <1>1, <2>1 DEF Inv, receivePackets, RecvAccepted
  <2> QED  BY <1>0, <2>1, <2>2 DEF Executed, TypeOK, Sides, Inv, Pending, Unacked
<1>2. CASE acknowledgePackets
  <2>1. /\ phase = "relayAcks" /\ height' = [height EXCEPT !["A"] = @ + 1]
        /\ outcome' = [p \in Packets |-> IF p \in batch /\ outcome[p] = "open" THEN "acked" ELSE outcome[p]]
        /\ UNCHANGED <<sent, rcvd>>
    BY <1>2 DEF acknowledgePackets, Commits
  <2> QED  BY <1>0, <2>1 DEF Executed, TypeOK, Sides, Outcomes, Inv, Pending, Unacked
<1>3. CASE timeoutPackets
  <2>1. /\ phase = "timeouts" /\ height' = [height EXCEPT !["A"] = @ + 1]
        /\ outcome' = [p \in Packets |-> IF p \in batch /\ outcome[p] = "open" THEN "timedout" ELSE outcome[p]]
        /\ UNCHANGED <<sent, rcvd>>
    BY <1>3 DEF timeoutPackets, Commits
  <2> QED  BY <1>0, <2>1 DEF Executed, TypeOK, Sides, Outcomes, Inv, Pending, Unacked
<1> QED  BY <1>1, <1>2, <1>3 DEF Submits

LEMMA SubmitInv ==
  ASSUME Inv, Submit
  PROVE  Inv'
<1>1. /\ Executed /\ phase \in {"relay", "relayAcks", "timeouts"}
      /\ batch' = {} /\ header' = 0
      /\ UNCHANGED <<packetHeight, ackHeight, phase, newPacket, newAck, toTimeout, faults>>
  BY SubmitsExecute
     DEF Submit, BatchSent, savedVars, Submits, receivePackets, acknowledgePackets, timeoutPackets
<1>2. TypeOK'  BY <1>1 DEF Executed, Inv, TypeOK
<1>3. ASSUME NEW p \in Packets PROVE (PacketKept(p) /\ AckKept(p))'
  <2>1. PacketKept(p) /\ AckKept(p)  BY DEF Inv
  <2>2. PacketKept(p)'  BY <1>1, <2>1 DEF Executed, PacketKept
  <2>3. ackHeight \in Nat /\ ackHeight <= height["B"] /\ height["B"] \in Nat /\ rcvd'[p] \in Nat
    BY <1>1 DEF Executed, Inv, TypeOK, Sides
  <2>4. AckKept(p)'  BY <1>1, <2>1, <2>3 DEF Executed, AckKept
  <2> QED  BY <2>2, <2>4
<1>4. /\ packetHeight' <= height'["A"] /\ newPacket' <= height'["A"]
      /\ ackHeight' <= height'["B"] /\ newAck' <= height'["B"]
  BY <1>1 DEF Executed, Inv, TypeOK, Sides
<1> QED  BY <1>1, <1>2, <1>3, <1>4 DEF Executed, Inv

\* A round that ends early, with or without its last transaction executed.
LEMMA RoundFailsInv ==
  ASSUME Inv, RoundFails, faults' \in 0..MaxFaults, Executed \/ UNCHANGED chainVars
  PROVE  Inv'
<1>1. /\ phase' = "idle" /\ newPacket' = 0 /\ newAck' = 0 /\ batch' = {} /\ header' = 0
      /\ toTimeout' = {} /\ UNCHANGED <<packetHeight, ackHeight>>
  BY DEF RoundFails, BatchSent, savedVars
<1>2. CASE UNCHANGED chainVars
  <2>1. UNCHANGED <<height, sent, rcvd, outcome>>  BY <1>2 DEF chainVars
  <2>2. TypeOK'  BY <1>1, <2>1 DEF Inv, TypeOK, Phases
  <2>3. \A p \in Packets : (PacketKept(p) /\ AckKept(p))'
    BY <1>1, <2>1 DEF Inv, PacketKept, AckKept, Pending, Unacked
  <2> QED  BY <1>1, <2>1, <2>2, <2>3 DEF Inv, TypeOK, Sides
<1>3. CASE Executed
  <2>1. TypeOK'  BY <1>1, <1>3 DEF Executed, Inv, TypeOK, Phases
  <2>2. ASSUME NEW p \in Packets PROVE (PacketKept(p) /\ AckKept(p))'
    <3>1. PacketKept(p) /\ AckKept(p)  BY DEF Inv
    <3>2. ackHeight \in Nat /\ ackHeight <= height["B"] /\ height["B"] \in Nat /\ rcvd'[p] \in Nat
      BY <1>3 DEF Executed, Inv, TypeOK, Sides
    <3> QED  BY <1>1, <1>3, <3>1, <3>2 DEF Executed, PacketKept, AckKept
  <2>3. packetHeight' <= height'["A"] /\ ackHeight' <= height'["B"]
        /\ newPacket' <= height'["A"] /\ newAck' <= height'["B"]
    BY <1>1, <1>3 DEF Executed, Inv, TypeOK, Sides
  <2> QED  BY <1>1, <1>3, <2>1, <2>2, <2>3 DEF Executed, Inv
<1> QED  BY <1>2, <1>3

LEMMA InvNext == Inv /\ [Next]_vars => Inv'
<1> SUFFICES ASSUME Inv, [Next]_vars PROVE Inv'  OBVIOUS
<1>1. CASE UNCHANGED vars
  BY <1>1 DEF Inv, TypeOK, PacketKept, AckKept, Pending, Unacked, vars, chainVars, savedVars, roundVars
<1>2. ASSUME NEW s \in Sides, NEW S \in SUBSET Packets, NewBlock(s, S) PROVE Inv'
  BY <1>2, NewBlockInv
<1>8. ASSUME NEW p \in Packets, OtherRelays(p) PROVE Inv'
  BY <1>8, OtherInv
<1>3. CASE RoundStep
  <2>1. CASE SearchPackets \/ SplitPackets \/ SearchAcks \/ BatchDone \/ Save
    BY <2>1, SearchesInv
  <2>2. CASE Refused
    BY <2>2, RoundFailsInv DEF Refused, Inv, TypeOK
  <2> QED  BY <1>3, <2>1, <2>2, UpdateClientInv, SubmitInv DEF RoundStep
<1>4. faults \in 0..MaxFaults /\ MaxFaults \in Nat  BY PacketAssumption DEF Inv, TypeOK
<1>5. Fault => faults' \in 0..MaxFaults  BY <1>4 DEF Fault
<1>6. CASE Interrupted  BY <1>5, <1>6, RoundFailsInv DEF Interrupted
<1>7. CASE ReplyLost  BY <1>5, <1>7, RoundFailsInv, SubmitsExecute DEF ReplyLost
<1> QED  BY <1>1, <1>2, <1>3, <1>6, <1>7, <1>8 DEF Next

LEMMA Invariance == Spec => []Inv
BY InvInit, InvNext, PTL DEF Spec

\* The type invariant, for any channels, packets and faults.
THEOREM TypeCorrect == Spec => []TypeOK
<1>1. Inv => TypeOK  BY DEF Inv
<1> QED  BY <1>1, Invariance, PTL

\* Whatever a round meets, the next one finds everything that is still owed on
\* any channel, whichever ids the channels have.
THEOREM NothingEverStranded == Spec => []NothingStranded
<1>1. Inv => NothingStranded
  <2> SUFFICES ASSUME Inv, NEW p \in Ours
               PROVE  /\ Pending(p) => p \in getPendingPackets
                      /\ Unacked(p) => p \in getPendingAcks
    BY DEF NothingStranded
  <2>1. p \in Packets /\ PacketKept(p) /\ AckKept(p)  BY DEF Inv, Ours
  <2>2. Pending(p) => sent[p] >= packetHeight  BY <2>1 DEF PacketKept
  <2>3. Unacked(p) => rcvd[p] >= ackHeight /\ sent[p] # 0  BY <2>1 DEF AckKept, Inv, Unacked
  <2> QED  BY <2>1, <2>2, <2>3, PendingFound, UnackedFound
<1> QED  BY <1>1, Invariance, PTL

-------------------------------------------------------------------------------
(***************************************************************************)
(* What batches are refused for.                                           *)
(***************************************************************************)

\* Packets are sent in sequence, and the ordered channels of the connection
\* receive and acknowledge them in sequence; on those none is timed out.
ChainInv ==
  /\ \A p \in Packets : \A q \in Earlier(p) : sent[p] # 0 => sent[q] # 0
  /\ \A p \in Ours : \A q \in Earlier(p) :
       /\ ChannelOf[p] \in Ordered /\ rcvd[p] # 0 => rcvd[q] # 0
       /\ ChannelOf[p] \in Ordered /\ outcome[p] = "acked" => outcome[q] = "acked"
  /\ \A p \in Ours :
       /\ outcome[p] = "acked" => rcvd[p] # 0
       /\ ChannelOf[p] \in Ordered => outcome[p] # "timedout"
  /\ \A p \in Packets : sent[p] <= height["A"] /\ rcvd[p] <= height["B"]

\* What a round has in hand of its own connection is owed, and only its own
\* steps change that.
BatchOwed ==
  /\ phase \in {"split", "relay", "timeouts"} => \A p \in batch \intersect Ours : Pending(p)
  /\ phase = "relayAcks" => batch \subseteq Ours /\ \A p \in batch : Unacked(p)
  /\ \A p \in toTimeout \intersect Ours : Pending(p)
  /\ phase = "relay" => batch \intersect toTimeout = {}
  /\ phase = "timeouts" => toTimeout = {}

\* The packets a batch misses of an ordered channel are done with, or set aside.
NoGaps ==
  \A p \in batch \intersect Ours : \A q \in Earlier(p) : ChannelOf[p] \in Ordered =>
    /\ phase = "split" => rcvd[q] # 0 \/ q \in batch
    /\ phase = "relay" => rcvd[q] # 0 \/ q \in batch \/ q \in toTimeout
    /\ phase = "relayAcks" => outcome[q] = "acked" \/ q \in batch

\* A header is of a later block than all it is to prove.
HeaderProves ==
  header # 0 => \A p \in batch : /\ phase = "relay" => sent[p] < header
                                 /\ phase = "relayAcks" => rcvd[p] < header

BatchInv == ChainInv /\ BatchOwed /\ NoGaps /\ HeaderProves

LEMMA EarlierFacts ==
  ASSUME NEW p, NEW q \in Earlier(p)
  PROVE  /\ q \in Packets /\ ChannelOf[q] = ChannelOf[p]
         /\ p \in Ours => q \in Ours
BY DEF Earlier, Ours

\* A set of numbers that has any has a least, and a greatest when it is bounded.
LEMMA LeastNumber ==
  ASSUME NEW S, S \subseteq Nat, S # {}
  PROVE  \E n \in S : \A m \in S : n <= m
<1> DEFINE R == {ss \in Nat \X Nat : ss[1] < ss[2]}
<1>1. IsWellFoundedOn(R, Nat)  BY NatLessThanWellFounded DEF OpToRel
<1>2. PICK n \in S : \A m \in S : <<m, n>> \notin R
  <2> HIDE DEF R
  <2> QED  BY <1>1, WFMin
<1>3. ASSUME NEW m \in S PROVE n <= m
  <2>1. m \in Nat /\ n \in Nat  OBVIOUS
  <2>2. <<m, n>> \in Nat \X Nat /\ <<m, n>>[1] = m /\ <<m, n>>[2] = n  BY <2>1
  <2>3. m < n => <<m, n>> \in R  BY <2>2
  <2> QED  BY <1>2, <2>1, <2>3
<1> QED  BY <1>3

LEMMA MaxOfBounded ==
  ASSUME NEW S, S \subseteq Nat, S # {}, NEW b \in Nat, \A n \in S : n <= b
  PROVE  Max(S) \in S /\ \A n \in S : n <= Max(S)
<1> DEFINE U == {u \in Nat : \A n \in S : n <= u}
<1>1. U \subseteq Nat /\ b \in U  OBVIOUS
<1>2. PICK u \in U : \A v \in U : u <= v
  <2> HIDE DEF U
  <2> QED  BY <1>1, LeastNumber
<1>3. u \in S
  <2> SUFFICES ASSUME u \notin S PROVE FALSE  OBVIOUS
  <2>1. u \in Nat /\ \A n \in S : n \in Nat /\ n < u  BY <1>2
  <2>2. PICK n \in S : TRUE  OBVIOUS
  <2>3. u - 1 \in Nat /\ ~(u <= u - 1)  BY <2>1, <2>2
  <2>4. \A m \in S : m <= u - 1  BY <2>1
  <2> QED  BY <1>2, <2>3, <2>4
<1>4. \A n \in S : u >= n  BY <1>2
<1> QED  BY <1>3, <1>4 DEF Max

\* The height a batch needs is past all it holds.
LEMMA NeededIsLater ==
  ASSUME Inv, ChainInv, batch # {}
  PROVE  /\ phase = "relay" => /\ neededHeight <= height["A"] + 1 /\ neededHeight \in Nat
                               /\ \A p \in batch : sent[p] < neededHeight
         /\ phase = "relayAcks" => /\ neededHeight <= height["B"] + 1 /\ neededHeight \in Nat
                                   /\ \A p \in batch : rcvd[p] < neededHeight
<1>1. batch \subseteq Packets /\ height["A"] \in Nat /\ height["B"] \in Nat
      /\ sent \in [Packets -> Nat] /\ rcvd \in [Packets -> Nat]
  BY DEF Inv, TypeOK, Sides
<1>2. CASE phase = "relay"
  <2> DEFINE S == {sent[p] : p \in batch}
  <2>1. S \subseteq Nat /\ S # {} /\ \A n \in S : n <= height["A"]
    BY <1>1 DEF ChainInv
  <2>2. Max(S) \in S /\ \A n \in S : n <= Max(S)
    <3> HIDE DEF S
    <3> QED  BY <1>1, <2>1, MaxOfBounded
  <2>3. neededHeight = Max(S) + 1  BY <1>2 DEF neededHeight
  <2>4. Max(S) \in Nat /\ Max(S) <= height["A"] /\ \A p \in batch : sent[p] <= Max(S)
    <3>1. \A p \in batch : sent[p] \in S  OBVIOUS
    <3> HIDE DEF S
    <3> QED  BY <2>1, <2>2, <3>1
  <2> HIDE DEF S
  <2> QED  BY <1>1, <1>2, <2>3, <2>4
<1>3. CASE phase = "relayAcks"
  <2> DEFINE S == {rcvd[p] : p \in batch}
  <2>1. S \subseteq Nat /\ S # {} /\ \A n \in S : n <= height["B"]
    BY <1>1 DEF ChainInv
  <2>2. Max(S) \in S /\ \A n \in S : n <= Max(S)
    <3> HIDE DEF S
    <3> QED  BY <1>1, <2>1, MaxOfBounded
  <2>3. neededHeight = Max(S) + 1  BY <1>3 DEF neededHeight
  <2>4. Max(S) \in Nat /\ Max(S) <= height["B"] /\ \A p \in batch : rcvd[p] <= Max(S)
    <3>1. \A p \in batch : rcvd[p] \in S  OBVIOUS
    <3> HIDE DEF S
    <3> QED  BY <2>1, <2>2, <3>1
  <2> HIDE DEF S
  <2> QED  BY <1>1, <1>3, <2>3, <2>4
<1> QED  BY <1>2, <1>3

\* What the filters keep is owed: a sequence that has been received, or whose
\* commitment is gone, is not answered for.
LEMMA FoundIsPending ==
  ASSUME NEW p \in getPendingPackets, p \in Ours
  PROVE  rcvd[p] = 0
<1>1. p \in Packets
  BY DEF getPendingPackets, querySentPackets
<1>2. ~\E q \in Ours : IdB[ChannelOf[q]] = packetId[p] /\ Sequence[q] = Sequence[p] /\ rcvd[q] # 0
  BY DEF getPendingPackets, queryUnreceivedPackets
<1>3. packetId[p] = IdB[ChannelOf[p]]
  BY <1>1 DEF packetId
<1> QED  BY <1>1, <1>2, <1>3

LEMMA FoundIsUnacked ==
  ASSUME NEW p \in getPendingAcks
  PROVE  outcome[p] = "open"
<1>1. p \in Packets
  BY DEF getPendingAcks, queryWrittenAcks
<1>2. PICK q \in Packets : IdA[ChannelOf[q]] = ackId[p] /\ Sequence[q] = Sequence[p] /\ outcome[q] = "open"
  BY DEF getPendingAcks, queryUnreceivedAcks
<1>3. ackId[p] = IdA[ChannelOf[p]]
  BY <1>1 DEF ackId
<1>4. q = p
  BY <1>1, <1>2, <1>3, ChannelAssumption, PacketAssumption
<1> QED  BY <1>2, <1>4

LEMMA BatchInvInit == Init => BatchInv
BY DEF Init, BatchInv, ChainInv, BatchOwed, NoGaps, HeaderProves, Earlier, Ours, Sides

\* Blocks add packets after those there are, and change nothing in hand.
LEMMA NewBlockBatch ==
  ASSUME Inv, BatchInv, NEW s \in Sides, NEW S \in SUBSET Packets, NewBlock(s, S)
  PROVE  BatchInv'
<1>1. /\ height \in [Sides -> Nat \ {0}] /\ height' = [height EXCEPT ![s] = @ + 1]
      /\ sent' = [p \in Packets |-> IF p \in S THEN height[s] + 1 ELSE sent[p]]
      /\ s = "B" => S = {}
      /\ \A p \in S : sent[p] = 0 /\ \A q \in Earlier(p) : sent[q] # 0 \/ q \in S
      /\ UNCHANGED <<rcvd, outcome, phase, batch, toTimeout, header>>
      /\ sent \in [Packets -> Nat] /\ rcvd \in [Packets -> Nat]
      /\ batch \subseteq Packets /\ toTimeout \subseteq Packets
  BY DEF NewBlock, Inv, TypeOK, savedVars, roundVars
<1>2. \A p \in Packets : sent[p] # 0 => sent'[p] = sent[p]  BY <1>1
<1>3. \A p \in Packets : (Pending(p) => Pending(p)') /\ (Unacked(p) => Unacked(p)')
  BY <1>1, <1>2 DEF Pending, Unacked
<1>4. ChainInv'
  <2>1. ASSUME NEW p \in Packets, NEW q \in Earlier(p), sent'[p] # 0 PROVE sent'[q] # 0
    <3>1. q \in Packets /\ (sent[q] # 0 \/ q \in S)
      BY <1>1, <2>1, EarlierFacts DEF BatchInv, ChainInv
    <3> QED  BY <1>1, <1>2, <3>1
  <2>2. \A t \in Sides : height[t] <= height'[t] /\ height[t] \in Nat /\ height'[t] \in Nat  BY <1>1
  <2>3. ASSUME NEW p \in Packets PROVE sent'[p] <= height'["A"] /\ rcvd'[p] <= height'["B"]
    <3>1. sent[p] <= height["A"] /\ rcvd[p] <= height["B"] /\ sent[p] \in Nat /\ rcvd[p] \in Nat
      BY <1>1 DEF BatchInv, ChainInv
    <3>2. p \in S => sent'[p] = height["A"] + 1 /\ height'["A"] = height["A"] + 1
      BY <1>1 DEF Sides
    <3>3. p \notin S => sent'[p] = sent[p]  BY <1>1
    <3> QED  BY <1>1, <2>2, <3>1, <3>2, <3>3 DEF Sides
  <2> QED  BY <1>1, <2>1, <2>3 DEF BatchInv, ChainInv, Earlier
<1>5. BatchOwed'  BY <1>1, <1>3 DEF BatchInv, BatchOwed
<1>6. NoGaps'  BY <1>1 DEF BatchInv, NoGaps, Earlier
<1>7. HeaderProves'
  <2>1. phase = "relay" => \A p \in batch : sent'[p] = sent[p]
    BY <1>1, <1>2 DEF Inv
  <2> QED  BY <1>1, <2>1 DEF BatchInv, HeaderProves
<1> QED  BY <1>4, <1>5, <1>6, <1>7 DEF BatchInv

\* The other relayer's packets are in no account of these.
LEMMA OtherBatch ==
  ASSUME Inv, BatchInv, NEW r \in Packets, OtherRelays(r)
  PROVE  BatchInv'
<1>1. /\ r \notin Ours /\ height' = [height EXCEPT !["A"] = @ + 1]
      /\ outcome' = [outcome EXCEPT ![r] = "acked"]
      /\ UNCHANGED <<sent, rcvd, phase, batch, toTimeout, header>>
      /\ height["A"] \in Nat /\ sent \in [Packets -> Nat] /\ outcome \in [Packets -> Outcomes]
      /\ height'["A"] = height["A"] + 1 /\ height'["B"] = height["B"]
  BY DEF OtherRelays, savedVars, roundVars, Inv, TypeOK, Sides
<1>2. Ours \subseteq Packets  BY DEF Ours
<1>3. ASSUME NEW p \in Ours
      PROVE  outcome'[p] = outcome[p] /\ (Pending(p)' <=> Pending(p)) /\ (Unacked(p)' <=> Unacked(p))
  BY <1>1, <1>2 DEF Pending, Unacked
<1>4. ChainInv'
  <2>1. \A p \in Packets : \A q \in Earlier(p) : sent'[p] # 0 => sent'[q] # 0
    BY <1>1 DEF BatchInv, ChainInv
  <2>2. ASSUME NEW p \in Ours, NEW q \in Earlier(p)
        PROVE  /\ ChannelOf[p] \in Ordered /\ rcvd'[p] # 0 => rcvd'[q] # 0
               /\ ChannelOf[p] \in Ordered /\ outcome'[p] = "acked" => outcome'[q] = "acked"
    <3>1. q \in Ours  BY EarlierFacts
    <3>2. outcome'[p] = outcome[p] /\ outcome'[q] = outcome[q]  BY <1>3, <3>1
    <3> QED  BY <1>1, <3>2 DEF BatchInv, ChainInv
  <2>3. \A p \in Ours : /\ outcome'[p] = "acked" => rcvd'[p] # 0
                        /\ ChannelOf[p] \in Ordered => outcome'[p] # "timedout"
    BY <1>1, <1>3 DEF BatchInv, ChainInv
  <2>4. \A p \in Packets : sent'[p] <= height'["A"] /\ rcvd'[p] <= height'["B"]
    BY <1>1 DEF BatchInv, ChainInv
  <2> QED  BY <2>1, <2>2, <2>3, <2>4 DEF ChainInv, Earlier
<1>5. BatchOwed'  BY <1>1, <1>3 DEF BatchInv, BatchOwed
<1>6. NoGaps'
  <2>1. ASSUME NEW p \in batch \intersect Ours, NEW q \in Earlier(p) PROVE outcome'[q] = outcome[q]
    BY <1>3, EarlierFacts
  <2> QED  BY <1>1, <2>1 DEF BatchInv, NoGaps, Earlier
<1>7. HeaderProves'  BY <1>1 DEF BatchInv, HeaderProves
<1> QED  BY <1>4, <1>5, <1>6, <1>7 DEF BatchInv

\* The steps of a round that leave the chains alone.
LEMMA SearchesBatch ==
  ASSUME Inv, BatchInv, SearchPackets \/ SplitPackets \/ SearchAcks \/ BatchDone \/ Save
  PROVE  BatchInv'
<1>1. UNCHANGED <<height, sent, rcvd, outcome>> /\ header = 0 /\ header' = 0
  BY DEF SearchPackets, SplitPackets, SearchAcks, BatchDone, Save, chainVars, Inv, TypeOK, Then
<1>2. ChainInv' /\ HeaderProves'
  BY <1>1 DEF BatchInv, ChainInv, HeaderProves, Earlier
<1>3. \A p : (Pending(p)' <=> Pending(p)) /\ (Unacked(p)' <=> Unacked(p))
  BY <1>1 DEF Pending, Unacked
<1>4. CASE SearchPackets
  <2>1. phase' = "split" /\ batch' = getPendingPackets /\ UNCHANGED toTimeout
    BY <1>4 DEF SearchPackets
  <2>2. ASSUME NEW p \in batch', p \in Ours PROVE p \in Packets /\ Pending(p)
    <3>1. p \in Packets /\ sent[p] # 0 /\ outcome[p] = "open"
      BY <2>1, <2>2 DEF getPendingPackets, querySentPackets
    <3>2. rcvd[p] = 0  BY <2>1, <2>2, <3>1, FoundIsPending
    <3> QED  BY <3>1, <3>2 DEF Pending
  <2>3. ASSUME NEW p \in batch', p \in Ours, NEW q \in Earlier(p), ChannelOf[p] \in Ordered, rcvd[q] = 0
        PROVE  q \in batch'
    <3>1. q \in Packets /\ q \in Ours /\ ChannelOf[q] \in Ordered  BY <2>3, EarlierFacts
    <3>2. sent[q] # 0  BY <2>2, <2>3 DEF BatchInv, ChainInv, Pending
    <3>3. outcome[q] = "open"
      BY <2>3, <3>1 DEF BatchInv, ChainInv, Inv, TypeOK, Outcomes
    <3>4. Pending(q) /\ PacketKept(q)  BY <2>3, <3>1, <3>2, <3>3 DEF Pending, Inv
    <3> QED  BY <2>1, <3>1, <3>4, PendingFound DEF PacketKept
  <2>4. BatchOwed'  BY <1>3, <2>1, <2>2 DEF BatchInv, BatchOwed
  <2>5. NoGaps'  BY <1>1, <2>1, <2>3 DEF NoGaps, Earlier
  <2> QED  BY <1>2, <2>4, <2>5 DEF BatchInv
<1>5. CASE SplitPackets
  <2>1. /\ phase = "split" /\ phase' = "relay"
        /\ batch' \subseteq batch /\ toTimeout' \subseteq batch
        /\ batch' \union toTimeout' = batch /\ batch' \intersect toTimeout' = {}
    BY <1>5 DEF SplitPackets
  <2>2. BatchOwed'  BY <1>3, <2>1 DEF BatchInv, BatchOwed
  <2>3. NoGaps'  BY <1>1, <2>1 DEF BatchInv, NoGaps, Earlier
  <2> QED  BY <1>2, <2>2, <2>3 DEF BatchInv
<1>6. CASE SearchAcks
  <2>1. phase' = "relayAcks" /\ batch' = getPendingAcks /\ UNCHANGED toTimeout
    BY <1>6 DEF SearchAcks
  <2>2. ASSUME NEW p \in batch' PROVE p \in Ours /\ Unacked(p)
    <3>1. p \in Packets /\ p \in Ours /\ rcvd[p] # 0
      BY <2>1, <2>2 DEF getPendingAcks, queryWrittenAcks, Inv
    <3>2. outcome[p] = "open"  BY <2>1, <2>2, <3>1, FoundIsUnacked
    <3> QED  BY <3>1, <3>2 DEF Unacked
  <2>3. ASSUME NEW p \in batch', NEW q \in Earlier(p), ChannelOf[p] \in Ordered, outcome[q] # "acked"
        PROVE  q \in batch'
    <3>1. q \in Packets /\ q \in Ours /\ ChannelOf[q] \in Ordered  BY <2>2, <2>3, EarlierFacts
    <3>2. rcvd[q] # 0  BY <2>2, <2>3 DEF BatchInv, ChainInv, Unacked
    <3>3. outcome[q] = "open"
      BY <2>3, <3>1 DEF BatchInv, ChainInv, Inv, TypeOK, Outcomes
    <3>4. Unacked(q) /\ AckKept(q) /\ sent[q] # 0  BY <3>1, <3>2, <3>3 DEF Unacked, Inv
    <3> QED  BY <2>1, <3>1, <3>4, UnackedFound DEF AckKept
  <2>4. BatchOwed'  BY <1>3, <2>1, <2>2 DEF BatchInv, BatchOwed
  <2>5. NoGaps'  BY <1>1, <2>1, <2>3 DEF NoGaps, Earlier
  <2> QED  BY <1>2, <2>4, <2>5 DEF BatchInv
<1>7. CASE BatchDone
  <2>1. /\ batch = {} /\ phase \in {"relay", "relayAcks", "timeouts"} /\ phase' = Then[phase]
        /\ IF phase = "relayAcks" THEN batch' = toTimeout /\ toTimeout' = {}
                                  ELSE UNCHANGED <<batch, toTimeout>>
    BY <1>7 DEF BatchDone, Then
  <2>2. \/ phase = "relay" /\ phase' = "acks"
        \/ phase = "relayAcks" /\ phase' = "timeouts"
        \/ phase = "timeouts" /\ phase' = "save"
    BY <2>1 DEF Then
  <2>3. BatchOwed'  BY <1>3, <2>1, <2>2 DEF BatchInv, BatchOwed
  <2>4. NoGaps'  BY <2>1, <2>2 DEF NoGaps
  <2> QED  BY <1>2, <2>3, <2>4 DEF BatchInv
<1>8. CASE Save
  <2>1. phase' = "idle" /\ UNCHANGED <<batch, toTimeout>>  BY <1>8 DEF Save
  <2> QED  BY <1>2, <1>3, <2>1 DEF BatchInv, BatchOwed, NoGaps
<1> QED  BY <1>4, <1>5, <1>6, <1>7, <1>8

LEMMA UpdateClientBatch ==
  ASSUME Inv, BatchInv, UpdateClient
  PROVE  BatchInv'
<1>1. /\ phase \in {"relay", "relayAcks", "timeouts"} /\ batch # {}
      /\ header' = (IF height[Prover] < neededHeight THEN BlockWaitedFor ELSE height[Prover])
      /\ height' = [height EXCEPT ![Prover] = header', ![Verifier] = BlockAfter(Verifier)]
      /\ UNCHANGED <<sent, rcvd, outcome, phase, batch, toTimeout>>
  BY DEF UpdateClient, Then
<1>2. Inv'  BY UpdateClientInv
<1>3. \A s \in Sides : height[s] \in Nat /\ height'[s] \in Nat /\ height[s] <= height'[s]
  <2>1. Prover \in Sides /\ Verifier \in Sides /\ Prover # Verifier /\ Sides = {Prover, Verifier}
    BY DEF Prover, Verifier, Sides
  <2>2. header' >= height[Prover] /\ BlockAfter(Verifier) >= height[Verifier]
    BY <1>1, <2>1 DEF Inv, TypeOK, BlockAfter, BlockWaitedFor
  <2> QED  BY <1>1, <1>2, <2>1, <2>2 DEF Inv, TypeOK
<1>4. ChainInv'
  <2>1. ASSUME NEW p \in Packets PROVE sent'[p] <= height'["A"] /\ rcvd'[p] <= height'["B"]
    <3>1. sent[p] \in Nat /\ rcvd[p] \in Nat /\ sent[p] <= height["A"] /\ rcvd[p] <= height["B"]
      BY DEF Inv, TypeOK, BatchInv, ChainInv
    <3> QED  BY <1>1, <1>3, <3>1 DEF Sides
  <2> QED  BY <1>1, <2>1 DEF BatchInv, ChainInv, Earlier
<1>5. BatchOwed' /\ NoGaps'
  BY <1>1 DEF BatchInv, BatchOwed, NoGaps, Earlier, Pending, Unacked
<1>6. HeaderProves'
  <2>1. ASSUME NEW p \in batch PROVE sent[p] \in Nat /\ rcvd[p] \in Nat
    BY <2>1 DEF Inv, TypeOK
  <2>2. CASE phase = "relay"
    <3>1. Prover = "A" /\ BlockWaitedFor = height["A"] + 1
      BY <2>2 DEF Prover, BlockWaitedFor
    <3>2. /\ neededHeight <= height["A"] + 1 /\ neededHeight \in Nat
          /\ \A p \in batch : sent[p] < neededHeight
      BY <1>1, <2>2, NeededIsLater DEF BatchInv
    <3>3. header' >= neededHeight /\ header' \in Nat
      BY <1>1, <1>3, <3>1, <3>2 DEF Sides
    <3> QED  BY <1>1, <2>1, <2>2, <3>2, <3>3 DEF HeaderProves
  <2>3. CASE phase = "relayAcks"
    <3>1. Prover = "B" /\ BlockWaitedFor = height["B"] + 1
      BY <2>3 DEF Prover, BlockWaitedFor
    <3>2. /\ neededHeight <= height["B"] + 1 /\ neededHeight \in Nat
          /\ \A p \in batch : rcvd[p] < neededHeight
      BY <1>1, <2>3, NeededIsLater DEF BatchInv
    <3>3. header' >= neededHeight /\ header' \in Nat
      BY <1>1, <1>3, <3>1, <3>2 DEF Sides
    <3> QED  BY <1>1, <2>1, <2>3, <3>2, <3>3 DEF HeaderProves
  <2>4. CASE phase = "timeouts"
    BY <1>1, <2>4 DEF HeaderProves
  <2> QED  BY <1>1, <2>2, <2>3, <2>4
<1> QED  BY <1>4, <1>5, <1>6 DEF BatchInv

\* A batch that is executed keeps channels in order, since what it misses was
\* done before, and leaves what is set aside as it is.
LEMMA SubmitsBatch ==
  ASSUME Inv, BatchInv, Submits
  PROVE  ChainInv' /\ \A p \in toTimeout \intersect Ours : Pending(p)'
<1>1. /\ TypeOK /\ batch \subseteq Packets /\ toTimeout \subseteq Packets
      /\ sent \in [Packets -> Nat] /\ rcvd \in [Packets -> Nat] /\ outcome \in [Packets -> Outcomes]
      /\ height \in [Sides -> Nat \ {0}]
  BY DEF Inv, TypeOK
<1>2. ASSUME NEW p \in Packets, NEW q \in Earlier(p)
      PROVE  /\ q \in Packets /\ ChannelOf[q] = ChannelOf[p] /\ (p \in Ours => q \in Ours)
             /\ sent[p] # 0 => sent[q] # 0
             /\ p \in Ours /\ ChannelOf[p] \in Ordered /\ rcvd[p] # 0 => rcvd[q] # 0
             /\ p \in Ours /\ ChannelOf[p] \in Ordered /\ outcome[p] = "acked" => outcome[q] = "acked"
  BY EarlierFacts DEF BatchInv, ChainInv
<1>3. ASSUME NEW p \in Packets
      PROVE  /\ p \in Ours /\ outcome[p] = "acked" => rcvd[p] # 0
             /\ p \in Ours /\ ChannelOf[p] \in Ordered => outcome[p] # "timedout"
             /\ sent[p] <= height["A"] /\ rcvd[p] <= height["B"]
  BY DEF BatchInv, ChainInv
<1>0. Ours \subseteq Packets  BY DEF Ours
<1>4. CASE receivePackets
  <2>1. /\ phase = "relay" /\ height' = [height EXCEPT !["B"] = @ + 1]
        /\ rcvd' = [p \in Packets |-> IF p \in batch /\ rcvd[p] = 0 THEN height["B"] + 1 ELSE rcvd[p]]
        /\ UNCHANGED <<sent, outcome>> /\ RecvInOrder /\ batch \subseteq Ours
    BY <1>4 DEF receivePackets, Commits, RecvAccepted
  <2>2. height'["B"] = height["B"] + 1 /\ height'["A"] = height["A"] /\ height["B"] \in Nat
    BY <1>1, <2>1 DEF Sides
  <2>3. \A p \in Packets : rcvd'[p] # 0 <=> rcvd[p] # 0 \/ p \in batch
    BY <1>1, <2>1, <2>2
  <2>4. ASSUME NEW p \in Ours, NEW q \in Earlier(p), ChannelOf[p] \in Ordered, rcvd'[p] # 0
        PROVE  rcvd'[q] # 0
    <3>1. CASE p \in batch
      <4>1. rcvd[q] # 0 \/ q \in batch
        BY <2>1, <2>4, <3>1 DEF RecvInOrder
      <4> QED  BY <1>0, <1>2, <2>3, <4>1
    <3>2. CASE p \notin batch
      BY <1>0, <1>2, <2>3, <2>4, <3>2
    <3> QED  BY <3>1, <3>2
  <2>5. ASSUME NEW p \in Packets
        PROVE  /\ p \in Ours /\ outcome[p] = "acked" => rcvd'[p] # 0
               /\ sent'[p] <= height'["A"] /\ rcvd'[p] <= height'["B"]
    <3>1. rcvd'[p] = rcvd[p] \/ rcvd'[p] = height["B"] + 1  BY <2>1
    <3> QED  BY <1>1, <1>3, <2>1, <2>2, <2>3, <3>1
  <2>6. ChainInv'
    <3>0. \A p \in Packets : \A q \in Earlier(p) : sent'[p] # 0 => sent'[q] # 0
      BY <1>2, <2>1
    <3>1. \A p \in Ours : \A q \in Earlier(p) :
            /\ ChannelOf[p] \in Ordered /\ rcvd'[p] # 0 => rcvd'[q] # 0
            /\ ChannelOf[p] \in Ordered /\ outcome'[p] = "acked" => outcome'[q] = "acked"
      BY <1>0, <1>2, <2>1, <2>4
    <3>2. \A p \in Packets :
            /\ p \in Ours /\ outcome'[p] = "acked" => rcvd'[p] # 0
            /\ p \in Ours /\ ChannelOf[p] \in Ordered => outcome'[p] # "timedout"
            /\ sent'[p] <= height'["A"] /\ rcvd'[p] <= height'["B"]
      BY <1>3, <2>1, <2>5
    <3> QED  BY <1>0, <3>0, <3>1, <3>2 DEF ChainInv, Earlier
  <2>7. ASSUME NEW p \in toTimeout \intersect Ours PROVE Pending(p)'
    <3>1. p \in Packets /\ Pending(p) /\ p \notin batch
      BY <1>1, <2>1 DEF BatchInv, BatchOwed
    <3> QED  BY <2>1, <3>1 DEF Pending
  <2> QED  BY <2>6, <2>7
<1>5. CASE acknowledgePackets
  <2>1. /\ phase = "relayAcks" /\ height' = [height EXCEPT !["A"] = @ + 1]
        /\ outcome' = [p \in Packets |-> IF p \in batch /\ outcome[p] = "open" THEN "acked" ELSE outcome[p]]
        /\ UNCHANGED <<sent, rcvd>> /\ AckInOrder /\ batch \subseteq Ours
    BY <1>5 DEF acknowledgePackets, Commits, AckAccepted
  <2>2. height'["A"] = height["A"] + 1 /\ height'["B"] = height["B"] /\ height["A"] \in Nat
    BY <1>1, <2>1 DEF Sides
  <2>3. ASSUME NEW p \in Packets
        PROVE  /\ outcome'[p] = "acked" <=> outcome[p] = "acked" \/ p \in batch
               /\ outcome'[p] = "timedout" => outcome[p] = "timedout"
               /\ p \in batch => rcvd[p] # 0
    <3>1. p \in batch => outcome[p] = "open" /\ rcvd[p] # 0
      BY <2>1 DEF BatchInv, BatchOwed, Unacked
    <3> QED  BY <2>1, <3>1
  <2>4. ASSUME NEW p \in Ours, NEW q \in Earlier(p), ChannelOf[p] \in Ordered, outcome'[p] = "acked"
        PROVE  outcome'[q] = "acked"
    <3>1. CASE p \in batch
      <4>1. outcome[q] = "acked" \/ q \in batch
        BY <2>1, <2>4, <3>1 DEF AckInOrder
      <4> QED  BY <1>0, <1>2, <2>3, <4>1
    <3>2. CASE p \notin batch
      BY <1>0, <1>2, <2>3, <2>4, <3>2
    <3> QED  BY <3>1, <3>2
  <2>5. ChainInv'
    <3>0. \A p \in Packets : \A q \in Earlier(p) : sent'[p] # 0 => sent'[q] # 0
      BY <1>2, <2>1
    <3>1. \A p \in Ours : \A q \in Earlier(p) :
            /\ ChannelOf[p] \in Ordered /\ rcvd'[p] # 0 => rcvd'[q] # 0
            /\ ChannelOf[p] \in Ordered /\ outcome'[p] = "acked" => outcome'[q] = "acked"
      BY <1>0, <1>2, <2>1, <2>4
    <3>2. ASSUME NEW p \in Packets
          PROVE  /\ p \in Ours /\ outcome'[p] = "acked" => rcvd'[p] # 0
                 /\ p \in Ours /\ ChannelOf[p] \in Ordered => outcome'[p] # "timedout"
                 /\ sent'[p] <= height'["A"] /\ rcvd'[p] <= height'["B"]
      BY <1>1, <1>3, <2>1, <2>2, <2>3
    <3> QED  BY <1>0, <3>0, <3>1, <3>2 DEF ChainInv, Earlier
  <2>6. ASSUME NEW p \in toTimeout \intersect Ours PROVE Pending(p)'
    <3>1. p \in Packets /\ Pending(p) /\ p \notin batch
      BY <1>1, <2>1 DEF BatchInv, BatchOwed, Pending, Unacked
    <3> QED  BY <2>1, <3>1 DEF Pending
  <2> QED  BY <2>5, <2>6
<1>6. CASE timeoutPackets
  <2>1. /\ phase = "timeouts" /\ height' = [height EXCEPT !["A"] = @ + 1]
        /\ outcome' = [p \in Packets |-> IF p \in batch /\ outcome[p] = "open" THEN "timedout" ELSE outcome[p]]
        /\ UNCHANGED <<sent, rcvd>> /\ \A p \in batch : ChannelOf[p] \notin Ordered
    BY <1>6 DEF timeoutPackets, Commits, TimeoutAccepted
  <2>2. height'["A"] = height["A"] + 1 /\ height'["B"] = height["B"] /\ height["A"] \in Nat
    BY <1>1, <2>1 DEF Sides
  <2>3. ASSUME NEW p \in Packets
        PROVE  /\ outcome'[p] = "acked" <=> outcome[p] = "acked"
               /\ ChannelOf[p] \in Ordered => outcome'[p] = outcome[p]
    BY <1>1, <2>1
  <2>4. ChainInv'
    <3>1. ASSUME NEW p \in Packets, NEW q \in Earlier(p)
          PROVE  /\ sent'[p] # 0 => sent'[q] # 0
                 /\ p \in Ours /\ ChannelOf[p] \in Ordered /\ rcvd'[p] # 0 => rcvd'[q] # 0
                 /\ p \in Ours /\ ChannelOf[p] \in Ordered /\ outcome'[p] = "acked" => outcome'[q] = "acked"
      BY <1>2, <2>1, <2>3
    <3>2. ASSUME NEW p \in Packets
          PROVE  /\ p \in Ours /\ outcome'[p] = "acked" => rcvd'[p] # 0
                 /\ p \in Ours /\ ChannelOf[p] \in Ordered => outcome'[p] # "timedout"
                 /\ sent'[p] <= height'["A"] /\ rcvd'[p] <= height'["B"]
      BY <1>1, <1>3, <2>1, <2>2, <2>3
    <3> QED  BY <1>0, <3>1, <3>2 DEF ChainInv, Earlier
  <2>5. toTimeout = {}  BY <2>1 DEF BatchInv, BatchOwed
  <2> QED  BY <2>4, <2>5
<1> QED  BY <1>4, <1>5, <1>6 DEF Submits

\* A batch that is done with, or a round that ends early.
LEMMA EmptyBatch ==
  ASSUME batch' = {}, header' = 0, ChainInv', \A p \in toTimeout' \intersect Ours : Pending(p)',
         phase' = "timeouts" => toTimeout' = {}
  PROVE  BatchInv'
BY DEF BatchInv, BatchOwed, NoGaps, HeaderProves

LEMMA BatchInvNext == Inv /\ BatchInv /\ [Next]_vars => BatchInv'
<1> SUFFICES ASSUME Inv, BatchInv, [Next]_vars PROVE BatchInv'  OBVIOUS
<1>1. CASE UNCHANGED vars
  BY <1>1 DEF BatchInv, ChainInv, BatchOwed, NoGaps, HeaderProves, Earlier, Pending, Unacked,
    vars, chainVars, savedVars, roundVars
<1>2. ASSUME NEW s \in Sides, NEW S \in SUBSET Packets, NewBlock(s, S) PROVE BatchInv'
  BY <1>2, NewBlockBatch
<1>7. ASSUME NEW p \in Packets, OtherRelays(p) PROVE BatchInv'
  BY <1>7, OtherBatch
<1>3. CASE SearchPackets \/ SplitPackets \/ SearchAcks \/ BatchDone \/ Save
  BY <1>3, SearchesBatch
<1>4. CASE UpdateClient
  BY <1>4, UpdateClientBatch
<1>5. CASE Submit
  <2>1. batch' = {} /\ header' = 0 /\ UNCHANGED <<phase, toTimeout>>  BY <1>5 DEF Submit, BatchSent
  <2>2. ChainInv' /\ \A p \in toTimeout \intersect Ours : Pending(p)'  BY <1>5, SubmitsBatch DEF Submit
  <2>3. phase = "timeouts" => toTimeout = {}  BY DEF BatchInv, BatchOwed
  <2> QED  BY <2>1, <2>2, <2>3, EmptyBatch
<1>6. CASE Refused \/ Interrupted \/ ReplyLost
  <2>1. batch' = {} /\ header' = 0 /\ toTimeout' = {}
    BY <1>6 DEF Refused, Interrupted, ReplyLost, RoundFails, BatchSent
  <2>2. ChainInv'
    <3>1. CASE ReplyLost
      BY <3>1, SubmitsBatch DEF ReplyLost
    <3>2. CASE Refused \/ Interrupted
      <4>1. UNCHANGED <<height, sent, rcvd, outcome>>
        BY <3>2 DEF Refused, Interrupted, chainVars
      <4> QED  BY <4>1 DEF BatchInv, ChainInv, Earlier
    <3> QED  BY <1>6, <3>1, <3>2
  <2> QED  BY <2>1, <2>2, EmptyBatch
<1> QED  BY <1>1, <1>2, <1>3, <1>4, <1>5, <1>6, <1>7 DEF Next, RoundStep

\* One block waited for is enough for every proof, a batch leaves no gap in an
\* ordered channel but what the split set aside, and nothing in it was done by
\* another of its round: chains refuse it only for the time that has passed, for
\* timeouts of ordered channels, for a packet of another connection, or because
\* it lists a packet of an ordered channel before one that comes first there.
THEOREM RefusalsAreExplained == Spec => []RefusalsExplained
<1>1. Inv /\ BatchInv => RefusalsExplained
  <2> SUFFICES ASSUME Inv, BatchInv, header # 0 PROVE RefusalsExplained
    BY DEF RefusalsExplained
  <2>1. ASSUME phase = "relay", ~RecvAccepted, batch \subseteq Ours
        PROVE  \E p \in batch : \/ Elapsed(p, height["B"] + 1)
                               \/ BehindTimeout(p)
                               \/ Misplaced(p) \intersect batch # {}
    <3>1. \A p \in batch : getPacketProof(p)
      BY <2>1 DEF BatchInv, BatchOwed, HeaderProves, Pending, getPacketProof
    <3>2. CASE ~RecvInOrder
      <4>1. PICK p \in batch : /\ ChannelOf[p] \in Ordered
                               /\ \E q \in Earlier(p) :
                                    rcvd[q] = 0 /\ (q \notin batch \/ q \in Misplaced(p))
        BY <3>2 DEF RecvInOrder
      <4>2. PICK q \in Earlier(p) : rcvd[q] = 0 /\ (q \notin batch \/ q \in Misplaced(p))
        BY <4>1
      <4>3. CASE q \in batch
        BY <4>2, <4>3
      <4>4. CASE q \notin batch
        <5>1. q \in toTimeout  BY <2>1, <4>1, <4>2, <4>4 DEF BatchInv, NoGaps
        <5> QED  BY <4>1, <4>2, <5>1 DEF BehindTimeout
      <4> QED  BY <4>3, <4>4
    <3> QED  BY <2>1, <3>1, <3>2 DEF RecvAccepted
  <2>2. ASSUME phase = "relayAcks" PROVE AckAccepted
    <3>1. \A p \in batch : getAckProof(p)
      BY <2>2 DEF BatchInv, HeaderProves, getAckProof
    <3>2. batch \subseteq Ours  BY <2>2 DEF BatchInv, BatchOwed
    <3>3. AckInOrder  BY <2>2, <3>2 DEF AckInOrder, BatchInv, NoGaps
    <3> QED  BY <3>1, <3>2, <3>3 DEF AckAccepted
  <2>3. ASSUME phase = "timeouts", ~TimeoutAccepted, batch \subseteq Ours
        PROVE  \E p \in batch : ~Elapsed(p, header) \/ ChannelOf[p] \in Ordered
    <3>1. \A p \in batch : getTimeoutProof(p)
      BY <2>3 DEF BatchInv, BatchOwed, Pending, getTimeoutProof
    <3> QED  BY <2>3, <3>1 DEF TimeoutAccepted
  <2> QED  BY <2>1, <2>2, <2>3 DEF RefusalsExplained
<1> QED  BY <1>1, Invariance, BatchInvInit, BatchInvNext, PTL DEF Spec

===============================================================================
