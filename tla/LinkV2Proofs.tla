---------------------------- MODULE LinkV2Proofs ----------------------------
(***************************************************************************)
(* Proofs about LinkV2, for all packets, bounds and interleavings: types,  *)
(* the proofs a transaction carries, that the saved heights leave no       *)
(* packet and no acknowledgement behind, that a link implements the        *)
(* abstract life of its packets, and that nothing is relayed twice.        *)
(***************************************************************************)
EXTENDS LinkV2, TLAPS

\* What the saved heights rely on: a status answer runs at most one block, and
\* the blocks the next search looks back, past what the search beside it saw.
TimelyStatus == \A s \in Sides : Slack <= Lookback[s] + 1

\* queryCommitmentsV2 throws for a missing commitment only.
CommitmentsAnswered == "commitment" \notin Faults

\* Every recorded height is one its chain has reached.
HeightsReached ==
  /\ \A s \in Sides : /\ packetHeight[s] <= height[s] /\ ackHeight[s] <= height[s]
                      /\ newPacket[s] <= height[s] /\ newAck[s] <= height[s]
                      /\ seen[s] <= height[s] /\ client[Other(s)] <= height[s]
  /\ \A p \in Packets : sent[p] <= height[From[p]] /\ rcvd[p] <= height[To(p)]

\* The current round has calls of its own only where it awaits them.
LiveCalls ==
  \A c \in calls : c.live =>
    \/ c.kind = "recv" /\ phase = "relay"
    \/ c.kind = "ack" /\ phase = "relayAcks"
    \/ c.kind = "timeout" /\ phase = "timeouts"

\* A packet in hand was sent, an acknowledgement in hand was written, on the
\* side that is to prove it.
SentBy(s, p) == From[p] = s /\ sent[p] # 0
WrittenBy(s, p) == To(p) = s /\ rcvd[p] # 0

InHand ==
  /\ \A s \in Sides : \A p \in found[s] :
       /\ phase = "packets" => SentBy(s, p)
       /\ phase = "acks" => WrittenBy(s, p)
  /\ \A c \in calls : \A p \in c.pkts :
       /\ c.kind = "recv" => SentBy(c.proof, p)
       /\ c.kind = "ack" => WrittenBy(c.proof, p)

\* A call that waits for one block needs no more than one.
OneBlockEnough ==
  \A c \in calls : c.pc = "wait" =>
    c.mark <= height[c.proof] /\ (c.kind # "timeout" => MeetsNeed(c, c.mark + 1))

\* Nothing is left of a search once its phase is over.
SearchOver == phase \notin {"packets", "acks"} => found = Nothing /\ seen = Zero

CallInv == HeightsReached /\ SearchOver /\ InHand /\ OneBlockEnough /\ ProofsVisible

\* Status and search of a phase are no further apart than Slack.
StatusNearSearch ==
  \A s \in Sides : seen[s] # 0 =>
    /\ phase = "packets" => newPacket[s] <= seen[s] + Slack
    /\ phase = "acks" => newAck[s] <= seen[s] + Slack

\* A live call of this round has packet p in hand.
Carried(kinds, p) == \E c \in calls : c.live /\ c.kind \in kinds /\ p \in c.pkts

\* A pending packet is above the saved height, and what the round has not
\* found yet, or put in a call, or set aside to time out, is above the next.
PacketsCovered ==
  \A p \in Packets : Pending(p) =>
    /\ NotBelow(From[p], sent[p], packetHeight[From[p]])
    /\ phase = "packets" /\ seen[From[p]] # 0 =>
         p \in found[From[p]] \/ sent[p] > seen[From[p]]
    /\ phase \in {"relay", "acks", "relayAcks", "timeouts"} =>
         \/ NotBelow(From[p], sent[p], newPacket[From[p]])
         \/ phase # "timeouts" /\ p \in expired[From[p]]
         \/ Carried({"recv", "timeout"}, p)

\* The same for an acknowledgement its sender has not seen.
AcksCovered ==
  \A p \in Packets : Unacked(p) =>
    /\ NotBelow(To(p), rcvd[p], ackHeight[To(p)])
    /\ phase = "acks" /\ seen[To(p)] # 0 =>
         p \in found[To(p)] \/ rcvd[p] > seen[To(p)]
    /\ phase \in {"relayAcks", "timeouts"} =>
         NotBelow(To(p), rcvd[p], newAck[To(p)]) \/ Carried({"ack"}, p)

PacketCover == LiveCalls /\ StatusNearSearch /\ PacketsCovered
AckCover == LiveCalls /\ StatusNearSearch /\ AcksCovered

-------------------------------------------------------------------------------
\* The sides, and the packets of each.
LEMMA SideFacts ==
  /\ \A s \in Sides : Other(s) \in Sides /\ Other(s) # s /\ Other(Other(s)) = s
  /\ \A p \in Packets : From[p] \in Sides /\ To(p) \in Sides /\ To(p) # From[p]
  /\ Zero \in [Sides -> Nat] /\ \A s \in Sides : Zero[s] = 0
  /\ Nothing \in [Sides -> SUBSET Packets] /\ \A s \in Sides : Nothing[s] = {}
BY ConstantsAssumption DEF Sides, Other, To, Zero, Nothing

\* A call stays a call, on the same errand, when it moves on.
LEMMA CallUpdates ==
  ASSUME NEW c \in Call, NEW pc \in {"check", "wait", "submit"}, NEW m \in Nat
  PROVE  /\ [c EXCEPT !.pc = pc, !.mark = m] \in Call
         /\ [c EXCEPT !.pc = pc, !.mark = m].kind = c.kind
         /\ [c EXCEPT !.pc = pc, !.mark = m].proof = c.proof
         /\ [c EXCEPT !.pc = pc, !.mark = m].pkts = c.pkts
         /\ [c EXCEPT !.pc = pc, !.mark = m].live = c.live
         /\ [c EXCEPT !.pc = pc, !.mark = m].pc = pc
         /\ [c EXCEPT !.pc = pc, !.mark = m].mark = m
BY DEF Call

\* A call stays a call, on the same errand, when its round is given up.
LEMMA OrphanType ==
  ASSUME NEW c \in Call
  PROVE  /\ [c EXCEPT !.live = FALSE] \in Call
         /\ ~[c EXCEPT !.live = FALSE].live
         /\ [c EXCEPT !.live = FALSE].kind = c.kind
         /\ [c EXCEPT !.live = FALSE].proof = c.proof
         /\ [c EXCEPT !.live = FALSE].pkts = c.pkts
         /\ [c EXCEPT !.live = FALSE].pc = c.pc
         /\ [c EXCEPT !.live = FALSE].mark = c.mark
<1>1. [c EXCEPT !.live = FALSE] \in Call
  BY DEF Call
<1>2. /\ [c EXCEPT !.live = FALSE].kind = c.kind
      /\ [c EXCEPT !.live = FALSE].proof = c.proof
      /\ [c EXCEPT !.live = FALSE].pkts = c.pkts
      /\ [c EXCEPT !.live = FALSE].pc = c.pc
      /\ [c EXCEPT !.live = FALSE].mark = c.mark
  BY DEF Call
<1>3. ~[c EXCEPT !.live = FALSE].live
  BY DEF Call
<1>4. QED BY <1>1, <1>2, <1>3

\* New batches are calls, all of them live and unchecked.
LEMMA BatchCalls ==
  ASSUME NEW kind \in {"recv", "ack", "timeout"}, NEW pkts \in [Sides -> SUBSET Packets]
  PROVE  /\ Batches(kind, pkts) \subseteq Call
         /\ \A c \in Batches(kind, pkts) :
              c.kind = kind /\ c.live /\ c.pc = "check" /\ c.pkts = pkts[c.proof]
         /\ \A s \in Sides : \A p \in pkts[s] :
              \E c \in Batches(kind, pkts) : c.live /\ c.kind = kind /\ p \in c.pkts
<1>1. ASSUME NEW c \in Batches(kind, pkts)
      PROVE  /\ c \in Call /\ c.kind = kind /\ c.live /\ c.pc = "check"
             /\ c.pkts = pkts[c.proof]
  <2>1. PICK s \in Sides :
          /\ pkts[s] # {}
          /\ c = [kind |-> kind, proof |-> s, pkts |-> pkts[s], pc |-> "check",
                  mark |-> 0, live |-> TRUE]
    BY <1>1 DEF Batches
  <2>2. /\ pkts[s] \in (SUBSET Packets) \ {{}}
        /\ c.kind = kind /\ c.pc = "check" /\ c.proof = s /\ c.pkts = pkts[s]
    BY <2>1
  <2>3. c.live
    BY <2>1, Zenon
  <2>4. c \in Call
    BY <2>1, <2>2 DEF Call
  <2>5. QED BY <2>2, <2>3, <2>4
<1>2. ASSUME NEW s \in Sides, NEW p \in pkts[s]
      PROVE  \E c \in Batches(kind, pkts) : c.live /\ c.kind = kind /\ p \in c.pkts
  <2> DEFINE d == [kind |-> kind, proof |-> s, pkts |-> pkts[s], pc |-> "check",
                   mark |-> 0, live |-> TRUE]
  <2>1. d \in Batches(kind, pkts)
    BY <1>2 DEF Batches
  <2>2. d.kind = kind /\ p \in d.pkts
    BY <1>2
  <2>3. d.live
    BY Zenon
  <2> HIDE DEF d
  <2>4. QED BY <2>1, <2>2, <2>3
<1>3. QED BY <1>1, <1>2

\* Giving up a round, or only a call of an earlier one, keeps the types.
LEMMA ThrowsType ==
  ASSUME TypeOK, NEW c \in calls, Throws(c)
  PROVE  /\ calls' \subseteq Call
         /\ phase' \in Phases
         /\ newPacket' \in [Sides -> Nat] /\ newAck' \in [Sides -> Nat]
         /\ seen' \in [Sides -> Nat]
         /\ found' \in [Sides -> SUBSET Packets]
         /\ expired' \in [Sides -> SUBSET Packets]
         /\ asking' \subseteq Sides
<1>1. CASE c.live
  <2>1. calls' = {[d EXCEPT !.live = FALSE] : d \in calls \ {c}} /\ ForgetRound
    BY <1>1, Zenon DEF Throws
  <2>2. ASSUME NEW d \in calls PROVE [d EXCEPT !.live = FALSE] \in Call
    <3>1. d \in Call
      BY <2>2 DEF TypeOK
    <3>2. QED BY <3>1, OrphanType
  <2>3. QED BY <2>1, <2>2, SideFacts DEF ForgetRound, Phases
<1>2. CASE ~c.live
  BY <1>2 DEF Throws, Returns, roundVars, TypeOK
<1>3. QED BY <1>1, <1>2

\* A transaction keeps the types of the chains.
LEMMA TransactionType ==
  ASSUME TypeOK, NEW c \in calls, Deliver(c) \/ updateClient(c)
  PROVE  /\ height' \in [Sides -> Nat \ {0}]
         /\ sent' \in [Packets -> Nat] /\ rcvd' \in [Packets -> Nat]
         /\ outcome' \in [Packets -> Outcomes]
         /\ client' \in [Sides -> Nat]
<1>0. c \in Call /\ Other(c.proof) \in Sides /\ c.proof \in Sides
  BY SideFacts DEF TypeOK, Call
<1>1. CASE receivePacketsV2(c)
  BY <1>0, <1>1 DEF receivePacketsV2, Committed, TypeOK
<1>2. CASE acknowledgePacketsV2(c)
  BY <1>0, <1>2 DEF acknowledgePacketsV2, Committed, TypeOK, Outcomes
<1>3. CASE timeoutPacketsV2(c)
  BY <1>0, <1>3 DEF timeoutPacketsV2, Committed, TypeOK, Outcomes
<1>4. CASE updateClient(c)
  BY <1>0, <1>4 DEF updateClient, Committed, TypeOK
<1>5. QED BY <1>1, <1>2, <1>3, <1>4 DEF Deliver

-------------------------------------------------------------------------------
(***************************************************************************)
(* Types.                                                                  *)
(***************************************************************************)

LEMMA TypeInit == Init => TypeOK
<1> SUFFICES ASSUME Init PROVE TypeOK
  OBVIOUS
<1>1. /\ height \in [Sides -> Nat \ {0}] /\ client \in [Sides -> Nat]
      /\ sent \in [Packets -> Nat] /\ rcvd \in [Packets -> Nat]
      /\ outcome \in [Packets -> Outcomes]
  BY DEF Init, Outcomes
<1>2. QED BY <1>1, SideFacts DEF Init, TypeOK, Phases

LEMMA TypeStep == TypeOK /\ [Next]_vars => TypeOK'
<1> SUFFICES ASSUME TypeOK, [Next]_vars PROVE TypeOK'
  OBVIOUS
<1> USE SideFacts
<1>1. ASSUME NEW s \in Sides, NEW S \in SUBSET {p \in Packets : From[p] = s}, NewBlock(s, S)
      PROVE  TypeOK'
  <2>1. height' \in [Sides -> Nat \ {0}] /\ sent' \in [Packets -> Nat]
    BY <1>1 DEF NewBlock, TypeOK
  <2>2. QED BY <1>1, <2>1 DEF NewBlock, TypeOK, savedVars, roundVars
<1>2. CASE BeginRound
  BY <1>2 DEF BeginRound, TypeOK, chainVars, savedVars, Phases
<1>3. ASSUME NEW s \in Sides, ReadPacketHeight(s) \/ ReadAckHeight(s)
      PROVE  TypeOK'
  <2>1. Status(s) \in Nat
    BY ConstantsAssumption DEF Status, Smaller, TypeOK
  <2>2. CASE ReadPacketHeight(s)
    BY <2>1, <2>2 DEF ReadPacketHeight, TypeOK, chainVars, savedVars
  <2>3. CASE ReadAckHeight(s)
    BY <2>1, <2>3 DEF ReadAckHeight, TypeOK, chainVars, savedVars
  <2>4. QED BY <1>3, <2>2, <2>3
<1>4. ASSUME NEW s \in Sides, NEW v \in 1..height[s], Search(s, v)
      PROVE  TypeOK'
  <2>1. /\ v \in Nat
        /\ filterUnreceived(s, v) \in SUBSET Packets
        /\ getPendingAcks(s, v) \in SUBSET Packets
    BY <1>4 DEF TypeOK, filterUnreceived, querySentPackets, getPendingAcks
  <2>2. CASE SearchPackets(s, v)
    <3>1. found' \in [Sides -> SUBSET Packets]
      BY <2>1, <2>2 DEF SearchPackets, TypeOK
    <3>2. asking' \subseteq Sides
      BY <2>2 DEF SearchPackets, TypeOK
    <3>3. QED BY <2>1, <2>2, <3>1, <3>2 DEF SearchPackets, TypeOK, chainVars, savedVars
  <2>3. CASE SearchAcks(s, v)
    BY <2>1, <2>3 DEF SearchAcks, TypeOK, chainVars, savedVars
  <2>4. QED BY <1>4, <2>2, <2>3 DEF Search
<1>5. CASE SplitAndRelay
  <2>1. /\ [s \in Sides |-> toSubmit(s)] \in [Sides -> SUBSET Packets]
        /\ expired' \in [Sides -> SUBSET Packets]
    BY <1>5 DEF SplitAndRelay, toSubmit, TypeOK
  <2>2. Batches("recv", [s \in Sides |-> toSubmit(s)]) \subseteq Call
    BY <2>1, BatchCalls
  <2>3. QED BY <1>5, <2>1, <2>2 DEF SplitAndRelay, TypeOK, chainVars, savedVars, Phases
<1>6. CASE BeginAckSearch
  BY <1>6 DEF BeginAckSearch, TypeOK, chainVars, savedVars, Phases
<1>7. CASE RelayAcks
  <2>1. Batches("ack", found) \subseteq Call
    BY BatchCalls DEF TypeOK
  <2>2. QED BY <1>7, <2>1 DEF RelayAcks, TypeOK, chainVars, savedVars, Phases
<1>8. CASE TimeoutPackets
  <2>1. [s \in Sides |-> expired[Other(s)]] \in [Sides -> SUBSET Packets]
    BY DEF TypeOK
  <2>2. Batches("timeout", [s \in Sides |-> expired[Other(s)]]) \subseteq Call
    BY <2>1, BatchCalls
  <2>3. QED BY <1>8, <2>2 DEF TimeoutPackets, TypeOK, chainVars, savedVars, Phases
<1>9. CASE SaveHeights
  BY <1>9 DEF SaveHeights, TypeOK, chainVars, Phases
<1>10. ASSUME NEW c \in calls, UseKnownHeader(c) \/ AwaitBlock(c)
       PROVE  TypeOK'
  <2>1. c \in Call /\ client[Other(c.proof)] \in Nat /\ height[c.proof] \in Nat
    BY DEF TypeOK, Call
  <2>2. \E pc \in {"check", "wait", "submit"}, m \in Nat :
          calls' = (calls \ {c}) \union {[c EXCEPT !.pc = pc, !.mark = m]}
    BY <1>10, <2>1 DEF UseKnownHeader, AwaitBlock, Becomes
  <2>3. calls' \subseteq Call
    <3>1. PICK pc \in {"check", "wait", "submit"}, m \in Nat :
            calls' = (calls \ {c}) \union {[c EXCEPT !.pc = pc, !.mark = m]}
      BY <2>2
    <3>2. [c EXCEPT !.pc = pc, !.mark = m] \in Call
      BY <2>1, CallUpdates
    <3>3. QED BY <3>1, <3>2 DEF TypeOK
  <2>4. QED BY <1>10, <2>3
            DEF UseKnownHeader, AwaitBlock, TypeOK, chainVars, savedVars, roundVars
<1>11. ASSUME NEW c \in calls, UpdateClient(c) PROVE TypeOK'
  <2>1. c \in Call /\ height[c.proof] \in Nat
    BY DEF TypeOK, Call
  <2>2. calls' \subseteq Call
    <3>1. [c EXCEPT !.pc = "submit", !.mark = height[c.proof]] \in Call
      BY <2>1, CallUpdates
    <3>2. QED BY <1>11, <3>1 DEF UpdateClient, Becomes, TypeOK
  <2>3. QED BY <1>11, <2>2, TransactionType
            DEF UpdateClient, TypeOK, savedVars, roundVars
<1>12. ASSUME NEW c \in calls, Submit(c) PROVE TypeOK'
  BY <1>12, TransactionType DEF Submit, Returns, TypeOK, savedVars, roundVars
<1>13. ASSUME NEW c \in calls, Reject(c) \/ CallFails(c) PROVE TypeOK'
  BY <1>13, ThrowsType DEF Reject, CallFails, Fault, TypeOK, chainVars, savedVars
<1>14. ASSUME NEW c \in calls, ReplyLost(c) PROVE TypeOK'
  BY <1>14, ThrowsType, TransactionType DEF ReplyLost, Fault, TypeOK, savedVars
<1>15. CASE SearchFails \/ Crash
  BY <1>15 DEF SearchFails, Crash, ForgetRound, Fault, TypeOK, chainVars, savedVars, Phases
<1>16. CASE UNCHANGED vars
  BY <1>16 DEF TypeOK, vars, chainVars, savedVars, roundVars
<1>17. ASSUME NEW s \in Sides, queryCommitmentsV2(s) PROVE TypeOK'
  <2>1. PICK L \in SUBSET withCommitment(found[s]) :
          Misread(L) /\ found' = [found EXCEPT ![s] = withCommitment(@) \ L]
    BY <1>17 DEF queryCommitmentsV2
  <2>2. found' \in [Sides -> SUBSET Packets]
    BY <2>1 DEF TypeOK, withCommitment
  <2>3. faults' \in Nat
    BY <2>1 DEF Misread, Fault, TypeOK
  <2>4. QED BY <1>17, <2>2, <2>3 DEF queryCommitmentsV2, TypeOK, chainVars, savedVars
<1>18. QED
  BY <1>1, <1>2, <1>3, <1>4, <1>5, <1>6, <1>7, <1>8, <1>9, <1>10, <1>11, <1>12, <1>13,
     <1>14, <1>15, <1>16, <1>17 DEF Next, RoundStep, CallStep, Failure

\* Types: calls are well-formed and never empty, heights are numbers.
THEOREM TypeCorrect == Spec => []TypeOK
BY TypeInit, TypeStep, PTL DEF Spec

-------------------------------------------------------------------------------
(***************************************************************************)
(* What one step does to the chains and to the calls.                      *)
(***************************************************************************)

\* Heights grow; a height once recorded for a packet stays, and a new one is
\* the height of a new block.
ChainsAdvance ==
  /\ \A s \in Sides : height[s] <= height'[s] /\ client[s] <= client'[s]
  /\ \A s \in Sides : client'[Other(s)] <= height'[s]
  /\ \A p \in Packets : \/ sent'[p] = sent[p]
                        \/ /\ sent[p] = 0
                           /\ sent'[p] = height[From[p]] + 1
                           /\ height'[From[p]] = height[From[p]] + 1
  /\ \A p \in Packets : \/ rcvd'[p] = rcvd[p]
                        \/ /\ rcvd[p] = 0
                           /\ rcvd'[p] = height[To(p)] + 1
                           /\ height'[To(p)] = height[To(p)] + 1
                           /\ sent[p] # 0
  /\ \A p \in Packets : outcome[p] # "open" => outcome'[p] = outcome[p]

\* Heights are numbers, and what HeightsReached says of each.
LEMMA Numbers ==
  ASSUME TypeOK
  PROVE  /\ \A s \in Sides : /\ height[s] \in Nat /\ client[s] \in Nat /\ client[Other(s)] \in Nat
                             /\ packetHeight[s] \in Nat /\ ackHeight[s] \in Nat
                             /\ newPacket[s] \in Nat /\ newAck[s] \in Nat /\ seen[s] \in Nat
                             /\ Lookback[s] \in Nat
         /\ \A p \in Packets : sent[p] \in Nat /\ rcvd[p] \in Nat
         /\ \A c \in calls : c \in Call /\ c.proof \in Sides /\ Other(c.proof) \in Sides
                             /\ c.mark \in Nat /\ c.pkts \subseteq Packets
BY SideFacts, ConstantsAssumption DEF TypeOK, Call

LEMMA TransactionAdvances ==
  ASSUME TypeOK, HeightsReached, InHand, NEW c \in calls, Deliver(c) \/ updateClient(c)
  PROVE  ChainsAdvance
<1> DEFINE d == Other(c.proof)
<1>0. c.proof \in Sides /\ d \in Sides /\ c.proof # d /\ \A s \in Sides : Other(s) = d => s = c.proof
  BY Numbers, SideFacts
<1>1. \A s \in Sides : height'[s] = (IF s = d THEN height[s] + 1 ELSE height[s])
  BY <1>0 DEF Deliver, receivePacketsV2, acknowledgePacketsV2, timeoutPacketsV2,
              updateClient, Committed, TypeOK
<1>2. \A p \in Packets : sent'[p] = sent[p]
  BY DEF Deliver, receivePacketsV2, acknowledgePacketsV2, timeoutPacketsV2, updateClient
<1>3. \A p \in Packets : outcome[p] # "open" => outcome'[p] = outcome[p]
  BY DEF Deliver, receivePacketsV2, acknowledgePacketsV2, timeoutPacketsV2, updateClient
<1>4. \A s \in Sides :
        \/ client'[s] = client[s]
        \/ s = d /\ client'[s] = height[c.proof]
  <2>1. CASE updateClient(c)
    BY <1>0, <2>1 DEF updateClient, TypeOK
  <2>2. CASE Deliver(c)
    BY <2>2 DEF Deliver, receivePacketsV2, acknowledgePacketsV2, timeoutPacketsV2
  <2>3. QED BY <2>1, <2>2
<1>5. \A p \in Packets :
        \/ rcvd'[p] = rcvd[p]
        \/ /\ c.kind = "recv" /\ p \in c.pkts
           /\ rcvd[p] = 0 /\ rcvd'[p] = height'[d]
  BY DEF Deliver, receivePacketsV2, acknowledgePacketsV2, timeoutPacketsV2, updateClient
<1>6. \A p \in c.pkts : c.kind = "recv" => To(p) = d /\ sent[p] # 0
  BY DEF InHand, SentBy, To
<1> HIDE DEF d
<1>7. \A s \in Sides : height[s] <= height'[s] /\ client[s] <= client'[s]
  <2>1. \A s \in Sides : height[s] <= height'[s]
    BY <1>1, Numbers
  <2>2. client[d] <= height[c.proof]
    BY <1>0, Numbers DEF d, HeightsReached
  <2>3. QED BY <1>4, <2>1, <2>2, Numbers
<1>8. ASSUME NEW s \in Sides PROVE client'[Other(s)] <= height'[s]
  <2>1. client[Other(s)] <= height[s] /\ height[s] <= height'[s] /\ Other(s) \in Sides
    BY <1>7, SideFacts DEF HeightsReached
  <2>2. \/ client'[Other(s)] = client[Other(s)]
        \/ s = c.proof /\ client'[Other(s)] = height[s]
    BY <1>0, <1>4, <2>1
  <2>3. height'[s] \in Nat
    BY <1>1, Numbers
  <2>4. QED BY <2>1, <2>2, <2>3, Numbers
<1>9. QED
  BY <1>0, <1>1, <1>2, <1>3, <1>5, <1>6, <1>7, <1>8 DEF ChainsAdvance

LEMMA StepAdvances ==
  TypeOK /\ HeightsReached /\ InHand /\ [Next]_vars => ChainsAdvance
<1> SUFFICES ASSUME TypeOK, HeightsReached, InHand, [Next]_vars PROVE ChainsAdvance
  OBVIOUS
<1>1. ASSUME NEW s \in Sides, NEW S \in SUBSET {p \in Packets : From[p] = s}, NewBlock(s, S)
      PROVE  ChainsAdvance
  <2>1. \A t \in Sides : height'[t] = (IF t = s THEN height[t] + 1 ELSE height[t])
    BY <1>1 DEF NewBlock, TypeOK
  <2>2. \A p \in Packets : sent'[p] = IF p \in S THEN height'[s] ELSE sent[p]
    BY <1>1 DEF NewBlock
  <2>3. \A p \in S : From[p] = s /\ sent[p] = 0
    BY <1>1 DEF NewBlock
  <2>4. UNCHANGED <<rcvd, outcome, client>>
    BY <1>1 DEF NewBlock
  <2>5. \A t \in Sides : height[t] <= height'[t] /\ client[t] <= client'[t]
    BY <2>1, <2>4, Numbers
  <2>6. \A t \in Sides : client'[Other(t)] <= height'[t]
    BY <2>1, <2>4, Numbers DEF HeightsReached
  <2>7. QED BY <2>1, <2>2, <2>3, <2>4, <2>5, <2>6 DEF ChainsAdvance
<1>2. CASE UNCHANGED chainVars
  <2>1. /\ \A t \in Sides : height[t] <= height'[t] /\ client[t] <= client'[t]
        /\ \A t \in Sides : client'[Other(t)] <= height'[t]
    BY <1>2, Numbers DEF chainVars, HeightsReached
  <2>2. QED BY <1>2, <2>1 DEF chainVars, ChainsAdvance
<1>3. ASSUME NEW c \in calls, Deliver(c) \/ updateClient(c) PROVE ChainsAdvance
  BY <1>3, TransactionAdvances
<1>4. RoundStep => UNCHANGED chainVars
  BY DEF RoundStep, BeginRound, SplitAndRelay, BeginAckSearch, RelayAcks, TimeoutPackets,
         SaveHeights, ReadPacketHeight, ReadAckHeight, queryCommitmentsV2, Search,
         SearchPackets, SearchAcks
<1>5. ASSUME NEW c \in calls, CallStep(c)
      PROVE  UNCHANGED chainVars \/ Deliver(c) \/ updateClient(c)
  BY <1>5 DEF CallStep, UseKnownHeader, AwaitBlock, UpdateClient, Submit, Reject
<1>6. ASSUME Failure
      PROVE  UNCHANGED chainVars \/ \E c \in calls : Deliver(c) \/ updateClient(c)
  BY <1>6 DEF Failure, SearchFails, Crash, CallFails, ReplyLost
<1>7. QED BY <1>1, <1>2, <1>3, <1>4, <1>5, <1>6 DEF Next, vars

\* d is c at a later moment.
Continues(c, d) == d.kind = c.kind /\ d.proof = c.proof /\ d.pkts = c.pkts

\* d is a call the round has just made.
JustMade(d) ==
  /\ d.pc = "check"
  /\ \/ d.kind = "recv" /\ phase = "packets" /\ d.pkts \subseteq found[d.proof]
     \/ d.kind = "ack" /\ phase = "acks" /\ d.pkts \subseteq found[d.proof]
     \/ d.kind = "timeout" /\ d.pkts \subseteq expired[Other(d.proof)]

\* d is c, moved by the step that is taken.
Moved(c, d) ==
  \/ d.pc = c.pc /\ d.mark = c.mark
  \/ d.pc = "wait" /\ AwaitBlock(c) /\ d.mark = height[c.proof]
  \/ d.pc = "submit" /\ UseKnownHeader(c) /\ d.mark = client[Other(c.proof)]
  \/ d.pc = "submit" /\ UpdateClient(c) /\ d.mark = height[c.proof]

CallsMove == \A d \in calls' : JustMade(d) \/ \E c \in calls : Continues(c, d) /\ Moved(c, d)

LEMMA ThrowsMoves ==
  ASSUME TypeOK, NEW c \in calls, Throws(c)
  PROVE  CallsMove
<1>1. CASE c.live
  <2>1. calls' = {[d EXCEPT !.live = FALSE] : d \in calls \ {c}}
    BY <1>1, Zenon DEF Throws
  <2>2. ASSUME NEW b \in calls
        PROVE  /\ [b EXCEPT !.live = FALSE].pc = b.pc
               /\ [b EXCEPT !.live = FALSE].mark = b.mark
               /\ Continues(b, [b EXCEPT !.live = FALSE])
    <3>1. b \in Call
      BY <2>2 DEF TypeOK
    <3>2. QED BY <3>1, OrphanType DEF Continues
  <2>3. ASSUME NEW d \in calls'
        PROVE  \E b \in calls : Continues(b, d) /\ Moved(b, d)
    <3>1. PICK b \in calls : d = [b EXCEPT !.live = FALSE]
      BY <2>1, <2>3
    <3>2. QED BY <3>1, <2>2 DEF Moved
  <2>4. QED BY <2>3 DEF CallsMove
<1>2. CASE ~c.live
  <2>1. calls' \subseteq calls
    BY <1>2 DEF Throws, Returns
  <2>2. QED BY <2>1 DEF CallsMove, Continues, Moved
<1>3. QED BY <1>1, <1>2

LEMMA StepMoves == TypeOK /\ [Next]_vars => CallsMove
<1> SUFFICES ASSUME TypeOK, [Next]_vars PROVE CallsMove
  OBVIOUS
<1>1. CASE calls' \subseteq calls
  BY <1>1 DEF CallsMove, Continues, Moved
<1>2. ASSUME NEW c \in calls, NEW pc \in {"check", "wait", "submit"}, NEW m \in Nat,
             Becomes(c, [c EXCEPT !.pc = pc, !.mark = m]),
             \/ pc = "wait" /\ AwaitBlock(c) /\ m = height[c.proof]
             \/ pc = "submit" /\ UseKnownHeader(c) /\ m = client[Other(c.proof)]
             \/ pc = "submit" /\ UpdateClient(c) /\ m = height[c.proof]
      PROVE  CallsMove
  <2> DEFINE e == [c EXCEPT !.pc = pc, !.mark = m]
  <2>1. c \in Call
    BY DEF TypeOK
  <2>2. /\ e.kind = c.kind /\ e.proof = c.proof /\ e.pkts = c.pkts
        /\ e.pc = pc /\ e.mark = m
    BY <2>1 DEF Call
  <2> HIDE DEF e
  <2>3. \A d \in calls' : d \in calls \/ d = e
    BY <1>2 DEF Becomes, e
  <2>4. Continues(c, e) /\ Moved(c, e)
    BY <1>2, <2>2 DEF Continues, Moved
  <2>5. QED BY <2>3, <2>4 DEF CallsMove, Continues, Moved
<1>3. ASSUME NEW c \in calls, UseKnownHeader(c) \/ AwaitBlock(c) \/ UpdateClient(c)
      PROVE  CallsMove
  <2>1. client[Other(c.proof)] \in Nat /\ height[c.proof] \in Nat
    BY SideFacts DEF TypeOK, Call
  <2>2. CASE UseKnownHeader(c)
    <3>1. Becomes(c, [c EXCEPT !.pc = "submit", !.mark = client[Other(c.proof)]])
      BY <2>2 DEF UseKnownHeader
    <3>2. QED BY <1>2, <2>1, <2>2, <3>1
  <2>3. CASE AwaitBlock(c)
    <3>1. Becomes(c, [c EXCEPT !.pc = "wait", !.mark = height[c.proof]])
      BY <2>3 DEF AwaitBlock
    <3>2. QED BY <1>2, <2>1, <2>3, <3>1
  <2>4. CASE UpdateClient(c)
    <3>1. Becomes(c, [c EXCEPT !.pc = "submit", !.mark = height[c.proof]])
      BY <2>4 DEF UpdateClient
    <3>2. QED BY <1>2, <2>1, <2>4, <3>1
  <2>5. QED BY <1>3, <2>2, <2>3, <2>4
<1>4. ASSUME NEW c \in calls, Throws(c) PROVE CallsMove
  BY <1>4, ThrowsMoves
<1>5. ASSUME NEW kind \in {"recv", "ack", "timeout"}, NEW pkts \in [Sides -> SUBSET Packets],
             calls' = calls \union Batches(kind, pkts),
             \/ kind = "recv" /\ phase = "packets" /\ \A s \in Sides : pkts[s] \subseteq found[s]
             \/ kind = "ack" /\ phase = "acks" /\ \A s \in Sides : pkts[s] \subseteq found[s]
             \/ kind = "timeout" /\ \A s \in Sides : pkts[s] \subseteq expired[Other(s)]
      PROVE  CallsMove
  <2>1. ASSUME NEW d \in Batches(kind, pkts) PROVE JustMade(d)
    <3>1. d \in Call /\ d.kind = kind /\ d.pc = "check" /\ d.pkts = pkts[d.proof]
      BY <2>1, BatchCalls
    <3>2. d.proof \in Sides
      BY <3>1 DEF Call
    <3>3. QED BY <1>5, <3>1, <3>2 DEF JustMade
  <2>2. QED BY <1>5, <2>1 DEF CallsMove, Continues, Moved
<1>6. CASE SplitAndRelay
  <2> DEFINE pkts == [s \in Sides |-> toSubmit(s)]
  <2>1. pkts \in [Sides -> SUBSET Packets] /\ \A s \in Sides : pkts[s] \subseteq found[s]
    BY DEF toSubmit, TypeOK
  <2>2. calls' = calls \union Batches("recv", pkts) /\ phase = "packets"
    BY <1>6 DEF SplitAndRelay
  <2> HIDE DEF pkts
  <2>3. QED BY <1>5, <2>1, <2>2
<1>7. CASE RelayAcks
  <2>1. calls' = calls \union Batches("ack", found) /\ phase = "acks"
    BY <1>7 DEF RelayAcks
  <2>2. found \in [Sides -> SUBSET Packets]
    BY DEF TypeOK
  <2>3. QED BY <1>5, <2>1, <2>2
<1>8. CASE TimeoutPackets
  <2> DEFINE pkts == [s \in Sides |-> expired[Other(s)]]
  <2>1. pkts \in [Sides -> SUBSET Packets] /\ \A s \in Sides : pkts[s] \subseteq expired[Other(s)]
    BY SideFacts DEF TypeOK
  <2>2. calls' = calls \union Batches("timeout", pkts)
    BY <1>8 DEF TimeoutPackets
  <2> HIDE DEF pkts
  <2>3. QED BY <1>5, <2>1, <2>2
<1>9. QED
  <2>1. ASSUME NEW s \in Sides, NEW S \in SUBSET {p \in Packets : From[p] = s}, NewBlock(s, S)
        PROVE  CallsMove
    BY <1>1, <2>1 DEF NewBlock
  <2>2. CASE RoundStep
    BY <1>1, <1>6, <1>7, <1>8, <2>2 DEF RoundStep, BeginRound, BeginAckSearch, SaveHeights,
       ReadPacketHeight, ReadAckHeight, queryCommitmentsV2, Search, SearchPackets, SearchAcks
  <2>3. ASSUME NEW c \in calls, CallStep(c) PROVE CallsMove
    BY <1>1, <1>3, <1>4, <2>3 DEF CallStep, Submit, Returns, Reject
  <2>4. CASE Failure
    BY <1>1, <1>4, <2>4 DEF Failure, SearchFails, Crash, CallFails, ReplyLost
  <2>5. CASE UNCHANGED vars
    BY <1>1, <2>5 DEF vars
  <2>6. QED BY <2>1, <2>2, <2>3, <2>4, <2>5 DEF Next

-------------------------------------------------------------------------------
(***************************************************************************)
(* The proofs a transaction carries.                                       *)
(***************************************************************************)

\* What a step may do to the heights the relayer keeps.
HeightsKept ==
  \A s \in Sides :
    /\ packetHeight'[s] = packetHeight[s] \/ packetHeight'[s] = newPacket[s]
    /\ ackHeight'[s] = ackHeight[s] \/ ackHeight'[s] = newAck[s]
    /\ newPacket'[s] = newPacket[s] \/ newPacket'[s] <= height[s]
    /\ newAck'[s] = newAck[s] \/ newAck'[s] <= height[s]
    /\ seen'[s] = seen[s] \/ seen'[s] <= height[s]

LEMMA ForgetKeeps ==
  ASSUME TypeOK, ForgetRound, UNCHANGED savedVars
  PROVE  HeightsKept
BY SideFacts, Numbers DEF ForgetRound, savedVars, HeightsKept

LEMMA ThrowsKeeps ==
  ASSUME TypeOK, NEW c \in calls, Throws(c), UNCHANGED savedVars
  PROVE  HeightsKept
<1>1. CASE c.live
  BY <1>1, ForgetKeeps, Zenon DEF Throws
<1>2. CASE ~c.live
  BY <1>2 DEF Throws, roundVars, savedVars, HeightsKept
<1>3. QED BY <1>1, <1>2

LEMMA StepKeeps == TypeOK /\ [Next]_vars => HeightsKept
<1> SUFFICES ASSUME TypeOK, [Next]_vars PROVE HeightsKept
  OBVIOUS
<1>1. CASE UNCHANGED <<packetHeight, ackHeight, newPacket, newAck, seen>>
  BY <1>1 DEF HeightsKept
<1>2. ASSUME NEW s \in Sides, ReadPacketHeight(s) \/ ReadAckHeight(s)
      PROVE  HeightsKept
  <2>1. Status(s) <= height[s]
    BY Numbers, ConstantsAssumption DEF Status, Smaller
  <2>2. QED BY <1>2, <2>1 DEF ReadPacketHeight, ReadAckHeight, savedVars, TypeOK, HeightsKept
<1>3. ASSUME NEW s \in Sides, NEW v \in 1..height[s], Search(s, v)
      PROVE  HeightsKept
  <2>1. v <= height[s]
    BY Numbers
  <2>2. UNCHANGED <<packetHeight, ackHeight, newPacket, newAck>> /\ seen' = [seen EXCEPT ![s] = v]
    BY <1>3 DEF Search, SearchPackets, SearchAcks, savedVars
  <2>3. QED BY <2>1, <2>2 DEF TypeOK, HeightsKept
<1>4. CASE SplitAndRelay \/ RelayAcks \/ SaveHeights
  BY <1>4, SideFacts, Numbers DEF SplitAndRelay, RelayAcks, SaveHeights, savedVars, HeightsKept
<1>5. CASE RoundStep
  BY <1>1, <1>2, <1>3, <1>4, <1>5
     DEF RoundStep, BeginRound, BeginAckSearch, TimeoutPackets, queryCommitmentsV2, savedVars
<1>6. ASSUME NEW c \in calls, CallStep(c) PROVE HeightsKept
  BY <1>1, <1>6, ThrowsKeeps
     DEF CallStep, UseKnownHeader, AwaitBlock, UpdateClient, Submit, Reject, savedVars, roundVars
<1>7. CASE Failure
  BY <1>3, <1>7, ForgetKeeps, ThrowsKeeps
     DEF Failure, SearchFails, Crash, CallFails, ReplyLost
<1>8. CASE UNCHANGED vars
  BY <1>1, <1>8 DEF vars, savedVars, roundVars
<1>9. ASSUME NEW s \in Sides, NEW S \in SUBSET {p \in Packets : From[p] = s}, NewBlock(s, S)
      PROVE  HeightsKept
  BY <1>1, <1>9 DEF NewBlock, savedVars, roundVars
<1>10. QED BY <1>5, <1>6, <1>7, <1>8, <1>9 DEF Next

LEMMA HeightsStep ==
  ASSUME TypeOK, TypeOK', HeightsReached, ChainsAdvance, HeightsKept
  PROVE  HeightsReached'
<1>1. ASSUME NEW s \in Sides
      PROVE  /\ packetHeight'[s] <= height'[s] /\ ackHeight'[s] <= height'[s]
             /\ newPacket'[s] <= height'[s] /\ newAck'[s] <= height'[s]
             /\ seen'[s] <= height'[s]
  <2>1. height[s] \in Nat /\ height'[s] \in Nat /\ height[s] <= height'[s]
    BY DEF TypeOK, ChainsAdvance
  <2>2. /\ packetHeight'[s] \in Nat /\ ackHeight'[s] \in Nat /\ newPacket'[s] \in Nat
        /\ newAck'[s] \in Nat /\ seen'[s] \in Nat
    BY DEF TypeOK
  <2>3. QED BY <2>1, <2>2, Numbers DEF HeightsReached, HeightsKept
<1>2. ASSUME NEW p \in Packets
      PROVE  sent'[p] <= height'[From[p]] /\ rcvd'[p] <= height'[To(p)]
  <2>1. /\ From[p] \in Sides /\ To(p) \in Sides
        /\ height'[From[p]] \in Nat /\ height'[To(p)] \in Nat
        /\ sent'[p] \in Nat /\ rcvd'[p] \in Nat
    BY SideFacts DEF TypeOK
  <2>2. QED BY <2>1, Numbers DEF HeightsReached, ChainsAdvance
<1>3. QED BY <1>1, <1>2, SideFacts DEF HeightsReached, ChainsAdvance

\* What is recorded of a packet in hand stays as it is.
LEMMA InHandStays ==
  ASSUME TypeOK, ChainsAdvance, NEW s \in Sides, NEW p \in Packets
  PROVE  /\ SentBy(s, p) => SentBy(s, p)' /\ sent'[p] = sent[p]
         /\ WrittenBy(s, p) => WrittenBy(s, p)' /\ rcvd'[p] = rcvd[p]
BY DEF ChainsAdvance, SentBy, WrittenBy, To

\* What a step may do to what a search has found.
SearchKept ==
  \/ UNCHANGED <<phase, found, seen>>
  \/ found' = Nothing /\ seen' = Zero
  \/ UNCHANGED <<found, seen>> /\ phase \notin {"packets", "acks"}
  \/ UNCHANGED phase /\ phase \in {"packets", "acks"}

LEMMA ThrowsSearch ==
  ASSUME NEW c \in calls, Throws(c)
  PROVE  SearchKept
<1>1. CASE c.live
  BY <1>1, Zenon DEF Throws, ForgetRound, SearchKept
<1>2. CASE ~c.live
  BY <1>2 DEF Throws, roundVars, SearchKept
<1>3. QED BY <1>1, <1>2

LEMMA StepSearch == TypeOK /\ [Next]_vars => SearchKept
<1> SUFFICES ASSUME TypeOK, [Next]_vars PROVE SearchKept
  OBVIOUS
<1>1. CASE RoundStep
  BY <1>1 DEF RoundStep, BeginRound, SplitAndRelay, BeginAckSearch, RelayAcks, TimeoutPackets,
     SaveHeights, ReadPacketHeight, ReadAckHeight, queryCommitmentsV2, Search, SearchPackets,
     SearchAcks, SearchKept
<1>2. ASSUME NEW c \in calls, CallStep(c) PROVE SearchKept
  BY <1>2, ThrowsSearch
     DEF CallStep, UseKnownHeader, AwaitBlock, UpdateClient, Submit, Reject, roundVars, SearchKept
<1>3. CASE Failure
  BY <1>3, ThrowsSearch
     DEF Failure, SearchFails, Crash, CallFails, ReplyLost, ForgetRound, SearchKept
<1>4. CASE UNCHANGED vars
  BY <1>4 DEF vars, roundVars, SearchKept
<1>5. ASSUME NEW s \in Sides, NEW S \in SUBSET {p \in Packets : From[p] = s}, NewBlock(s, S)
      PROVE  SearchKept
  BY <1>5 DEF NewBlock, roundVars, SearchKept
<1>6. QED BY <1>1, <1>2, <1>3, <1>4, <1>5 DEF Next

\* A search finds only packets sent, and acknowledgements written, on its side.
FindsOwn ==
  \A s \in Sides : \A p \in found'[s] :
    \/ p \in found[s]
    \/ phase = "packets" /\ SentBy(s, p)
    \/ phase = "acks" /\ WrittenBy(s, p)

LEMMA StepFinds == TypeOK /\ [Next]_vars => FindsOwn
<1> SUFFICES ASSUME TypeOK, [Next]_vars PROVE FindsOwn
  OBVIOUS
<1>1. CASE found' = found
  BY <1>1 DEF FindsOwn
<1>2. CASE found' = Nothing
  BY <1>2, SideFacts DEF FindsOwn
<1>3. ASSUME NEW s \in Sides, NEW v \in 1..height[s], Search(s, v)
      PROVE  FindsOwn
  <2>1. \E F : /\ found' = [found EXCEPT ![s] = F]
               /\ \/ phase = "packets" /\ F \subseteq filterUnreceived(s, v)
                  \/ phase = "acks" /\ F \subseteq getPendingAcks(s, v)
    BY <1>3 DEF Search, SearchPackets, SearchAcks
  <2>2. /\ \A p \in filterUnreceived(s, v) : SentBy(s, p)
        /\ \A p \in getPendingAcks(s, v) : WrittenBy(s, p)
    BY DEF filterUnreceived, querySentPackets, getPendingAcks, Unacked, SentBy, WrittenBy
  <2>3. QED BY <2>1, <2>2 DEF TypeOK, FindsOwn
<1>3a. ASSUME NEW s \in Sides, queryCommitmentsV2(s) PROVE FindsOwn
  <2>1. \E F : F \subseteq found[s] /\ found' = [found EXCEPT ![s] = F]
    BY <1>3a DEF queryCommitmentsV2, withCommitment
  <2>2. QED BY <2>1 DEF TypeOK, FindsOwn
<1>4. CASE RoundStep
  BY <1>1, <1>2, <1>3, <1>3a, <1>4 DEF RoundStep, BeginRound, SplitAndRelay, BeginAckSearch, RelayAcks,
     TimeoutPackets, SaveHeights, ReadPacketHeight, ReadAckHeight
<1>5. ASSUME NEW c \in calls, Throws(c) PROVE FindsOwn
  <2>1. found' = found \/ found' = Nothing
    BY <1>5, Zenon DEF Throws, ForgetRound, roundVars
  <2>2. QED BY <1>1, <1>2, <2>1
<1>6. ASSUME NEW c \in calls, CallStep(c) PROVE FindsOwn
  BY <1>1, <1>5, <1>6
     DEF CallStep, UseKnownHeader, AwaitBlock, UpdateClient, Submit, Reject, roundVars
<1>7. CASE Failure
  BY <1>2, <1>3, <1>5, <1>7
     DEF Failure, SearchFails, Crash, CallFails, ReplyLost, ForgetRound
<1>8. CASE UNCHANGED vars
  BY <1>1, <1>8 DEF vars, roundVars
<1>9. ASSUME NEW s \in Sides, NEW S \in SUBSET {p \in Packets : From[p] = s}, NewBlock(s, S)
      PROVE  FindsOwn
  BY <1>1, <1>9 DEF NewBlock, roundVars
<1>10. QED BY <1>4, <1>6, <1>7, <1>8, <1>9 DEF Next

LEMMA InHandStep ==
  ASSUME TypeOK, TypeOK', SearchOver, InHand,
         ChainsAdvance, CallsMove, SearchKept, FindsOwn
  PROVE  SearchOver' /\ InHand'
<1>1. SearchOver'
  BY DEF SearchOver, SearchKept
<1>2. ASSUME NEW s \in Sides, NEW p \in found'[s]
      PROVE  /\ phase' = "packets" => SentBy(s, p)'
             /\ phase' = "acks" => WrittenBy(s, p)'
  <2>1. p \in Packets /\ found' # Nothing
    BY <1>2, SideFacts DEF TypeOK
  <2>2. phase' \in {"packets", "acks"} => phase' = phase
    BY <1>2, <2>1 DEF SearchKept, SearchOver
  <2>3. phase = "packets" => SentBy(s, p)
    BY <1>2 DEF FindsOwn, InHand
  <2>4. phase = "acks" => WrittenBy(s, p)
    BY <1>2 DEF FindsOwn, InHand
  <2>5. QED BY <2>1, <2>2, <2>3, <2>4, InHandStays
<1>3. ASSUME NEW d \in calls', NEW p \in d.pkts
      PROVE  /\ d.kind = "recv" => SentBy(d.proof, p)'
             /\ d.kind = "ack" => WrittenBy(d.proof, p)'
  <2>1. d.proof \in Sides /\ p \in Packets
    BY <1>3 DEF TypeOK, Call
  <2>2. d.kind = "recv" => SentBy(d.proof, p)
    BY <1>3, <2>1 DEF CallsMove, JustMade, Continues, InHand
  <2>3. d.kind = "ack" => WrittenBy(d.proof, p)
    BY <1>3, <2>1 DEF CallsMove, JustMade, Continues, InHand
  <2>4. QED BY <2>1, <2>2, <2>3, InHandStays
<1>4. QED BY <1>1, <1>2, <1>3 DEF InHand

\* A header that meets the need of a call still does after a step.
LEMMA NeedStays ==
  ASSUME TypeOK, InHand, ChainsAdvance, NEW c \in calls, NEW d, NEW h,
         Continues(c, d), c.kind # "timeout", MeetsNeed(c, h)
  PROVE  MeetsNeed(d, h)'
<1>1. c.kind \in {"recv", "ack"} /\ c.proof \in Sides /\ c.pkts \subseteq Packets
  BY Numbers DEF Call
<1>2. ASSUME NEW p \in c.pkts
      PROVE  IF c.kind = "ack" THEN rcvd'[p] = rcvd[p] ELSE sent'[p] = sent[p]
  BY <1>1, InHandStays DEF InHand
<1>3. QED BY <1>2 DEF MeetsNeed, Continues

LEMMA ProofsStep ==
  ASSUME TypeOK, TypeOK', CallInv, ChainsAdvance, CallsMove
  PROVE  OneBlockEnough' /\ ProofsVisible'
<1> USE DEF CallInv
<1>1. ASSUME NEW d \in calls', d.pc = "wait"
      PROVE  /\ d.mark <= height'[d.proof]
             /\ d.kind # "timeout" => MeetsNeed(d, d.mark + 1)'
  <2>1. PICK c \in calls : Continues(c, d) /\ Moved(c, d)
    BY <1>1 DEF CallsMove, JustMade
  <2>2. /\ c.proof \in Sides /\ c.mark \in Nat /\ c.pkts \subseteq Packets /\ c \in Call
        /\ height[c.proof] \in Nat /\ height'[c.proof] \in Nat
        /\ height[c.proof] <= height'[c.proof]
    BY Numbers DEF TypeOK, ChainsAdvance
  <2>3. CASE d.pc = c.pc /\ d.mark = c.mark
    <3>1. c.mark <= height[c.proof] /\ (c.kind # "timeout" => MeetsNeed(c, c.mark + 1))
      BY <1>1, <2>3 DEF OneBlockEnough
    <3>2. c.kind # "timeout" => MeetsNeed(d, c.mark + 1)'
      BY <2>1, <3>1, NeedStays
    <3>3. QED BY <2>1, <2>2, <2>3, <3>1, <3>2 DEF Continues
  <2>4. CASE AwaitBlock(c) /\ d.mark = height[c.proof]
    <3>1. PICK h \in Nat : h = d.mark + 1
      BY <2>2, <2>4
    <3>2. ASSUME c.kind # "timeout" PROVE MeetsNeed(c, h)
      <4>1. c.kind \in {"recv", "ack"}
        BY <2>2, <3>2 DEF Call
      <4>2. ASSUME NEW p \in c.pkts
            PROVE  IF c.kind = "ack" THEN rcvd[p] <= height[c.proof] ELSE sent[p] <= height[c.proof]
        BY <2>2, <4>1 DEF InHand, SentBy, WrittenBy, HeightsReached
      <4>3. QED BY <2>2, <2>4, <3>1, <4>2, Numbers DEF MeetsNeed
    <3>3. c.kind # "timeout" => MeetsNeed(d, h)'
      BY <2>1, <3>2, NeedStays
    <3>4. QED BY <2>1, <2>2, <2>4, <3>1, <3>3 DEF Continues
  <2>5. QED BY <1>1, <2>1, <2>3, <2>4 DEF Moved
<1>2. ASSUME NEW d \in calls', d.pc = "submit"
      PROVE  /\ d.mark <= client'[Other(d.proof)] /\ d.mark <= height'[d.proof]
             /\ d.kind = "recv" => \A p \in d.pkts : sent'[p] < d.mark
             /\ d.kind = "ack" => \A p \in d.pkts : rcvd'[p] < d.mark
  <2>1. PICK c \in calls : Continues(c, d) /\ Moved(c, d)
    BY <1>2 DEF CallsMove, JustMade
  <2>2. /\ c.proof \in Sides /\ Other(c.proof) \in Sides /\ c.mark \in Nat /\ c.pkts \subseteq Packets
        /\ c \in Call
        /\ height[c.proof] \in Nat /\ height'[c.proof] \in Nat
        /\ client[Other(c.proof)] \in Nat /\ client'[Other(c.proof)] \in Nat
        /\ height[c.proof] <= height'[c.proof]
        /\ client[Other(c.proof)] <= client'[Other(c.proof)]
        /\ client[Other(c.proof)] <= height[c.proof]
    BY Numbers DEF TypeOK, ChainsAdvance, HeightsReached
  <2>3. ASSUME NEW h \in Nat, h <= client'[Other(c.proof)], h <= height'[c.proof], d.mark = h,
               c.kind # "timeout" => MeetsNeed(c, h)
        PROVE  /\ d.mark <= client'[Other(d.proof)] /\ d.mark <= height'[d.proof]
               /\ d.kind = "recv" => \A p \in d.pkts : sent'[p] < d.mark
               /\ d.kind = "ack" => \A p \in d.pkts : rcvd'[p] < d.mark
    <3>1. c.kind # "timeout" => MeetsNeed(d, h)'
      BY <2>1, <2>3, NeedStays
    <3>2. \A p \in d.pkts : sent'[p] \in Nat /\ rcvd'[p] \in Nat
      BY <2>1, <2>2 DEF Continues, TypeOK
    <3>3. QED BY <2>1, <2>3, <3>1, <3>2 DEF Continues, MeetsNeed
  <2>4. CASE d.pc = c.pc /\ d.mark = c.mark
    <3>1. /\ c.mark <= client[Other(c.proof)] /\ c.mark <= height[c.proof]
          /\ c.kind = "recv" => \A p \in c.pkts : sent[p] < c.mark
          /\ c.kind = "ack" => \A p \in c.pkts : rcvd[p] < c.mark
      BY <1>2, <2>4 DEF ProofsVisible
    <3>2. c.kind # "timeout" => MeetsNeed(c, c.mark)
      BY <2>2, <3>1, Numbers DEF MeetsNeed, Call
    <3>3. QED BY <2>2, <2>3, <2>4, <3>1, <3>2
  <2>5. CASE UseKnownHeader(c) /\ d.mark = client[Other(c.proof)]
    <3>1. MeetsNeed(c, client[Other(c.proof)])
      BY <2>5 DEF UseKnownHeader
    <3>2. QED BY <2>2, <2>3, <2>5, <3>1
  <2>6. CASE UpdateClient(c) /\ d.mark = height[c.proof]
    <3>1. height[c.proof] <= client'[Other(c.proof)]
      BY <2>2, <2>6 DEF UpdateClient, updateClient, TypeOK
    <3>2. c.kind # "timeout" => MeetsNeed(c, height[c.proof])
      <4>1. CASE c.pc = "wait" /\ height[c.proof] # c.mark
        <5>1. c.mark + 1 <= height[c.proof] /\ (c.kind # "timeout" => MeetsNeed(c, c.mark + 1))
          BY <2>2, <4>1 DEF OneBlockEnough
        <5>2. QED BY <2>2, <5>1, Numbers DEF MeetsNeed
      <4>2. QED BY <2>6, <4>1 DEF UpdateClient, UpdateDue
    <3>3. QED BY <2>2, <2>3, <2>6, <3>1, <3>2
  <2>7. QED BY <1>2, <2>1, <2>4, <2>5, <2>6 DEF Moved
<1>3. QED BY <1>1, <1>2 DEF OneBlockEnough, ProofsVisible

LEMMA CallInit == Init => CallInv
<1> SUFFICES ASSUME Init PROVE CallInv
  OBVIOUS
<1>1. \A p \in Packets : sent[p] = 0 /\ rcvd[p] = 0
  BY DEF Init
<1>2. \A s \in Sides : height[s] = 1 /\ client[s] = 1
  BY DEF Init
<1>3. HeightsReached
  BY <1>1, <1>2, SideFacts DEF Init, HeightsReached
<1>4. SearchOver /\ InHand /\ OneBlockEnough /\ ProofsVisible
  BY SideFacts DEF Init, SearchOver, InHand, OneBlockEnough, ProofsVisible
<1>5. QED BY <1>3, <1>4 DEF CallInv

LEMMA CallNext == TypeOK /\ TypeOK' /\ CallInv /\ [Next]_vars => CallInv'
<1> SUFFICES ASSUME TypeOK, TypeOK', CallInv, [Next]_vars PROVE CallInv'
  OBVIOUS
<1>1. HeightsReached /\ InHand /\ SearchOver
  BY DEF CallInv
<1>2. ChainsAdvance /\ CallsMove /\ HeightsKept /\ SearchKept /\ FindsOwn
  BY <1>1, StepAdvances, StepMoves, StepKeeps, StepSearch, StepFinds
<1>3. HeightsReached' /\ SearchOver' /\ InHand'
  BY <1>1, <1>2, HeightsStep, InHandStep
<1>4. OneBlockEnough' /\ ProofsVisible'
  BY <1>2, ProofsStep
<1>5. QED BY <1>3, <1>4 DEF CallInv

LEMMA CallInvariant == Spec => []CallInv
BY CallInit, CallNext, TypeCorrect, PTL DEF Spec

\* However blocks, rounds, failures and abandoned calls interleave, every
\* transaction is sent with a header the destination knows and that proves
\* every packet or acknowledgement in it.
THEOREM ProofsAreVisible == Spec => []ProofsVisible
<1>1. CallInv => ProofsVisible
  BY DEF CallInv
<1>2. QED BY <1>1, CallInvariant, PTL

-------------------------------------------------------------------------------
(***************************************************************************)
(* What the saved heights leave behind.                                    *)
(***************************************************************************)

\* What giving up a call leaves of the round: nothing, or all of it.
LEMMA ThrowsRound ==
  ASSUME NEW c \in calls, Throws(c)
  PROVE  \/ c.live /\ ForgetRound /\ calls' = {[d EXCEPT !.live = FALSE] : d \in calls \ {c}}
         \/ ~c.live /\ UNCHANGED roundVars /\ calls' = calls \ {c}
<1>1. CASE c.live
  BY <1>1, Zenon DEF Throws
<1>2. CASE ~c.live
  BY <1>2, Zenon DEF Throws, Returns
<1>3. QED BY <1>1, <1>2

\* The live calls of a step that leaves a round under way: those of before,
\* but for the one that has done its work.
LiveStays ==
  phase' # "idle" =>
    \A c \in calls : c.live => Submit(c) \/ \E d \in calls' : d.live /\ Continues(c, d)

LEMMA StepLive == TypeOK /\ [Next]_vars => LiveStays
<1> SUFFICES ASSUME TypeOK, [Next]_vars, phase' # "idle" PROVE LiveStays
  BY DEF LiveStays
<1>1. CASE calls \subseteq calls'
  BY <1>1 DEF LiveStays, Continues
<1>2. ASSUME NEW c \in calls, NEW pc \in {"check", "wait", "submit"}, NEW m \in Nat,
             Becomes(c, [c EXCEPT !.pc = pc, !.mark = m])
      PROVE  LiveStays
  <2> DEFINE e == [c EXCEPT !.pc = pc, !.mark = m]
  <2>1. c \in Call
    BY DEF TypeOK
  <2>2. e.live = c.live /\ e.kind = c.kind /\ e.proof = c.proof /\ e.pkts = c.pkts
    BY <2>1 DEF Call
  <2> HIDE DEF e
  <2>3. calls' = (calls \ {c}) \union {e}
    BY <1>2 DEF Becomes, e
  <2>4. ASSUME NEW b \in calls, b.live PROVE \E d \in calls' : d.live /\ Continues(b, d)
    <3>1. CASE b = c
      BY <2>2, <2>3, <2>4, <3>1 DEF Continues
    <3>2. CASE b # c
      BY <2>3, <2>4, <3>2 DEF Continues
    <3>3. QED BY <3>1, <3>2
  <2>5. QED BY <2>4 DEF LiveStays
<1>3. ASSUME NEW c \in calls, UseKnownHeader(c) \/ AwaitBlock(c) \/ UpdateClient(c)
      PROVE  LiveStays
  <2>1. client[Other(c.proof)] \in Nat /\ height[c.proof] \in Nat
    BY Numbers
  <2>2. CASE UseKnownHeader(c)
    BY <1>2, <2>1, <2>2 DEF UseKnownHeader
  <2>3. CASE AwaitBlock(c)
    BY <1>2, <2>1, <2>3 DEF AwaitBlock
  <2>4. CASE UpdateClient(c)
    BY <1>2, <2>1, <2>4 DEF UpdateClient
  <2>5. QED BY <1>3, <2>2, <2>3, <2>4
<1>4. ASSUME NEW c \in calls, Submit(c) PROVE LiveStays
  <2>1. calls' = calls \ {c}
    BY <1>4 DEF Submit, Returns
  <2>2. ASSUME NEW b \in calls, b.live
        PROVE  Submit(b) \/ \E d \in calls' : d.live /\ Continues(b, d)
    <3>1. CASE b = c
      BY <1>4, <3>1
    <3>2. CASE b # c
      BY <2>1, <2>2, <3>2 DEF Continues
    <3>3. QED BY <3>1, <3>2
  <2>3. QED BY <2>2 DEF LiveStays
<1>5. ASSUME NEW c \in calls, Throws(c) PROVE LiveStays
  <2>0. ~ForgetRound
    BY DEF ForgetRound
  <2>1. ~c.live /\ calls' = calls \ {c}
    BY <1>5, <2>0, ThrowsRound, Zenon
  <2>2. ASSUME NEW b \in calls, b.live PROVE \E d \in calls' : d.live /\ Continues(b, d)
    BY <2>1, <2>2 DEF Continues
  <2>3. QED BY <2>2 DEF LiveStays
<1>6. ASSUME NEW s \in Sides, NEW S \in SUBSET {p \in Packets : From[p] = s}, NewBlock(s, S)
      PROVE  LiveStays
  BY <1>1, <1>6 DEF NewBlock
<1>7. CASE RoundStep
  BY <1>1, <1>7 DEF RoundStep, BeginRound, SplitAndRelay, BeginAckSearch, RelayAcks,
     TimeoutPackets, SaveHeights, ReadPacketHeight, ReadAckHeight, queryCommitmentsV2, Search,
     SearchPackets, SearchAcks
<1>8. ASSUME NEW c \in calls, CallStep(c) PROVE LiveStays
  BY <1>3, <1>4, <1>5, <1>8 DEF CallStep, Reject
<1>9. CASE Failure
  BY <1>1, <1>5, <1>9
     DEF Failure, SearchFails, Crash, CallFails, ReplyLost, ForgetRound
<1>10. CASE UNCHANGED vars
  BY <1>1, <1>10 DEF vars
<1>11. QED BY <1>6, <1>7, <1>8, <1>9, <1>10 DEF Next

\* A packet that a live call carries is still carried, or dealt with.
LEMMA CarriedStays ==
  ASSUME TypeOK, LiveStays, phase' # "idle", NEW p \in Packets
  PROVE  /\ Carried({"recv", "timeout"}, p) => Carried({"recv", "timeout"}, p)' \/ ~Pending(p)'
         /\ Carried({"ack"}, p) => Carried({"ack"}, p)' \/ ~Unacked(p)'
<1>1. ASSUME NEW kinds, NEW c \in calls, c.live, c.kind \in kinds, p \in c.pkts, ~Submit(c)
      PROVE  Carried(kinds, p)'
  <2>1. PICK d \in calls' : d.live /\ Continues(c, d)
    BY <1>1 DEF LiveStays
  <2>2. d.kind \in kinds /\ p \in d.pkts
    BY <1>1, <2>1 DEF Continues
  <2>3. QED BY <2>1, <2>2 DEF Carried
<1>2. ASSUME NEW c \in calls, p \in c.pkts, Submit(c)
      PROVE  /\ c.kind = "recv" => rcvd'[p] # 0
             /\ c.kind \in {"ack", "timeout"} => outcome'[p] # "open"
  <2>1. height[Other(c.proof)] \in Nat /\ height \in [Sides -> Nat \ {0}] /\ Other(c.proof) \in Sides
    BY Numbers DEF TypeOK
  <2>2. c.kind = "recv" => rcvd'[p] # 0
    BY <1>2, <2>1 DEF Submit, Deliver, receivePacketsV2, acknowledgePacketsV2, timeoutPacketsV2,
                      Committed
  <2>3. c.kind \in {"ack", "timeout"} => outcome'[p] # "open"
    BY <1>2 DEF Submit, Deliver, receivePacketsV2, acknowledgePacketsV2, timeoutPacketsV2
  <2>4. QED BY <2>2, <2>3
<1>3. ASSUME Carried({"recv", "timeout"}, p) PROVE Carried({"recv", "timeout"}, p)' \/ ~Pending(p)'
  <2>1. PICK c \in calls : c.live /\ c.kind \in {"recv", "timeout"} /\ p \in c.pkts
    BY <1>3 DEF Carried
  <2>2. CASE Submit(c)
    BY <1>2, <2>1, <2>2 DEF Pending
  <2>3. CASE ~Submit(c)
    BY <1>1, <2>1, <2>3
  <2>4. QED BY <2>2, <2>3
<1>4. ASSUME Carried({"ack"}, p) PROVE Carried({"ack"}, p)' \/ ~Unacked(p)'
  <2>1. PICK c \in calls : c.live /\ c.kind \in {"ack"} /\ p \in c.pkts
    BY <1>4 DEF Carried
  <2>2. CASE Submit(c)
    BY <1>2, <2>1, <2>2 DEF Unacked
  <2>3. CASE ~Submit(c)
    BY <1>1, <2>1, <2>3
  <2>4. QED BY <2>2, <2>3
<1>5. QED BY <1>3, <1>4

\* The saved heights change when a round is saved, and in no other step.
SavedStay == UNCHANGED savedVars \/ SaveHeights

\* What a step that leaves the packet phase under way does to a search.
PacketSearch ==
  phase' = "packets" => \A s \in Sides : seen'[s] # 0 =>
    /\ phase = "packets"
    /\ \/ seen'[s] = seen[s] /\ found'[s] = found[s]
       \/ found'[s] = filterUnreceived(s, seen'[s])
       \/ /\ seen'[s] = seen[s] /\ found'[s] = withCommitment(found[s])
          /\ UNCHANGED chainVars

AckSearch ==
  phase' = "acks" => \A s \in Sides : seen'[s] # 0 =>
    /\ phase = "acks"
    /\ \/ seen'[s] = seen[s] /\ found'[s] = found[s]
       \/ found'[s] = getPendingAcks(s, seen'[s])

\* What a step that leaves a round past the packet phase does to it.
PastPackets ==
  phase' \notin {"idle", "packets"} =>
    \/ SplitAndRelay
    \/ /\ UNCHANGED newPacket
       /\ phase \notin {"idle", "packets"}
       /\ \/ TimeoutPackets
          \/ UNCHANGED expired /\ (phase' = "timeouts" => phase = "timeouts")

PastAcks ==
  phase' \in {"relayAcks", "timeouts"} =>
    \/ RelayAcks
    \/ UNCHANGED newAck /\ phase \in {"relayAcks", "timeouts"}

RoundMoves ==
  /\ SavedStay /\ AckSearch /\ PastPackets /\ PastAcks
  /\ CommitmentsAnswered => PacketSearch

LEMMA StepRound ==
  TypeOK /\ SearchOver /\ [Next]_vars => RoundMoves
<1> SUFFICES ASSUME TypeOK, SearchOver, [Next]_vars PROVE RoundMoves
  OBVIOUS
<1>1. CASE UNCHANGED <<savedVars, roundVars>>
  BY <1>1, SideFacts DEF RoundMoves, SavedStay, PacketSearch, AckSearch, PastPackets, PastAcks, roundVars
<1>2. CASE UNCHANGED savedVars /\ ForgetRound
  BY <1>2, SideFacts DEF RoundMoves, SavedStay, PacketSearch, AckSearch, PastPackets, PastAcks, ForgetRound
<1>3. ASSUME NEW c \in calls, UNCHANGED savedVars, Throws(c) PROVE RoundMoves
  <2>1. ForgetRound \/ UNCHANGED roundVars
    BY <1>3, ThrowsRound, Zenon
  <2>2. QED BY <1>1, <1>2, <1>3, <2>1
<1>4. CASE BeginRound \/ BeginAckSearch
  BY <1>4, SideFacts DEF BeginRound, BeginAckSearch, SearchOver,
     RoundMoves, SavedStay, PacketSearch, AckSearch, PastPackets, PastAcks
<1>5. ASSUME NEW s \in Sides, ReadPacketHeight(s) \/ ReadAckHeight(s) PROVE RoundMoves
  BY <1>5 DEF ReadPacketHeight, ReadAckHeight,
     RoundMoves, SavedStay, PacketSearch, AckSearch, PastPackets, PastAcks
<1>6. ASSUME NEW s \in Sides, NEW v \in 1..height[s], SearchPackets(s, v) PROVE RoundMoves
  BY <1>6 DEF SearchPackets, TypeOK,
     RoundMoves, SavedStay, PacketSearch, AckSearch, PastPackets, PastAcks
<1>6a. ASSUME NEW s \in Sides, queryCommitmentsV2(s) PROVE RoundMoves
  <2>1. CommitmentsAnswered => found' = [found EXCEPT ![s] = withCommitment(@)]
    BY <1>6a DEF queryCommitmentsV2, Misread, Fault, CommitmentsAnswered
  <2>2. /\ phase = "packets"
        /\ UNCHANGED <<chainVars, savedVars, phase, newPacket, newAck, seen, expired>>
    BY <1>6a DEF queryCommitmentsV2
  <2>3. QED BY <2>1, <2>2 DEF TypeOK,
     RoundMoves, SavedStay, PacketSearch, AckSearch, PastPackets, PastAcks
<1>7. ASSUME NEW s \in Sides, NEW v \in 1..height[s], SearchAcks(s, v) PROVE RoundMoves
  BY <1>7 DEF SearchAcks, TypeOK,
     RoundMoves, SavedStay, PacketSearch, AckSearch, PastPackets, PastAcks
<1>8. CASE SplitAndRelay \/ RelayAcks \/ TimeoutPackets
  BY <1>8, SideFacts DEF SplitAndRelay, RelayAcks, TimeoutPackets,
     RoundMoves, SavedStay, PacketSearch, AckSearch, PastPackets, PastAcks
<1>9. CASE SaveHeights
  BY <1>9, SideFacts DEF SaveHeights,
     RoundMoves, SavedStay, PacketSearch, AckSearch, PastPackets, PastAcks
<1>10. CASE RoundStep
  BY <1>4, <1>5, <1>6, <1>6a, <1>7, <1>8, <1>9, <1>10 DEF RoundStep, Search
<1>11. ASSUME NEW c \in calls, CallStep(c) PROVE RoundMoves
  BY <1>1, <1>3, <1>11 DEF CallStep, UseKnownHeader, AwaitBlock, UpdateClient, Submit, Reject
<1>12. CASE Failure
  BY <1>2, <1>3, <1>12 DEF Failure, SearchFails, Crash, CallFails, ReplyLost
<1>13. ASSUME NEW s \in Sides, NEW S \in SUBSET {p \in Packets : From[p] = s}, NewBlock(s, S)
       PROVE  RoundMoves
  BY <1>1, <1>13 DEF NewBlock
<1>14. CASE UNCHANGED vars
  BY <1>1, <1>14 DEF vars
<1>15. QED BY <1>10, <1>11, <1>12, <1>13, <1>14 DEF Next

\* The round awaits the calls it has made, and no others.
LEMMA LiveStep == TypeOK /\ LiveCalls /\ [Next]_vars => LiveCalls'
<1> SUFFICES ASSUME TypeOK, LiveCalls, [Next]_vars PROVE LiveCalls'
  OBVIOUS
<1>1. ASSUME UNCHANGED phase,
             \A d \in calls' : d.live => \E c \in calls : c.live /\ Continues(c, d)
      PROVE  LiveCalls'
  BY <1>1 DEF LiveCalls, Continues
<1>2. ASSUME \A d \in calls' : ~d.live PROVE LiveCalls'
  BY <1>2 DEF LiveCalls
<1>3. CASE UNCHANGED phase /\ calls' \subseteq calls
  BY <1>1, <1>3 DEF Continues
<1>4. ASSUME NEW c \in calls, NEW pc \in {"check", "wait", "submit"}, NEW m \in Nat,
             Becomes(c, [c EXCEPT !.pc = pc, !.mark = m]), UNCHANGED phase
      PROVE  LiveCalls'
  <2> DEFINE e == [c EXCEPT !.pc = pc, !.mark = m]
  <2>1. c \in Call
    BY DEF TypeOK
  <2>2. e.live = c.live /\ e.kind = c.kind /\ e.proof = c.proof /\ e.pkts = c.pkts
    BY <2>1 DEF Call
  <2> HIDE DEF e
  <2>3. calls' = (calls \ {c}) \union {e}
    BY <1>4 DEF Becomes, e
  <2>4. ASSUME NEW d \in calls', d.live PROVE \E b \in calls : b.live /\ Continues(b, d)
    <3>1. CASE d = e
      BY <2>2, <2>4, <3>1 DEF Continues
    <3>2. CASE d # e
      BY <2>3, <2>4, <3>2 DEF Continues
    <3>3. QED BY <3>1, <3>2
  <2>5. QED BY <1>1, <1>4, <2>4
<1>5. ASSUME NEW c \in calls, UseKnownHeader(c) \/ AwaitBlock(c) \/ UpdateClient(c)
      PROVE  LiveCalls'
  <2>1. client[Other(c.proof)] \in Nat /\ height[c.proof] \in Nat
    BY Numbers
  <2>2. CASE UseKnownHeader(c)
    BY <1>4, <2>1, <2>2 DEF UseKnownHeader, roundVars
  <2>3. CASE AwaitBlock(c)
    BY <1>4, <2>1, <2>3 DEF AwaitBlock, roundVars
  <2>4. CASE UpdateClient(c)
    BY <1>4, <2>1, <2>4 DEF UpdateClient, roundVars
  <2>5. QED BY <1>5, <2>2, <2>3, <2>4
<1>6. ASSUME NEW c \in calls, Throws(c) PROVE LiveCalls'
  <2>1. CASE calls' = {[d EXCEPT !.live = FALSE] : d \in calls \ {c}}
    <3>1. ASSUME NEW d \in calls' PROVE ~d.live
      <4>1. PICK b \in calls : d = [b EXCEPT !.live = FALSE]
        BY <2>1, <3>1
      <4>2. b \in Call
        BY DEF TypeOK
      <4>3. QED BY <4>1, <4>2, OrphanType
    <3>2. QED BY <1>2, <3>1
  <2>2. CASE UNCHANGED roundVars /\ calls' = calls \ {c}
    BY <1>3, <2>2 DEF roundVars
  <2>3. QED BY <1>6, <2>1, <2>2, ThrowsRound, Zenon
<1>7. ASSUME NEW kind \in {"recv", "ack", "timeout"}, NEW pkts \in [Sides -> SUBSET Packets],
             calls' = calls \union Batches(kind, pkts), \A c \in calls : ~c.live,
             \/ kind = "recv" /\ phase' = "relay"
             \/ kind = "ack" /\ phase' = "relayAcks"
             \/ kind = "timeout" /\ phase' = "timeouts"
      PROVE  LiveCalls'
  <2>1. \A d \in calls' : d.live => d.kind = kind
    BY <1>7, BatchCalls
  <2>2. QED BY <1>7, <2>1 DEF LiveCalls
<1>8. phase \in {"idle", "packets", "acks"} => \A c \in calls : ~c.live
  BY DEF LiveCalls
<1>9. CASE SplitAndRelay
  <2> DEFINE pkts == [s \in Sides |-> toSubmit(s)]
  <2>1. pkts \in [Sides -> SUBSET Packets]
    BY DEF toSubmit, TypeOK
  <2>2. calls' = calls \union Batches("recv", pkts) /\ phase = "packets" /\ phase' = "relay"
    BY <1>9 DEF SplitAndRelay
  <2> HIDE DEF pkts
  <2>3. QED BY <1>7, <1>8, <2>1, <2>2
<1>10. CASE RelayAcks
  <2>1. calls' = calls \union Batches("ack", found) /\ phase = "acks" /\ phase' = "relayAcks"
    BY <1>10 DEF RelayAcks
  <2>2. found \in [Sides -> SUBSET Packets]
    BY DEF TypeOK
  <2>3. QED BY <1>7, <1>8, <2>1, <2>2
<1>11. CASE TimeoutPackets
  <2> DEFINE pkts == [s \in Sides |-> expired[Other(s)]]
  <2>1. pkts \in [Sides -> SUBSET Packets]
    BY SideFacts DEF TypeOK
  <2>2. /\ calls' = calls \union Batches("timeout", pkts) /\ phase' = "timeouts"
        /\ \A c \in calls : ~c.live
    BY <1>11 DEF TimeoutPackets, NoLiveCall
  <2> HIDE DEF pkts
  <2>3. QED BY <1>7, <2>1, <2>2
<1>12. CASE BeginRound \/ BeginAckSearch \/ SaveHeights \/ SearchFails \/ Crash
  <2>1. \A c \in calls' : c \in calls /\ ~c.live
    BY <1>8, <1>12 DEF BeginRound, BeginAckSearch, SaveHeights, SearchFails, Crash, NoLiveCall
  <2>2. QED BY <1>2, <2>1
<1>13. CASE RoundStep
  BY <1>3, <1>9, <1>10, <1>11, <1>12, <1>13
     DEF RoundStep, ReadPacketHeight, ReadAckHeight, queryCommitmentsV2, Search, SearchPackets,
         SearchAcks
<1>14. ASSUME NEW c \in calls, CallStep(c) PROVE LiveCalls'
  BY <1>3, <1>5, <1>6, <1>14 DEF CallStep, Submit, Returns, Reject, roundVars
<1>15. CASE Failure
  BY <1>3, <1>6, <1>12, <1>15 DEF Failure, CallFails, ReplyLost
<1>16. CASE UNCHANGED vars
  BY <1>3, <1>16 DEF vars, roundVars
<1>17. ASSUME NEW s \in Sides, NEW S \in SUBSET {p \in Packets : From[p] = s}, NewBlock(s, S)
       PROVE  LiveCalls'
  BY <1>3, <1>17 DEF NewBlock, roundVars
<1>18. QED BY <1>13, <1>14, <1>15, <1>16, <1>17 DEF Next

\* A status answer and the search beside it stay near each other.
LEMMA StatusStep ==
  TypeOK /\ HeightsReached /\ SearchOver /\ StatusNearSearch /\ [Next]_vars => StatusNearSearch'
<1> SUFFICES ASSUME TypeOK, HeightsReached, SearchOver, StatusNearSearch, [Next]_vars
             PROVE  StatusNearSearch'
  OBVIOUS
<1>0. Slack \in Nat /\ Lookback \in [Sides -> Nat]
  BY ConstantsAssumption
<1>1. CASE UNCHANGED <<phase, newPacket, newAck, seen>>
  BY <1>1 DEF StatusNearSearch
<1>2. CASE seen' = Zero
  BY <1>2, SideFacts DEF StatusNearSearch
<1>3. CASE seen' = seen /\ phase \notin {"packets", "acks"}
  BY <1>2, <1>3 DEF SearchOver
<1>4. ASSUME NEW s \in Sides, ReadPacketHeight(s) \/ ReadAckHeight(s)
      PROVE  StatusNearSearch'
  <2>1. seen[s] # 0 => Status(s) <= seen[s] + Slack
    BY <1>0, Numbers DEF Status, Smaller
  <2>2. CASE ReadPacketHeight(s)
    BY <2>1, <2>2 DEF ReadPacketHeight, TypeOK, StatusNearSearch
  <2>3. CASE ReadAckHeight(s)
    BY <2>1, <2>3 DEF ReadAckHeight, TypeOK, StatusNearSearch
  <2>4. QED BY <1>4, <2>2, <2>3
<1>5. ASSUME NEW s \in Sides, NEW v \in 1..height[s], Search(s, v)
      PROVE  StatusNearSearch'
  <2>1. /\ v + Slack >= height[s] /\ seen' = [seen EXCEPT ![s] = v]
        /\ UNCHANGED <<phase, newPacket, newAck>>
    BY <1>5 DEF Search, SearchPackets, SearchAcks, Visible
  <2>2. v \in Nat /\ height[s] \in Nat /\ newPacket[s] \in Nat /\ newAck[s] \in Nat
    BY Numbers
  <2>3. newPacket[s] <= v + Slack /\ newAck[s] <= v + Slack
    BY <1>0, <2>1, <2>2 DEF HeightsReached
  <2>4. QED BY <2>1, <2>3 DEF TypeOK, StatusNearSearch
<1>6. ASSUME NEW c \in calls, Throws(c) PROVE StatusNearSearch'
  <2>1. ForgetRound \/ UNCHANGED roundVars
    BY <1>6, ThrowsRound, Zenon
  <2>2. QED BY <1>1, <1>2, <2>1 DEF ForgetRound, roundVars
<1>7. CASE RoundStep
  BY <1>1, <1>2, <1>3, <1>4, <1>5, <1>7 DEF RoundStep, BeginRound, SplitAndRelay, BeginAckSearch,
     RelayAcks, TimeoutPackets, SaveHeights, queryCommitmentsV2
<1>8. ASSUME NEW c \in calls, CallStep(c) PROVE StatusNearSearch'
  BY <1>1, <1>6, <1>8
     DEF CallStep, UseKnownHeader, AwaitBlock, UpdateClient, Submit, Reject, roundVars
<1>9. CASE Failure
  BY <1>2, <1>5, <1>6, <1>9
     DEF Failure, SearchFails, Crash, CallFails, ReplyLost, ForgetRound
<1>10. CASE UNCHANGED vars
  BY <1>1, <1>10 DEF vars, roundVars
<1>11. ASSUME NEW s \in Sides, NEW S \in SUBSET {p \in Packets : From[p] = s}, NewBlock(s, S)
       PROVE  StatusNearSearch'
  BY <1>1, <1>11 DEF NewBlock, roundVars
<1>12. QED BY <1>7, <1>8, <1>9, <1>10, <1>11 DEF Next

\* No packet falls between what a round has in hand and where the next begins.
LEMMA PacketsStep ==
  ASSUME TimelyStatus, CommitmentsAnswered, TypeOK, TypeOK', HeightsReached, LiveCalls,
         StatusNearSearch, PacketsCovered, ChainsAdvance, HeightsKept, LiveStays, RoundMoves
  PROVE  PacketsCovered'
<1> SUFFICES ASSUME NEW p \in Packets, Pending(p)'
             PROVE  /\ NotBelow(From[p], sent'[p], packetHeight'[From[p]])
                    /\ phase' = "packets" /\ seen'[From[p]] # 0 =>
                         p \in found'[From[p]] \/ sent'[p] > seen'[From[p]]
                    /\ phase' \in {"relay", "acks", "relayAcks", "timeouts"} =>
                         \/ NotBelow(From[p], sent'[p], newPacket'[From[p]])
                         \/ phase' # "timeouts" /\ p \in expired'[From[p]]
                         \/ Carried({"recv", "timeout"}, p)'
  BY DEF PacketsCovered
<1> DEFINE s == From[p]
<1>1. /\ s \in Sides /\ Lookback[s] \in Nat /\ Slack \in Nat /\ Slack <= Lookback[s] + 1
      /\ height[s] \in Nat /\ sent[p] \in Nat /\ sent'[p] \in Nat
      /\ packetHeight[s] \in Nat /\ newPacket[s] \in Nat /\ seen[s] \in Nat
      /\ packetHeight'[s] \in Nat /\ newPacket'[s] \in Nat /\ seen'[s] \in Nat
  BY Numbers, SideFacts, ConstantsAssumption DEF TypeOK, TimelyStatus
<1>2. CASE sent'[p] = height[s] + 1
  <2>1. packetHeight'[s] <= height[s] /\ newPacket'[s] <= height[s] /\ seen'[s] <= height[s]
    BY <1>1 DEF HeightsReached, HeightsKept
  <2>2. QED BY <1>1, <1>2, <2>1 DEF NotBelow
<1>3. CASE sent'[p] = sent[p]
  <2>1. Pending(p)
    BY <1>3 DEF Pending, ChainsAdvance
  <2>2. /\ NotBelow(s, sent[p], packetHeight[s])
        /\ phase = "packets" /\ seen[s] # 0 => p \in found[s] \/ sent[p] > seen[s]
        /\ phase \in {"relay", "acks", "relayAcks", "timeouts"} =>
             \/ NotBelow(s, sent[p], newPacket[s])
             \/ phase # "timeouts" /\ p \in expired[s]
             \/ Carried({"recv", "timeout"}, p)
    BY <2>1 DEF PacketsCovered
  <2>3. NotBelow(s, sent[p], packetHeight'[s])
    <3>1. CASE UNCHANGED savedVars
      BY <2>2, <3>1 DEF savedVars
    <3>2. CASE SaveHeights
      <4>1. phase = "timeouts" /\ packetHeight' = newPacket /\ ~Carried({"recv", "timeout"}, p)
        BY <3>2 DEF SaveHeights, NoLiveCall, Carried
      <4>2. QED BY <2>2, <4>1
    <3>3. QED BY <3>1, <3>2 DEF RoundMoves, SavedStay
  <2>4. ASSUME phase' = "packets", seen'[s] # 0
        PROVE  p \in found'[s] \/ sent[p] > seen'[s]
    <3>1. /\ phase = "packets"
          /\ \/ seen'[s] = seen[s] /\ found'[s] = found[s]
             \/ found'[s] = filterUnreceived(s, seen'[s])
             \/ seen'[s] = seen[s] /\ found'[s] = withCommitment(found[s])
      BY <1>1, <2>4 DEF RoundMoves, PacketSearch
    <3>2. CASE found'[s] = filterUnreceived(s, seen'[s])
      BY <1>1, <2>1, <2>2, <3>2 DEF filterUnreceived, querySentPackets, Pending
    <3>3. CASE seen'[s] = seen[s] /\ found'[s] = found[s]
      BY <2>2, <2>4, <3>1, <3>3
    <3>3a. CASE seen'[s] = seen[s] /\ found'[s] = withCommitment(found[s])
      BY <2>1, <2>2, <2>4, <3>1, <3>3a DEF withCommitment, Pending
    <3>4. QED BY <3>1, <3>2, <3>3, <3>3a
  <2>5. ASSUME phase' \in {"relay", "acks", "relayAcks", "timeouts"}
        PROVE  \/ NotBelow(s, sent[p], newPacket'[s])
               \/ phase' # "timeouts" /\ p \in expired'[s]
               \/ Carried({"recv", "timeout"}, p)'
    <3>1. CASE SplitAndRelay
      <4> DEFINE pkts == [t \in Sides |-> toSubmit(t)]
      <4>1. /\ phase = "packets" /\ seen[s] # 0 /\ newPacket' = newPacket /\ phase' = "relay"
            /\ expired'[s] = found[s] \ toSubmit(s)
            /\ calls' = calls \union Batches("recv", pkts)
        BY <1>1, <3>1 DEF SplitAndRelay, Searched
      <4>2. CASE sent[p] > seen[s]
        <5>1. newPacket[s] <= seen[s] + Slack
          BY <1>1, <4>1 DEF StatusNearSearch
        <5>2. QED BY <1>1, <4>1, <4>2, <5>1 DEF NotBelow
      <4>3. CASE p \in found[s] /\ p \notin toSubmit(s)
        BY <4>1, <4>3
      <4>4. CASE p \in toSubmit(s)
        <5>1. pkts \in [Sides -> SUBSET Packets] /\ p \in pkts[s]
          BY <1>1, <4>4 DEF toSubmit, TypeOK
        <5> HIDE DEF pkts
        <5>2. PICK c \in Batches("recv", pkts) : c.live /\ c.kind = "recv" /\ p \in c.pkts
          BY <1>1, <5>1, BatchCalls
        <5>3. QED BY <4>1, <5>2 DEF Carried
      <4>5. QED BY <2>2, <4>1, <4>2, <4>3, <4>4
    <3>2. CASE TimeoutPackets
      <4> DEFINE pkts == [t \in Sides |-> expired[Other(t)]]
      <4>1. /\ phase = "relayAcks" /\ newPacket' = newPacket
            /\ calls' = calls \union Batches("timeout", pkts)
            /\ ~Carried({"recv", "timeout"}, p)
        BY <3>2 DEF TimeoutPackets, NoLiveCall, Carried
      <4>2. CASE p \in expired[s]
        <5>1. pkts \in [Sides -> SUBSET Packets] /\ Other(s) \in Sides /\ p \in pkts[Other(s)]
          BY <1>1, <4>2, SideFacts DEF TypeOK
        <5> HIDE DEF pkts
        <5>2. PICK c \in Batches("timeout", pkts) : c.live /\ c.kind = "timeout" /\ p \in c.pkts
          BY <5>1, BatchCalls
        <5>3. QED BY <4>1, <5>2 DEF Carried
      <4>3. QED BY <2>2, <4>1, <4>2
    <3>3. CASE /\ newPacket' = newPacket /\ phase \notin {"idle", "packets"}
               /\ expired' = expired /\ (phase' = "timeouts" => phase = "timeouts")
      <4>1. phase \in {"relay", "acks", "relayAcks", "timeouts"}
        BY <3>3 DEF TypeOK, Phases
      <4>2. Carried({"recv", "timeout"}, p) => Carried({"recv", "timeout"}, p)'
        BY <2>5, CarriedStays
      <4>3. QED BY <2>2, <3>3, <4>1, <4>2
    <3>4. QED BY <2>5, <3>1, <3>2, <3>3 DEF RoundMoves, PastPackets
  <2>6. QED BY <1>3, <2>3, <2>4, <2>5
<1>4. QED BY <1>2, <1>3 DEF ChainsAdvance

\* No acknowledgement does either.
LEMMA AcksStep ==
  ASSUME TimelyStatus, TypeOK, TypeOK', HeightsReached, LiveCalls, StatusNearSearch,
         AcksCovered, ChainsAdvance, HeightsKept, LiveStays, RoundMoves
  PROVE  AcksCovered'
<1> SUFFICES ASSUME NEW p \in Packets, Unacked(p)'
             PROVE  /\ NotBelow(To(p), rcvd'[p], ackHeight'[To(p)])
                    /\ phase' = "acks" /\ seen'[To(p)] # 0 =>
                         p \in found'[To(p)] \/ rcvd'[p] > seen'[To(p)]
                    /\ phase' \in {"relayAcks", "timeouts"} =>
                         \/ NotBelow(To(p), rcvd'[p], newAck'[To(p)])
                         \/ Carried({"ack"}, p)'
  BY DEF AcksCovered, To
<1>0. PICK s \in Sides : s = To(p)
  BY SideFacts
<1>1. /\ s \in Sides /\ Lookback[s] \in Nat /\ Slack \in Nat /\ Slack <= Lookback[s] + 1
      /\ height[s] \in Nat /\ rcvd[p] \in Nat /\ rcvd'[p] \in Nat
      /\ ackHeight[s] \in Nat /\ newAck[s] \in Nat /\ seen[s] \in Nat
      /\ ackHeight'[s] \in Nat /\ newAck'[s] \in Nat /\ seen'[s] \in Nat
  BY Numbers, SideFacts, ConstantsAssumption DEF TypeOK, TimelyStatus
<1>2. CASE rcvd'[p] = height[s] + 1
  <2>1. ackHeight'[s] <= height[s] /\ newAck'[s] <= height[s] /\ seen'[s] <= height[s]
    BY <1>1 DEF HeightsReached, HeightsKept
  <2>2. QED BY <1>0, <1>1, <1>2, <2>1 DEF NotBelow
<1>3. CASE rcvd'[p] = rcvd[p]
  <2>1. Unacked(p)
    BY <1>3 DEF Unacked, ChainsAdvance
  <2>2. /\ NotBelow(s, rcvd[p], ackHeight[s])
        /\ phase = "acks" /\ seen[s] # 0 => p \in found[s] \/ rcvd[p] > seen[s]
        /\ phase \in {"relayAcks", "timeouts"} =>
             NotBelow(s, rcvd[p], newAck[s]) \/ Carried({"ack"}, p)
    BY <1>0, <2>1 DEF AcksCovered
  <2>3. NotBelow(s, rcvd[p], ackHeight'[s])
    <3>1. CASE UNCHANGED savedVars
      BY <2>2, <3>1 DEF savedVars
    <3>2. CASE SaveHeights
      <4>1. phase = "timeouts" /\ ackHeight' = newAck /\ ~Carried({"ack"}, p)
        BY <3>2 DEF SaveHeights, NoLiveCall, Carried
      <4>2. QED BY <2>2, <4>1
    <3>3. QED BY <3>1, <3>2 DEF RoundMoves, SavedStay
  <2>4. ASSUME phase' = "acks", seen'[s] # 0
        PROVE  p \in found'[s] \/ rcvd[p] > seen'[s]
    <3>1. /\ phase = "acks"
          /\ \/ seen'[s] = seen[s] /\ found'[s] = found[s]
             \/ found'[s] = getPendingAcks(s, seen'[s])
      BY <1>1, <2>4 DEF RoundMoves, AckSearch
    <3>2. CASE found'[s] = getPendingAcks(s, seen'[s])
      BY <1>0, <1>1, <2>1, <2>2, <3>2 DEF getPendingAcks
    <3>3. CASE seen'[s] = seen[s] /\ found'[s] = found[s]
      BY <2>2, <2>4, <3>1, <3>3
    <3>4. QED BY <3>1, <3>2, <3>3
  <2>5. ASSUME phase' \in {"relayAcks", "timeouts"}
        PROVE  NotBelow(s, rcvd[p], newAck'[s]) \/ Carried({"ack"}, p)'
    <3>1. CASE RelayAcks
      <4>1. /\ phase = "acks" /\ seen[s] # 0 /\ newAck' = newAck
            /\ calls' = calls \union Batches("ack", found)
        BY <1>1, <3>1 DEF RelayAcks, Searched
      <4>2. CASE rcvd[p] > seen[s]
        <5>1. newAck[s] <= seen[s] + Slack
          BY <1>1, <4>1 DEF StatusNearSearch
        <5>2. QED BY <1>1, <4>1, <4>2, <5>1 DEF NotBelow
      <4>3. CASE p \in found[s]
        <5>1. found \in [Sides -> SUBSET Packets]
          BY DEF TypeOK
        <5>2. PICK c \in Batches("ack", found) : c.live /\ c.kind = "ack" /\ p \in c.pkts
          BY <1>1, <4>3, <5>1, BatchCalls
        <5>3. QED BY <4>1, <5>2 DEF Carried
      <4>4. QED BY <2>2, <4>1, <4>2, <4>3
    <3>2. CASE newAck' = newAck /\ phase \in {"relayAcks", "timeouts"}
      <4>1. Carried({"ack"}, p) => Carried({"ack"}, p)'
        BY <2>5, CarriedStays
      <4>2. QED BY <2>2, <3>2, <4>1
    <3>3. QED BY <2>5, <3>1, <3>2 DEF RoundMoves, PastAcks
  <2>6. QED BY <1>0, <1>3, <2>3, <2>4, <2>5
<1>4. QED BY <1>0, <1>2, <1>3 DEF ChainsAdvance

LEMMA CoverInit == Init => LiveCalls /\ StatusNearSearch /\ PacketsCovered /\ AcksCovered
BY SideFacts DEF Init, LiveCalls, StatusNearSearch, PacketsCovered, AcksCovered, Pending, Unacked

LEMMA CoverNext ==
  ASSUME TimelyStatus
  PROVE  /\ TypeOK /\ TypeOK' /\ CallInv /\ AckCover /\ [Next]_vars => AckCover'
         /\ CommitmentsAnswered =>
              (TypeOK /\ TypeOK' /\ CallInv /\ PacketCover /\ [Next]_vars => PacketCover')
<1> SUFFICES ASSUME TypeOK, TypeOK', CallInv, LiveCalls, StatusNearSearch, [Next]_vars
             PROVE  /\ LiveCalls' /\ StatusNearSearch'
                    /\ AcksCovered => AcksCovered'
                    /\ CommitmentsAnswered /\ PacketsCovered => PacketsCovered'
  BY DEF AckCover, PacketCover
<1>1. HeightsReached /\ InHand /\ SearchOver
  BY DEF CallInv
<1>2. ChainsAdvance /\ HeightsKept /\ LiveStays /\ RoundMoves
  BY <1>1, StepAdvances, StepKeeps, StepLive, StepRound
<1>3. LiveCalls' /\ StatusNearSearch'
  BY <1>1, LiveStep, StatusStep
<1>4. CommitmentsAnswered /\ PacketsCovered => PacketsCovered'
  BY <1>1, <1>2, PacketsStep
<1>5. AcksCovered => AcksCovered'
  BY <1>1, <1>2, AcksStep
<1>6. QED BY <1>3, <1>4, <1>5

\* If a status answer runs no further past the search beside it than the next
\* search looks back, the ack heights the loop saves never skip an unseen
\* acknowledgement, whatever fails, crashes or is abandoned.
THEOREM NoAckIsStranded ==
  ASSUME TimelyStatus
  PROVE  Spec => []NoAckStranded
<1>1. Init => AckCover
  BY CoverInit DEF AckCover
<1>2. TypeOK /\ TypeOK' /\ CallInv /\ AckCover /\ [Next]_vars => AckCover'
  BY CoverNext
<1>3. CallInv /\ AckCover => NoAckStranded
  BY DEF CallInv, AckCover, NoAckStranded, getPendingAcks, AcksCovered, HeightsReached
<1>4. QED BY <1>1, <1>2, <1>3, TypeCorrect, CallInvariant, PTL DEF Spec

\* If moreover commitment queries are answered, the packet heights the loop
\* saves never skip a pending packet.
THEOREM NoPacketIsStranded ==
  ASSUME TimelyStatus, CommitmentsAnswered
  PROVE  Spec => []NoPacketStranded
<1>1. Init => PacketCover
  BY CoverInit DEF PacketCover
<1>2. TypeOK /\ TypeOK' /\ CallInv /\ PacketCover /\ [Next]_vars => PacketCover'
  BY CoverNext
<1>3. CallInv /\ PacketCover => NoPacketStranded
  BY DEF CallInv, PacketCover, NoPacketStranded, getPendingPackets, withCommitment,
         filterUnreceived, querySentPackets, Pending, PacketsCovered, HeightsReached
<1>4. QED BY <1>1, <1>2, <1>3, TypeCorrect, CallInvariant, PTL DEF Spec

-------------------------------------------------------------------------------
(***************************************************************************)
(* LinkV2 implements the safety of PacketLifecycle: its initial states are *)
(* initial states there, and each of its steps moves packets from one      *)
(* state of their life to the next, or moves none.                         *)
(***************************************************************************)

\* What the chains keep of a packet: nothing before it is sent, and no
\* receipt of a block in which it had expired.
Ordinary ==
  \A p \in Packets : /\ rcvd[p] # 0 \/ outcome[p] # "open" => sent[p] # 0
                     /\ rcvd[p] # 0 => ~Elapsed(p, rcvd[p])

\* Whatever the relayer has in hand has been sent.
HandledSent ==
  /\ \A s \in Sides : \A p \in expired[s] : sent[p] # 0
  /\ \A c \in calls : \A p \in c.pkts : sent[p] # 0

LifeInv == Ordinary /\ HandledSent

LEMMA LifeInit == Init => LifeInv
BY SideFacts DEF Init, LifeInv, Ordinary, HandledSent

\* A call in hand, and what its transaction finds in order.
LEMMA CallTyped ==
  ASSUME TypeOK, NEW c \in calls
  PROVE  /\ c.proof \in Sides /\ Other(c.proof) \in Sides /\ c.pkts \subseteq Packets
         /\ c.kind \in {"recv", "ack", "timeout"} /\ c.mark \in Nat
BY SideFacts DEF TypeOK, Call

\* What a step does to receipts: a packet is received unexpired, by a call.
LEMMA TransactionOrdinary ==
  ASSUME TypeOK, CallInv, LifeInv, NEW c \in calls,
         \/ c.pc = "submit" /\ ~Refused(c) /\ Deliver(c)
         \/ updateClient(c)
  PROVE  Ordinary'
<1>0. /\ c.proof \in Sides /\ Other(c.proof) \in Sides /\ c.pkts \subseteq Packets
      /\ \A p \in c.pkts : sent[p] # 0
      /\ height \in [Sides -> Nat \ {0}] /\ rcvd \in [Packets -> Nat] /\ outcome \in [Packets -> Outcomes]
  BY CallTyped DEF LifeInv, HandledSent, TypeOK
<1>1. CASE updateClient(c)
  BY <1>1 DEF updateClient, Ordinary, LifeInv, Elapsed
<1>2. CASE receivePacketsV2(c) /\ ~Refused(c)
  <2>1. /\ c.kind = "recv" /\ UNCHANGED <<sent, outcome>>
        /\ height' = [height EXCEPT ![Other(c.proof)] = @ + 1]
        /\ rcvd' = [p \in Packets |-> IF p \in c.pkts /\ rcvd[p] = 0
                                     THEN height'[Other(c.proof)] ELSE rcvd[p]]
    BY <1>2 DEF receivePacketsV2, Committed
  <2>2. \A p \in c.pkts : ~Elapsed(p, height[Other(c.proof)] + 1)
    BY <1>2, <2>1 DEF Refused, RecvRefused
  <2>3. height'[Other(c.proof)] = height[Other(c.proof)] + 1  BY <1>0, <2>1
  <2>4. ASSUME NEW p \in Packets
        PROVE  /\ rcvd'[p] # 0 \/ outcome'[p] # "open" => sent'[p] # 0
               /\ rcvd'[p] # 0 => ~Elapsed(p, rcvd'[p])
    <3>1. CASE p \in c.pkts /\ rcvd[p] = 0
      <4>1. rcvd'[p] = height[Other(c.proof)] + 1  BY <2>1, <2>3, <3>1
      <4> QED  BY <1>0, <2>1, <2>2, <3>1, <4>1
    <3>2. CASE ~(p \in c.pkts /\ rcvd[p] = 0)
      <4>1. rcvd'[p] = rcvd[p]  BY <2>1, <3>2
      <4> QED  BY <2>1, <4>1 DEF LifeInv, Ordinary
    <3> QED  BY <3>1, <3>2
  <2> QED  BY <2>4 DEF Ordinary, Elapsed
<1>3. CASE acknowledgePacketsV2(c) \/ timeoutPacketsV2(c)
  <2>1. UNCHANGED <<sent, rcvd>> /\ \A p \in Packets : p \notin c.pkts => outcome'[p] = outcome[p]
    BY <1>3 DEF acknowledgePacketsV2, timeoutPacketsV2
  <2> QED  BY <1>0, <2>1 DEF Ordinary, LifeInv, Elapsed
<1> QED  BY <1>1, <1>2, <1>3 DEF Deliver

LEMMA OrdinaryStep == TypeOK /\ CallInv /\ LifeInv /\ [Next]_vars => Ordinary'
<1> SUFFICES ASSUME TypeOK, CallInv, LifeInv, [Next]_vars PROVE Ordinary'  OBVIOUS
<1>1. CASE UNCHANGED <<sent, rcvd, outcome>>
  BY <1>1 DEF Ordinary, LifeInv, Elapsed
<1>2. CASE UNCHANGED chainVars  BY <1>1, <1>2 DEF chainVars
<1>3. ASSUME NEW s \in Sides, NEW S \in SUBSET {p \in Packets : From[p] = s}, NewBlock(s, S)
      PROVE  Ordinary'
  <2>1. height' = [height EXCEPT ![s] = @ + 1] /\ UNCHANGED <<rcvd, outcome>>
        /\ sent' = [p \in Packets |-> IF p \in S THEN height'[s] ELSE sent[p]]
    BY <1>3 DEF NewBlock
  <2>2. height'[s] # 0  BY <2>1 DEF TypeOK
  <2>3. \A p \in Packets : sent[p] # 0 => sent'[p] # 0  BY <2>1, <2>2
  <2> QED  BY <2>1, <2>3 DEF Ordinary, LifeInv, Elapsed
<1>4. CASE RoundStep
  BY <1>2, <1>4 DEF RoundStep, BeginRound, SplitAndRelay, BeginAckSearch, RelayAcks, TimeoutPackets,
     SaveHeights, ReadPacketHeight, ReadAckHeight, queryCommitmentsV2, Search, SearchPackets, SearchAcks
<1>5. ASSUME NEW c \in calls, CallStep(c) PROVE Ordinary'
  BY <1>2, <1>5, TransactionOrdinary
     DEF CallStep, UseKnownHeader, AwaitBlock, UpdateClient, Submit, Reject
<1>6. CASE Failure
  BY <1>2, <1>6, TransactionOrdinary
     DEF Failure, SearchFails, Crash, CallFails, ReplyLost
<1>7. CASE UNCHANGED vars  BY <1>2, <1>7 DEF vars
<1> QED  BY <1>3, <1>4, <1>5, <1>6, <1>7 DEF Next

\* What a step sets aside to time out was found by a search of packets.
ExpiredFound ==
  \A s \in Sides : \A p \in expired'[s] : p \in expired[s] \/ (phase = "packets" /\ p \in found[s])

LEMMA StepExpired == TypeOK /\ [Next]_vars => ExpiredFound
<1> SUFFICES ASSUME TypeOK, [Next]_vars PROVE ExpiredFound  OBVIOUS
<1>1. CASE UNCHANGED expired  BY <1>1 DEF ExpiredFound
<1>2. CASE expired' = Nothing  BY <1>2, SideFacts DEF ExpiredFound
<1>3. ASSUME NEW c \in calls, Throws(c) PROVE ExpiredFound
  <2>1. ForgetRound \/ UNCHANGED roundVars  BY <1>3, ThrowsRound
  <2> QED  BY <1>1, <1>2, <2>1 DEF ForgetRound, roundVars
<1>4. CASE RoundStep
  <2>1. CASE SplitAndRelay  BY <2>1 DEF SplitAndRelay, ExpiredFound
  <2> QED  BY <1>1, <1>2, <1>4, <2>1 DEF RoundStep, BeginRound, BeginAckSearch, RelayAcks,
     TimeoutPackets, SaveHeights, ReadPacketHeight, ReadAckHeight, queryCommitmentsV2, Search,
     SearchPackets, SearchAcks
<1>5. ASSUME NEW c \in calls, CallStep(c) PROVE ExpiredFound
  BY <1>1, <1>3, <1>5 DEF CallStep, UseKnownHeader, AwaitBlock, UpdateClient, Submit, Reject, roundVars
<1>6. CASE Failure
  BY <1>1, <1>2, <1>3, <1>6 DEF Failure, SearchFails, Crash, CallFails, ReplyLost, ForgetRound
<1>7. CASE UNCHANGED vars  BY <1>1, <1>7 DEF vars, roundVars
<1>8. ASSUME NEW s \in Sides, NEW S, NewBlock(s, S) PROVE ExpiredFound
  BY <1>1, <1>8 DEF NewBlock, roundVars
<1> QED  BY <1>4, <1>5, <1>6, <1>7, <1>8 DEF Next

LEMMA HandledStep ==
  ASSUME TypeOK, TypeOK', CallInv, LifeInv, ChainsAdvance, CallsMove, ExpiredFound
  PROVE  HandledSent'
<1>1. \A p \in Packets : sent[p] # 0 => sent'[p] # 0  BY DEF ChainsAdvance
<1>2. \A s \in Sides : \A p \in expired[s] : p \in Packets /\ sent[p] # 0
  BY DEF LifeInv, HandledSent, TypeOK
<1>3. ASSUME NEW s \in Sides, NEW p \in found[s], phase \in {"packets", "acks"}
      PROVE  p \in Packets /\ sent[p] # 0
  BY <1>3 DEF CallInv, InHand, SentBy, WrittenBy, LifeInv, Ordinary, TypeOK
<1>4. ASSUME NEW s \in Sides, NEW p \in expired'[s] PROVE sent'[p] # 0
  BY <1>1, <1>2, <1>3, <1>4 DEF ExpiredFound
<1>5. ASSUME NEW d \in calls', NEW p \in d.pkts PROVE sent'[p] # 0
  <2>1. d.proof \in Sides /\ Other(d.proof) \in Sides /\ p \in Packets
    BY <1>5, SideFacts DEF TypeOK, Call
  <2>2. CASE JustMade(d)  BY <1>1, <1>2, <1>3, <2>1, <2>2 DEF JustMade
  <2>3. ASSUME NEW c \in calls, Continues(c, d) PROVE sent'[p] # 0
    BY <1>1, <1>5, <2>1, <2>3 DEF Continues, LifeInv, HandledSent
  <2> QED  BY <2>2, <2>3 DEF CallsMove
<1> QED  BY <1>4, <1>5 DEF HandledSent

LEMMA LifeNext == TypeOK /\ TypeOK' /\ CallInv /\ LifeInv /\ [Next]_vars => LifeInv'
<1> SUFFICES ASSUME TypeOK, TypeOK', CallInv, LifeInv, [Next]_vars PROVE LifeInv'  OBVIOUS
<1>1. Ordinary'  BY OrdinaryStep
<1>2. HeightsReached /\ InHand  BY DEF CallInv
<1>3. ChainsAdvance /\ CallsMove /\ ExpiredFound  BY <1>2, StepAdvances, StepMoves, StepExpired
<1> QED  BY <1>1, <1>3, HandledStep DEF LifeInv

LEMMA LifeInvariant == Spec => []LifeInv
BY LifeInit, LifeNext, TypeCorrect, CallInvariant, PTL DEF Spec

-------------------------------------------------------------------------------
(***************************************************************************)
(* The mapping.                                                            *)
(***************************************************************************)

StateOf(p) ==
  IF outcome[p] # "open" THEN outcome[p]
  ELSE IF rcvd[p] # 0 THEN "received"
  ELSE IF sent[p] # 0 THEN "sent" ELSE "unsent"

LEMMA StatePoints ==
  /\ packetState = [p \in Packets |-> StateOf(p)]
  /\ packetState' = [p \in Packets |-> StateOf(p)']
BY DEF packetState, StateOf

\* The packets of S, and no others, go from one state to the next.
Moves(S, from, to) ==
  /\ \A p \in S : StateOf(p) = from /\ StateOf(p)' = to
  /\ \A p \in Packets \ S : StateOf(p)' = StateOf(p)

Maps == Lifecycle!Next \/ UNCHANGED packetState

LEMMA MovesMaps ==
  ASSUME NEW S \in SUBSET Packets, NEW from, NEW to,
         <<from, to>> \in {<<"unsent", "sent">>, <<"sent", "received">>,
                          <<"received", "acked">>, <<"sent", "timedout">>},
         Moves(S, from, to)
  PROVE  Maps
<1>1. CASE S = {}
  BY <1>1, StatePoints DEF Moves, Maps
<1>2. CASE S # {}
  <2>1. \A p \in S : packetState[p] = from  BY StatePoints DEF Moves
  <2>2. packetState' = [p \in Packets |-> IF p \in S THEN to ELSE packetState[p]]
    BY StatePoints DEF Moves
  <2>3. Lifecycle!Move(S, from, to)  BY <1>2, <2>1, <2>2 DEF Lifecycle!Move
  <2>4. Lifecycle!Send(S) \/ Lifecycle!Receive(S) \/ Lifecycle!Acknowledge(S) \/ Lifecycle!TimeOut(S)
    BY <2>3 DEF Lifecycle!Send, Lifecycle!Receive, Lifecycle!Acknowledge, Lifecycle!TimeOut
  <2> QED  BY <2>4 DEF Maps, Lifecycle!Next
<1> QED  BY <1>1, <1>2

LEMMA StutterMaps ==
  ASSUME UNCHANGED <<sent, rcvd, outcome>>
  PROVE  Maps
BY DEF Maps, packetState

LEMMA SendMaps ==
  ASSUME TypeOK, LifeInv, NEW s \in Sides, NEW S \in SUBSET {p \in Packets : From[p] = s}, NewBlock(s, S)
  PROVE  Maps
<1>1. /\ height' = [height EXCEPT ![s] = @ + 1] /\ UNCHANGED <<rcvd, outcome>>
      /\ sent' = [p \in Packets |-> IF p \in S THEN height'[s] ELSE sent[p]]
      /\ \A p \in S : sent[p] = 0
  BY DEF NewBlock
<1>2. height'[s] # 0 /\ S \in SUBSET Packets  BY <1>1 DEF TypeOK
<1>3. \A p \in S : rcvd[p] = 0 /\ outcome[p] = "open"  BY <1>1, <1>2 DEF LifeInv, Ordinary
<1>4. \A p \in S : sent'[p] # 0  BY <1>1, <1>2
<1>5. \A p \in Packets \ S : sent'[p] = sent[p]  BY <1>1
<1>6. Moves(S, "unsent", "sent")  BY <1>1, <1>2, <1>3, <1>4, <1>5 DEF Moves, StateOf
<1> QED  BY <1>2, <1>6, MovesMaps

\* A transaction is refused unless its packets are where it finds them.
LEMMA TransactionMaps ==
  ASSUME TypeOK, CallInv, LifeInv, NEW c \in calls,
         \/ c.pc = "submit" /\ ~Refused(c) /\ Deliver(c)
         \/ updateClient(c)
  PROVE  Maps
<1>0. /\ c.proof \in Sides /\ Other(c.proof) \in Sides /\ c.pkts \subseteq Packets /\ c.mark \in Nat
      /\ \A p \in c.pkts : sent[p] # 0
      /\ height \in [Sides -> Nat \ {0}] /\ rcvd \in [Packets -> Nat] /\ outcome \in [Packets -> Outcomes]
  BY CallTyped DEF LifeInv, HandledSent, TypeOK
<1>1. CASE updateClient(c)  BY <1>1, StutterMaps DEF updateClient
<1>2. CASE receivePacketsV2(c)
  <2> DEFINE S == {p \in c.pkts : rcvd[p] = 0 /\ outcome[p] = "open"}
  <2>1. /\ UNCHANGED <<sent, outcome>> /\ height' = [height EXCEPT ![Other(c.proof)] = @ + 1]
        /\ rcvd' = [p \in Packets |-> IF p \in c.pkts /\ rcvd[p] = 0
                                     THEN height'[Other(c.proof)] ELSE rcvd[p]]
    BY <1>2 DEF receivePacketsV2, Committed
  <2>2. height'[Other(c.proof)] # 0  BY <1>0, <2>1
  <2>3. \A p \in S : StateOf(p) = "sent" /\ StateOf(p)' = "received"
    BY <1>0, <2>1, <2>2 DEF StateOf
  <2>4. \A p \in Packets \ S : StateOf(p)' = StateOf(p)
    BY <1>0, <2>1, <2>2 DEF StateOf
  <2>5. Moves(S, "sent", "received") /\ S \in SUBSET Packets  BY <1>0, <2>3, <2>4 DEF Moves
  <2> QED  BY <2>5, MovesMaps
<1>3. CASE acknowledgePacketsV2(c)
  <2> DEFINE S == {p \in c.pkts : outcome[p] = "open"}
  <2>1. /\ c.kind = "ack" /\ UNCHANGED <<sent, rcvd>>
        /\ outcome' = [p \in Packets |-> IF p \in c.pkts /\ outcome[p] = "open" THEN "acked" ELSE outcome[p]]
    BY <1>3 DEF acknowledgePacketsV2
  <2>2. \A p \in c.pkts : rcvd[p] # 0  BY <2>1 DEF CallInv, InHand, WrittenBy
  <2>3. \A p \in S : StateOf(p) = "received" /\ StateOf(p)' = "acked"
    BY <1>0, <2>1, <2>2 DEF StateOf
  <2>4. \A p \in Packets \ S : StateOf(p)' = StateOf(p)  BY <1>0, <2>1 DEF StateOf
  <2>5. Moves(S, "received", "acked") /\ S \in SUBSET Packets  BY <1>0, <2>3, <2>4 DEF Moves
  <2> QED  BY <2>5, MovesMaps
<1>4. CASE timeoutPacketsV2(c) /\ ~Refused(c)
  <2> DEFINE S == {p \in c.pkts : outcome[p] = "open"}
  <2>1. /\ c.kind = "timeout" /\ UNCHANGED <<sent, rcvd>>
        /\ outcome' = [p \in Packets |-> IF p \in c.pkts /\ outcome[p] = "open" THEN "timedout" ELSE outcome[p]]
    BY <1>4 DEF timeoutPacketsV2
  <2>2. ASSUME NEW p \in c.pkts, outcome[p] = "open" PROVE rcvd[p] = 0
    <3>1. Elapsed(p, c.mark) /\ (rcvd[p] # 0 => ~(rcvd[p] < c.mark))
      BY <1>4, <2>1, <2>2 DEF Refused, TimeoutRefused
    <3>2. rcvd[p] # 0 => ~Elapsed(p, rcvd[p])  BY <1>0, <2>2 DEF LifeInv, Ordinary
    <3>3. rcvd[p] \in Nat /\ Expiry[p] \in Nat  BY <1>0, <2>2, ConstantsAssumption
    <3> QED  BY <1>0, <3>1, <3>2, <3>3 DEF Elapsed
  <2>3. \A p \in S : StateOf(p) = "sent" /\ StateOf(p)' = "timedout"
    BY <1>0, <2>1, <2>2 DEF StateOf
  <2>4. \A p \in Packets \ S : StateOf(p)' = StateOf(p)  BY <1>0, <2>1 DEF StateOf
  <2>5. Moves(S, "sent", "timedout") /\ S \in SUBSET Packets  BY <1>0, <2>3, <2>4 DEF Moves
  <2> QED  BY <2>5, MovesMaps
<1> QED  BY <1>1, <1>2, <1>3, <1>4 DEF Deliver

LEMMA StepMaps == TypeOK /\ CallInv /\ LifeInv /\ [Next]_vars => Maps
<1> SUFFICES ASSUME TypeOK, CallInv, LifeInv, [Next]_vars PROVE Maps  OBVIOUS
<1>1. CASE UNCHANGED chainVars  BY <1>1, StutterMaps DEF chainVars
<1>2. ASSUME NEW s \in Sides, NEW S \in SUBSET {p \in Packets : From[p] = s}, NewBlock(s, S)
      PROVE  Maps
  BY <1>2, SendMaps
<1>3. CASE RoundStep
  BY <1>1, <1>3 DEF RoundStep, BeginRound, SplitAndRelay, BeginAckSearch, RelayAcks, TimeoutPackets,
     SaveHeights, ReadPacketHeight, ReadAckHeight, queryCommitmentsV2, Search, SearchPackets, SearchAcks
<1>4. ASSUME NEW c \in calls, CallStep(c) PROVE Maps
  BY <1>1, <1>4, TransactionMaps
     DEF CallStep, UseKnownHeader, AwaitBlock, UpdateClient, Submit, Reject
<1>5. CASE Failure
  BY <1>1, <1>5, TransactionMaps
     DEF Failure, SearchFails, Crash, CallFails, ReplyLost
<1>6. CASE UNCHANGED vars  BY <1>1, <1>6 DEF vars
<1> QED  BY <1>2, <1>3, <1>4, <1>5, <1>6 DEF Next

\* Whatever fails, crashes or is abandoned: a packet is received or timed out
\* only after it was sent, acknowledged only after it was received, not timed
\* out once it was received, and nothing of this is ever undone.  It is the
\* safety half of ImplementsLifecycle.
THEOREM ImplementsSafely == Spec => Lifecycle!Init /\ [][Lifecycle!Next]_packetState
<1>1. Init => Lifecycle!Init
  <2> SUFFICES ASSUME Init PROVE Lifecycle!Init  OBVIOUS
  <2>1. \A p \in Packets : StateOf(p) = "unsent"  BY DEF Init, StateOf
  <2> QED  BY <2>1, StatePoints DEF Lifecycle!Init
<1>2. TypeOK /\ CallInv /\ LifeInv /\ [Next]_vars => [Lifecycle!Next]_packetState
  BY StepMaps DEF Maps
<1> QED  BY <1>1, <1>2, TypeCorrect, CallInvariant, LifeInvariant, PTL DEF Spec

-------------------------------------------------------------------------------
(***************************************************************************)
(* Nothing is relayed twice.                                               *)
(***************************************************************************)

\* A Promise.all awaits one call for each proving side.
OnePerSide == \A c, d \in calls : c.live /\ d.live /\ c.proof = d.proof => c = d

\* What is set aside to time out is in no batch of the round, and the batch
\* that times it out proves with headers of its destination.
ExpiredApart ==
  /\ \A s \in Sides : \A p \in expired[s] : From[p] = s
  /\ phase \in {"idle", "packets", "timeouts"} => expired = Nothing
  /\ \A c \in calls : c.live => \A p \in c.pkts :
       /\ c.kind = "recv" => p \notin expired[From[p]]
       /\ c.kind = "timeout" => To(p) = c.proof

\* Commitments are asked for while the packets of a round are searched.
StillAsked == asking # {} => phase = "packets"

HandsInv == LiveCalls /\ OnePerSide /\ ExpiredApart /\ StillAsked

LEMMA HandsInit == Init => HandsInv
BY SideFacts DEF Init, HandsInv, LiveCalls, OnePerSide, ExpiredApart, StillAsked

\* The live calls after a step: live before it, or made by it.
LiveFrom == \A d \in calls' : d.live => JustMade(d) \/ \E c \in calls : c.live /\ Continues(c, d)

LEMMA ThrowsLive ==
  ASSUME TypeOK, OnePerSide, NEW c \in calls, Throws(c)
  PROVE  LiveFrom /\ OnePerSide'
<1>1. CASE calls' = {[d EXCEPT !.live = FALSE] : d \in calls \ {c}}
  <2>1. ASSUME NEW d \in calls' PROVE ~d.live
    <3>1. PICK b \in calls : d = [b EXCEPT !.live = FALSE]
      BY <1>1, <2>1
    <3>2. b \in Call
      BY DEF TypeOK
    <3>3. QED BY <3>1, <3>2, OrphanType
  <2>2. QED BY <2>1 DEF LiveFrom, OnePerSide
<1>2. CASE calls' = calls \ {c}
  BY <1>2 DEF LiveFrom, OnePerSide, Continues
<1>3. QED BY <1>1, <1>2, ThrowsRound

LEMMA BecomesLive ==
  ASSUME TypeOK, OnePerSide, NEW c \in calls, NEW pc \in {"check", "wait", "submit"}, NEW m \in Nat,
         Becomes(c, [c EXCEPT !.pc = pc, !.mark = m])
  PROVE  LiveFrom /\ OnePerSide'
<1> DEFINE e == [c EXCEPT !.pc = pc, !.mark = m]
<1>1. c \in Call
  BY DEF TypeOK
<1>2. e.live = c.live /\ e.kind = c.kind /\ e.proof = c.proof /\ e.pkts = c.pkts
  BY <1>1 DEF Call
<1>3. calls' = (calls \ {c}) \union {e}
  BY DEF Becomes
<1> HIDE DEF e
<1>4. ASSUME NEW d \in calls', d.live PROVE \E b \in calls : b.live /\ Continues(b, d)
  <2>1. CASE d = e
    BY <1>2, <1>4, <2>1 DEF Continues
  <2>2. CASE d # e
    BY <1>3, <1>4, <2>2 DEF Continues
  <2>3. QED BY <2>1, <2>2
<1>5. ASSUME NEW d \in calls \ {c}, d.live, e.live PROVE d.proof # e.proof
  BY <1>2, <1>5, Zenon DEF OnePerSide
<1>6. ASSUME NEW b \in calls', NEW d \in calls', b.live, d.live, b.proof = d.proof PROVE b = d
  <2>1. CASE b \in calls \ {c} /\ d \in calls \ {c}
    BY <1>6, <2>1, Zenon DEF OnePerSide
  <2>2. CASE b = e \/ d = e
    BY <1>3, <1>5, <1>6, <2>2, Zenon
  <2>3. QED BY <1>3, <2>1, <2>2
<1>7. QED BY <1>4, <1>6, Zenon DEF LiveFrom, OnePerSide

\* The batches of a round, made when no other call of it is under way.
LEMMA BatchLive ==
  ASSUME NEW kind \in {"recv", "ack", "timeout"}, NEW pkts \in [Sides -> SUBSET Packets],
         calls' = calls \union Batches(kind, pkts), NoLiveCall
  PROVE  /\ OnePerSide'
         /\ \A d \in calls' : d.live => d.kind = kind /\ d.pc = "check" /\ d.pkts = pkts[d.proof]
<1>1. ASSUME NEW d \in calls', d.live PROVE d \in Batches(kind, pkts)
  BY <1>1, Zenon DEF NoLiveCall
<1>2. ASSUME NEW c \in Batches(kind, pkts), NEW d \in Batches(kind, pkts), c.proof = d.proof
      PROVE  c = d
  <2> DEFINE Made(s) == [kind |-> kind, proof |-> s, pkts |-> pkts[s], pc |-> "check",
                         mark |-> 0, live |-> TRUE]
  <2>1. \A s : Made(s).proof = s
    OBVIOUS
  <2>2. \E s : c = Made(s)
    BY DEF Batches
  <2>3. \E s : d = Made(s)
    BY DEF Batches
  <2> HIDE DEF Made
  <2>4. QED BY <1>2, <2>1, <2>2, <2>3
<1>3. QED BY <1>1, <1>2, BatchCalls DEF OnePerSide

Batching == SplitAndRelay \/ RelayAcks \/ TimeoutPackets

\* What each step that makes batches puts into them.
LEMMA BatchingLive ==
  ASSUME TypeOK, LiveCalls
  PROVE  /\ SplitAndRelay => OnePerSide' /\ \A d \in calls' : d.live =>
              d.kind = "recv" /\ d.pc = "check" /\ d.proof \in Sides /\ d.pkts = toSubmit(d.proof)
         /\ RelayAcks => OnePerSide' /\ \A d \in calls' : d.live =>
              d.kind = "ack" /\ d.pc = "check" /\ d.proof \in Sides /\ d.pkts = found[d.proof]
         /\ TimeoutPackets => OnePerSide' /\ \A d \in calls' : d.live =>
              d.kind = "timeout" /\ d.pc = "check" /\ d.proof \in Sides /\ d.pkts = expired[Other(d.proof)]
<1>1. phase \in {"packets", "acks"} => NoLiveCall
  BY DEF LiveCalls, NoLiveCall
<1>2. ASSUME NEW kind \in {"recv", "ack", "timeout"}, NEW pkts \in [Sides -> SUBSET Packets],
             calls' = calls \union Batches(kind, pkts), NoLiveCall
      PROVE  OnePerSide' /\ \A d \in calls' : d.live =>
               d.kind = kind /\ d.pc = "check" /\ d.proof \in Sides /\ d.pkts = pkts[d.proof]
  <2>1. \A d \in calls' : d \in Call
    BY <1>2, BatchCalls DEF TypeOK
  <2>2. \A d \in calls' : d.proof \in Sides
    BY <2>1 DEF Call
  <2>3. QED BY <1>2, <2>2, BatchLive
<1>3. CASE SplitAndRelay
  <2> DEFINE pkts == [s \in Sides |-> toSubmit(s)]
  <2>1. pkts \in [Sides -> SUBSET Packets] /\ \A s \in Sides : pkts[s] = toSubmit(s)
    BY DEF toSubmit, TypeOK
  <2>2. calls' = calls \union Batches("recv", pkts) /\ phase = "packets"
    BY <1>3 DEF SplitAndRelay
  <2> HIDE DEF pkts
  <2>3. QED BY <1>1, <1>2, <1>3, <2>1, <2>2 DEF SplitAndRelay, RelayAcks, TimeoutPackets
<1>4. CASE RelayAcks
  <2>1. calls' = calls \union Batches("ack", found) /\ phase = "acks"
    BY <1>4 DEF RelayAcks
  <2>2. found \in [Sides -> SUBSET Packets]
    BY DEF TypeOK
  <2>3. QED BY <1>1, <1>2, <1>4, <2>1, <2>2 DEF SplitAndRelay, RelayAcks, TimeoutPackets
<1>5. CASE TimeoutPackets
  <2> DEFINE pkts == [s \in Sides |-> expired[Other(s)]]
  <2>1. pkts \in [Sides -> SUBSET Packets] /\ \A s \in Sides : pkts[s] = expired[Other(s)]
    BY SideFacts DEF TypeOK
  <2>2. calls' = calls \union Batches("timeout", pkts) /\ NoLiveCall /\ phase = "relayAcks"
    BY <1>5 DEF TimeoutPackets
  <2> HIDE DEF pkts
  <2>3. QED BY <1>2, <1>5, <2>1, <2>2 DEF SplitAndRelay, RelayAcks
<1>6. QED BY <1>3, <1>4, <1>5

LEMMA LiveOrigin == TypeOK /\ LiveCalls /\ OnePerSide /\ [Next]_vars => LiveFrom /\ OnePerSide'
<1> SUFFICES ASSUME TypeOK, LiveCalls, OnePerSide, [Next]_vars PROVE LiveFrom /\ OnePerSide'
  OBVIOUS
<1>1. CASE calls' \subseteq calls
  BY <1>1 DEF LiveFrom, OnePerSide, Continues
<1>2. CASE Batching
  <2>1. OnePerSide'
    BY <1>2, BatchingLive DEF Batching
  <2>2. ASSUME NEW d \in calls', d.live PROVE JustMade(d)
    BY <1>2, <2>2, BatchingLive
       DEF Batching, SplitAndRelay, RelayAcks, TimeoutPackets, toSubmit, JustMade
  <2>3. QED BY <2>1, <2>2 DEF LiveFrom
<1>b. ASSUME NEW c \in calls, NEW pc \in {"check", "wait", "submit"}, NEW m \in Nat,
             Becomes(c, [c EXCEPT !.pc = pc, !.mark = m])
      PROVE  LiveFrom /\ OnePerSide'
  BY <1>b, BecomesLive
<1>3. ASSUME NEW c \in calls, UseKnownHeader(c) \/ AwaitBlock(c) \/ UpdateClient(c)
      PROVE  LiveFrom /\ OnePerSide'
  <2>1. client[Other(c.proof)] \in Nat /\ height[c.proof] \in Nat
    BY Numbers
  <2>2. CASE UseKnownHeader(c)
    <3>1. Becomes(c, [c EXCEPT !.pc = "submit", !.mark = client[Other(c.proof)]])
      BY <2>2 DEF UseKnownHeader
    <3>2. QED BY <2>1, <3>1, <1>b
  <2>3. CASE AwaitBlock(c)
    <3>1. Becomes(c, [c EXCEPT !.pc = "wait", !.mark = height[c.proof]])
      BY <2>3 DEF AwaitBlock
    <3>2. QED BY <2>1, <3>1, <1>b
  <2>4. CASE UpdateClient(c)
    <3>1. Becomes(c, [c EXCEPT !.pc = "submit", !.mark = height[c.proof]])
      BY <2>4 DEF UpdateClient
    <3>2. QED BY <2>1, <3>1, <1>b
  <2>5. QED BY <1>3, <2>2, <2>3, <2>4
<1>4. ASSUME NEW s \in Sides, NEW S \in SUBSET {p \in Packets : From[p] = s}, NewBlock(s, S)
      PROVE  LiveFrom /\ OnePerSide'
  BY <1>1, <1>4 DEF NewBlock
<1>5. CASE RoundStep
  BY <1>1, <1>2, <1>5 DEF Batching, RoundStep, BeginRound, BeginAckSearch, SaveHeights,
     ReadPacketHeight, ReadAckHeight, queryCommitmentsV2, Search, SearchPackets, SearchAcks
<1>6. ASSUME NEW c \in calls, CallStep(c) PROVE LiveFrom /\ OnePerSide'
  BY <1>1, <1>3, <1>6, ThrowsLive DEF CallStep, Submit, Returns, Reject
<1>7. CASE Failure
  BY <1>1, <1>7, ThrowsLive DEF Failure, SearchFails, Crash, CallFails, ReplyLost
<1>8. CASE UNCHANGED vars
  BY <1>1, <1>8 DEF vars
<1>9. QED BY <1>4, <1>5, <1>6, <1>7, <1>8 DEF Next

\* Nothing is set aside before the packets of the round are split.
SetAside ==
  /\ phase' = "idle" => expired' = Nothing \/ (UNCHANGED expired /\ phase \in {"idle", "timeouts"})
  /\ phase' = "packets" => UNCHANGED expired /\ phase \in {"idle", "packets"}
  /\ phase' = "timeouts" => expired' = Nothing \/ (UNCHANGED expired /\ phase = "timeouts")

LEMMA StepSetAside == [Next]_vars => SetAside
<1> SUFFICES ASSUME [Next]_vars PROVE SetAside
  OBVIOUS
<1>1. CASE UNCHANGED <<phase, expired>>
  BY <1>1 DEF SetAside
<1>2. CASE ForgetRound
  BY <1>2 DEF ForgetRound, SetAside
<1>3. ASSUME NEW c \in calls, Throws(c) PROVE SetAside
  <2>1. ForgetRound \/ UNCHANGED roundVars
    BY <1>3, ThrowsRound, Zenon
  <2>2. QED BY <1>1, <1>2, <2>1 DEF roundVars
<1>4. CASE RoundStep
  <2>1. CASE BeginRound \/ SplitAndRelay \/ BeginAckSearch \/ RelayAcks
    BY <2>1 DEF BeginRound, SplitAndRelay, BeginAckSearch, RelayAcks, SetAside
  <2>2. CASE TimeoutPackets \/ SaveHeights
    BY <2>2 DEF TimeoutPackets, SaveHeights, SetAside
  <2>3. QED BY <1>1, <1>4, <2>1, <2>2
            DEF RoundStep, ReadPacketHeight, ReadAckHeight, queryCommitmentsV2, Search,
                SearchPackets, SearchAcks
<1>5. ASSUME NEW c \in calls, CallStep(c) PROVE SetAside
  BY <1>1, <1>3, <1>5
     DEF CallStep, UseKnownHeader, AwaitBlock, UpdateClient, Submit, Reject, roundVars
<1>6. CASE Failure
  BY <1>2, <1>3, <1>6 DEF Failure, SearchFails, Crash, CallFails, ReplyLost
<1>7. CASE UNCHANGED vars
  BY <1>1, <1>7 DEF vars, roundVars
<1>8. ASSUME NEW s \in Sides, NEW S, NewBlock(s, S) PROVE SetAside
  BY <1>1, <1>8 DEF NewBlock, roundVars
<1>9. QED BY <1>4, <1>5, <1>6, <1>7, <1>8 DEF Next

LEMMA ExpiredStep ==
  ASSUME TypeOK, TypeOK', CallInv, HandsInv, LiveCalls',
         LiveFrom, ExpiredFound, SetAside, RoundMoves
  PROVE  ExpiredApart'
<1>1. ASSUME NEW s \in Sides, NEW p \in expired'[s] PROVE From[p] = s
  <2>1. phase = "packets" /\ p \in found[s] => From[p] = s
    BY DEF CallInv, InHand, SentBy
  <2>2. QED BY <1>1, <2>1 DEF ExpiredFound, HandsInv, ExpiredApart
<1>2. phase' \in {"idle", "packets", "timeouts"} => expired' = Nothing
  BY DEF SetAside, HandsInv, ExpiredApart
<1>3. ASSUME NEW d \in calls', d.live, NEW p \in d.pkts, d.kind = "recv"
      PROVE  p \notin expired'[From[p]]
  <2>0. p \in Packets /\ d.proof \in Sides /\ From[p] \in Sides /\ phase' = "relay"
    BY <1>3, SideFacts DEF TypeOK, Call, LiveCalls
  <2>1. CASE SplitAndRelay
    <3>1. d.pkts = toSubmit(d.proof)
      BY <1>3, <2>1, BatchingLive DEF HandsInv
    <3>2. p \in found[d.proof] /\ From[p] = d.proof
      <4>1. phase = "packets" /\ p \in found[d.proof]
        BY <1>3, <2>1, <3>1 DEF toSubmit, SplitAndRelay
      <4>2. QED BY <2>0, <4>1 DEF CallInv, InHand, SentBy
    <3>3. QED BY <1>3, <2>0, <2>1, <3>1, <3>2 DEF SplitAndRelay
  <2>2. CASE ~SplitAndRelay
    <3>1. UNCHANGED expired /\ phase \notin {"idle", "packets"}
      BY <2>0, <2>2 DEF RoundMoves, PastPackets, TimeoutPackets
    <3>2. PICK c \in calls : c.live /\ Continues(c, d)
      BY <1>3, <3>1 DEF LiveFrom, JustMade
    <3>3. c.kind = "recv" /\ p \in c.pkts
      BY <1>3, <3>2 DEF Continues
    <3>4. QED BY <3>1, <3>2, <3>3 DEF HandsInv, ExpiredApart
  <2>3. QED BY <2>1, <2>2
<1>4. ASSUME NEW d \in calls', d.live, NEW p \in d.pkts, d.kind = "timeout"
      PROVE  To(p) = d.proof
  <2>0. p \in Packets /\ d.proof \in Sides
    BY <1>4 DEF TypeOK, Call
  <2>1. CASE JustMade(d)
    <3>1. From[p] = Other(d.proof)
      BY <1>4, <2>0, <2>1, SideFacts DEF JustMade, HandsInv, ExpiredApart
    <3>2. QED BY <2>0, <3>1, SideFacts DEF To
  <2>2. ASSUME NEW c \in calls, c.live, Continues(c, d) PROVE To(p) = d.proof
    <3>1. c.kind = "timeout" /\ p \in c.pkts /\ d.proof = c.proof
      BY <1>4, <2>2 DEF Continues
    <3>2. QED BY <2>2, <3>1 DEF HandsInv, ExpiredApart
  <2>3. QED BY <1>4, <2>1, <2>2 DEF LiveFrom
<1>5. QED BY <1>1, <1>2, <1>3, <1>4, Zenon DEF ExpiredApart, To

\* Whether commitments are still to be asked for, before and after a step.
AskedMoves ==
  /\ StillAsked => StillAsked'
  /\ \A s \in asking : s \in asking' \/ ForgetRound \/ queryCommitmentsV2(s)

LEMMA StepAsks == [Next]_vars => AskedMoves
<1> SUFFICES ASSUME [Next]_vars PROVE AskedMoves
  OBVIOUS
<1>1. CASE UNCHANGED <<phase, asking>>
  BY <1>1 DEF AskedMoves, StillAsked
<1>2. CASE ForgetRound
  BY <1>2 DEF ForgetRound, AskedMoves, StillAsked
<1>3. ASSUME NEW c \in calls, Throws(c) PROVE AskedMoves
  <2>1. ForgetRound \/ UNCHANGED roundVars
    BY <1>3, ThrowsRound, Zenon
  <2>2. QED BY <1>1, <1>2, <2>1 DEF roundVars
<1>4. ASSUME NEW s \in Sides, queryCommitmentsV2(s) PROVE AskedMoves
  <2>1. phase = "packets" /\ UNCHANGED phase /\ asking' = asking \ {s}
    BY <1>4 DEF queryCommitmentsV2
  <2>2. QED BY <1>4, <2>1, Zenon DEF AskedMoves, StillAsked
<1>5. CASE RoundStep
  <2>1. CASE BeginRound \/ SplitAndRelay \/ BeginAckSearch \/ RelayAcks
    BY <2>1 DEF BeginRound, SplitAndRelay, BeginAckSearch, RelayAcks, Searched, AskedMoves, StillAsked
  <2>2. CASE TimeoutPackets \/ SaveHeights
    BY <2>2 DEF TimeoutPackets, SaveHeights, AskedMoves, StillAsked
  <2>3. ASSUME NEW s \in Sides, NEW v, SearchPackets(s, v) PROVE AskedMoves
    BY <2>3 DEF SearchPackets, AskedMoves, StillAsked
  <2>4. QED BY <1>1, <1>4, <1>5, <2>1, <2>2, <2>3
            DEF RoundStep, ReadPacketHeight, ReadAckHeight, Search, SearchAcks
<1>6. ASSUME NEW c \in calls, CallStep(c) PROVE AskedMoves
  BY <1>1, <1>3, <1>6
     DEF CallStep, UseKnownHeader, AwaitBlock, UpdateClient, Submit, Reject, roundVars
<1>7. CASE Failure
  BY <1>2, <1>3, <1>7 DEF Failure, SearchFails, Crash, CallFails, ReplyLost
<1>8. CASE UNCHANGED vars
  BY <1>1, <1>8 DEF vars, roundVars
<1>9. ASSUME NEW s \in Sides, NEW S, NewBlock(s, S) PROVE AskedMoves
  BY <1>1, <1>9 DEF NewBlock, roundVars
<1>10. QED BY <1>5, <1>6, <1>7, <1>8, <1>9 DEF Next

LEMMA HandsNext == TypeOK /\ TypeOK' /\ CallInv /\ HandsInv /\ [Next]_vars => HandsInv'
<1> SUFFICES ASSUME TypeOK, TypeOK', CallInv, HandsInv, [Next]_vars PROVE HandsInv'
  OBVIOUS
<1>1. LiveCalls'
  BY LiveStep DEF HandsInv
<1>2. LiveFrom /\ OnePerSide'
  BY LiveOrigin DEF HandsInv
<1>3. ExpiredFound /\ SetAside /\ RoundMoves
  BY StepExpired, StepSetAside, StepRound DEF CallInv
<1>4. StillAsked'
  BY StepAsks DEF HandsInv, AskedMoves
<1>5. QED BY <1>1, <1>2, <1>3, <1>4, ExpiredStep DEF HandsInv

LEMMA HandsInvariant == Spec => []HandsInv
BY HandsInit, HandsNext, TypeCorrect, CallInvariant, PTL DEF Spec

\* A search takes up an acknowledgement that is owed, and a packet that is not
\* received, of which the commitment is still to be asked for.
FindsOwed ==
  \A s \in Sides : \A p \in found'[s] :
    \/ p \in found[s]
    \/ phase = "packets" /\ rcvd'[p] = 0 /\ s \in asking'
    \/ phase = "acks" /\ Unacked(p)

LEMMA StepOwed == TypeOK /\ [Next]_vars => FindsOwed
<1> SUFFICES ASSUME TypeOK, [Next]_vars PROVE FindsOwed
  OBVIOUS
<1>1. CASE found' = found
  BY <1>1 DEF FindsOwed
<1>2. CASE found' = Nothing
  BY <1>2, SideFacts DEF FindsOwed
<1>3. ASSUME NEW s \in Sides, NEW v \in 1..height[s], SearchPackets(s, v)
      PROVE  FindsOwed
  <2>1. /\ phase = "packets" /\ UNCHANGED rcvd
        /\ found' = [found EXCEPT ![s] = filterUnreceived(s, v)]
        /\ filterUnreceived(s, v) # {} => s \in asking'
    BY <1>3 DEF SearchPackets, chainVars
  <2>2. \A p \in filterUnreceived(s, v) : rcvd[p] = 0
    BY DEF filterUnreceived
  <2>3. QED BY <2>1, <2>2 DEF TypeOK, FindsOwed
<1>3a. ASSUME NEW s \in Sides, NEW v \in 1..height[s], SearchAcks(s, v)
       PROVE  FindsOwed
  <2>1. phase = "acks" /\ found' = [found EXCEPT ![s] = getPendingAcks(s, v)]
    BY <1>3a DEF SearchAcks
  <2>2. \A p \in getPendingAcks(s, v) : Unacked(p)
    BY DEF getPendingAcks
  <2>3. QED BY <2>1, <2>2 DEF TypeOK, FindsOwed
<1>3b. ASSUME NEW s \in Sides, queryCommitmentsV2(s) PROVE FindsOwed
  <2>1. \E F : F \subseteq found[s] /\ found' = [found EXCEPT ![s] = F]
    BY <1>3b DEF queryCommitmentsV2, withCommitment
  <2>2. QED BY <2>1 DEF TypeOK, FindsOwed
<1>4. CASE RoundStep
  BY <1>1, <1>2, <1>3, <1>3a, <1>3b, <1>4 DEF RoundStep, BeginRound, SplitAndRelay,
     BeginAckSearch, RelayAcks, TimeoutPackets, SaveHeights, ReadPacketHeight, ReadAckHeight, Search
<1>5. ASSUME NEW c \in calls, Throws(c) PROVE FindsOwed
  <2>1. found' = found \/ found' = Nothing
    BY <1>5, ThrowsRound, Zenon DEF ForgetRound, roundVars
  <2>2. QED BY <1>1, <1>2, <2>1
<1>6. ASSUME NEW c \in calls, CallStep(c) PROVE FindsOwed
  BY <1>1, <1>5, <1>6
     DEF CallStep, UseKnownHeader, AwaitBlock, UpdateClient, Submit, Reject, roundVars
<1>7. CASE Failure
  BY <1>2, <1>5, <1>7 DEF Failure, SearchFails, Crash, CallFails, ReplyLost, ForgetRound
<1>8. CASE UNCHANGED vars
  BY <1>1, <1>8 DEF vars, roundVars
<1>9. ASSUME NEW s \in Sides, NEW S \in SUBSET {p \in Packets : From[p] = s}, NewBlock(s, S)
      PROVE  FindsOwed
  BY <1>1, <1>9 DEF NewBlock, roundVars
<1>10. QED BY <1>4, <1>6, <1>7, <1>8, <1>9 DEF Next

\* What is in hand after a step was in hand before it, or was just taken up.
LEMMA HeldFrom ==
  ASSUME TypeOK, CallInv, HandsInv, LiveFrom, ExpiredFound, SearchKept, FindsOwed, TypeOK',
         NEW p \in Packets
  PROVE  /\ PacketHeld(p)' => PacketHeld(p) \/ (rcvd'[p] = 0 /\ From[p] \in asking')
         /\ AckHeld(p)' => AckHeld(p) \/ Unacked(p)
<1>0. From[p] \in Sides /\ To(p) \in Sides /\ To(p) # From[p]
  BY SideFacts
<1>1. ASSUME NEW s \in Sides, p \in found'[s], phase' \in {"packets", "acks"}
      PROVE  phase = phase'
  <2>1. found' # Nothing
    BY <1>1, SideFacts
  <2>2. QED BY <1>1, <2>1 DEF SearchKept, SearchOver, CallInv
<1>2. ASSUME p \in expired'[From[p]] PROVE PacketHeld(p)
  BY <1>0, <1>2 DEF ExpiredFound, PacketHeld
<1>3. ASSUME phase' = "packets", p \in found'[From[p]]
      PROVE  PacketHeld(p) \/ (rcvd'[p] = 0 /\ From[p] \in asking')
  BY <1>0, <1>1, <1>3 DEF FindsOwed, PacketHeld
<1>4. ASSUME phase' = "acks", p \in found'[To(p)] PROVE AckHeld(p) \/ Unacked(p)
  BY <1>0, <1>1, <1>4 DEF FindsOwed, AckHeld
<1>5. ASSUME NEW d \in calls', d.live, p \in d.pkts, JustMade(d)
      PROVE  /\ d.kind \in {"recv", "timeout"} => PacketHeld(p)
             /\ d.kind = "ack" => AckHeld(p)
  <2>1. d.proof \in Sides
    BY DEF TypeOK, Call
  <2>2. CASE d.kind = "recv" /\ phase = "packets" /\ p \in found[d.proof]
    BY <2>1, <2>2 DEF CallInv, InHand, SentBy, PacketHeld
  <2>3. CASE d.kind = "ack" /\ phase = "acks" /\ p \in found[d.proof]
    BY <2>1, <2>3 DEF CallInv, InHand, WrittenBy, AckHeld
  <2>4. CASE d.kind = "timeout" /\ p \in expired[Other(d.proof)]
    <3>1. From[p] = Other(d.proof)
      BY <2>1, <2>4, SideFacts DEF HandsInv, ExpiredApart
    <3>2. QED BY <2>4, <3>1 DEF PacketHeld
  <2>5. QED BY <1>5, <2>2, <2>3, <2>4 DEF JustMade
<1>6. ASSUME NEW d \in calls', NEW c \in calls, c.live, Continues(c, d), p \in d.pkts
      PROVE  /\ d.kind \in {"recv", "timeout"} => PacketHeld(p)
             /\ d.kind = "ack" => AckHeld(p)
  <2>1. c.kind = d.kind /\ p \in c.pkts
    BY <1>6 DEF Continues
  <2>2. QED BY <1>6, <2>1, Zenon DEF PacketHeld, AckHeld
<1>7. ASSUME NEW d \in calls', d.live, p \in d.pkts
      PROVE  /\ d.kind \in {"recv", "timeout"} => PacketHeld(p)
             /\ d.kind = "ack" => AckHeld(p)
  BY <1>5, <1>6, <1>7 DEF LiveFrom
<1>8. ASSUME PacketHeld(p)' PROVE PacketHeld(p) \/ (rcvd'[p] = 0 /\ From[p] \in asking')
  BY <1>2, <1>3, <1>7, <1>8 DEF PacketHeld
<1>9. ASSUME AckHeld(p)' PROVE AckHeld(p) \/ Unacked(p)
  BY <1>4, <1>7, <1>9 DEF AckHeld
<1>10. QED BY <1>8, <1>9

\* A transaction does for a packet what some call had in hand.
Served(p) == \E c \in calls : p \in c.pkts /\ (Submit(c) \/ (ReplyLost(c) /\ Deliver(c)))

\* A packet that still is to be received, or timed out.
Owed(p) == rcvd[p] = 0 /\ outcome[p] = "open"

LEMMA OwedStays ==
  ASSUME TypeOK, [Next]_vars, NEW p \in Packets
  PROVE  /\ Owed(p) => Owed(p)' \/ Served(p)
         /\ rcvd[p] = 0 => rcvd'[p] = 0 \/ Served(p)
         /\ Unacked(p) => Unacked(p)' \/ Served(p)
<1>1. CASE UNCHANGED <<rcvd, outcome>>
  BY <1>1 DEF Owed, Unacked
<1>2. ASSUME NEW c \in calls, Deliver(c), p \notin c.pkts
      PROVE  rcvd'[p] = rcvd[p] /\ outcome'[p] = outcome[p]
  BY <1>2 DEF Deliver, receivePacketsV2, acknowledgePacketsV2, timeoutPacketsV2
<1>3. ASSUME NEW c \in calls, Submit(c) \/ (ReplyLost(c) /\ Deliver(c))
      PROVE  Served(p) \/ UNCHANGED <<rcvd[p], outcome[p]>>
  BY <1>2, <1>3 DEF Submit, Served
<1>5. ASSUME NEW s \in Sides, NEW S \in SUBSET {q \in Packets : From[q] = s}, NewBlock(s, S)
      PROVE  UNCHANGED <<rcvd, outcome>>
  BY <1>5 DEF NewBlock
<1>6. CASE RoundStep
  BY <1>1, <1>6 DEF RoundStep, BeginRound, SplitAndRelay, BeginAckSearch, RelayAcks, TimeoutPackets,
     SaveHeights, ReadPacketHeight, ReadAckHeight, queryCommitmentsV2, Search, SearchPackets,
     SearchAcks, chainVars
<1>7. ASSUME NEW c \in calls, UseKnownHeader(c) \/ AwaitBlock(c) \/ UpdateClient(c) \/ Reject(c)
      PROVE  UNCHANGED <<rcvd, outcome>>
  BY <1>7 DEF UseKnownHeader, AwaitBlock, UpdateClient, Reject, updateClient, chainVars
<1>8. ASSUME NEW c \in calls, CallFails(c) \/ (ReplyLost(c) /\ ~Deliver(c))
      PROVE  UNCHANGED <<rcvd, outcome>>
  BY <1>8 DEF CallFails, ReplyLost, updateClient, chainVars
<1>9. CASE SearchFails \/ Crash \/ UNCHANGED vars
  BY <1>1, <1>9 DEF SearchFails, Crash, vars, chainVars
<1>10. ASSUME UNCHANGED <<rcvd[p], outcome[p]>>
       PROVE  /\ (Owed(p) => Owed(p)') /\ (rcvd[p] = 0 => rcvd'[p] = 0)
              /\ (Unacked(p) => Unacked(p)')
  BY <1>10 DEF Owed, Unacked
<1>11. CASE \E c \in calls : CallStep(c)
  BY <1>1, <1>3, <1>7, <1>10, <1>11 DEF CallStep
<1>12. CASE Failure
  BY <1>1, <1>3, <1>8, <1>9, <1>10, <1>12 DEF Failure
<1>13. QED BY <1>1, <1>5, <1>6, <1>9, <1>11, <1>12 DEF Next

\* Two batches of a round share no packet.
LEMMA OneBatch ==
  ASSUME TypeOK, CallInv, HandsInv, NEW c \in calls, NEW d \in calls, c.live, d.live,
         NEW p \in Packets, p \in c.pkts, p \in d.pkts
  PROVE  c = d
<1>1. /\ c.proof \in Sides /\ d.proof \in Sides
      /\ c.kind \in {"recv", "ack", "timeout"} /\ d.kind \in {"recv", "ack", "timeout"}
  BY CallTyped
<1>2. c.kind = d.kind
  BY DEF HandsInv, LiveCalls
<1>3. c.proof = (IF c.kind = "recv" THEN From[p] ELSE To(p))
  BY <1>1 DEF CallInv, InHand, SentBy, WrittenBy, HandsInv, ExpiredApart
<1>4. d.proof = (IF d.kind = "recv" THEN From[p] ELSE To(p))
  BY <1>1 DEF CallInv, InHand, SentBy, WrittenBy, HandsInv, ExpiredApart
<1>5. QED BY <1>2, <1>3, <1>4, Zenon DEF HandsInv, OnePerSide

\* A round that has served a packet has it no longer in hand.
LEMMA ServedDone ==
  ASSUME TypeOK, CallInv, HandsInv, [Next]_vars, NEW p \in Packets, Served(p), ~Abandoned(p)
  PROVE  /\ Owed(p) => ~PacketHeld(p)'
         /\ Unacked(p) => ~AckHeld(p)'
<1>1. PICK c \in calls : p \in c.pkts /\ (Submit(c) \/ (ReplyLost(c) /\ Deliver(c)))
  BY DEF Served
<1>2. c.live
  BY <1>1 DEF Abandoned
<1>3. From[p] \in Sides /\ To(p) \in Sides
  BY SideFacts
<1>4. CASE ReplyLost(c)
  <2>1. ForgetRound /\ calls' = {[d EXCEPT !.live = FALSE] : d \in calls \ {c}}
    BY <1>2, <1>4, ThrowsRound, Zenon DEF ReplyLost
  <2>2. ASSUME NEW d \in calls' PROVE ~d.live
    <3>1. PICK b \in calls : d = [b EXCEPT !.live = FALSE]
      BY <2>1, <2>2
    <3>2. b \in Call
      BY DEF TypeOK
    <3>3. QED BY <3>1, <3>2, OrphanType
  <2>3. phase' = "idle" /\ expired' = Nothing
    BY <2>1 DEF ForgetRound
  <2>4. QED BY <1>3, <2>2, <2>3, SideFacts DEF PacketHeld, AckHeld
<1>5. CASE Submit(c)
  <2>1. calls' = calls \ {c} /\ UNCHANGED roundVars
    BY <1>5 DEF Submit, Returns
  <2>2. ASSUME NEW d \in calls', d.live PROVE p \notin d.pkts
    BY <1>1, <1>2, <2>1, <2>2, OneBatch
  <2>3. phase \notin {"packets", "acks"}
    BY <1>2 DEF HandsInv, LiveCalls
  <2>4. ~AckHeld(p)'
    BY <2>1, <2>2, <2>3 DEF AckHeld, roundVars
  <2>5. ASSUME Owed(p) PROVE p \notin expired[From[p]]
    <3>1. c.kind # "ack"
      BY <1>1, <2>5 DEF Owed, CallInv, InHand, WrittenBy
    <3>2. CASE c.kind = "recv"
      BY <1>1, <1>2, <3>2 DEF HandsInv, ExpiredApart
    <3>3. CASE c.kind = "timeout"
      <4>1. phase = "timeouts"
        BY <1>2, <3>3 DEF HandsInv, LiveCalls
      <4>2. expired = Nothing
        BY <4>1 DEF HandsInv, ExpiredApart
      <4>3. QED BY <1>3, <4>2, SideFacts
    <3>4. QED BY <3>1, <3>2, <3>3, CallTyped
  <2>6. ASSUME Owed(p) PROVE ~PacketHeld(p)'
    BY <2>1, <2>2, <2>3, <2>5, <2>6 DEF PacketHeld, roundVars
  <2>7. QED BY <2>4, <2>6
<1>6. QED BY <1>1, <1>4, <1>5

\* Before the packets are split, a round has nothing but what its search found.
LEMMA HeldBySearch ==
  ASSUME HandsInv', phase' \in {"idle", "packets"}, NEW p \in Packets, PacketHeld(p)'
  PROVE  phase' = "packets" /\ p \in found'[From[p]]
<1>1. From[p] \in Sides
  BY SideFacts
<1>2. p \notin expired'[From[p]]
  BY <1>1, SideFacts DEF HandsInv, ExpiredApart
<1>3. \A c \in calls' : ~c.live
  BY DEF HandsInv, LiveCalls
<1>4. QED BY <1>2, <1>3 DEF PacketHeld

\* A closed packet that a search took up is dropped, or its commitment is
\* still to be asked for.
LEMMA ClosedDropped ==
  ASSUME TypeOK, HandsInv, HandsInv', [Next]_vars, NEW p \in Packets,
         outcome[p] # "open", From[p] \in asking, PacketHeld(p)'
  PROVE  From[p] \in asking'
<1>1. From[p] \in Sides
  BY SideFacts
<1>2. AskedMoves /\ phase = "packets"
  BY StepAsks DEF HandsInv, StillAsked
<1>3. ~ForgetRound
  <2>1. SUFFICES ASSUME ForgetRound PROVE FALSE
    OBVIOUS
  <2>2. phase' = "idle"
    BY <2>1 DEF ForgetRound
  <2>3. phase' = "packets"
    BY <2>2, HeldBySearch
  <2>4. QED BY <2>2, <2>3
<1>4. ~queryCommitmentsV2(From[p])
  <2>1. SUFFICES ASSUME queryCommitmentsV2(From[p]) PROVE FALSE
    OBVIOUS
  <2>2. phase' = "packets" /\ p \notin found'[From[p]]
    BY <1>1, <2>1 DEF queryCommitmentsV2, withCommitment, TypeOK
  <2>3. p \in found'[From[p]]
    BY <2>2, HeldBySearch
  <2>4. QED BY <2>2, <2>3
<1>5. QED BY <1>2, <1>3, <1>4 DEF AskedMoves

\* While commitments are asked for, the round has no call under way.
LEMMA AskedUnserved ==
  ASSUME HandsInv, NEW p \in Packets, Served(p), ~Abandoned(p)
  PROVE  asking = {}
<1>1. PICK c \in calls : p \in c.pkts
  BY DEF Served
<1>2. c.live
  BY <1>1 DEF Abandoned
<1>3. phase # "packets"
  BY <1>2 DEF HandsInv, LiveCalls
<1>4. QED BY <1>3 DEF HandsInv, StillAsked

\* Whatever fails, and however blocks, rounds and calls interleave: a round
\* takes up no packet that was received, drops one whose sender closed it when
\* it has asked for the commitment, and what it has in hand stays owed until it
\* is done with it, but for a packet that a call of a failed round brings at the
\* same time.
THEOREM NothingIsRedone == Spec => NothingRedone
<1>1. ASSUME TypeOK, TypeOK', CallInv, HandsInv, HandsInv', [Next]_vars,
             NEW p \in Packets, ~Abandoned(p)
      PROVE  /\ RedundantPacket(p)' => RedundantPacket(p)
             /\ RedundantAck(p)' => RedundantAck(p)
  <2>1. LiveFrom /\ ExpiredFound /\ SearchKept /\ FindsOwed
    BY <1>1, LiveOrigin, StepExpired, StepSearch, StepOwed DEF HandsInv
  <2>2. /\ PacketHeld(p)' => PacketHeld(p) \/ (rcvd'[p] = 0 /\ From[p] \in asking')
        /\ AckHeld(p)' => AckHeld(p) \/ Unacked(p)
    BY <1>1, <2>1, HeldFrom
  <2>3. /\ Owed(p) => Owed(p)' \/ Served(p)
        /\ rcvd[p] = 0 => rcvd'[p] = 0 \/ Served(p)
        /\ Unacked(p) => Unacked(p)' \/ Served(p)
    BY <1>1, OwedStays
  <2>4. Served(p) => (Owed(p) => ~PacketHeld(p)') /\ (Unacked(p) => ~AckHeld(p)')
    BY <1>1, ServedDone
  <2>5. RedundantAck(p)' => RedundantAck(p)
    BY <2>2, <2>3, <2>4 DEF RedundantAck
  <2>6. ASSUME PacketHeld(p)', PacketHeld(p), rcvd[p] = 0, outcome[p] # "open", From[p] \in asking
        PROVE  rcvd'[p] = 0 /\ From[p] \in asking'
    <3>1. From[p] \in asking'
      BY <1>1, <2>6, ClosedDropped
    <3>2. ~Served(p)
      BY <1>1, <2>6, AskedUnserved
    <3>3. QED BY <2>3, <2>6, <3>1, <3>2
  <2>7. ASSUME PacketHeld(p)', PacketHeld(p), Owed(p) PROVE Owed(p)'
    BY <2>3, <2>4, <2>7
  <2>8. RedundantPacket(p)' => RedundantPacket(p)
    BY <2>2, <2>6, <2>7 DEF RedundantPacket, Owed
  <2>9. QED BY <2>5, <2>8
<1>2. TypeOK /\ TypeOK' /\ CallInv /\ HandsInv /\ HandsInv' /\ [Next]_vars => [StaysOwed]_vars
  BY <1>1 DEF StaysOwed
<1>3. QED
  BY <1>2, TypeCorrect, CallInvariant, HandsInvariant, PTL DEF Spec, NothingRedone

==============================================================================
