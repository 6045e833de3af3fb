-------------------------------- MODULE LinkV1 --------------------------------
(***************************************************************************)
(* One connection of IBC v1 with several channels, relayed by the rounds   *)
(* of links/v1/link.ts.  A round takes the packets of every channel        *)
(* together, and one that is refused refuses them all; channels have an id *)
(* on each chain, an order, and timeouts by height as well as by time.     *)
(* Both chains are Tendermint chains.  A has a connection to a third chain *)
(* too, which another relayer serves: a search returns its packets when    *)
(* they share a transaction, or the events of a block, with one of ours.   *)
(*                                                                         *)
(* Abstractions.  All packets go from A to B; the code is the same with    *)
(* the sides exchanged.  A block's time is its height, and one transaction *)
(* of it may send.  A search, its filters and the height read beside it    *)
(* are one step, commitment queries fail for missing commitments only, and *)
(* a client is brought up to date for every batch: what goes wrong there   *)
(* is in LinkV2.  Chains have one revision.  The id that a channel has on  *)
(* the third chain is one that B knows as well, for a channel of its own.  *)
(***************************************************************************)
EXTENDS Naturals, FiniteSets, FiniteSetsExt

CONSTANTS
  Channels,       \* channels of A
  Connection,     \* those of the connection, the others lead to a third chain
  IdA, IdB,       \* channel id of each on A, and on the chain it leads to
  Ordered,        \* those of ORDER_ORDERED
  Packets,
  BlockSent,      \* those that a block's own events send, not a transaction
  ChannelOf,      \* channel of each packet
  Sequence,       \* its sequence there
  timeoutHeight,  \* its timeout by height of B, 0 for none
  timeoutTime,    \* and by time
  Blocks,         \* timedoutThresholdBlocks
  Seconds,        \* timedoutThresholdSeconds
  MaxFaults,      \* calls that throw, with or without effect, and crashes
  MaxHeight,      \* blocks that nobody waits for
  MaxUpdates      \* height up to which client updates make blocks

Sides == {"A", "B"}

ASSUME ChannelAssumption ==
  /\ IdA \in [Channels -> Nat] /\ IdB \in [Channels -> Nat]
  /\ Connection \subseteq Channels /\ Ordered \subseteq Channels
  /\ \A c, d \in Channels : c # d => IdA[c] # IdA[d]
  /\ \A c, d \in Connection : c # d => IdB[c] # IdB[d]

ASSUME PacketAssumption ==
  /\ ChannelOf \in [Packets -> Channels]
  /\ Sequence \in [Packets -> Nat]
  /\ \A p, q \in Packets : p # q /\ ChannelOf[p] = ChannelOf[q] => Sequence[p] # Sequence[q]
  /\ BlockSent \subseteq Packets
  /\ timeoutHeight \in [Packets -> Nat] /\ timeoutTime \in [Packets -> Nat]
  /\ Blocks \in Nat /\ Seconds \in Nat /\ MaxFaults \in Nat /\ MaxHeight \in Nat /\ MaxUpdates \in Nat

VARIABLES
  height,        \* last committed block of each chain
  sent,          \* height of A a packet was sent at, 0 before
  rcvd,          \* height of B it was received at, 0 before
  outcome,       \* how A closed it
  packetHeight,  \* saved packetHeightA
  ackHeight,     \* saved ackHeightB
  phase,         \* where doCheckAndRelay is
  newPacket,     \* the heights its round will save
  newAck,
  batch,         \* packets the step at hand is for
  toTimeout,     \* packets left for timeoutPackets
  header,        \* header the proofs of the batch are for, 0 before it is there
  faults

chainVars == <<height, sent, rcvd, outcome>>
savedVars == <<packetHeight, ackHeight>>
roundVars == <<phase, newPacket, newAck, batch, toTimeout, header>>
vars == <<chainVars, savedVars, roundVars, faults>>

Phases == {"idle", "split", "relay", "acks", "relayAcks", "timeouts", "save"}
Outcomes == {"open", "acked", "timedout"}

TypeOK ==
  /\ height \in [Sides -> Nat \ {0}]
  /\ sent \in [Packets -> Nat] /\ rcvd \in [Packets -> Nat]
  /\ outcome \in [Packets -> Outcomes]
  /\ packetHeight \in Nat /\ ackHeight \in Nat
  /\ phase \in Phases
  /\ newPacket \in Nat /\ newAck \in Nat
  /\ batch \subseteq Packets /\ toTimeout \subseteq Packets
  /\ header \in Nat
  /\ header # 0 => phase \in {"relay", "relayAcks", "timeouts"} /\ batch # {}
  /\ faults \in 0..MaxFaults

Init ==
  /\ height = [s \in Sides |-> 1]
  /\ sent = [p \in Packets |-> 0] /\ rcvd = [p \in Packets |-> 0]
  /\ outcome = [p \in Packets |-> "open"]
  /\ packetHeight = 0 /\ ackHeight = 0
  /\ phase = "idle"
  /\ newPacket = 0 /\ newAck = 0
  /\ batch = {} /\ toTimeout = {}
  /\ header = 0
  /\ faults = 0

Pending(p) == sent[p] # 0 /\ rcvd[p] = 0 /\ outcome[p] = "open"
Unacked(p) == rcvd[p] # 0 /\ outcome[p] = "open"

Ours == {p \in Packets : ChannelOf[p] \in Connection}

\* The packets of p's channel that come before it.
Earlier(p) == {q \in Packets : ChannelOf[q] = ChannelOf[p] /\ Sequence[q] < Sequence[p]}

-------------------------------------------------------------------------------
(***************************************************************************)
(* The chains.                                                             *)
(***************************************************************************)

\* A block of chain s, in which A may send packets, in sequence.  What it sends
\* to the third chain alone shows in no search.
NewBlock(s, S) ==
  /\ S \intersect Ours # {} \/ (S = {} /\ height[s] < MaxHeight)
  /\ s = "B" => S = {}
  /\ \A p \in S : sent[p] = 0 /\ \A q \in Earlier(p) : sent[q] # 0 \/ q \in S
  /\ height' = [height EXCEPT ![s] = @ + 1]
  /\ sent' = [p \in Packets |-> IF p \in S THEN height[s] + 1 ELSE sent[p]]
  /\ UNCHANGED <<rcvd, outcome, savedVars, roundVars, faults>>

\* The other relayer has a packet of the third chain acknowledged.
OtherRelays(p) ==
  /\ p \notin Ours /\ sent[p] # 0 /\ outcome[p] = "open"
  /\ height' = [height EXCEPT !["A"] = @ + 1]
  /\ outcome' = [outcome EXCEPT ![p] = "acked"]
  /\ UNCHANGED <<sent, rcvd, savedVars, roundVars, faults>>

Elapsed(p, h) ==
  \/ timeoutHeight[p] # 0 /\ h >= timeoutHeight[p]
  \/ timeoutTime[p] # 0 /\ h >= timeoutTime[p]

\* The two ways a packet may be sent.
SentAlike(p, q) == p \in BlockSent <=> q \in BlockSent

\* What an ordered channel has to take before p, and is listed after it: the
\* packets of all transactions come first, those of block events after them.
Misplaced(p) ==
  IF ChannelOf[p] \in Ordered /\ p \notin BlockSent THEN Earlier(p) \intersect BlockSent ELSE {}

\* Ordered channels take packets, and acknowledgements, without a gap, in the
\* order of the list.  Acknowledgements are listed as their packets were taken.
RecvInOrder ==
  \A p \in batch : ChannelOf[p] \in Ordered =>
    \A q \in Earlier(p) : rcvd[q] # 0 \/ (q \in batch /\ q \notin Misplaced(p))
AckInOrder ==
  \A p \in batch : ChannelOf[p] \in Ordered =>
    \A q \in Earlier(p) : outcome[q] = "acked" \/ q \in batch

\* The proofs are of the state before the header.
getPacketProof(p) == sent[p] < header /\ outcome[p] = "open"
getAckProof(p) == rcvd[p] < header
getTimeoutProof(p) == rcvd[p] = 0 \/ rcvd[p] >= header

\* A chain takes nothing of a channel that is not the connection's.
RecvAccepted ==
  /\ batch \subseteq Ours
  /\ \A p \in batch : ~Elapsed(p, height["B"] + 1) /\ (rcvd[p] = 0 => getPacketProof(p))
  /\ RecvInOrder

AckAccepted ==
  /\ batch \subseteq Ours
  /\ \A p \in batch : outcome[p] = "open" => getAckProof(p)
  /\ AckInOrder

\* An ordered channel asks for a proof of the next sequence, and
\* getTimeoutProof has one that there is no receipt.
TimeoutAccepted ==
  /\ batch \subseteq Ours
  /\ \A p \in batch : /\ Elapsed(p, header)
                      /\ ChannelOf[p] \notin Ordered
                      /\ outcome[p] = "open" => getTimeoutProof(p)

\* timeoutPackets asks A, where it submits, for the channel that has the id
\* on B, and throws when there is none.
ChannelTypesFound == \A p \in batch : \E c \in Channels : IdA[c] = IdB[ChannelOf[p]]

-------------------------------------------------------------------------------
(***************************************************************************)
(* The searches.  filterUnreceived asks once for each channel, with the    *)
(* sequences of all the packets found on it.                               *)
(***************************************************************************)

\* Slip: the id of the channel is the one on the chain of the packet.
SourceId == [p \in Packets |-> IdA[ChannelOf[p]]]

packetId == [p \in Packets |-> IdB[ChannelOf[p]]]
ackId == [p \in Packets |-> IdA[ChannelOf[p]]]

\* Which of some sequences have not been received on a channel of B.
queryUnreceivedPackets(id, seqs) ==
  {n \in seqs : ~\E q \in Ours :
     IdB[ChannelOf[q]] = id /\ Sequence[q] = n /\ rcvd[q] # 0}

\* Which of some sequences still have a commitment on a channel of A.
queryUnreceivedAcks(id, seqs) ==
  {n \in seqs : \E q \in Packets :
     IdA[ChannelOf[q]] = id /\ Sequence[q] = n /\ sent[q] # 0 /\ outcome[q] = "open"}

\* What a search from the saved heights finds: all the packets of a transaction
\* that sends one of ours, and of the events of such a block.  The transactions
\* of B that receive our packets are this relayer's, with nothing else in them.
querySentPackets ==
  {p \in Packets : /\ sent[p] # 0 /\ sent[p] >= packetHeight
                   /\ \E q \in Ours : sent[q] = sent[p] /\ SentAlike(p, q)}
queryWrittenAcks == {p \in Packets : rcvd[p] # 0 /\ rcvd[p] >= ackHeight}

\* What filterUnreceived asks of each key: the sequences found under it.
packetsPerDestination(found, id) ==
  [key \in {id[p] : p \in found} |-> {Sequence[p] : p \in {q \in found : id[q] = key}}]

getPendingPackets ==
  LET asked == packetsPerDestination(querySentPackets, packetId) IN
    {p \in querySentPackets :
       /\ Sequence[p] \in queryUnreceivedPackets(packetId[p], asked[packetId[p]])
       /\ outcome[p] = "open"}

getPendingAcks ==
  LET asked == packetsPerDestination(queryWrittenAcks, ackId) IN
    {p \in queryWrittenAcks : Sequence[p] \in queryUnreceivedAcks(ackId[p], asked[ackId[p]])}

-------------------------------------------------------------------------------
(***************************************************************************)
(* A round.                                                                *)
(***************************************************************************)

heightGreater(a, b) == a = 0 \/ a > b
timeGreater(a, b) == a = 0 \/ a > b

validPacket(p) ==
  /\ heightGreater(timeoutHeight[p], height["B"] + Blocks)
  /\ timeGreater(timeoutTime[p], height["B"] + Seconds)

SearchPackets ==
  /\ phase = "idle"
  /\ phase' = "split"
  /\ newPacket' = height["A"]
  /\ batch' = getPendingPackets
  /\ UNCHANGED <<chainVars, savedVars, newAck, toTimeout, header, faults>>

\* splitPendingPackets, with the height and time of B.
SplitPackets ==
  /\ phase = "split"
  /\ phase' = "relay"
  /\ batch' = {p \in batch : validPacket(p)}
  /\ toTimeout' = {p \in batch : ~validPacket(p)}
  /\ UNCHANGED <<chainVars, savedVars, newPacket, newAck, header, faults>>

SearchAcks ==
  /\ phase = "acks"
  /\ phase' = "relayAcks"
  /\ newAck' = height["B"]
  /\ batch' = getPendingAcks
  /\ UNCHANGED <<chainVars, savedVars, newPacket, toTimeout, header, faults>>

\* On from a batch, once it is empty.
Then == [relay |-> "acks", relayAcks |-> "timeouts", timeouts |-> "save"]

\* Slip: the packets that timed out are left for the next round.
SkipTimeouts ==
  /\ phase \in DOMAIN Then /\ batch = {}
  /\ phase' = Then[phase]
  /\ toTimeout' = {}
  /\ UNCHANGED <<chainVars, savedVars, newPacket, newAck, batch, header, faults>>

BatchDone ==
  /\ phase \in DOMAIN Then /\ batch = {}
  /\ phase' = Then[phase]
  /\ IF phase = "relayAcks"
     THEN batch' = toTimeout /\ toTimeout' = {}
     ELSE UNCHANGED <<batch, toTimeout>>
  /\ UNCHANGED <<chainVars, savedVars, newPacket, newAck, header, faults>>

\* The chain a batch is proven from, and the header its proofs need.
Prover == IF phase = "relay" THEN "A" ELSE "B"
Verifier == IF phase = "relay" THEN "B" ELSE "A"

\* Slip: the block that holds the packets is to prove them.
NeededOneBelow ==
  CASE phase = "relay"     -> Max({sent[p] : p \in batch})
    [] phase = "relayAcks" -> Max({rcvd[p] : p \in batch})
    [] phase = "timeouts"  -> height["B"] + 1

neededHeight ==
  CASE phase = "relay"     -> Max({sent[p] : p \in batch}) + 1
    [] phase = "relayAcks" -> Max({rcvd[p] : p \in batch}) + 1
    [] phase = "timeouts"  -> height["B"] + 1

\* Rounds that are refused for good would make blocks without end.
BlockAfter(s) == IF height[s] < MaxUpdates THEN height[s] + 1 ELSE height[s]

\* A block that packets or acknowledgements need is always made.
BlockWaitedFor == IF phase = "timeouts" THEN BlockAfter(Prover) ELSE height[Prover] + 1

\* updateClientToHeight, and waitOneBlock with updateClient for timeouts: at
\* most one block is waited for, and the latest header submitted.
UpdateClient ==
  /\ phase \in DOMAIN Then /\ batch # {} /\ header = 0
  /\ header' = IF height[Prover] < neededHeight THEN BlockWaitedFor ELSE height[Prover]
  /\ height' = [height EXCEPT ![Prover] = header', ![Verifier] = BlockAfter(Verifier)]
  /\ UNCHANGED <<sent, rcvd, outcome, savedVars, phase, newPacket, newAck, batch, toTimeout, faults>>

Commits(s) == height' = [height EXCEPT ![s] = @ + 1]

\* Slip: the header stays for the next batch.
HeaderKept == batch' = {} /\ UNCHANGED header

BatchSent == batch' = {} /\ header' = 0

receivePackets ==
  /\ phase = "relay" /\ header # 0 /\ RecvAccepted
  /\ Commits("B")
  /\ rcvd' = [p \in Packets |-> IF p \in batch /\ rcvd[p] = 0 THEN height["B"] + 1 ELSE rcvd[p]]
  /\ UNCHANGED <<sent, outcome>>

acknowledgePackets ==
  /\ phase = "relayAcks" /\ header # 0 /\ AckAccepted
  /\ Commits("A")
  /\ outcome' = [p \in Packets |-> IF p \in batch /\ outcome[p] = "open" THEN "acked" ELSE outcome[p]]
  /\ UNCHANGED <<sent, rcvd>>

timeoutPackets ==
  /\ phase = "timeouts" /\ header # 0 /\ ChannelTypesFound /\ TimeoutAccepted
  /\ Commits("A")
  /\ outcome' = [p \in Packets |-> IF p \in batch /\ outcome[p] = "open" THEN "timedout" ELSE outcome[p]]
  /\ UNCHANGED <<sent, rcvd>>

Submits == receivePackets \/ acknowledgePackets \/ timeoutPackets

Submit ==
  /\ Submits
  /\ BatchSent
  /\ UNCHANGED <<savedVars, phase, newPacket, newAck, toTimeout, faults>>

Save ==
  /\ phase = "save"
  /\ packetHeight' = newPacket /\ ackHeight' = newAck
  /\ phase' = "idle"
  /\ newPacket' = 0 /\ newAck' = 0
  /\ UNCHANGED <<chainVars, batch, toTimeout, header, faults>>

\* The round throws; the loop begins another with the heights it had.
RoundFails ==
  /\ phase' = "idle"
  /\ newPacket' = 0 /\ newAck' = 0
  /\ BatchSent
  /\ toTimeout' = {}
  /\ UNCHANGED savedVars

Refused ==
  /\ header # 0
  /\ \/ phase = "relay" /\ ~RecvAccepted
     \/ phase = "relayAcks" /\ ~AckAccepted
     \/ phase = "timeouts" /\ ~(ChannelTypesFound /\ TimeoutAccepted)
  /\ RoundFails
  /\ UNCHANGED <<chainVars, faults>>

Fault == faults < MaxFaults /\ faults' = faults + 1

\* A call throws, or the process dies and is started again.
Interrupted == phase # "idle" /\ Fault /\ RoundFails /\ UNCHANGED chainVars

\* A transaction is executed and its answer is lost.
ReplyLost == Submits /\ Fault /\ RoundFails

RoundStep ==
  \/ SearchPackets \/ SplitPackets \/ SearchAcks \/ BatchDone \/ UpdateClient
  \/ Submit \/ Save \/ Refused

Next ==
  \/ \E s \in Sides, S \in SUBSET Packets : NewBlock(s, S)
  \/ \E p \in Packets : OtherRelays(p)
  \/ RoundStep \/ Interrupted \/ ReplyLost

Spec == Init /\ [][Next]_vars

\* Every await of a round settles, and the loop begins another after it.
FairSpec == Spec /\ WF_vars(RoundStep)

-------------------------------------------------------------------------------
(***************************************************************************)
(* Properties.                                                             *)
(***************************************************************************)

\* Whichever ids the channels have on the two chains, a packet or an
\* acknowledgement that is still owed is found from the saved heights, by
\* filters that ask for each channel by the id it has on the asked chain.
NothingStranded ==
  \A p \in Ours : /\ Pending(p) => p \in getPendingPackets
                  /\ Unacked(p) => p \in getPendingAcks

\* When all that is left for timeoutPackets has timed out and not been
\* received, it is submitted: "If pending packets have timed out, it will
\* submit a timeout instead of attempting to relay them" (v1/link.ts).
TimeoutsSubmitted ==
  phase = "timeouts" /\ header # 0
    /\ (\A p \in batch : Elapsed(p, header) /\ rcvd[p] = 0 /\ ChannelOf[p] \notin Ordered)
  => ChannelTypesFound /\ TimeoutAccepted

\* A packet before it on its ordered channel is set aside to time out.
BehindTimeout(p) == ChannelOf[p] \in Ordered /\ Earlier(p) \intersect toTimeout # {}

\* One message that is refused refuses the batches of all channels, so none is
\* submitted that needs to be: one block waited for is enough for every proof,
\* a batch leaves no gap in an ordered channel that the split did not make,
\* acknowledgements are never refused, and packets and timeouts only for their
\* time, for what is not done for ordered channels, for a packet of another
\* connection, or because nothing sorts what the two searches for packets
\* return.
RefusalsExplained ==
  header # 0 =>
    /\ phase = "relay" =>
         \/ RecvAccepted
         \/ ~(batch \subseteq Ours)
         \/ \E p \in batch : \/ Elapsed(p, height["B"] + 1)
                             \/ BehindTimeout(p)
                             \/ Misplaced(p) \intersect batch # {}
    /\ phase = "relayAcks" => AckAccepted
    /\ phase = "timeouts" =>
         \/ TimeoutAccepted
         \/ ~(batch \subseteq Ours)
         \/ \E p \in batch : ~Elapsed(p, header) \/ ChannelOf[p] \in Ordered

\* What refuses rounds as long as it lasts: a packet of an ordered channel that
\* has expired on its way, two of them that a batch has in the wrong order, or
\* one of the third chain's among those that a search finds.
Blocked == \E q \in Ours : ChannelOf[q] \in Ordered /\ Pending(q) /\ Elapsed(q, height["B"])
Disordered == \E p, q \in Ours : Pending(p) /\ Pending(q) /\ q \in Misplaced(p)
Joined == ~(getPendingPackets \subseteq Ours)

\* Every packet sent, on whichever channel of the connection, is acknowledged
\* or timed out in the end, although rounds are refused, fail and begin again:
\* what a round is refused holds up the others for good only when one of these
\* three lasts.  The wrong order does until the earlier packet expires.
EveryPacketEnds ==
  \A p \in Ours : sent[p] # 0 ~> outcome[p] # "open" \/ [](Blocked \/ Disordered \/ Joined)

==============================================================================
