-------------------------------- MODULE LinkV2 --------------------------------
(***************************************************************************)
(* One relay path between two chains, relayed by Link.doCheckAndRelay of   *)
(* links/v2/link.ts in the loop of relayer.ts: search both chains for      *)
(* packets that are still pending, relay them, search for the acks they    *)
(* leave, relay those, time out what expired, and save the heights the     *)
(* next round searches from.                                               *)
(*                                                                         *)
(* Abstractions.  A block's time is its height.  A packet is an element of *)
(* Packets; a chain keeps for it the height it was sent or received at and *)
(* how it ended.  A transaction is all its messages or none.  Chains       *)
(* (ibc-go, Gno) are external: their rules are the ones the calls of the   *)
(* clients rely on.                                                        *)
(***************************************************************************)
EXTENDS Naturals, FiniteSets

CONSTANTS
  Packets,    \* the packets the two applications may send
  From,       \* the side each packet is sent from
  Expiry,     \* timeoutTimestamp of each packet, 0 for none
  Margin,     \* timedoutThresholdSeconds
  Lookback,   \* blocks below minHeight the search of a side still returns
  Slack,      \* blocks a status height may run past what a search saw
  Faults,     \* which failures may happen
  MaxFaults,  \* how many of them
  MaxHeight   \* blocks produced without anybody waiting for one

Sides == {"A", "B"}
FaultKinds == {"rpc", "reply", "crash", "commitment"}

ASSUME ConstantsAssumption ==
  /\ From \in [Packets -> Sides]
  /\ Expiry \in [Packets -> Nat]
  /\ Lookback \in [Sides -> Nat]
  /\ Margin \in Nat
  /\ Slack \in Nat
  /\ MaxFaults \in Nat
  /\ MaxHeight \in Nat
  /\ Faults \subseteq FaultKinds

VARIABLES
  height,       \* last committed block of each chain
  sent,         \* height a packet was sent at, 0 before
  rcvd,         \* height a packet was received (and its ack written) at, 0 before
  outcome,      \* how the sending chain closed the packet
  client,       \* highest counterparty height a chain's light client knows
  packetHeight, \* saved packetHeightA / packetHeightB
  ackHeight,    \* saved ackHeightA / ackHeightB
  phase,        \* where doCheckAndRelay is, "idle" between two rounds
  newPacket,    \* currentHeight read beside the packet search, 0 before
  newAck,       \* currentHeight read beside the ack search, 0 before
  seen,         \* last block the search of the current phase saw, 0 before it
  found,        \* what the search and the filters so far kept
  asking,       \* sides of which commitments are still to be asked for
  expired,      \* toTimeout of the round, until timeoutPackets takes it
  calls,        \* relayPackets, relayAcks and timeoutPackets calls under way
  faults        \* failures so far

chainVars == <<height, sent, rcvd, outcome, client>>
savedVars == <<packetHeight, ackHeight>>
roundVars == <<phase, newPacket, newAck, seen, found, asking, expired>>
vars == <<chainVars, savedVars, roundVars, calls, faults>>

Phases == {"idle", "packets", "relay", "acks", "relayAcks", "timeouts"}
Outcomes == {"open", "acked", "timedout"}

Other(s) == IF s = "A" THEN "B" ELSE "A"
To(p) == Other(From[p])
Zero == [s \in Sides |-> 0]
Nothing == [s \in Sides |-> {}]
Smaller(a, b) == IF a < b THEN a ELSE b

(***************************************************************************)
(* A call proves to chain Other(proof), with a header of chain proof, what *)
(* happened to pkts there.  mark is the height waitOneBlock started from   *)
(* while pc is "wait", and the header's height once pc is "submit".  A     *)
(* call whose round was given up runs on with live = FALSE: Promise.all    *)
(* rejects at once and does not cancel its other branch.                   *)
(***************************************************************************)
Call == [kind : {"recv", "ack", "timeout"}, proof : Sides,
         pkts : (SUBSET Packets) \ {{}}, pc : {"check", "wait", "submit"},
         mark : Nat, live : BOOLEAN]

TypeOK ==
  /\ height \in [Sides -> Nat \ {0}]
  /\ sent \in [Packets -> Nat]
  /\ rcvd \in [Packets -> Nat]
  /\ outcome \in [Packets -> Outcomes]
  /\ client \in [Sides -> Nat]
  /\ packetHeight \in [Sides -> Nat]
  /\ ackHeight \in [Sides -> Nat]
  /\ phase \in Phases
  /\ newPacket \in [Sides -> Nat]
  /\ newAck \in [Sides -> Nat]
  /\ seen \in [Sides -> Nat]
  /\ found \in [Sides -> SUBSET Packets]
  /\ asking \subseteq Sides
  /\ expired \in [Sides -> SUBSET Packets]
  /\ calls \subseteq Call
  /\ faults \in Nat

\* The packets the relayer still owes a delivery, or an acknowledgement.
Pending(p) == sent[p] # 0 /\ rcvd[p] = 0 /\ outcome[p] = "open"
Unacked(p) == rcvd[p] # 0 /\ outcome[p] = "open"

Init ==
  /\ height = [s \in Sides |-> 1]
  /\ sent = [p \in Packets |-> 0]
  /\ rcvd = [p \in Packets |-> 0]
  /\ outcome = [p \in Packets |-> "open"]
  /\ client = [s \in Sides |-> 1]
  /\ packetHeight = Zero
  /\ ackHeight = Zero
  /\ phase = "idle"
  /\ newPacket = Zero
  /\ newAck = Zero
  /\ seen = Zero
  /\ found = Nothing
  /\ asking = {}
  /\ expired = Nothing
  /\ calls = {}
  /\ faults = 0

-------------------------------------------------------------------------------
(***************************************************************************)
(* The chains.                                                             *)
(***************************************************************************)

\* A call is waiting for the next block of chain s.
Awaited(s) == \E c \in calls : c.proof = s /\ c.pc = "wait" /\ c.mark = height[s]

\* Chain s commits a block in which its application sends the packets of S.
NewBlock(s, S) ==
  /\ \A p \in S : From[p] = s /\ sent[p] = 0
  /\ S # {} \/ height[s] < MaxHeight \/ Awaited(s)
  /\ height' = [height EXCEPT ![s] = @ + 1]
  /\ sent' = [p \in Packets |-> IF p \in S THEN height'[s] ELSE sent[p]]
  /\ UNCHANGED <<rcvd, outcome, client, savedVars, roundVars, calls, faults>>

\* A packet can no longer be received in a block of height h of its destination.
Elapsed(p, h) == Expiry[p] # 0 /\ h >= Expiry[p]

\* What each transaction finds wrong.  A proof at header h shows the state
\* after block h - 1; a message for a packet already dealt with is a no-op.
RecvRefused(c) ==
  LET d == Other(c.proof) IN
    \E p \in c.pkts : \/ Elapsed(p, height[d] + 1)
                      \/ rcvd[p] = 0 /\ sent[p] >= c.mark
AckRefused(c) == \E p \in c.pkts : outcome[p] = "open" /\ rcvd[p] >= c.mark
TimeoutRefused(c) ==
  \E p \in c.pkts : \/ ~Elapsed(p, c.mark)
                    \/ outcome[p] = "open" /\ rcvd[p] # 0 /\ rcvd[p] < c.mark

Refused(c) == \/ c.kind = "recv" /\ RecvRefused(c)
              \/ c.kind = "ack" /\ AckRefused(c)
              \/ c.kind = "timeout" /\ TimeoutRefused(c)

\* The transaction of chain d that carries a call's messages.
Committed(d) == height' = [height EXCEPT ![d] = @ + 1]

receivePacketsV2(c) ==
  /\ c.kind = "recv"
  /\ Committed(Other(c.proof))
  /\ rcvd' = [p \in Packets |-> IF p \in c.pkts /\ rcvd[p] = 0
                                THEN height'[Other(c.proof)] ELSE rcvd[p]]
  /\ UNCHANGED <<sent, outcome, client>>

acknowledgePacketsV2(c) ==
  /\ c.kind = "ack"
  /\ Committed(Other(c.proof))
  /\ outcome' = [p \in Packets |-> IF p \in c.pkts /\ outcome[p] = "open"
                                   THEN "acked" ELSE outcome[p]]
  /\ UNCHANGED <<sent, rcvd, client>>

timeoutPacketsV2(c) ==
  /\ c.kind = "timeout"
  /\ Committed(Other(c.proof))
  /\ outcome' = [p \in Packets |-> IF p \in c.pkts /\ outcome[p] = "open"
                                   THEN "timedout" ELSE outcome[p]]
  /\ UNCHANGED <<sent, rcvd, client>>

Deliver(c) == receivePacketsV2(c) \/ acknowledgePacketsV2(c) \/ timeoutPacketsV2(c)

\* MsgUpdateClient with the latest header of the proving chain.
updateClient(c) ==
  LET d == Other(c.proof) IN
    /\ Committed(d)
    /\ client' = [client EXCEPT ![d] = height[c.proof]]
    /\ UNCHANGED <<sent, rcvd, outcome>>

-------------------------------------------------------------------------------
(***************************************************************************)
(* The searches of a round.                                                *)
(***************************************************************************)

\* The event search with a minHeight: Tendermint keeps tx.height >= minHeight,
\* Gno asks for blocks above minHeight - 2, and 0 is no bound at all.
NotBelow(s, h, min) == h + Lookback[s] >= min

\* The packets sent on s in range, when the search saw the blocks up to v.
querySentPackets(s, v) ==
  {p \in Packets : From[p] = s /\ sent[p] # 0 /\ sent[p] <= v /\ NotBelow(s, sent[p], packetHeight[s])}

\* Slip: whether a packet was received is not asked.
SentPackets(s, v) == querySentPackets(s, v)

\* Of those, the ones that the other side has not received.
filterUnreceived(s, v) == {p \in querySentPackets(s, v) : rcvd[p] = 0}

\* The packets whose commitment is still there.
withCommitment(S) == {p \in S : sent[p] # 0 /\ outcome[p] = "open"}

\* What getPendingPackets returns of s when nothing happens meanwhile.
getPendingPackets(s, v) == withCommitment(filterUnreceived(s, v))

\* getPendingAcks: acks written on s, in range, not yet seen by the sender.
getPendingAcks(s, v) ==
  {p \in Packets : To(p) = s /\ Unacked(p)
                   /\ rcvd[p] <= v /\ NotBelow(s, rcvd[p], ackHeight[s])}

\* How far the search of s may be behind: the index trails the chain, and
\* blocks keep coming while Promise.all waits for search and status.
Visible(s, v) == v \in 1..height[s] /\ v + Slack >= height[s]

\* What currentHeight answers: the block at the time the node answered it,
\* which is no more than Slack past what the search beside it saw.
Status(s) == IF seen[s] = 0 THEN height[s] ELSE Smaller(height[s], seen[s] + Slack)

BeginRound ==
  /\ phase = "idle"
  /\ phase' = "packets"
  /\ UNCHANGED <<chainVars, savedVars, newPacket, newAck, seen, found, asking, expired, calls, faults>>

\* currentHeight of side s, in the Promise.all with the packet search.
ReadPacketHeight(s) ==
  /\ phase = "packets"
  /\ newPacket[s] = 0
  /\ newPacket' = [newPacket EXCEPT ![s] = Status(s)]
  /\ UNCHANGED <<chainVars, savedVars, phase, newAck, seen, found, asking, expired, calls, faults>>

ReadAckHeight(s) ==
  /\ phase = "acks"
  /\ newAck[s] = 0
  /\ newAck' = [newAck EXCEPT ![s] = Status(s)]
  /\ UNCHANGED <<chainVars, savedVars, phase, newPacket, seen, found, asking, expired, calls, faults>>

\* One more failure of this kind.
Fault(kind) ==
  /\ kind \in Faults
  /\ faults < MaxFaults
  /\ faults' = faults + 1

\* The search and filterUnreceived of getPendingPackets, as one step at the time
\* of the filter: what is received after the search only makes its answer
\* smaller.  Of no packets, no commitments are asked for.
SearchPackets(s, v) ==
  /\ phase = "packets"
  /\ seen[s] = 0
  /\ Visible(s, v)
  /\ seen' = [seen EXCEPT ![s] = v]
  /\ found' = [found EXCEPT ![s] = filterUnreceived(s, v)]
  /\ asking' = IF filterUnreceived(s, v) = {} THEN asking ELSE asking \union {s}
  /\ UNCHANGED <<chainVars, savedVars, phase, newPacket, newAck, expired, calls, faults>>

\* The catch around queryCommitmentsV2 takes a failed query for "no
\* commitment": the packets of L are dropped, and the round goes on.
Misread(L) == IF L = {} THEN UNCHANGED faults ELSE Fault("commitment")

\* The answers to the queries for the commitments of what is left.  It may have
\* been received by now, which nothing looks at again.
queryCommitmentsV2(s) ==
  /\ phase = "packets"
  /\ s \in asking
  /\ asking' = asking \ {s}
  /\ \E L \in SUBSET withCommitment(found[s]) :
       /\ Misread(L)
       /\ found' = [found EXCEPT ![s] = withCommitment(@) \ L]
  /\ UNCHANGED <<chainVars, savedVars, phase, newPacket, newAck, seen, expired, calls>>

SearchAcks(s, v) ==
  /\ phase = "acks"
  /\ seen[s] = 0
  /\ Visible(s, v)
  /\ seen' = [seen EXCEPT ![s] = v]
  /\ found' = [found EXCEPT ![s] = getPendingAcks(s, v)]
  /\ UNCHANGED <<chainVars, savedVars, phase, newPacket, newAck, asking, expired, calls, faults>>

\* Promise.all of heights and searches resolved.
Searched(new) == asking = {} /\ \A s \in Sides : new[s] # 0 /\ seen[s] # 0

-------------------------------------------------------------------------------
(***************************************************************************)
(* The calls of a round.                                                   *)
(***************************************************************************)

\* splitPendingPackets keeps a packet whose timeout lies beyond the
\* destination's clock plus the margin.
timeGreaterV2(p, t) == Expiry[p] = 0 \/ Expiry[p] > t
toSubmit(s) == {p \in found[s] : timeGreaterV2(p, height[Other(s)] + Margin)}

\* Slip: no early return on an empty list.
BatchesEvenEmpty(kind, pkts) ==
  {[kind |-> kind, proof |-> s, pkts |-> pkts[s], pc |-> "check", mark |-> 0,
    live |-> TRUE] : s \in Sides}

\* The calls of a Promise.all with one batch of packets for each proving side;
\* each returns at once when it is given no packets.
Batches(kind, pkts) ==
  {[kind |-> kind, proof |-> s, pkts |-> pkts[s], pc |-> "check", mark |-> 0,
    live |-> TRUE] : s \in {t \in Sides : pkts[t] # {}}}

\* Slip: Promise.race, which is content with one of the two calls.
OneSideDone == \E s \in Sides : \A c \in calls : c.live => c.proof # s

\* Every call the round awaits has returned.
NoLiveCall == \A c \in calls : ~c.live

SplitAndRelay ==
  /\ phase = "packets"
  /\ Searched(newPacket)
  /\ phase' = "relay"
  /\ expired' = [s \in Sides |-> found[s] \ toSubmit(s)]
  /\ calls' = calls \union Batches("recv", [s \in Sides |-> toSubmit(s)])
  /\ seen' = Zero
  /\ found' = Nothing
  /\ UNCHANGED <<chainVars, savedVars, newPacket, newAck, asking, faults>>

\* Both relayPackets returned; waitForIndexer, then the ack search.
BeginAckSearch ==
  /\ phase = "relay"
  /\ NoLiveCall
  /\ phase' = "acks"
  /\ UNCHANGED <<chainVars, savedVars, newPacket, newAck, seen, found, asking, expired, calls, faults>>

RelayAcks ==
  /\ phase = "acks"
  /\ Searched(newAck)
  /\ phase' = "relayAcks"
  /\ calls' = calls \union Batches("ack", found)
  /\ seen' = Zero
  /\ found' = Nothing
  /\ UNCHANGED <<chainVars, savedVars, newPacket, newAck, asking, expired, faults>>

\* timeoutPackets(s) proves with headers of the destination.
TimeoutPackets ==
  /\ phase = "relayAcks"
  /\ NoLiveCall
  /\ phase' = "timeouts"
  /\ calls' = calls \union Batches("timeout", [s \in Sides |-> expired[Other(s)]])
  /\ expired' = Nothing
  /\ UNCHANGED <<chainVars, savedVars, newPacket, newAck, seen, found, asking, faults>>

\* Slip: the heights are read when they are saved, not beside the search.
SaveLatestHeights ==
  /\ phase = "timeouts"
  /\ NoLiveCall
  /\ packetHeight' = height
  /\ ackHeight' = height
  /\ phase' = "idle"
  /\ newPacket' = Zero
  /\ newAck' = Zero
  /\ UNCHANGED <<chainVars, seen, found, asking, expired, calls, faults>>

\* doCheckAndRelay returns, and the loop saves the heights it read.
SaveHeights ==
  /\ phase = "timeouts"
  /\ NoLiveCall
  /\ packetHeight' = newPacket
  /\ ackHeight' = newAck
  /\ phase' = "idle"
  /\ newPacket' = Zero
  /\ newAck' = Zero
  /\ UNCHANGED <<chainVars, seen, found, asking, expired, calls, faults>>

\* Everything a round holds in memory is gone.
ForgetRound ==
  /\ phase' = "idle"
  /\ newPacket' = Zero
  /\ newAck' = Zero
  /\ seen' = Zero
  /\ found' = Nothing
  /\ asking' = {}
  /\ expired' = Nothing

\* A call goes on as d, or returns.
Becomes(c, d) == calls' = (calls \ {c}) \union {d}
Returns(c) == calls' = calls \ {c}

\* Slip: the error is caught where the call is made, and the round goes on.
ThrowsSwallowed(c) == Returns(c) /\ UNCHANGED roundVars

\* A call throws.  In the current round that rejects its Promise.all: the loop
\* catches, sleeps and begins again, while the other call of the batch runs on.
Throws(c) ==
  IF c.live
  THEN /\ calls' = {[d EXCEPT !.live = FALSE] : d \in calls \ {c}}
       /\ ForgetRound
  ELSE Returns(c) /\ UNCHANGED roundVars

\* Slip: the proof height is taken for the height of the packet.
MeetsHeight(c, h) == \A p \in c.pkts : IF c.kind = "ack" THEN h >= rcvd[p] ELSE h >= sent[p]

\* The header height every proof of the call needs: max(height) + 1.
MeetsNeed(c, h) ==
  \A p \in c.pkts : IF c.kind = "ack" THEN h >= rcvd[p] + 1 ELSE h >= sent[p] + 1

\* updateClientToHeight: the known header is high enough.
UseKnownHeader(c) ==
  /\ c.pc = "check" /\ c.kind # "timeout"
  /\ MeetsNeed(c, client[Other(c.proof)])
  /\ Becomes(c, [c EXCEPT !.pc = "submit", !.mark = client[Other(c.proof)]])
  /\ UNCHANGED <<chainVars, savedVars, roundVars, faults>>

\* waitOneBlock begins: the header is not there yet, or the call is a timeout.
AwaitBlock(c) ==
  /\ c.pc = "check"
  /\ \/ c.kind = "timeout"
     \/ ~MeetsNeed(c, client[Other(c.proof)]) /\ ~MeetsNeed(c, height[c.proof])
  /\ Becomes(c, [c EXCEPT !.pc = "wait", !.mark = height[c.proof]])
  /\ UNCHANGED <<chainVars, savedVars, roundVars, faults>>

\* The update is due: the header is there, or waitOneBlock has returned.
UpdateDue(c) ==
  \/ /\ c.pc = "check" /\ c.kind # "timeout"
     /\ ~MeetsNeed(c, client[Other(c.proof)]) /\ MeetsNeed(c, height[c.proof])
  \/ c.pc = "wait" /\ height[c.proof] # c.mark

\* The client has that header already, of another call: the update is refused.
StaleHeader(c) == UpdateDue(c) /\ client[Other(c.proof)] >= height[c.proof]

UpdateClient(c) ==
  /\ UpdateDue(c)
  /\ ~StaleHeader(c)
  /\ updateClient(c)
  /\ Becomes(c, [c EXCEPT !.pc = "submit", !.mark = height[c.proof]])
  /\ UNCHANGED <<savedVars, roundVars, faults>>

Submit(c) ==
  /\ c.pc = "submit"
  /\ ~Refused(c)
  /\ Deliver(c)
  /\ Returns(c)
  /\ UNCHANGED <<savedVars, roundVars, faults>>

\* The transaction fails, and nothing in it took effect.
Reject(c) ==
  /\ (c.pc = "submit" /\ Refused(c)) \/ StaleHeader(c)
  /\ Throws(c)
  /\ UNCHANGED <<chainVars, savedVars, faults>>

\* A query or a broadcast of the call throws before it has any effect.
CallFails(c) ==
  /\ Fault("rpc")
  /\ Throws(c)
  /\ UNCHANGED <<chainVars, savedVars>>

\* A transaction is committed, and the wait for its result throws.
ReplyLost(c) ==
  /\ Fault("reply")
  /\ \/ UpdateDue(c) /\ ~StaleHeader(c) /\ updateClient(c)
     \/ c.pc = "submit" /\ ~Refused(c) /\ Deliver(c)
  /\ Throws(c)
  /\ UNCHANGED savedVars

\* A status or search query throws.
SearchFails ==
  /\ phase \in {"packets", "acks"}
  /\ Fault("rpc")
  /\ ForgetRound
  /\ UNCHANGED <<chainVars, savedVars, calls>>

\* The process dies and is started again: only the saved heights survive.
Crash ==
  /\ Fault("crash")
  /\ ForgetRound
  /\ calls' = {}
  /\ UNCHANGED <<chainVars, savedVars>>

-------------------------------------------------------------------------------
CallStep(c) == UseKnownHeader(c) \/ AwaitBlock(c) \/ UpdateClient(c) \/ Submit(c) \/ Reject(c)

Search(s, v) == SearchPackets(s, v) \/ SearchAcks(s, v)

RoundStep ==
  \/ BeginRound \/ SplitAndRelay \/ BeginAckSearch \/ RelayAcks
  \/ TimeoutPackets \/ SaveHeights
  \/ \E s \in Sides : \/ ReadPacketHeight(s) \/ ReadAckHeight(s)
                      \/ queryCommitmentsV2(s)
                      \/ \E v \in 1..height[s] : Search(s, v)

Failure ==
  \/ SearchFails \/ Crash
  \/ \E c \in calls : CallFails(c) \/ ReplyLost(c)

Next ==
  \/ \E s \in Sides : \E S \in SUBSET {p \in Packets : From[p] = s} : NewBlock(s, S)
  \/ RoundStep
  \/ \E c \in calls : CallStep(c)
  \/ Failure

Spec == Init /\ [][Next]_vars

(***************************************************************************)
(* Fairness.  The loop's awaits all resolve or reject, a chain somebody    *)
(* waits on makes blocks, and the index of a chain catches up now and      *)
(* then.  Calls of a round that was given up promise nothing.              *)
(***************************************************************************)
Fairness ==
  /\ WF_vars(RoundStep)
  /\ WF_vars(\E c \in calls : c.live /\ CallStep(c))
  /\ \A s \in Sides :
       /\ WF_vars(NewBlock(s, {}))
       /\ SF_vars(SearchPackets(s, height[s]))
       /\ SF_vars(SearchAcks(s, height[s]))

FairSpec == Spec /\ Fairness

-------------------------------------------------------------------------------
(***************************************************************************)
(* Properties.                                                             *)
(***************************************************************************)

\* The heights saved for the next round never leave a packet behind that is
\* still pending: a search from them, once the index is complete, finds it.
\* This is what saving the heights of checkAndRelayPacketsAndAcks is for.
NoPacketStranded == \A p \in Packets : Pending(p) => p \in getPendingPackets(From[p], height[From[p]])

\* The same for the acknowledgements: one whose sender has not seen it is
\* found by a search from the saved ack heights.
NoAckStranded == \A p \in Packets : Unacked(p) => p \in getPendingAcks(To(p), height[To(p)])

\* updateClientToHeight does what relayPackets and relayAcks call it for: the
\* header a transaction is submitted with is one the destination's client has,
\* and it is late enough to prove every packet and ack of the batch.
ProofsVisible ==
  \A c \in calls : c.pc = "submit" =>
    /\ c.mark <= client[Other(c.proof)] /\ c.mark <= height[c.proof]
    /\ c.kind = "recv" => \A p \in c.pkts : sent[p] < c.mark
    /\ c.kind = "ack" => \A p \in c.pkts : rcvd[p] < c.mark

\* What a round holds of packet p: to receive it or time it out, or to
\* acknowledge it; and when that is of no use any more.  A packet whose
\* sender closed it is dropped once its commitment was asked for.
PacketHeld(p) ==
  \/ phase = "packets" /\ p \in found[From[p]]
  \/ p \in expired[From[p]]
  \/ \E c \in calls : c.live /\ c.kind \in {"recv", "timeout"} /\ p \in c.pkts
AckHeld(p) ==
  \/ phase = "acks" /\ p \in found[To(p)]
  \/ \E c \in calls : c.live /\ c.kind = "ack" /\ p \in c.pkts
RedundantPacket(p) ==
  PacketHeld(p) /\ (rcvd[p] # 0 \/ (outcome[p] # "open" /\ From[p] \notin asking))
RedundantAck(p) == AckHeld(p) /\ ~Unacked(p)

\* A call of a round that was given up still has packet p to bring.
Abandoned(p) == \E c \in calls : ~c.live /\ p \in c.pkts

\* The relayer pays for no packet twice by itself: neither a search nor what
\* comes after it puts into a round's hands (found, set aside, in a batch) what
\* is of no use, and what it has there stays of use until it is done with it,
\* whatever fails meanwhile.  Only while a call that a failed round left running
\* has that very packet does it turn redundant under the round's hands, between
\* its two filters too; the round then takes it along to the end.
StaysOwed ==
  \A p \in Packets : ~Abandoned(p) =>
    /\ RedundantPacket(p)' => RedundantPacket(p)
    /\ RedundantAck(p)' => RedundantAck(p)
NothingRedone == [][StaysOwed]_vars

\* Where a packet is in its life, for the abstract specification.
packetState ==
  [p \in Packets |-> IF outcome[p] # "open" THEN outcome[p]
                     ELSE IF rcvd[p] # 0 THEN "received"
                     ELSE IF sent[p] # 0 THEN "sent" ELSE "unsent"]

Lifecycle == INSTANCE PacketLifecycle WITH state <- packetState

\* The relayed path implements the packet lifecycle, its liveness included:
\* every packet sent is received and acknowledged, or timed out.
ImplementsLifecycle == Lifecycle!Spec

==============================================================================
