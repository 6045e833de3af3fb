------------------------------- MODULE Searches -------------------------------
(***************************************************************************)
(* What the searches of IBC v2 paths that share a chain return.  Packets   *)
(* are sent on one chain through several clients, each with a link of its  *)
(* own to a chain of its own, and the loop relays one link after the       *)
(* other.  A search goes by transactions, which may carry packets of       *)
(* several clients; and which packets and acknowledgements are still owed  *)
(* is asked of the chain, which on Gno answers page by page while its      *)
(* state goes on changing.                                                 *)
(*                                                                         *)
(* Abstractions.  The other chains are Tendermint chains.  All chains      *)
(* count their blocks together, and a block has one transaction.  Packets  *)
(* do not expire, nothing fails but what a chain refuses, and a search and *)
(* the height read beside it are one step: the rest is in LinkV2.  Another *)
(* relayer may deliver packets and acknowledgements too.                   *)
(***************************************************************************)
EXTENDS Naturals, FiniteSets

CONSTANTS
  Clients,    \* clients on the sending chain, one for each link
  Place,      \* position of each one's link in the loop
  Packets,
  ClientOf,   \* client a packet is sent through
  Sequence,   \* its sequence there
  PageSize,   \* commitments on a page of a Gno chain's answer
  Kinds,      \* kinds the sending chain may be of
  Joint,      \* those on which a transaction may send through several clients
  Contested   \* packets another relayer may deliver, and acknowledge, first

ASSUME SearchesAssumption ==
  /\ Place \in [Clients -> 1..Cardinality(Clients)] /\ IsFiniteSet(Clients) /\ Clients # {}
  /\ \A c, d \in Clients : Place[c] = Place[d] => c = d
  /\ IsFiniteSet(Packets)
  /\ ClientOf \in [Packets -> Clients] /\ Sequence \in [Packets -> Nat]
  /\ \A p, q \in Packets : ClientOf[p] = ClientOf[q] /\ Sequence[p] = Sequence[q] => p = q
  /\ PageSize \in Nat \ {0}
  /\ Kinds \subseteq {"gno", "tendermint"} /\ Joint \subseteq Kinds
  /\ Contested \subseteq Packets

VARIABLES
  kind,       \* of the sending chain
  height,
  sent,       \* block a packet was sent in, 0 before
  rcvd,       \* block it was received in, 0 before
  committed,  \* packets whose commitment the sending chain holds
  floor,      \* packetHeight saved for each client's link
  ackFloor,   \* its ackHeight
  at,         \* position of the link the loop is at
  phase,
  newFloor, newAck,  \* heights its round will save
  found,      \* what the search of the phase returned
  reads,      \* the query for the commitment of each packet found
  missed      \* packets a query did not list although they were committed

chainVars == <<kind, height, sent, rcvd, committed>>
savedVars == <<floor, ackFloor>>
vars == <<chainVars, savedVars, at, phase, newFloor, newAck, found, reads, missed>>

Count == Cardinality(Clients)

\* A query as it goes through the pages: the page it will ask for, how many
\* there were when it began, whether it has come upon its packet, and, for
\* the record, what was committed when it began.
Read == [page : Nat, total : Nat, got : BOOLEAN, before : SUBSET Packets]
NoRead == [page |-> 0, total |-> 0, got |-> FALSE, before |-> {}]
Begun == [NoRead EXCEPT !.page = 1]

TypeOK ==
  /\ kind \in Kinds
  /\ height \in Nat \ {0}
  /\ sent \in [Packets -> Nat] /\ rcvd \in [Packets -> Nat]
  /\ committed \subseteq Packets
  /\ floor \in [Clients -> Nat] /\ ackFloor \in [Clients -> Nat]
  /\ at \in 1..Count
  /\ phase \in {"search", "read", "ackSearch", "ackRead", "save"}
  /\ newFloor \in Nat /\ newAck \in Nat
  /\ found \subseteq Packets
  /\ reads \in [Packets -> Read]
  /\ \A p \in Packets : reads[p].page # 0 <=> p \in found
  /\ missed \subseteq Packets

Init ==
  /\ kind \in Kinds
  /\ height = 1
  /\ sent = [p \in Packets |-> 0] /\ rcvd = [p \in Packets |-> 0]
  /\ committed = {}
  /\ floor = [c \in Clients |-> 0] /\ ackFloor = [c \in Clients |-> 0]
  /\ at = 1 /\ phase = "search"
  /\ newFloor = 0 /\ newAck = 0
  /\ found = {} /\ reads = [p \in Packets |-> NoRead]
  /\ missed = {}

\* The packets of p's client that come before it.
Earlier(p) == {q \in Packets : ClientOf[q] = ClientOf[p] /\ Sequence[q] < Sequence[p]}

-------------------------------------------------------------------------------
(***************************************************************************)
(* The chains, and the other relayer.                                      *)
(***************************************************************************)

\* A transaction that sends the packets of S, in sequence.
SendPackets(S) ==
  /\ S # {}
  /\ \A p \in S : sent[p] = 0 /\ \A q \in Earlier(p) : sent[q] # 0 \/ q \in S
  /\ kind \in Joint \/ \A p, q \in S : ClientOf[p] = ClientOf[q]
  /\ height' = height + 1
  /\ sent' = [p \in Packets |-> IF p \in S THEN height + 1 ELSE sent[p]]
  /\ committed' = committed \union S
  /\ UNCHANGED <<kind, rcvd, savedVars, at, phase, newFloor, newAck, found, reads, missed>>

\* The packets of a batch are executed in one block of their chain.
Received(S) ==
  /\ height' = height + 1
  /\ rcvd' = [p \in Packets |-> IF p \in S /\ rcvd[p] = 0 THEN height + 1 ELSE rcvd[p]]
  /\ UNCHANGED <<kind, sent, committed>>

Acknowledged(S) ==
  /\ committed' = committed \ S
  /\ UNCHANGED <<kind, height, sent, rcvd>>

OtherRelays(p) ==
  /\ p \in Contested \intersect committed
  /\ IF rcvd[p] = 0 THEN Received({p}) ELSE Acknowledged({p})
  /\ UNCHANGED <<savedVars, at, phase, newFloor, newAck, found, reads, missed>>

-------------------------------------------------------------------------------
(***************************************************************************)
(* Queries for what is still owed.                                         *)
(***************************************************************************)

CommitmentsOf(c) == {q \in committed : ClientOf[q] = c}

\* A Gno chain lists a client's commitments by sequence.
PageOf(p, S) == Cardinality({q \in S : Sequence[q] < Sequence[p]}) \div PageSize + 1
Pages(S) == IF S = {} THEN 0 ELSE (Cardinality(S) - 1) \div PageSize + 1

\* Slip: the last page is not asked for.
AllButLast(p) == reads[p].page > 1 /\ reads[p].page >= reads[p].total

\* pagedAbciQuery has been through the pages there were at its first answer.
ReadAll(p) == reads[p].page > 1 /\ reads[p].page > reads[p].total

Reading == phase \in {"read", "ackRead"}

\* pagedAbciQuery asks for the next page of the commitments as they are now.
pagedAbciQuery(p) ==
  LET S == CommitmentsOf(ClientOf[p])
      r == reads[p]
  IN
    /\ kind = "gno"
    /\ Reading /\ p \in found /\ ~ReadAll(p)
    /\ reads' = [reads EXCEPT ![p] =
         [page   |-> r.page + 1,
          total  |-> IF r.page = 1 THEN Pages(S) ELSE r.total,
          got    |-> r.got \/ (p \in S /\ PageOf(p, S) = r.page),
          before |-> IF r.page = 1 THEN S ELSE r.before]]
    /\ UNCHANGED <<chainVars, savedVars, at, phase, newFloor, newAck, found, missed>>

\* A Tendermint chain is asked for the one commitment.
queryCommitmentsV2(p) ==
  /\ kind = "tendermint"
  /\ Reading /\ p \in found /\ ~ReadAll(p)
  /\ reads' = [reads EXCEPT ![p] =
       [page |-> 2, total |-> 1, got |-> p \in committed, before |-> CommitmentsOf(ClientOf[p])]]
  /\ UNCHANGED <<chainVars, savedVars, at, phase, newFloor, newAck, found, missed>>

\* What is left once every query has returned.
AllRead == \A p \in found : ReadAll(p)
Owed == {p \in found : reads[p].got}
Missed == {p \in found : ~reads[p].got /\ p \in committed}

-------------------------------------------------------------------------------
(***************************************************************************)
(* The rounds.                                                             *)
(***************************************************************************)

AtLink(c, stage) == phase = stage /\ Place[c] = at

\* A search from a saved height; Gno's looks one block further back.
NotBelow(h, min) == IF kind = "gno" THEN h + 1 >= min ELSE h >= min

\* Slip: the packets of a transaction are not told apart by client on Gno.
querySentPacketsOfAnyClient(c) ==
  {p \in Packets : /\ sent[p] # 0 /\ NotBelow(sent[p], floor[c])
                   /\ \E q \in Packets : ClientOf[q] = c /\ sent[q] = sent[p]}

\* Gno keeps the packets of the client.  Tendermint returns every packet of a
\* transaction that has one of the client.
querySentPacketsV2(c) ==
  {p \in Packets : /\ sent[p] # 0 /\ NotBelow(sent[p], floor[c])
                   /\ IF kind = "gno" THEN ClientOf[p] = c
                      ELSE \E q \in Packets : ClientOf[q] = c /\ sent[q] = sent[p]}

\* The link's own destination has no receipt of another client's packets.
queryUnreceivedPacketsV2(c) == {p \in Packets : ClientOf[p] = c => rcvd[p] = 0}

queryWrittenAcksV2(c) == {p \in Packets : ClientOf[p] = c /\ rcvd[p] # 0 /\ rcvd[p] >= ackFloor[c]}

\* Slip: answers of the round before are kept.
AskAgain(S) == found' = S /\ reads' = [p \in Packets |-> IF p \in S THEN Begun ELSE reads[p]]

\* Queries begin for the packets of S.
Ask(S) == found' = S /\ reads' = [p \in Packets |-> IF p \in S THEN Begun ELSE NoRead]

SearchPackets(c) ==
  /\ AtLink(c, "search")
  /\ phase' = "read"
  /\ newFloor' = height
  /\ Ask(querySentPacketsV2(c) \intersect queryUnreceivedPacketsV2(c))
  /\ UNCHANGED <<chainVars, savedVars, at, newAck, missed>>

\* No chain takes a packet through a client that it was not sent to.
Foreign(c) == \E p \in Owed : ClientOf[p] # c

RelayPackets(c) ==
  /\ AtLink(c, "read") /\ AllRead
  /\ ~Foreign(c)
  /\ phase' = "ackSearch"
  /\ IF Owed = {} THEN UNCHANGED chainVars ELSE Received(Owed)
  /\ missed' = missed \union Missed
  /\ Ask({})
  /\ UNCHANGED <<savedVars, at, newFloor, newAck>>

\* The batch is refused as a whole, and its error ends the pass.
RelayRefused(c) ==
  /\ AtLink(c, "read") /\ AllRead
  /\ Foreign(c)
  /\ phase' = "search" /\ at' = 1
  /\ newFloor' = 0
  /\ Ask({})
  /\ UNCHANGED <<chainVars, savedVars, newAck, missed>>

SearchAcks(c) ==
  /\ AtLink(c, "ackSearch")
  /\ phase' = "ackRead"
  /\ newAck' = height
  /\ Ask(queryWrittenAcksV2(c))
  /\ UNCHANGED <<chainVars, savedVars, at, newFloor, missed>>

RelayAcks(c) ==
  /\ AtLink(c, "ackRead") /\ AllRead
  /\ phase' = "save"
  /\ Acknowledged(Owed)
  /\ missed' = missed \union Missed
  /\ Ask({})
  /\ UNCHANGED <<savedVars, at, newFloor, newAck>>

\* Slip: the heights are those at the end of the round.
SaveLatest(c) ==
  /\ AtLink(c, "save")
  /\ phase' = "search" /\ at' = IF at = Count THEN 1 ELSE at + 1
  /\ floor' = [floor EXCEPT ![c] = height]
  /\ ackFloor' = [ackFloor EXCEPT ![c] = newAck]
  /\ newFloor' = 0 /\ newAck' = 0
  /\ UNCHANGED <<chainVars, found, reads, missed>>

\* On to the next link, or the next pass.
Save(c) ==
  /\ AtLink(c, "save")
  /\ phase' = "search" /\ at' = IF at = Count THEN 1 ELSE at + 1
  /\ floor' = [floor EXCEPT ![c] = newFloor]
  /\ ackFloor' = [ackFloor EXCEPT ![c] = newAck]
  /\ newFloor' = 0 /\ newAck' = 0
  /\ UNCHANGED <<chainVars, found, reads, missed>>

LoopStep ==
  \/ \E p \in Packets : pagedAbciQuery(p) \/ queryCommitmentsV2(p)
  \/ \E c \in Clients : \/ SearchPackets(c) \/ RelayPackets(c) \/ RelayRefused(c)
                        \/ SearchAcks(c) \/ RelayAcks(c) \/ Save(c)

Next ==
  \/ \E S \in SUBSET Packets : SendPackets(S)
  \/ \E p \in Packets : OtherRelays(p)
  \/ LoopStep

Spec == Init /\ [][Next]_vars

\* Every await of a round settles, and the loop goes on.
FairSpec == Spec /\ WF_vars(LoopStep)

-------------------------------------------------------------------------------
(***************************************************************************)
(* Properties.                                                             *)
(***************************************************************************)

\* Pages that shift under pagedAbciQuery: a commitment that was there all the
\* time can be left out of its answer, but only when one before it was
\* removed, by an acknowledgement, after the first page was asked for.
OmissionNeedsRemoval ==
  \A p \in Packets :
    reads[p].page > 1 /\ ReadAll(p) /\ ~reads[p].got /\ p \in committed
      => \E q \in Earlier(p) : q \in reads[p].before /\ q \notin committed

\* The heights a round saves pass nothing that is still owed, except what a
\* query left out: a packet or an acknowledgement any other search can find.
StrandedOnlyByOmission ==
  \A p \in Packets \ missed :
    /\ sent[p] # 0 /\ rcvd[p] = 0 => NotBelow(sent[p], floor[ClientOf[p]])
    /\ rcvd[p] # 0 /\ p \in committed => rcvd[p] >= ackFloor[ClientOf[p]]

Ended(p) == p \notin committed \/ p \in missed

\* A Tendermint chain has executed a transaction that sends through clients of
\* different links.
Mixed == kind = "tendermint" /\ \E p, q \in Packets :
  ClientOf[p] # ClientOf[q] /\ sent[p] # 0 /\ sent[p] = sent[q]

\* As long as that has not happened, every packet is received and
\* acknowledged in the end, unless a query left it out.
EveryPacketEndsUnmixed == \A p \in Packets : sent[p] # 0 ~> Ended(p) \/ Mixed

\* "This will check both sides for pending packets and relay them" (v2/link.ts),
\* whatever else the transaction of a packet sends.
EveryPacketEnds == \A p \in Packets : sent[p] # 0 ~> Ended(p)

==============================================================================
