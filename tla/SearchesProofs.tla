---------------------------- MODULE SearchesProofs ----------------------------
(***************************************************************************)
(* Proofs about Searches, for any clients, packets and page sizes: what a  *)
(* query that goes through shifting pages can leave out, and that nothing  *)
(* else is ever below the saved heights.                                   *)
(***************************************************************************)
EXTENDS Searches, FiniteSetTheorems, TLAPS

-------------------------------------------------------------------------------
(***************************************************************************)
(* Pages.                                                                  *)
(***************************************************************************)

\* Division keeps the order of its dividends.
LEMMA DivideKeepsOrder ==
  ASSUME NEW a \in Nat, NEW b \in Nat, NEW n \in Nat \ {0}, a <= b
  PROVE  a \div n <= b \div n /\ a \div n \in Nat /\ b \div n \in Nat
<1>1. /\ a \div n \in Int /\ a = n * (a \div n) + (a % n) /\ a % n \in 0..n-1
      /\ b \div n \in Int /\ b = n * (b \div n) + (b % n) /\ b % n \in 0..n-1
  OBVIOUS
<1>2. ASSUME a \div n > b \div n PROVE FALSE
  <2>1. a \div n >= b \div n + 1  BY <1>1, <1>2
  <2>2. n * (a \div n) >= n * (b \div n + 1)  BY <1>1, <2>1
  <2>3. n * (b \div n + 1) = n * (b \div n) + n  BY <1>1
  <2> QED  BY <1>1, <2>2, <2>3
<1>3. a \div n \in Nat /\ b \div n \in Nat  OBVIOUS
<1> QED  BY <1>1, <1>2, <1>3

Before(p, S) == {q \in S : Sequence[q] < Sequence[p]}

\* A commitment is on a page there is.
LEMMA PageThere ==
  ASSUME NEW S \in SUBSET Packets, NEW p \in S
  PROVE  PageOf(p, S) \in Nat \ {0} /\ Pages(S) \in Nat /\ PageOf(p, S) <= Pages(S)
<1>1. IsFiniteSet(S) /\ IsFiniteSet(S \ {p})
  BY FS_Subset, FS_RemoveElement, SearchesAssumption
<1>2. Cardinality(S \ {p}) = Cardinality(S) - 1 /\ Cardinality(S) \in Nat /\ Cardinality(S \ {p}) \in Nat
  BY <1>1, FS_RemoveElement, FS_CardinalityType
<1>3. Before(p, S) \subseteq S \ {p}
  BY SearchesAssumption DEF Before
<1>4. Cardinality(Before(p, S)) <= Cardinality(S) - 1 /\ Cardinality(Before(p, S)) \in Nat
  BY <1>1, <1>2, <1>3, FS_Subset, FS_CardinalityType
<1>5. Cardinality(S) - 1 \in Nat  BY <1>2
<1>6. /\ Cardinality(Before(p, S)) \div PageSize <= (Cardinality(S) - 1) \div PageSize
      /\ Cardinality(Before(p, S)) \div PageSize \in Nat
      /\ (Cardinality(S) - 1) \div PageSize \in Nat
  BY <1>4, <1>5, DivideKeepsOrder, SearchesAssumption
<1>7. PageOf(p, S) = Cardinality(Before(p, S)) \div PageSize + 1  BY DEF PageOf, Before
<1>8. Pages(S) = (Cardinality(S) - 1) \div PageSize + 1  BY DEF Pages
<1> QED  BY <1>6, <1>7, <1>8

\* It stays on its page as long as the commitments before it are the same.
LEMMA PageStays ==
  ASSUME NEW S, NEW T, NEW p, Before(p, S) = Before(p, T)
  PROVE  PageOf(p, S) = PageOf(p, T)
BY DEF PageOf, Before

-------------------------------------------------------------------------------
(***************************************************************************)
(* Types, and what the chains keep.                                        *)
(***************************************************************************)

Chains ==
  /\ \A p \in Packets : sent[p] <= height /\ rcvd[p] <= height
  /\ \A p \in Packets : rcvd[p] # 0 \/ p \in committed => sent[p] # 0
  /\ \A p \in Packets : sent[p] # 0 /\ rcvd[p] = 0 => p \in committed
  /\ \A p \in Packets : sent[p] # 0 => \A q \in Earlier(p) : sent[q] # 0
  /\ \A p \in found : sent[p] # 0 /\ (phase = "ackRead" => rcvd[p] # 0)

Inv == TypeOK /\ Chains

LEMMA CountPositive == Place \in [Clients -> 1..Count] /\ Count \in Nat
BY SearchesAssumption, FS_CardinalityType DEF Count

LEMMA FirstLink == 1 \in 1..Count
BY CountPositive, SearchesAssumption

LEMMA NextLink ==
  ASSUME at \in 1..Count
  PROVE  (IF at = Count THEN 1 ELSE at + 1) \in 1..Count
BY CountPositive, FirstLink

LEMMA PagesType == ASSUME NEW S \in SUBSET Packets PROVE Pages(S) \in Nat
<1>1. CASE S = {}  BY <1>1 DEF Pages
<1>2. ASSUME NEW p \in S PROVE Pages(S) \in Nat  BY PageThere
<1> QED  BY <1>1, <1>2

\* A query's record after its next page, or its one answer.
LEMMA ReadsTyped ==
  ASSUME TypeOK, NEW p \in Packets, pagedAbciQuery(p) \/ queryCommitmentsV2(p)
  PROVE  /\ reads' \in [Packets -> Read]
         /\ \A q \in Packets : reads'[q].page # 0 <=> q \in found
<1>1. reads[p] \in Read /\ p \in found /\ reads[p].page # 0
  BY DEF TypeOK, pagedAbciQuery, queryCommitmentsV2
<1>2. CommitmentsOf(ClientOf[p]) \in SUBSET Packets  BY DEF CommitmentsOf, TypeOK
<1>3. Pages(CommitmentsOf(ClientOf[p])) \in Nat  BY <1>2, PagesType
<1>4. CASE pagedAbciQuery(p)
  <2> DEFINE S == CommitmentsOf(ClientOf[p])
             r == reads[p]
             new == [page   |-> r.page + 1,
                     total  |-> IF r.page = 1 THEN Pages(S) ELSE r.total,
                     got    |-> r.got \/ (p \in S /\ PageOf(p, S) = r.page),
                     before |-> IF r.page = 1 THEN S ELSE r.before]
  <2>1. r.page \in Nat /\ r.total \in Nat /\ r.got \in BOOLEAN /\ r.before \in SUBSET Packets
    BY <1>1 DEF Read
  <2>2. (r.got \/ (p \in S /\ PageOf(p, S) = r.page)) \in BOOLEAN  OBVIOUS
  <2>3. new \in Read /\ new.page # 0  BY <1>2, <1>3, <2>1, <2>2 DEF Read
  <2>4. reads' = [reads EXCEPT ![p] = new]  BY <1>4 DEF pagedAbciQuery
  <2> HIDE DEF new
  <2> QED  BY <1>1, <2>3, <2>4 DEF TypeOK
<1>5. CASE queryCommitmentsV2(p)
  <2> DEFINE got == p \in committed
             new == [page |-> 2, total |-> 1, got |-> got, before |-> CommitmentsOf(ClientOf[p])]
  <2>1. new \in Read /\ new.page # 0
    <3>1. got \in BOOLEAN  OBVIOUS
    <3> HIDE DEF got
    <3> QED  BY <1>2, <3>1 DEF Read
  <2>2. reads' = [reads EXCEPT ![p] = new]  BY <1>5, Zenon DEF queryCommitmentsV2
  <2> HIDE DEF new
  <2> QED  BY <1>1, <2>1, <2>2 DEF TypeOK
<1> QED  BY <1>4, <1>5

LEMMA AskTyped ==
  ASSUME NEW S \in SUBSET Packets, Ask(S)
  PROVE  /\ found' = S /\ reads' \in [Packets -> Read]
         /\ \A p \in Packets : reads'[p].page # 0 <=> p \in found'
         /\ \A p \in found' : reads'[p].page = 1
<1>1. NoRead \in Read /\ NoRead.page = 0 /\ Begun \in Read /\ Begun.page = 1
  BY DEF NoRead, Begun, Read
<1> QED  BY <1>1 DEF Ask

LEMMA InvInit == Init => Inv
<1> SUFFICES ASSUME Init PROVE Inv  OBVIOUS
<1>1. NoRead \in Read /\ NoRead.page = 0  BY DEF NoRead, Read
<1> QED  BY <1>1, FirstLink DEF Init, Inv, TypeOK, Chains

LEMMA SendPacketsInv ==
  ASSUME Inv, NEW S \in SUBSET Packets, SendPackets(S)
  PROVE  Inv'
<1>1. /\ height' = height + 1 /\ committed' = committed \union S
      /\ sent' = [p \in Packets |-> IF p \in S THEN height + 1 ELSE sent[p]]
      /\ UNCHANGED <<kind, rcvd, floor, ackFloor, at, phase, newFloor, newAck, found, reads, missed>>
  BY DEF SendPackets, savedVars
<1>2. TypeOK'  BY <1>1 DEF Inv, TypeOK
<1>3. \A p \in Packets : sent'[p] # 0 => \A q \in Earlier(p) : sent'[q] # 0
  BY <1>1 DEF Inv, TypeOK, Chains, SendPackets, Earlier
<1>4. Chains'  BY <1>1, <1>3 DEF Inv, TypeOK, Chains, Earlier
<1> QED  BY <1>2, <1>4 DEF Inv

\* What a delivery changes, whoever makes it.
LEMMA ReceivedInv ==
  ASSUME Inv, NEW S \in SUBSET Packets, \A p \in S : sent[p] # 0, Received(S)
  PROVE  /\ height' \in Nat \ {0} /\ rcvd' \in [Packets -> Nat]
         /\ \A p \in Packets : sent'[p] <= height' /\ rcvd'[p] <= height'
         /\ \A p \in Packets : rcvd'[p] # 0 => sent'[p] # 0
         /\ \A p \in Packets : rcvd[p] # 0 => rcvd'[p] # 0
BY DEF Inv, TypeOK, Chains, Received

LEMMA OtherRelaysInv ==
  ASSUME Inv, NEW p \in Packets, OtherRelays(p)
  PROVE  Inv'
<1>1. p \in committed /\ sent[p] # 0
      /\ UNCHANGED <<floor, ackFloor, at, phase, newFloor, newAck, found, reads, missed>>
  BY DEF OtherRelays, savedVars, Inv, Chains
<1>2. CASE rcvd[p] = 0
  <2>1. Received({p})  BY <1>2 DEF OtherRelays
  <2>2. UNCHANGED <<kind, sent, committed>>  BY <2>1 DEF Received
  <2> QED  BY <1>1, <2>1, <2>2, ReceivedInv DEF Inv, TypeOK, Chains, Earlier
<1>3. CASE rcvd[p] # 0
  <2>1. Acknowledged({p})  BY <1>3 DEF OtherRelays
  <2> QED  BY <1>1, <1>3, <2>1 DEF Inv, TypeOK, Chains, Earlier, Acknowledged
<1> QED  BY <1>2, <1>3

LEMMA QueryInv ==
  ASSUME Inv, NEW p \in Packets, pagedAbciQuery(p) \/ queryCommitmentsV2(p)
  PROVE  Inv'
<1>1. UNCHANGED <<kind, height, sent, rcvd, committed, floor, ackFloor, at, phase, newFloor,
                  newAck, found, missed>>
  BY DEF pagedAbciQuery, queryCommitmentsV2, chainVars, savedVars
<1>2. TypeOK  BY DEF Inv
<1>3. TypeOK'  BY <1>1, <1>2, ReadsTyped DEF TypeOK
<1>4. Chains'  BY <1>1 DEF Inv, Chains, Earlier
<1> QED  BY <1>3, <1>4 DEF Inv

LEMMA RoundInv ==
  ASSUME Inv, NEW c \in Clients,
         SearchPackets(c) \/ RelayPackets(c) \/ RelayRefused(c)
           \/ SearchAcks(c) \/ RelayAcks(c) \/ Save(c)
  PROVE  Inv'
<1>0. TypeOK /\ Chains  BY DEF Inv
<1>1. CASE SearchPackets(c)
  <2> DEFINE S == querySentPacketsV2(c) \intersect queryUnreceivedPacketsV2(c)
  <2>1. S \in SUBSET Packets /\ \A p \in S : sent[p] # 0
    BY DEF querySentPacketsV2
  <2>2. Ask(S) /\ phase' = "read" /\ newFloor' = height
        /\ UNCHANGED <<kind, height, sent, rcvd, committed, floor, ackFloor, at, newAck, missed>>
    BY <1>1 DEF SearchPackets, chainVars, savedVars
  <2> HIDE DEF S
  <2>3. found' = S  BY <2>2 DEF Ask
  <2>4. TypeOK'  BY <1>0, <2>1, <2>2, AskTyped DEF TypeOK
  <2>5. Chains'  BY <1>0, <2>1, <2>2, <2>3 DEF Chains, Earlier
  <2> QED  BY <2>4, <2>5 DEF Inv
<1>2. CASE RelayPackets(c)
  <2>1. Ask({}) /\ phase' = "ackSearch" /\ missed' = missed \union Missed
        /\ UNCHANGED <<floor, ackFloor, at, newFloor, newAck>>
    BY <1>2 DEF RelayPackets, savedVars
  <2>2. Owed \in SUBSET Packets /\ Missed \in SUBSET Packets /\ \A p \in Owed : sent[p] # 0
    BY <1>0 DEF Owed, Missed, TypeOK, Chains
  <2>3. found' = {}  BY <2>1 DEF Ask
  <2>4. CASE Received(Owed)
    <3>1. UNCHANGED <<kind, sent, committed>>  BY <2>4 DEF Received
    <3>2. /\ height' \in Nat \ {0} /\ rcvd' \in [Packets -> Nat]
          /\ \A p \in Packets : sent'[p] <= height' /\ rcvd'[p] <= height'
          /\ \A p \in Packets : rcvd'[p] # 0 => sent'[p] # 0
          /\ \A p \in Packets : rcvd[p] # 0 => rcvd'[p] # 0
      BY <2>2, <2>4, ReceivedInv
    <3>3. TypeOK'  BY <1>0, <2>1, <2>2, <3>1, <3>2, AskTyped DEF TypeOK
    <3>4. Chains'  BY <1>0, <2>3, <3>1, <3>2 DEF Chains, TypeOK, Earlier
    <3> QED  BY <3>3, <3>4 DEF Inv
  <2>5. CASE UNCHANGED chainVars
    <3>1. UNCHANGED <<kind, height, sent, rcvd, committed>>  BY <2>5 DEF chainVars
    <3>2. TypeOK'  BY <1>0, <2>1, <2>2, <3>1, AskTyped DEF TypeOK
    <3>3. Chains'  BY <1>0, <2>3, <3>1 DEF Chains, Earlier
    <3> QED  BY <3>2, <3>3 DEF Inv
  <2> QED  BY <1>2, <2>4, <2>5 DEF RelayPackets
<1>3. CASE RelayRefused(c)
  <2>1. Ask({}) /\ phase' = "search" /\ at' = 1 /\ newFloor' = 0
        /\ UNCHANGED <<kind, height, sent, rcvd, committed, floor, ackFloor, newAck, missed>>
    BY <1>3 DEF RelayRefused, chainVars, savedVars
  <2>2. found' = {}  BY <2>1 DEF Ask
  <2>3. TypeOK'  BY <1>0, <2>1, AskTyped, FirstLink DEF TypeOK
  <2>4. Chains'  BY <1>0, <2>1, <2>2 DEF Chains, Earlier
  <2> QED  BY <2>3, <2>4 DEF Inv
<1>4. CASE SearchAcks(c)
  <2> DEFINE S == queryWrittenAcksV2(c)
  <2>1. S \in SUBSET Packets /\ \A p \in S : rcvd[p] # 0
    BY DEF queryWrittenAcksV2
  <2>2. Ask(S) /\ phase' = "ackRead" /\ newAck' = height
        /\ UNCHANGED <<kind, height, sent, rcvd, committed, floor, ackFloor, at, newFloor, missed>>
    BY <1>4 DEF SearchAcks, chainVars, savedVars
  <2> HIDE DEF S
  <2>3. found' = S  BY <2>2 DEF Ask
  <2>4. TypeOK'  BY <1>0, <2>1, <2>2, AskTyped DEF TypeOK
  <2>5. Chains'  BY <1>0, <2>1, <2>2, <2>3 DEF Chains, Earlier
  <2> QED  BY <2>4, <2>5 DEF Inv
<1>5. CASE RelayAcks(c)
  <2>1. /\ Ask({}) /\ phase' = "save" /\ missed' = missed \union Missed
        /\ committed' = committed \ Owed
        /\ UNCHANGED <<kind, height, sent, rcvd, floor, ackFloor, at, newFloor, newAck>>
    BY <1>5 DEF RelayAcks, Acknowledged, savedVars
  <2>2. Missed \in SUBSET Packets /\ \A p \in Owed : rcvd[p] # 0
    BY <1>0, <1>5 DEF Owed, Missed, TypeOK, Chains, RelayAcks, AtLink
  <2>3. found' = {}  BY <2>1 DEF Ask
  <2>4. TypeOK'  BY <1>0, <2>1, <2>2, AskTyped DEF TypeOK
  <2>5. Chains'  BY <1>0, <2>1, <2>2, <2>3 DEF Chains, Earlier
  <2> QED  BY <2>4, <2>5 DEF Inv
<1>6. CASE Save(c)
  <2>1. /\ phase' = "search" /\ at' = (IF at = Count THEN 1 ELSE at + 1)
        /\ floor' = [floor EXCEPT ![c] = newFloor] /\ ackFloor' = [ackFloor EXCEPT ![c] = newAck]
        /\ newFloor' = 0 /\ newAck' = 0
        /\ UNCHANGED <<kind, height, sent, rcvd, committed, found, reads, missed>>
    BY <1>6 DEF Save, chainVars
  <2>2. at' \in 1..Count  BY <1>0, <2>1, NextLink DEF TypeOK
  <2>3. TypeOK'  BY <1>0, <2>1, <2>2 DEF TypeOK
  <2>4. Chains'  BY <1>0, <2>1 DEF Chains, Earlier
  <2> QED  BY <2>3, <2>4 DEF Inv
<1> QED  BY <1>1, <1>2, <1>3, <1>4, <1>5, <1>6

LEMMA InvNext == Inv /\ [Next]_vars => Inv'
<1> SUFFICES ASSUME Inv, [Next]_vars PROVE Inv'  OBVIOUS
<1>1. CASE UNCHANGED vars
  BY <1>1 DEF Inv, TypeOK, Chains, Earlier, vars, chainVars, savedVars
<1>2. ASSUME NEW S \in SUBSET Packets, SendPackets(S) PROVE Inv'  BY <1>2, SendPacketsInv
<1>3. ASSUME NEW p \in Packets, OtherRelays(p) PROVE Inv'  BY <1>3, OtherRelaysInv
<1>4. CASE LoopStep  BY <1>4, QueryInv, RoundInv DEF LoopStep
<1> QED  BY <1>1, <1>2, <1>3, <1>4 DEF Next

LEMMA Invariance == Spec => []Inv
BY InvInit, InvNext, PTL DEF Spec

\* The type invariant, for any clients, packets and page sizes.
THEOREM TypeCorrect == Spec => []TypeOK
<1>1. Inv => TypeOK  BY DEF Inv
<1> QED  BY <1>1, Invariance, PTL

-------------------------------------------------------------------------------
(***************************************************************************)
(* Queries.                                                                *)
(***************************************************************************)

\* What the record of p's query r tells once its first answer is in.
ReadFacts(p, r) ==
  r.page > 1 =>
    /\ r.before \subseteq {q \in Packets : ClientOf[q] = ClientOf[p] /\ sent[q] # 0}
    /\ Earlier(p) \intersect committed \subseteq r.before
    /\ p \in committed => p \in r.before
    /\ kind = "tendermint" /\ p \in committed => r.got
    /\ kind = "gno" /\ p \in committed /\ Earlier(p) \intersect r.before \subseteq committed =>
         r.got \/ (r.page <= PageOf(p, r.before) /\ PageOf(p, r.before) <= r.total)

ReadInv == \A p \in found : ReadFacts(p, reads[p])

\* The facts about a query survive what leaves its record alone and adds none
\* of the commitments it could list.
LEMMA ReadFactsStay ==
  ASSUME NEW p \in Packets, ReadFacts(p, reads[p]), reads'[p] = reads[p], kind' = kind,
         \A q \in Packets : sent[q] # 0 => sent'[q] # 0,
         Earlier(p) \intersect committed' \subseteq committed, p \in committed' => p \in committed
  PROVE  ReadFacts(p, reads[p])'
<1>1. Earlier(p)' = Earlier(p)  BY DEF Earlier
<1>2. PageOf(p, reads[p].before)' = PageOf(p, reads[p].before)  BY DEF PageOf
<1> QED  BY <1>1, <1>2 DEF ReadFacts

\* The first answer: what is committed now was, and is not on the first page.
LEMMA FirstAnswer ==
  ASSUME Inv, NEW p \in Packets, pagedAbciQuery(p), reads[p].page = 1
  PROVE  ReadFacts(p, reads[p])'
<1> DEFINE S == CommitmentsOf(ClientOf[p])
<1>1. p \in found /\ kind = "gno" /\ reads \in [Packets -> Read]
      /\ UNCHANGED <<kind, height, sent, rcvd, committed>>
  BY DEF pagedAbciQuery, chainVars, Inv, TypeOK
<1>2. /\ reads'[p].page = 2 /\ reads'[p].total = Pages(S) /\ reads'[p].before = S
      /\ reads'[p].got = (reads[p].got \/ (p \in S /\ PageOf(p, S) = 1))
  BY <1>1 DEF pagedAbciQuery
<1>3. S \in SUBSET Packets /\ S = {q \in committed : ClientOf[q] = ClientOf[p]}
  BY DEF CommitmentsOf, Inv, TypeOK
<1> HIDE DEF S
<1>4. \A q \in committed : sent[q] # 0  BY DEF Inv, TypeOK, Chains
<1>5. p \in S => PageOf(p, S) \in Nat \ {0} /\ PageOf(p, S) <= Pages(S)
  BY <1>3, PageThere
<1>6. p \in S /\ ~reads'[p].got => 2 <= PageOf(p, S) /\ PageOf(p, S) <= Pages(S)
  <2>1. p \in S /\ ~reads'[p].got => PageOf(p, S) # 1  BY <1>2, Zenon
  <2> QED  BY <1>5, <2>1
<1>7. PageOf(p, reads[p].before)' = PageOf(p, S)  BY <1>2 DEF PageOf
<1>8. committed' = committed /\ committed \subseteq Packets  BY <1>1 DEF Inv, TypeOK
<1>9. Earlier(p)' \intersect committed' \subseteq S  BY <1>3, <1>8 DEF Earlier
<1> QED  BY <1>1, <1>2, <1>3, <1>4, <1>6, <1>7, <1>8, <1>9 DEF ReadFacts

\* A later page: what is listed before p is what was, unless one is gone.
LEMMA NextAnswer ==
  ASSUME Inv, NEW p \in Packets, pagedAbciQuery(p), ReadFacts(p, reads[p]), reads[p].page > 1
  PROVE  ReadFacts(p, reads[p])'
<1> DEFINE S == CommitmentsOf(ClientOf[p])
           b == reads[p].before
<1>1. p \in found /\ kind = "gno" /\ reads \in [Packets -> Read] /\ reads[p] \in Read
      /\ UNCHANGED <<kind, height, sent, rcvd, committed>>
  BY DEF pagedAbciQuery, chainVars, Inv, TypeOK
<1>2. /\ reads'[p].page = reads[p].page + 1 /\ reads'[p].total = reads[p].total
      /\ reads'[p].before = b
      /\ reads'[p].got = (reads[p].got \/ (p \in S /\ PageOf(p, S) = reads[p].page))
  BY <1>1 DEF pagedAbciQuery, Read
<1>3. S \in SUBSET Packets /\ S = {q \in committed : ClientOf[q] = ClientOf[p]}
      /\ committed \subseteq Packets
  BY DEF CommitmentsOf, Inv, TypeOK
<1> HIDE DEF S
<1>4. /\ b \subseteq {q \in Packets : ClientOf[q] = ClientOf[p] /\ sent[q] # 0}
      /\ Earlier(p) \intersect committed \subseteq b
      /\ p \in committed => p \in b
      /\ p \in committed /\ Earlier(p) \intersect b \subseteq committed =>
           reads[p].got \/ (reads[p].page <= PageOf(p, b) /\ PageOf(p, b) <= reads[p].total)
  BY <1>1 DEF ReadFacts
<1> HIDE DEF b
<1>5. ASSUME p \in committed, Earlier(p) \intersect b \subseteq committed, ~reads'[p].got
      PROVE  reads[p].page + 1 <= PageOf(p, b) /\ PageOf(p, b) <= reads[p].total
  <2>1. Before(p, S) = Before(p, b)
    <3>1. Before(p, S) = Earlier(p) \intersect committed  BY <1>3 DEF Before, Earlier
    <3>2. Before(p, b) = Earlier(p) \intersect b  BY <1>4 DEF Before, Earlier
    <3> QED  BY <3>1, <3>2, <1>4, <1>5
  <2>2. PageOf(p, S) = PageOf(p, b)  BY <2>1, PageStays
  <2>3. p \in S /\ ~reads[p].got /\ PageOf(p, S) # reads[p].page  BY <1>2, <1>3, <1>5
  <2>4. reads[p].page <= PageOf(p, b) /\ PageOf(p, b) <= reads[p].total
    BY <1>4, <1>5, <2>3
  <2>5. p \in b /\ b \in SUBSET Packets  BY <1>4, <1>5
  <2>6. PageOf(p, b) \in Nat /\ reads[p].page \in Nat  BY <1>1, <2>5, PageThere DEF Read
  <2> QED  BY <2>2, <2>3, <2>4, <2>6
<1>6. PageOf(p, reads[p].before)' = PageOf(p, b)  BY <1>2 DEF PageOf
<1>7. Earlier(p)' = Earlier(p)  BY DEF Earlier
<1> QED  BY <1>1, <1>2, <1>4, <1>5, <1>6, <1>7 DEF ReadFacts

LEMMA ReadInvNext == Inv /\ ReadInv /\ [Next]_vars => ReadInv'
<1> SUFFICES ASSUME Inv, ReadInv, [Next]_vars PROVE ReadInv'  OBVIOUS
<1>0. found \subseteq Packets /\ reads \in [Packets -> Read] /\ \A p \in found : sent[p] # 0
  BY DEF Inv, TypeOK, Chains
<1>1. ASSUME UNCHANGED <<kind, found, reads>>, \A q \in Packets : sent[q] # 0 => sent'[q] # 0,
             \A p \in found : /\ Earlier(p) \intersect committed' \subseteq committed
                              /\ p \in committed' => p \in committed
      PROVE  ReadInv'
  BY <1>0, <1>1, ReadFactsStay DEF ReadInv
<1>2. ASSUME NEW S \in SUBSET Packets, Ask(S) PROVE ReadInv'
  BY <1>2, AskTyped DEF ReadInv, ReadFacts
<1>3. CASE UNCHANGED vars
  BY <1>1, <1>3 DEF vars, chainVars
<1>4. ASSUME NEW S \in SUBSET Packets, SendPackets(S) PROVE ReadInv'
  <2>1. committed' = committed \union S /\ UNCHANGED <<kind, found, reads>>
        /\ sent' = [p \in Packets |-> IF p \in S THEN height + 1 ELSE sent[p]]
        /\ \A p \in S : sent[p] = 0
    BY <1>4 DEF SendPackets
  <2>2. \A p \in found : \A q \in Earlier(p) : sent[q] # 0  BY <1>0 DEF Inv, Chains
  <2>3. \A q \in Packets : sent[q] # 0 => sent'[q] # 0  BY <2>1 DEF Inv, TypeOK
  <2> QED  BY <1>0, <1>1, <2>1, <2>2, <2>3
<1>5. ASSUME NEW p \in Packets, OtherRelays(p) PROVE ReadInv'
  <2>1. committed' \subseteq committed /\ UNCHANGED <<kind, found, reads, sent>>
    BY <1>5 DEF OtherRelays, Received, Acknowledged
  <2> QED  BY <1>1, <2>1
<1>6. ASSUME NEW p \in Packets, pagedAbciQuery(p) \/ queryCommitmentsV2(p) PROVE ReadInv'
  <2>1. UNCHANGED <<kind, sent, committed, found>> /\ p \in found
        /\ \A q \in Packets \ {p} : reads'[q] = reads[q]
    BY <1>0, <1>6 DEF pagedAbciQuery, queryCommitmentsV2, chainVars
  <2>2. \A q \in found \ {p} : ReadFacts(q, reads[q])'
    BY <1>0, <2>1, ReadFactsStay DEF ReadInv
  <2>3. ReadFacts(p, reads[p])'
    <3>1. CASE pagedAbciQuery(p)
      <4>1. reads[p].page \in Nat \ {0}  BY <1>0, <2>1 DEF Inv, TypeOK, Read
      <4>2. ReadFacts(p, reads[p])  BY <2>1 DEF ReadInv
      <4> QED  BY <3>1, <4>1, <4>2, FirstAnswer, NextAnswer
    <3>2. CASE queryCommitmentsV2(p)
      <4>1. /\ reads'[p].got = (p \in committed) /\ reads'[p].before = CommitmentsOf(ClientOf[p])
            /\ kind = "tendermint" /\ UNCHANGED <<kind, sent, committed>>
        BY <1>0, <3>2 DEF queryCommitmentsV2, chainVars
      <4>2. \A q \in committed : q \in Packets /\ sent[q] # 0  BY DEF Inv, TypeOK, Chains
      <4> QED  BY <4>1, <4>2 DEF ReadFacts, CommitmentsOf, Earlier
    <3> QED  BY <1>6, <3>1, <3>2
  <2> QED  BY <2>1, <2>2, <2>3 DEF ReadInv
<1>7. ASSUME NEW c \in Clients,
             SearchPackets(c) \/ RelayPackets(c) \/ RelayRefused(c) \/ SearchAcks(c) \/ RelayAcks(c)
      PROVE  ReadInv'
  <2>1. /\ querySentPacketsV2(c) \intersect queryUnreceivedPacketsV2(c) \in SUBSET Packets
        /\ queryWrittenAcksV2(c) \in SUBSET Packets
    BY DEF querySentPacketsV2, queryWrittenAcksV2
  <2> QED  BY <1>2, <1>7, <2>1
           DEF SearchPackets, RelayPackets, RelayRefused, SearchAcks, RelayAcks
<1>8. ASSUME NEW c \in Clients, Save(c) PROVE ReadInv'
  BY <1>1, <1>8 DEF Save, chainVars
<1> QED  BY <1>3, <1>4, <1>5, <1>6, <1>7, <1>8 DEF Next, LoopStep

\* A query that goes through shifting pages leaves out a commitment that was
\* there all the time only when one before it was removed meanwhile.
THEOREM OmissionsExplained == Spec => []OmissionNeedsRemoval
<1>1. Init => ReadInv  BY DEF Init, ReadInv
<1>2. Inv /\ ReadInv => OmissionNeedsRemoval
  <2> SUFFICES ASSUME Inv, ReadInv, NEW p \in Packets, reads[p].page > 1, ReadAll(p),
                      ~reads[p].got, p \in committed,
                      \A q \in Earlier(p) : q \in reads[p].before => q \in committed
               PROVE  FALSE
    BY DEF OmissionNeedsRemoval
  <2>1. reads[p] \in Read /\ p \in found /\ kind \in {"gno", "tendermint"}
    BY SearchesAssumption DEF Inv, TypeOK, Read
  <2>2. reads[p].page \in Nat /\ reads[p].total \in Nat /\ reads[p].before \in SUBSET Packets
    BY <2>1 DEF Read
  <2>3. ReadFacts(p, reads[p])  BY <2>1 DEF ReadInv
  <2>4. kind = "gno" /\ p \in reads[p].before
        /\ reads[p].page <= PageOf(p, reads[p].before)
        /\ PageOf(p, reads[p].before) <= reads[p].total
    BY <2>1, <2>3 DEF ReadFacts
  <2>5. PageOf(p, reads[p].before) \in Nat  BY <2>2, <2>4, PageThere
  <2> QED  BY <2>2, <2>4, <2>5 DEF ReadAll
<1> QED  BY <1>1, <1>2, ReadInvNext, Invariance, PTL DEF Spec

-------------------------------------------------------------------------------
(***************************************************************************)
(* Saved heights.                                                          *)
(***************************************************************************)

Unreceived(p) == sent[p] # 0 /\ rcvd[p] = 0
Unacknowledged(p) == rcvd[p] # 0 /\ p \in committed
Current(p) == Place[ClientOf[p]] = at

Heights ==
  /\ \A c \in Clients : floor[c] <= height /\ ackFloor[c] <= height
  /\ newFloor <= height /\ newAck <= height

\* The packets of the round's link: what its searches returned and what is
\* above the heights it will save.
RoundKeeps(p) ==
  Current(p) =>
    /\ phase = "read" /\ Unreceived(p) /\ sent[p] <= newFloor => p \in found
    /\ phase \in {"ackSearch", "ackRead", "save"} /\ Unreceived(p) => sent[p] > newFloor
    /\ phase = "ackRead" /\ Unacknowledged(p) /\ rcvd[p] <= newAck => p \in found
    /\ phase = "save" /\ Unacknowledged(p) => rcvd[p] > newAck

FloorInv == Heights /\ StrandedOnlyByOmission /\ \A p \in Packets \ missed : RoundKeeps(p)

\* The link at its place is the only one there.
LEMMA OneLink ==
  ASSUME NEW c \in Clients, Place[c] = at, NEW p \in Packets, Current(p)
  PROVE  ClientOf[p] = c
BY SearchesAssumption DEF Current

\* Blocks that come after the heights saved, and those about to be, strand
\* nothing.
LEMMA ChainsFloor ==
  ASSUME Inv, FloorInv, UNCHANGED <<kind, floor, ackFloor, at, phase, newFloor, newAck, found, missed>>,
         \/ \E S \in SUBSET Packets : SendPackets(S)
         \/ \E S \in SUBSET Packets : Received(S)
         \/ \E S \in SUBSET Packets : Acknowledged(S)
  PROVE  FloorInv'
<1>0. /\ height \in Nat /\ newFloor \in Nat /\ newAck \in Nat
      /\ sent \in [Packets -> Nat] /\ rcvd \in [Packets -> Nat]
      /\ floor \in [Clients -> Nat] /\ ackFloor \in [Clients -> Nat]
      /\ \A p \in Packets : ClientOf[p] \in Clients
  BY SearchesAssumption DEF Inv, TypeOK
<1>1. height' \in Nat /\ height' >= height
  BY <1>0 DEF SendPackets, Received, Acknowledged
<1>2. Heights'  BY <1>0, <1>1 DEF FloorInv, Heights
<1>3. ASSUME NEW p \in Packets \ missed
      PROVE  /\ sent'[p] \in Nat /\ rcvd'[p] \in Nat
             /\ Unreceived(p)' => (Unreceived(p) /\ sent'[p] = sent[p]) \/ sent'[p] = height + 1
             /\ Unacknowledged(p)' => (Unacknowledged(p) /\ rcvd'[p] = rcvd[p]) \/ rcvd'[p] = height + 1
  <2>1. ASSUME NEW S \in SUBSET Packets, SendPackets(S) PROVE <1>3!2
    BY <1>0, <2>1 DEF SendPackets, Unreceived, Unacknowledged, Inv, Chains
  <2>2. ASSUME NEW S \in SUBSET Packets, Received(S) PROVE <1>3!2
    BY <1>0, <2>2 DEF Received, Unreceived, Unacknowledged
  <2>3. ASSUME NEW S \in SUBSET Packets, Acknowledged(S) PROVE <1>3!2
    BY <1>0, <2>3 DEF Acknowledged, Unreceived, Unacknowledged
  <2> QED  BY <2>1, <2>2, <2>3
<1>4. StrandedOnlyByOmission'
  BY <1>0, <1>3 DEF FloorInv, Heights, StrandedOnlyByOmission, Unreceived, Unacknowledged, NotBelow
<1>5. \A p \in Packets \ missed : RoundKeeps(p)'
  <2> SUFFICES ASSUME NEW p \in Packets \ missed PROVE RoundKeeps(p)'  OBVIOUS
  <2>1. RoundKeeps(p) /\ newFloor <= height /\ newAck <= height  BY DEF FloorInv, Heights
  <2>2. Current(p)' = Current(p)  BY DEF Current
  <2>3. sent[p] \in Nat /\ rcvd[p] \in Nat  BY <1>0
  <2> QED  BY <1>0, <1>3, <2>1, <2>2, <2>3 DEF RoundKeeps
<1> QED  BY <1>2, <1>4, <1>5 DEF FloorInv

LEMMA RoundFloor ==
  ASSUME Inv, FloorInv, NEW c \in Clients,
         SearchPackets(c) \/ RelayPackets(c) \/ RelayRefused(c)
           \/ SearchAcks(c) \/ RelayAcks(c) \/ Save(c)
  PROVE  FloorInv'
<1>0. /\ height \in Nat /\ newFloor \in Nat /\ newAck \in Nat
      /\ sent \in [Packets -> Nat] /\ rcvd \in [Packets -> Nat]
      /\ floor \in [Clients -> Nat] /\ ackFloor \in [Clients -> Nat]
      /\ \A p \in Packets : ClientOf[p] \in Clients
  BY SearchesAssumption DEF Inv, TypeOK
<1>1. Place[c] = at  BY DEF SearchPackets, RelayPackets, RelayRefused, SearchAcks, RelayAcks, Save, AtLink
<1>2. \A p \in Packets : Current(p) => ClientOf[p] = c  BY <1>1, OneLink
<1>3. /\ Heights /\ StrandedOnlyByOmission /\ \A p \in Packets \ missed : RoundKeeps(p)
  BY DEF FloorInv
<1>4. CASE SearchPackets(c)
  <2>1. /\ phase' = "read" /\ newFloor' = height
        /\ found' = querySentPacketsV2(c) \intersect queryUnreceivedPacketsV2(c)
        /\ UNCHANGED <<kind, height, sent, rcvd, committed, floor, ackFloor, at, newAck, missed>>
    BY <1>4 DEF SearchPackets, chainVars, savedVars, Ask
  <2>2. ASSUME NEW p \in Packets \ missed, Current(p), Unreceived(p) PROVE p \in found'
    <3>1. ClientOf[p] = c /\ sent[p] # 0 /\ rcvd[p] = 0 /\ NotBelow(sent[p], floor[c])
      BY <1>2, <1>3, <2>2 DEF Unreceived, StrandedOnlyByOmission
    <3> QED  BY <2>1, <3>1 DEF querySentPacketsV2, queryUnreceivedPacketsV2
  <2>3. Heights' /\ StrandedOnlyByOmission'
    BY <1>0, <1>3, <2>1 DEF Heights, StrandedOnlyByOmission, NotBelow
  <2>4. \A p \in Packets \ missed' : RoundKeeps(p)'
    BY <2>1, <2>2 DEF RoundKeeps, Current, Unreceived
  <2> QED  BY <2>3, <2>4 DEF FloorInv
<1>5. CASE RelayPackets(c)
  <2>1. /\ phase = "read" /\ phase' = "ackSearch" /\ missed' = missed \union Missed
        /\ UNCHANGED <<kind, sent, committed, floor, ackFloor, at, newFloor, newAck>>
        /\ Received(Owed) \/ (Owed = {} /\ UNCHANGED <<height, rcvd>>)
    BY <1>5 DEF RelayPackets, AtLink, savedVars, chainVars, Received
  <2>2. /\ height' \in Nat /\ height <= height'
        /\ \A p \in Packets :
             rcvd'[p] = rcvd[p] \/ (p \in Owed /\ rcvd[p] = 0 /\ rcvd'[p] = height + 1)
        /\ \A p \in Owed : rcvd'[p] # 0
    BY <1>0, <2>1 DEF Received, Owed, Inv, TypeOK
  <2>3. ASSUME NEW p \in Packets \ missed', Current(p), Unreceived(p)' PROVE sent[p] > newFloor
    <3>1. Unreceived(p)  BY <1>0, <2>1, <2>2, <2>3 DEF Unreceived
    <3>2. p \notin Owed  BY <2>2, <2>3 DEF Unreceived
    <3>3. p \in committed  BY <3>1 DEF Unreceived, Inv, Chains
    <3>4. p \notin found  BY <2>1, <2>3, <3>2, <3>3 DEF Owed, Missed
    <3>5. RoundKeeps(p)  BY <1>3, <2>1, <2>3
    <3> QED  BY <1>0, <2>1, <2>3, <3>1, <3>4, <3>5 DEF RoundKeeps
  <2>4. Heights'  BY <1>0, <1>3, <2>1, <2>2 DEF Heights
  <2>5. StrandedOnlyByOmission'
    BY <1>0, <1>3, <2>1, <2>2 DEF Heights, StrandedOnlyByOmission, NotBelow
  <2>6. \A p \in Packets \ missed' : RoundKeeps(p)'
    BY <2>1, <2>3 DEF RoundKeeps, Current, Unreceived
  <2> QED  BY <2>4, <2>5, <2>6 DEF FloorInv
<1>6. CASE RelayRefused(c)
  <2>1. /\ phase' = "search" /\ newFloor' = 0
        /\ UNCHANGED <<kind, height, sent, rcvd, committed, floor, ackFloor, newAck, missed>>
    BY <1>6 DEF RelayRefused, chainVars, savedVars
  <2> QED  BY <1>0, <1>3, <2>1
           DEF FloorInv, Heights, StrandedOnlyByOmission, NotBelow, RoundKeeps
<1>7. CASE SearchAcks(c)
  <2>1. /\ phase = "ackSearch" /\ phase' = "ackRead" /\ newAck' = height
        /\ found' = queryWrittenAcksV2(c)
        /\ UNCHANGED <<kind, height, sent, rcvd, committed, floor, ackFloor, at, newFloor, missed>>
    BY <1>7 DEF SearchAcks, AtLink, chainVars, savedVars, Ask
  <2>2. ASSUME NEW p \in Packets \ missed, Current(p), Unacknowledged(p) PROVE p \in found'
    <3>1. ClientOf[p] = c /\ rcvd[p] # 0 /\ rcvd[p] >= ackFloor[c]
      BY <1>2, <1>3, <2>2 DEF Unacknowledged, StrandedOnlyByOmission
    <3> QED  BY <2>1, <3>1 DEF queryWrittenAcksV2
  <2>3. Heights' /\ StrandedOnlyByOmission'
    BY <1>0, <1>3, <2>1 DEF Heights, StrandedOnlyByOmission, NotBelow
  <2>4. \A p \in Packets \ missed' : RoundKeeps(p)'
    BY <1>3, <2>1, <2>2 DEF RoundKeeps, Current, Unreceived, Unacknowledged
  <2> QED  BY <2>3, <2>4 DEF FloorInv
<1>8. CASE RelayAcks(c)
  <2>1. /\ phase = "ackRead" /\ phase' = "save" /\ missed' = missed \union Missed
        /\ committed' = committed \ Owed
        /\ UNCHANGED <<kind, height, sent, rcvd, floor, ackFloor, at, newFloor, newAck>>
    BY <1>8 DEF RelayAcks, Acknowledged, AtLink, savedVars
  <2>2. ASSUME NEW p \in Packets \ missed', Current(p), Unacknowledged(p)' PROVE rcvd[p] > newAck
    <3>1. Unacknowledged(p) /\ p \notin found
      BY <2>1, <2>2 DEF Unacknowledged, Owed, Missed
    <3>2. RoundKeeps(p)  BY <1>3, <2>1, <2>2
    <3> QED  BY <1>0, <2>1, <2>2, <3>1, <3>2 DEF RoundKeeps
  <2>3. Heights' /\ StrandedOnlyByOmission'
    BY <1>0, <1>3, <2>1 DEF Heights, StrandedOnlyByOmission, NotBelow
  <2>4. \A p \in Packets \ missed' : RoundKeeps(p)'
    BY <1>3, <2>1, <2>2 DEF RoundKeeps, Current, Unreceived
  <2> QED  BY <2>3, <2>4 DEF FloorInv
<1>9. CASE Save(c)
  <2>1. /\ phase = "save" /\ phase' = "search"
        /\ floor' = [floor EXCEPT ![c] = newFloor] /\ ackFloor' = [ackFloor EXCEPT ![c] = newAck]
        /\ newFloor' = 0 /\ newAck' = 0
        /\ UNCHANGED <<kind, height, sent, rcvd, committed, missed>>
    BY <1>9 DEF Save, AtLink, chainVars
  <2>2. Heights'  BY <1>0, <1>3, <2>1 DEF Heights
  <2>3. ASSUME NEW p \in Packets \ missed
        PROVE  /\ Unreceived(p) => NotBelow(sent[p], floor'[ClientOf[p]])
               /\ Unacknowledged(p) => rcvd[p] >= ackFloor'[ClientOf[p]]
    <3>1. CASE ClientOf[p] = c
      <4>1. Current(p)  BY <1>1, <3>1 DEF Current
      <4>2. floor'[ClientOf[p]] = newFloor /\ ackFloor'[ClientOf[p]] = newAck
        BY <1>0, <2>1, <3>1
      <4> QED  BY <1>0, <1>3, <2>1, <4>1, <4>2 DEF RoundKeeps, NotBelow
    <3>2. CASE ClientOf[p] # c
      <4>1. floor'[ClientOf[p]] = floor[ClientOf[p]] /\ ackFloor'[ClientOf[p]] = ackFloor[ClientOf[p]]
        BY <1>0, <2>1, <3>2
      <4> QED  BY <1>3, <4>1 DEF StrandedOnlyByOmission, Unreceived, Unacknowledged
    <3> QED  BY <3>1, <3>2
  <2>4. StrandedOnlyByOmission'
    BY <2>1, <2>3 DEF StrandedOnlyByOmission, Unreceived, Unacknowledged, NotBelow
  <2>5. \A p \in Packets : RoundKeeps(p)'  BY <2>1 DEF RoundKeeps
  <2> QED  BY <2>2, <2>4, <2>5 DEF FloorInv
<1> QED  BY <1>4, <1>5, <1>6, <1>7, <1>8, <1>9

LEMMA FloorInvNext == Inv /\ FloorInv /\ [Next]_vars => FloorInv'
<1> SUFFICES ASSUME Inv, FloorInv, [Next]_vars PROVE FloorInv'  OBVIOUS
<1>1. ASSUME UNCHANGED <<chainVars, savedVars, at, phase, newFloor, newAck, found, missed>>
      PROVE  FloorInv'
  BY <1>1 DEF FloorInv, Heights, StrandedOnlyByOmission, RoundKeeps, Unreceived, Unacknowledged,
              Current, NotBelow, chainVars, savedVars
<1>2. CASE UNCHANGED vars  BY <1>1, <1>2 DEF vars
<1>3. ASSUME NEW S \in SUBSET Packets, SendPackets(S) PROVE FloorInv'
  BY <1>3, ChainsFloor DEF SendPackets, savedVars
<1>4. ASSUME NEW p \in Packets, OtherRelays(p) PROVE FloorInv'
  <2>1. /\ Received({p}) \/ Acknowledged({p})
        /\ UNCHANGED <<kind, floor, ackFloor, at, phase, newFloor, newAck, found, missed>>
    BY <1>4 DEF OtherRelays, Received, Acknowledged, savedVars
  <2>2. {p} \in SUBSET Packets  OBVIOUS
  <2> QED  BY <2>1, <2>2, ChainsFloor
<1>5. ASSUME NEW p \in Packets, pagedAbciQuery(p) \/ queryCommitmentsV2(p) PROVE FloorInv'
  BY <1>1, <1>5 DEF pagedAbciQuery, queryCommitmentsV2
<1>6. ASSUME NEW c \in Clients,
             SearchPackets(c) \/ RelayPackets(c) \/ RelayRefused(c)
               \/ SearchAcks(c) \/ RelayAcks(c) \/ Save(c)
      PROVE  FloorInv'
  BY <1>6, RoundFloor
<1> QED  BY <1>2, <1>3, <1>4, <1>5, <1>6 DEF Next, LoopStep

\* The heights a round saves strand only what a query left out.
THEOREM OnlyOmissionsStrand == Spec => []StrandedOnlyByOmission
<1>1. Init => FloorInv
  BY SearchesAssumption
     DEF Init, FloorInv, Heights, StrandedOnlyByOmission, RoundKeeps, Unreceived, Unacknowledged
<1>2. FloorInv => StrandedOnlyByOmission  BY DEF FloorInv
<1> QED  BY <1>1, <1>2, FloorInvNext, Invariance, PTL DEF Spec

===============================================================================
