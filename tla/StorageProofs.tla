---------------------------- MODULE StorageProofs ----------------------------
(***************************************************************************)
(* Storage implements PathStore, with either backend, for any callers,     *)
(* calls, paths and heights, however the statements of calls interleave.   *)
(***************************************************************************)
EXTENDS Storage, WellFoundedInduction, TLAPS

-------------------------------------------------------------------------------
(***************************************************************************)
(* The row with the least id.                                              *)
(***************************************************************************)

LEMMA LeastNatural ==
  ASSUME NEW T, T \subseteq Nat, T # {}
  PROVE  \E n \in T : \A m \in T : n <= m
<1>1. PICK n \in T : \A m \in T : ~ (<<m, n>> \in OpToRel(<, Nat))
  BY NatLessThanWellFounded, WFMin
<1>2. \A m \in T : ~ (m < n)
  BY <1>1 DEF OpToRel
<1> QED  BY <1>2

LEMMA FirstRow ==
  ASSUME NEW S, S # {}, \A r \in S : r.id \in Nat
  PROVE  First(S) \in S /\ \A t \in S : First(S).id <= t.id
<1>1. PICK n \in {r.id : r \in S} : \A m \in {r.id : r \in S} : n <= m
  BY LeastNatural
<1>2. \E r \in S : \A t \in S : r.id <= t.id
  BY <1>1
<1> QED  BY <1>2 DEF First

\* It is no other than the one that has an id below all.
LEMMA FirstIs ==
  ASSUME NEW S, \A r \in S : r.id \in Nat, \A r, t \in S : r.id = t.id => r = t,
         NEW f \in S, \A t \in S : f.id <= t.id
  PROVE  First(S) = f
<1>1. First(S) \in S /\ First(S).id <= f.id  BY FirstRow
<1>2. First(S).id = f.id  BY <1>1
<1> QED  BY <1>1, <1>2
-------------------------------------------------------------------------------
(***************************************************************************)
(* Types.                                                                  *)
(***************************************************************************)

AllCalls == {Idle} \union FeeCalls \union PathCalls \union HeightCalls

LEMMA CallFacts ==
  ASSUME NEW k \in AllCalls
  PROVE  /\ k.op = "addChainFees" => k.chain \in Chains /\ k.price \in Prices
         /\ k.op = "getChainFees" => k.chain \in Chains
         /\ k.op \in {"addRelayPath", "getRelayPath"} => k.key \in Keys
         /\ k.op \in OnHeights => k.path \in PathIds /\ k \in HeightCalls
         /\ k.op = "updateRelayedHeights" => k.value \in 0..MaxHeight
BY DEF AllCalls, Idle, FeeCalls, PathCalls, HeightCalls, OnHeights

LEMMA TypeFacts ==
  ASSUME TypeOK
  PROVE  /\ relayPaths \subseteq [id : PathIds, key : Keys]
         /\ relayedHeights \subseteq [id : Nat, path : PathIds, value : 0..MaxHeight]
         /\ chainFees \subseteq [id : Nat, chain : Chains, price : Prices]
         /\ nextId \in [{"paths", "heights", "fees"} -> Nat \ {0}]
         /\ call \in [Callers -> AllCalls]
         /\ at \in [Callers -> Statements \union {"idle", "answered"}]
         /\ row \in [Callers -> Nat]
         /\ answer \in [Callers -> [ok : BOOLEAN, ids : SUBSET PathIds, value : Nat]]
         /\ PathIds \subseteq Nat /\ Prices \subseteq Nat /\ MaxHeight \in Nat /\ 0 \in 0..MaxHeight
BY StorageAssumption DEF TypeOK, AllCalls, PathIds

LEMMA FirstOf ==
  ASSUME TypeOK
  PROVE  /\ \A i : HeightsOf(i) # {} => /\ First(HeightsOf(i)) \in HeightsOf(i)
                                       /\ \A t \in HeightsOf(i) : First(HeightsOf(i)).id <= t.id
         /\ \A k : PathsOf(k) # {} => /\ First(PathsOf(k)) \in PathsOf(k)
                                     /\ \A t \in PathsOf(k) : First(PathsOf(k)).id <= t.id
         /\ \A n : FeesOf(n) # {} => First(FeesOf(n)) \in FeesOf(n)
<1>1. ASSUME NEW i, HeightsOf(i) # {}
      PROVE  /\ First(HeightsOf(i)) \in HeightsOf(i)
             /\ \A t \in HeightsOf(i) : First(HeightsOf(i)).id <= t.id
  <2>1. \A r \in HeightsOf(i) : r.id \in Nat  BY TypeFacts DEF HeightsOf
  <2> QED  BY <1>1, <2>1, FirstRow
<1>2. ASSUME NEW k, PathsOf(k) # {}
      PROVE  /\ First(PathsOf(k)) \in PathsOf(k)
             /\ \A t \in PathsOf(k) : First(PathsOf(k)).id <= t.id
  <2>1. \A r \in PathsOf(k) : r.id \in Nat  BY TypeFacts DEF PathsOf
  <2> QED  BY <1>2, <2>1, FirstRow
<1>3. ASSUME NEW n, FeesOf(n) # {} PROVE First(FeesOf(n)) \in FeesOf(n)
  <2>1. \A r \in FeesOf(n) : r.id \in Nat  BY TypeFacts DEF FeesOf
  <2> QED  BY <1>3, <2>1, FirstRow
<1> QED  BY <1>1, <1>2, <1>3

LEMMA AnswerTyped ==
  ASSUME TypeOK
  PROVE  /\ NoAnswer \in [ok : BOOLEAN, ids : SUBSET PathIds, value : Nat]
         /\ Error \in [ok : BOOLEAN, ids : SUBSET PathIds, value : Nat]
         /\ \A S \in SUBSET PathIds :
              [NoAnswer EXCEPT !.ids = S] \in [ok : BOOLEAN, ids : SUBSET PathIds, value : Nat]
         /\ \A n \in Nat :
              [NoAnswer EXCEPT !.value = n] \in [ok : BOOLEAN, ids : SUBSET PathIds, value : Nat]
BY DEF NoAnswer, Error

LEMMA TakeTyped ==
  ASSUME TypeOK, NEW c \in Callers, HeightsOf(call[c].path) # {}, Take(c, HeightsOf(call[c].path))
  PROVE  /\ at' \in [Callers -> Statements \union {"idle", "answered"}]
         /\ row' \in [Callers -> Nat]
         /\ answer' \in [Callers -> [ok : BOOLEAN, ids : SUBSET PathIds, value : Nat]]
<1> DEFINE r == First(HeightsOf(call[c].path))
<1>1. r \in relayedHeights
  <2>1. r \in HeightsOf(call[c].path)  BY FirstOf
  <2> QED  BY <2>1 DEF HeightsOf
<1>2. r.id \in Nat /\ r.value \in Nat  BY <1>1, TypeFacts
<1>3. [NoAnswer EXCEPT !.value = r.value] \in [ok : BOOLEAN, ids : SUBSET PathIds, value : Nat]
  BY <1>2, AnswerTyped
<1>4. IF call[c].op = "getRelayedHeights"
      THEN Answers(c, [NoAnswer EXCEPT !.value = r.value]) /\ UNCHANGED row
      ELSE Goes(c, "update") /\ row' = [row EXCEPT ![c] = r.id] /\ UNCHANGED answer
  BY DEF Take
<1>5. "update" \in Statements  BY DEF Statements
<1> HIDE DEF r
<1> QED  BY <1>2, <1>3, <1>4, <1>5, TypeFacts DEF Goes, Answers

LEMMA TypeNext == TypeOK /\ [Next]_vars => TypeOK'
<1> SUFFICES ASSUME TypeOK, [Next]_vars PROVE TypeOK'  OBVIOUS
<1>0. "select" \in Statements /\ "insert" \in Statements /\ "selectInserted" \in Statements
  BY DEF Statements
<1>1. ASSUME NEW c \in Callers, NEW k \in FeeCalls \union PathCalls \union HeightCalls, Call(c, k)
      PROVE  TypeOK'
  <2>1. calls' \in 0..MaxCalls  BY <1>1, StorageAssumption DEF TypeOK, Call
  <2>2. at' \in [Callers -> Statements \union {"idle", "answered"}]
    BY <1>0, <1>1, TypeFacts DEF Call, Goes
  <2> QED  BY <1>1, <2>1, <2>2 DEF TypeOK, Call, tables
<1>2. ASSUME NEW c \in Callers, addChainFees(c) PROVE TypeOK'
  <2>1. call[c].chain \in Chains /\ call[c].price \in Prices
    BY <1>2, TypeFacts, CallFacts DEF addChainFees, Asks
  <2>2. chainFees' \subseteq [id : Nat, chain : Chains, price : Prices]
    BY <1>2, <2>1, TypeFacts DEF addChainFees
  <2>3. nextId' \in [{"paths", "heights", "fees"} -> Nat \ {0}]
    BY <1>2, TypeFacts DEF addChainFees, Numbers
  <2> QED  BY <1>0, <1>2, <2>2, <2>3 DEF TypeOK, addChainFees, Goes
<1>3. ASSUME NEW c \in Callers, getChainFees(c) PROVE TypeOK'
  <2> DEFINE fees == FeesOf(call[c].chain)
             a == IF fees = {} THEN Error ELSE [NoAnswer EXCEPT !.value = First(fees).price]
  <2>1. a \in [ok : BOOLEAN, ids : SUBSET PathIds, value : Nat]
    <3>1. CASE fees = {}  BY <3>1, AnswerTyped
    <3>2. CASE fees # {}
      <4>1. First(fees) \in chainFees
        <5>1. First(fees) \in fees  BY <3>2, FirstOf
        <5> QED  BY <5>1 DEF FeesOf
      <4>2. First(fees).price \in Nat  BY <4>1, TypeFacts
      <4> QED  BY <3>2, <4>2, AnswerTyped
    <3> QED  BY <3>1, <3>2
  <2>2. Answers(c, a) /\ UNCHANGED <<backend, tables, call, row, calls>>
    BY <1>3 DEF getChainFees
  <2> HIDE DEF a
  <2> QED  BY <2>1, <2>2 DEF TypeOK, Answers, Goes, tables
<1>4. ASSUME NEW c \in Callers, addRelayPath(c) PROVE TypeOK'
  <2>1. call[c].key \in Keys  BY <1>4, TypeFacts, CallFacts DEF addRelayPath, Asks
  <2>2. nextId["paths"] \in PathIds  BY <1>4, TypeFacts, StorageAssumption DEF addRelayPath, PathIds
  <2>3. relayPaths' \subseteq [id : PathIds, key : Keys]
    BY <1>4, <2>1, <2>2, TypeFacts DEF addRelayPath
  <2>4. nextId' \in [{"paths", "heights", "fees"} -> Nat \ {0}]
    BY <1>4, TypeFacts DEF addRelayPath, Numbers
  <2> QED  BY <1>0, <1>4, <2>3, <2>4 DEF TypeOK, addRelayPath, Goes
<1>5. ASSUME NEW c \in Callers, getRelayPath(c) PROVE TypeOK'
  <2> DEFINE found == PathsOf(call[c].key)
             ids == IF found = {} THEN {} ELSE {First(found).id}
  <2>1. ids \in SUBSET PathIds
    <3>1. CASE found # {}
      <4>1. First(found) \in relayPaths
        <5>1. First(found) \in found  BY <3>1, FirstOf
        <5> QED  BY <5>1 DEF PathsOf
      <4> QED  BY <3>1, <4>1, TypeFacts
    <3> QED  BY <3>1
  <2>2. Answers(c, [NoAnswer EXCEPT !.ids = ids]) /\ UNCHANGED <<backend, tables, call, row, calls>>
    BY <1>5 DEF getRelayPath
  <2>3. [NoAnswer EXCEPT !.ids = ids] \in [ok : BOOLEAN, ids : SUBSET PathIds, value : Nat]
    BY <2>1, AnswerTyped
  <2> HIDE DEF ids
  <2> QED  BY <2>2, <2>3 DEF TypeOK, Answers, Goes, tables
<1>6. ASSUME NEW c \in Callers, getRelayPaths(c) PROVE TypeOK'
  <2> DEFINE ids == {r.id : r \in relayPaths}
  <2>1. ids \in SUBSET PathIds  BY TypeFacts
  <2>2. Answers(c, [NoAnswer EXCEPT !.ids = ids]) /\ UNCHANGED <<backend, tables, call, row, calls>>
    BY <1>6 DEF getRelayPaths
  <2>3. [NoAnswer EXCEPT !.ids = ids] \in [ok : BOOLEAN, ids : SUBSET PathIds, value : Nat]
    BY <2>1, AnswerTyped
  <2> HIDE DEF ids
  <2> QED  BY <2>2, <2>3 DEF TypeOK, Answers, Goes, tables
<1>7. ASSUME NEW c \in Callers, selectHeights(c) PROVE TypeOK'
  <2>1. /\ at' \in [Callers -> Statements \union {"idle", "answered"}]
        /\ row' \in [Callers -> Nat]
        /\ answer' \in [Callers -> [ok : BOOLEAN, ids : SUBSET PathIds, value : Nat]]
    <3>1. CASE HeightsOf(call[c].path) # {}  BY <1>7, <3>1, TakeTyped DEF selectHeights
    <3>2. CASE HeightsOf(call[c].path) = {}
      BY <1>0, <1>7, <3>2, TypeFacts DEF selectHeights, Goes
    <3> QED  BY <3>1, <3>2
  <2> QED  BY <1>7, <2>1 DEF TypeOK, selectHeights, tables
<1>8. ASSUME NEW c \in Callers, insertHeights(c) PROVE TypeOK'
  <2>1. CASE backend = "sqlite" /\ ~There(call[c].path)
    BY <1>8, <2>1, AnswerTyped DEF TypeOK, insertHeights, Answers, Goes, tables
  <2>2. CASE ~(backend = "sqlite" /\ ~There(call[c].path))
    <3>1. call[c].path \in PathIds  BY <1>8, TypeFacts, CallFacts DEF insertHeights, Asks
    <3>2. relayedHeights' \subseteq [id : Nat, path : PathIds, value : 0..MaxHeight]
      BY <1>8, <2>2, <3>1, TypeFacts DEF insertHeights
    <3>3. nextId' \in [{"paths", "heights", "fees"} -> Nat \ {0}]
      BY <1>8, <2>2, TypeFacts DEF insertHeights, Numbers
    <3> QED  BY <1>0, <1>8, <2>2, <3>2, <3>3 DEF TypeOK, insertHeights, Goes
  <2> QED  BY <2>1, <2>2
<1>9. ASSUME NEW c \in Callers, selectInserted(c) PROVE TypeOK'
  <2>1. /\ at' \in [Callers -> Statements \union {"idle", "answered"}]
        /\ row' \in [Callers -> Nat]
        /\ answer' \in [Callers -> [ok : BOOLEAN, ids : SUBSET PathIds, value : Nat]]
    <3>1. CASE HeightsOf(call[c].path) # {}  BY <1>9, <3>1, TakeTyped DEF selectInserted
    <3>2. CASE HeightsOf(call[c].path) = {}
      <4>1. Answers(c, Error) /\ UNCHANGED row  BY <1>9, <3>2 DEF selectInserted
      <4>2. Error \in [ok : BOOLEAN, ids : SUBSET PathIds, value : Nat]  BY AnswerTyped
      <4> QED  BY <4>1, <4>2, TypeFacts DEF Answers, Goes
    <3> QED  BY <3>1, <3>2
  <2> QED  BY <1>9, <2>1 DEF TypeOK, selectInserted, tables
<1>10. ASSUME NEW c \in Callers, updateHeights(c) PROVE TypeOK'
  <2>1. call[c].value \in 0..MaxHeight  BY <1>10, TypeFacts, CallFacts DEF updateHeights, Asks
  <2>2. relayedHeights' \subseteq [id : Nat, path : PathIds, value : 0..MaxHeight]
    BY <1>10, <2>1, TypeFacts DEF updateHeights
  <2>3. /\ at' \in [Callers -> Statements \union {"idle", "answered"}]
        /\ answer' \in [Callers -> [ok : BOOLEAN, ids : SUBSET PathIds, value : Nat]]
    BY <1>10, TypeFacts, AnswerTyped DEF updateHeights, Answers, Goes
  <2> QED  BY <1>10, <2>2, <2>3 DEF TypeOK, updateHeights
<1>11. ASSUME NEW c \in Callers, Leave(c) PROVE TypeOK'
  BY <1>11, AnswerTyped DEF TypeOK, Leave, Goes, tables
<1>12. ASSUME NEW i \in PathIds, RemovePath(i) PROVE TypeOK'
  BY <1>12 DEF TypeOK, RemovePath
<1>13. CASE UNCHANGED vars
  BY <1>13 DEF TypeOK, vars, tables
<1> QED
  BY <1>1, <1>2, <1>3, <1>4, <1>5, <1>6, <1>7, <1>8, <1>9, <1>10, <1>11, <1>12, <1>13 DEF Next

LEMMA TypeInit == Init => TypeOK
BY StorageAssumption, AnswerTyped DEF Init, TypeOK, NoAnswer

\* State is of its type, with either backend: ids that are answered are ids of
\* paths, and no call is left at a statement there is not.
THEOREM TypeCorrect == Spec => []TypeOK
BY TypeInit, TypeNext, PTL DEF Spec
-------------------------------------------------------------------------------
(***************************************************************************)
(* The invariant: ids are never used twice, so that a row a call has       *)
(* selected is still the first of its path, or the path is gone.           *)
(***************************************************************************)

Rows ==
  /\ \A r \in relayPaths : r.id < nextId["paths"]
  /\ \A r, t \in relayPaths : r.id = t.id => r = t
  /\ \A r \in relayedHeights : r.id < nextId["heights"] /\ r.path < nextId["paths"]
  /\ \A r, t \in relayedHeights : r.id = t.id => r = t

\* The row a call holds.
Holds(c) ==
  LET S == HeightsOf(call[c].path) IN
    /\ call[c].op = "updateRelayedHeights"
    /\ row[c] < nextId["heights"]
    /\ \A r \in relayedHeights : r.id = row[c] => r.path = call[c].path
    /\ There(call[c].path) => S # {} /\ row[c] = First(S).id

CallInv(c) ==
  /\ at[c] = "idle" => call[c] = Idle
  /\ at[c] # "answered" => answer[c] = NoAnswer
  /\ call[c].op \in OnHeights => call[c].path < nextId["paths"]
  /\ at[c] = "selectInserted" =>
       /\ call[c].op \in OnHeights
       /\ There(call[c].path) => HeightsOf(call[c].path) # {}
  /\ at[c] = "update" => Holds(c)

Inv == TypeOK /\ Rows /\ \A c \in Callers : CallInv(c)

LEMMA InvInit == Init => Inv
BY TypeInit DEF Init, Inv, Rows, CallInv, Idle, OnHeights

\* What a step does to rows that may be the first of a path that stays: nothing.
RowsKept ==
  /\ nextId["paths"] <= nextId'["paths"] /\ nextId["heights"] <= nextId'["heights"]
  /\ \A r \in relayedHeights' : r.id < nextId["heights"] =>
       \E t \in relayedHeights : t.id = r.id /\ t.path = r.path
  /\ \A i \in Nat : i < nextId["paths"] /\ There(i)' =>
       /\ There(i)
       /\ HeightsOf(i) # {} => HeightsOf(i)' # {} /\ First(HeightsOf(i)').id = First(HeightsOf(i)).id

LEMMA OthersKeep ==
  ASSUME Inv, TypeOK', RowsKept, NEW d \in Callers,
         call'[d] = call[d], at'[d] = at[d], row'[d] = row[d], answer'[d] = answer[d]
  PROVE  CallInv(d)'
<1>1. CallInv(d)  BY DEF Inv
<1>2. call[d].op \in OnHeights => call[d].path \in Nat /\ call[d].path < nextId["paths"]
  BY <1>1, TypeFacts, CallFacts DEF CallInv, Inv
<1>3. /\ nextId["paths"] \in Nat /\ nextId'["paths"] \in Nat
      /\ nextId["heights"] \in Nat /\ nextId'["heights"] \in Nat
  BY DEF TypeOK, Inv
<1> DEFINE i == call[d].path
<1>4. call[d].op \in OnHeights /\ There(i)' =>
        /\ There(i)
        /\ HeightsOf(i) # {} => HeightsOf(i)' # {} /\ First(HeightsOf(i)').id = First(HeightsOf(i)).id
  BY <1>2 DEF RowsKept
<1>5. call'[d].op \in OnHeights => call'[d].path < nextId'["paths"]
  BY <1>2, <1>3 DEF RowsKept
<1>6. at'[d] = "selectInserted" =>
        /\ call'[d].op \in OnHeights
        /\ There(i)' => HeightsOf(i)' # {}
  BY <1>1, <1>4 DEF CallInv
<1>7. ASSUME at'[d] = "update" PROVE Holds(d)'
  <2>1. Holds(d)  BY <1>1, <1>7 DEF CallInv
  <2>2. call[d].op = "updateRelayedHeights" /\ call[d].op \in OnHeights
    BY <2>1 DEF Holds, OnHeights
  <2>3. row[d] < nextId["heights"] /\ row[d] \in Nat  BY <2>1, TypeFacts DEF Holds, Inv
  <2>4. row[d] < nextId'["heights"]  BY <2>3, <1>3 DEF RowsKept
  <2>5. ASSUME NEW r \in relayedHeights', r.id = row[d] PROVE r.path = i
    <3>1. PICK t \in relayedHeights : t.id = r.id /\ t.path = r.path  BY <2>3, <2>5 DEF RowsKept
    <3> QED  BY <2>1, <2>5, <3>1 DEF Holds
  <2>6. There(i)' => HeightsOf(i)' # {} /\ row[d] = First(HeightsOf(i)').id
    BY <1>4, <2>1, <2>2 DEF Holds
  <2> QED  BY <2>2, <2>4, <2>5, <2>6 DEF Holds, HeightsOf, There
<1> QED
  <2>1. There(call[d].path)' = There(i)' /\ HeightsOf(call[d].path)' = HeightsOf(i)'  OBVIOUS
  <2> QED  BY <1>1, <1>5, <1>6, <1>7 DEF CallInv, There, HeightsOf

\* A step of a call that leaves the tables of paths and heights alone.
LEMMA CallMoves ==
  ASSUME Inv, TypeOK', NEW c \in Callers, UNCHANGED <<relayPaths, relayedHeights>>,
         nextId'["paths"] = nextId["paths"], nextId'["heights"] = nextId["heights"],
         \A d \in Callers \ {c} : /\ call'[d] = call[d] /\ at'[d] = at[d]
                                  /\ row'[d] = row[d] /\ answer'[d] = answer[d],
         CallInv(c)'
  PROVE  Inv'
<1>1. Rows'  BY DEF Inv, Rows
<1>2. RowsKept
  <2>1. \A i : There(i)' = There(i) /\ HeightsOf(i)' = HeightsOf(i)  BY DEF There, HeightsOf
  <2>2. nextId["paths"] \in Nat /\ nextId["heights"] \in Nat  BY DEF TypeOK, Inv
  <2> QED  BY <2>1, <2>2 DEF RowsKept
<1>3. \A d \in Callers \ {c} : CallInv(d)'  BY <1>2, OthersKeep
<1> QED  BY <1>1, <1>3 DEF Inv

\* What a call takes is the first row of its path.
LEMMA TakeHolds ==
  ASSUME Inv, NEW c \in Callers, call[c].op \in OnHeights, at[c] # "answered",
         HeightsOf(call[c].path) # {}, Take(c, HeightsOf(call[c].path)),
         UNCHANGED <<tables, call>>
  PROVE  CallInv(c)'
<1> DEFINE S == HeightsOf(call[c].path)
           r == First(S)
<1>1. r \in S /\ r \in relayedHeights /\ r.path = call[c].path
  <2>1. r \in S  BY FirstOf DEF Inv
  <2> QED  BY <2>1 DEF HeightsOf
<1>2. r.id < nextId["heights"] /\ \A t \in relayedHeights : t.id = r.id => t.path = call[c].path
  BY <1>1 DEF Inv, Rows
<1>3. UNCHANGED <<relayPaths, relayedHeights, nextId, call>>  BY DEF tables
<1>4. CallInv(c)  BY DEF Inv
<1>5. CASE call[c].op = "getRelayedHeights"
  <2>1. at'[c] = "answered"  BY <1>5, TypeFacts DEF Take, Answers, Goes, Inv
  <2> QED  BY <2>1, <1>3, <1>4 DEF CallInv
<1>6. CASE call[c].op = "updateRelayedHeights"
  <2>1. at' = [at EXCEPT ![c] = "update"] /\ row' = [row EXCEPT ![c] = r.id] /\ answer' = answer
    BY <1>6 DEF Take, Goes
  <2>2. at'[c] = "update" /\ row'[c] = r.id /\ answer'[c] = answer[c]
    BY <2>1, TypeFacts DEF Inv
  <2>3. HeightsOf(call[c].path)' = S  BY <1>3 DEF HeightsOf
  <2>4. Holds(c)'
    BY <1>1, <1>2, <1>3, <1>6, <2>2, <2>3 DEF Holds
  <2>5. answer[c] = NoAnswer  BY <1>4 DEF CallInv
  <2> QED  BY <2>2, <2>4, <2>5, <1>3, <1>4 DEF CallInv
<1> QED  BY <1>5, <1>6 DEF OnHeights
\* A call is given its answer.
LEMMA AnswerMoves ==
  ASSUME Inv, TypeOK', NEW c \in Callers, NEW a, Answers(c, a),
         UNCHANGED <<relayPaths, relayedHeights, nextId, call, row>>
  PROVE  Inv'
<1>1. at'[c] = "answered" /\ \A d \in Callers \ {c} : at'[d] = at[d] /\ answer'[d] = answer[d]
  BY TypeFacts DEF Answers, Goes, Inv
<1>2. CallInv(c)'  BY <1>1 DEF CallInv, Inv
<1> QED  BY <1>1, <1>2, CallMoves

TakesOnly(c) ==
  \A d \in Callers \ {c} : at'[d] = at[d] /\ row'[d] = row[d] /\ answer'[d] = answer[d]

LEMMA TakeMoves ==
  ASSUME Inv, NEW c \in Callers, NEW S, Take(c, S)
  PROVE  TakesOnly(c)
BY TypeFacts DEF Take, Answers, Goes, TakesOnly, Inv

\* Another row, of a path that is there or is not, changes no first one.
LEMMA RowAdded ==
  ASSUME TypeOK, Rows, NEW i,
         relayedHeights' = relayedHeights \union {[id |-> nextId["heights"], path |-> i, value |-> 0]}
  PROVE  \A j : /\ HeightsOf(j) # {} => HeightsOf(j)' # {} /\ First(HeightsOf(j)') = First(HeightsOf(j))
                /\ HeightsOf(j) = {} /\ HeightsOf(j)' # {} => First(HeightsOf(j)').value = 0
                /\ j = i => HeightsOf(j)' # {}
<1> DEFINE new == [id |-> nextId["heights"], path |-> i, value |-> 0]
<1> SUFFICES ASSUME NEW j
             PROVE  /\ HeightsOf(j) # {} => HeightsOf(j)' # {} /\ First(HeightsOf(j)') = First(HeightsOf(j))
                    /\ HeightsOf(j) = {} /\ HeightsOf(j)' # {} => First(HeightsOf(j)').value = 0
                    /\ j = i => HeightsOf(j)' # {}
  BY DEF First
<1>1. HeightsOf(j)' = HeightsOf(j) \union (IF j = i THEN {new} ELSE {})
  BY DEF HeightsOf
<1>2. /\ \A r \in HeightsOf(j) : r.id \in Nat /\ r.id < new.id /\ new.id \in Nat
      /\ \A r, t \in HeightsOf(j) : r.id = t.id => r = t
  BY TypeFacts DEF HeightsOf, Rows
<1>3. /\ \A r \in HeightsOf(j)' : r.id \in Nat
      /\ \A r, t \in HeightsOf(j)' : r.id = t.id => r = t
  BY <1>1, <1>2, TypeFacts
<1>4. CASE HeightsOf(j) # {}
  <2>1. First(HeightsOf(j)) \in HeightsOf(j) /\ \A t \in HeightsOf(j) : First(HeightsOf(j)).id <= t.id
    BY <1>4, FirstOf
  <2>2. First(HeightsOf(j)) \in HeightsOf(j)' /\ \A t \in HeightsOf(j)' : First(HeightsOf(j)).id <= t.id
    BY <2>1, <1>1, <1>2
  <2>3. First(HeightsOf(j)') = First(HeightsOf(j))  BY <1>3, <2>2, FirstIs
  <2> QED  BY <1>1, <1>4, <2>3
<1>5. CASE HeightsOf(j) = {}
  <2>1. HeightsOf(j)' # {} => HeightsOf(j)' = {new}  BY <1>1, <1>5
  <2>2. HeightsOf(j)' # {} => First(HeightsOf(j)') = new
    <3>1. First({new}) = new  BY TypeFacts, FirstIs
    <3> QED  BY <2>1, <3>1
  <2> QED  BY <1>1, <1>5, <2>2
<1> QED  BY <1>4, <1>5

\* An update of one row leaves the first rows first.
Updates(n, v) ==
  LET rows == {r \in relayedHeights : r.id = n} IN
    relayedHeights' = (relayedHeights \ rows) \union {[r EXCEPT !.value = v] : r \in rows}

LEMMA RowUpdated ==
  ASSUME TypeOK, Rows, NEW n, NEW v, Updates(n, v)
  PROVE  /\ \A r \in relayedHeights' : \E t \in relayedHeights : t.id = r.id /\ t.path = r.path
         /\ \A r, t \in relayedHeights' : r.id = t.id => r = t
         /\ \A j : HeightsOf(j) # {} =>
              /\ HeightsOf(j)' # {} /\ First(HeightsOf(j)').id = First(HeightsOf(j)).id
              /\ First(HeightsOf(j)').value =
                   IF First(HeightsOf(j)).id = n THEN v ELSE First(HeightsOf(j)).value
         /\ \A j : HeightsOf(j) = {} => HeightsOf(j)' = {}
<1> DEFINE new(r) == IF r.id = n THEN [r EXCEPT !.value = v] ELSE r
<1>1. relayedHeights' = {new(r) : r \in relayedHeights}  BY DEF Updates
<1>2. \A r \in relayedHeights : /\ r.id \in Nat /\ new(r).id = r.id /\ new(r).path = r.path
                                /\ new(r).value = IF r.id = n THEN v ELSE r.value
  BY TypeFacts
<1> HIDE DEF new
<1>3. \A r, t \in relayedHeights : r.id = t.id => r = t  BY DEF Rows
<1>4. \A r, t \in relayedHeights' : r.id = t.id => r = t  BY <1>1, <1>2, <1>3
<1>5. \A j : HeightsOf(j)' = {new(r) : r \in HeightsOf(j)}
  BY <1>1, <1>2 DEF HeightsOf
<1>6. ASSUME NEW j, HeightsOf(j) # {}
      PROVE  HeightsOf(j)' # {} /\ First(HeightsOf(j)') = new(First(HeightsOf(j)))
  <2> DEFINE f == First(HeightsOf(j))
             S == HeightsOf(j)'
  <2>1. f \in HeightsOf(j) /\ \A t \in HeightsOf(j) : f.id <= t.id  BY <1>6, FirstOf
  <2>2. HeightsOf(j) \subseteq relayedHeights  BY DEF HeightsOf
  <2>3. S = {new(r) : r \in HeightsOf(j)}  BY <1>5
  <2>4. new(f) \in S /\ \A t \in S : new(f).id <= t.id
    BY <1>2, <2>1, <2>2, <2>3
  <2>5. S \subseteq relayedHeights' /\ \A r \in S : r.id \in Nat
    BY <1>1, <1>2, <2>2, <2>3
  <2>6. \A r, t \in S : r.id = t.id => r = t  BY <1>4, <2>5
  <2> HIDE DEF f, S
  <2>7. First(S) = new(f)  BY <2>4, <2>5, <2>6, FirstIs
  <2> QED  BY <2>4, <2>7 DEF f, S
<1>7. \A j : HeightsOf(j) # {} => First(HeightsOf(j)) \in relayedHeights
  <2>1. \A j : HeightsOf(j) # {} => First(HeightsOf(j)) \in HeightsOf(j)  BY FirstOf
  <2> QED  BY <2>1 DEF HeightsOf
<1>8. \A r \in relayedHeights' : \E t \in relayedHeights : t.id = r.id /\ t.path = r.path
  BY <1>1, <1>2
<1> QED  BY <1>2, <1>4, <1>5, <1>6, <1>7, <1>8

LEMMA InvNext == Inv /\ [Next]_vars => Inv'
<1> SUFFICES ASSUME Inv, [Next]_vars PROVE Inv'  OBVIOUS
<1>0. TypeOK' /\ TypeOK  BY TypeNext DEF Inv
<1>1. ASSUME NEW c \in Callers, NEW k \in FeeCalls \union PathCalls \union HeightCalls, Call(c, k)
      PROVE  Inv'
  <2>1. /\ UNCHANGED <<tables, row, answer>> /\ call'[c] = k /\ answer[c] = NoAnswer
        /\ at'[c] \in {"insert", "select"}
        /\ \A d \in Callers \ {c} : call'[d] = call[d] /\ at'[d] = at[d]
    BY <1>1, TypeFacts DEF Call, Goes, Inv, CallInv
  <2>2. k.op \in OnHeights => k.path < nextId["paths"]
    <3>1. k.op \in OnHeights => k \in HeightCalls  BY CallFacts DEF AllCalls
    <3> QED  BY <1>1, <3>1 DEF Call
  <2>3. CallInv(c)'  BY <2>1, <2>2 DEF CallInv, tables
  <2> QED  BY <1>0, <2>1, <2>3, CallMoves DEF tables
<1>2. ASSUME NEW c \in Callers, addChainFees(c) PROVE Inv'
  <2>1. /\ UNCHANGED <<relayPaths, relayedHeights, row, call, answer>>
        /\ nextId'["paths"] = nextId["paths"] /\ nextId'["heights"] = nextId["heights"]
        /\ at'[c] = "select" /\ at[c] = "insert" /\ \A d \in Callers \ {c} : at'[d] = at[d]
    BY <1>2, TypeFacts DEF addChainFees, Asks, Goes, Numbers, Inv
  <2>2. CallInv(c)  BY DEF Inv
  <2>3. CallInv(c)'  BY <2>1, <2>2 DEF CallInv
  <2> QED  BY <1>0, <2>1, <2>3, CallMoves
<1>11. ASSUME NEW c \in Callers, getChainFees(c) PROVE Inv'
  <2> DEFINE fees == FeesOf(call[c].chain)
             a == IF fees = {} THEN Error ELSE [NoAnswer EXCEPT !.value = First(fees).price]
  <2>1. Answers(c, a) /\ UNCHANGED <<tables, call, row>>  BY <1>11 DEF getChainFees
  <2> HIDE DEF a
  <2> QED  BY <1>0, <2>1, AnswerMoves DEF tables
<1>12. ASSUME NEW c \in Callers, getRelayPath(c) PROVE Inv'
  <2> DEFINE found == PathsOf(call[c].key)
             a == [NoAnswer EXCEPT !.ids = IF found = {} THEN {} ELSE {First(found).id}]
  <2>1. Answers(c, a) /\ UNCHANGED <<tables, call, row>>  BY <1>12 DEF getRelayPath
  <2> HIDE DEF a
  <2> QED  BY <1>0, <2>1, AnswerMoves DEF tables
<1>13. ASSUME NEW c \in Callers, getRelayPaths(c) PROVE Inv'
  <2> DEFINE a == [NoAnswer EXCEPT !.ids = {r.id : r \in relayPaths}]
  <2>1. Answers(c, a) /\ UNCHANGED <<tables, call, row>>  BY <1>13 DEF getRelayPaths
  <2> HIDE DEF a
  <2> QED  BY <1>0, <2>1, AnswerMoves DEF tables
<1>3. ASSUME NEW c \in Callers, addRelayPath(c) PROVE Inv'
  <2> DEFINE n == nextId["paths"]
  <2>1. /\ relayPaths' = relayPaths \union {[id |-> n, key |-> call[c].key]}
        /\ nextId' = [nextId EXCEPT !["paths"] = n + 1] /\ n \in Nat
        /\ at[c] = "insert" /\ at' = [at EXCEPT ![c] = "select"]
        /\ UNCHANGED <<relayedHeights, call, row, answer>>
        /\ call[c].op = "addRelayPath"
    BY <1>3, TypeFacts DEF addRelayPath, Numbers, Goes, Asks, Inv
  <2>2. nextId'["paths"] = n + 1 /\ nextId'["heights"] = nextId["heights"]
    BY <2>1, TypeFacts DEF Inv
  <2>3. Rows'
    <3>1. \A r \in relayPaths' : r.id < n + 1 /\ (r \in relayPaths => r.id < n)
      BY <2>1, TypeFacts DEF Inv, Rows
    <3>2. \A r, t \in relayPaths' : r.id = t.id => r = t  BY <2>1, <3>1 DEF Inv, Rows
    <3>3. \A r \in relayedHeights' : r.id < nextId'["heights"] /\ r.path < n + 1
      BY <2>1, <2>2, TypeFacts DEF Inv, Rows
    <3>4. \A r, t \in relayedHeights' : r.id = t.id => r = t  BY <2>1 DEF Inv, Rows
    <3> HIDE DEF n
    <3> QED  BY <2>2, <3>1, <3>2, <3>3, <3>4 DEF Rows
  <2>4. RowsKept
    <3>1. \A i \in Nat : There(i)' /\ i < n => There(i)  BY <2>1 DEF There
    <3>2. \A i : HeightsOf(i)' = HeightsOf(i)  BY <2>1 DEF HeightsOf
    <3>3. nextId["heights"] \in Nat  BY DEF TypeOK, Inv
    <3> QED  BY <2>1, <2>2, <3>1, <3>2, <3>3 DEF RowsKept
  <2>5. \A d \in Callers \ {c} : CallInv(d)'
    <3>1. \A d \in Callers \ {c} : at'[d] = at[d]  BY <2>1, TypeFacts DEF Inv
    <3> QED  BY <1>0, <2>1, <2>4, <3>1, OthersKeep
  <2>6. CallInv(c)'
    <3>1. CallInv(c)  BY DEF Inv
    <3>2. at'[c] = "select" /\ call'[c].op \notin OnHeights  BY <2>1, TypeFacts DEF OnHeights, Inv
    <3> QED  BY <2>1, <3>1, <3>2 DEF CallInv
  <2> QED  BY <1>0, <2>3, <2>5, <2>6 DEF Inv
<1>4. ASSUME NEW c \in Callers, selectHeights(c) PROVE Inv'
  <2>1. /\ at[c] = "select" /\ call[c].op \in OnHeights /\ UNCHANGED <<tables, call>>
        /\ CallInv(c)
    BY <1>4 DEF selectHeights, Asks, Inv
  <2>2. CASE HeightsOf(call[c].path) # {}
    <3>1. Take(c, HeightsOf(call[c].path))  BY <1>4, <2>2 DEF selectHeights
    <3>2. CallInv(c)'  BY <2>1, <2>2, <3>1, TakeHolds
    <3>3. TakesOnly(c)  BY <2>1, <3>1, TakeMoves
    <3> QED  BY <1>0, <2>1, <3>2, <3>3, CallMoves DEF tables, TakesOnly
  <2>3. CASE HeightsOf(call[c].path) = {}
    <3>1. at' = [at EXCEPT ![c] = "insert"] /\ UNCHANGED <<row, answer>>
      BY <1>4, <2>3 DEF selectHeights, Goes
    <3>2. at'[c] = "insert" /\ \A d \in Callers \ {c} : at'[d] = at[d]
      BY <3>1, TypeFacts DEF Inv
    <3>3. CallInv(c)'  BY <2>1, <3>1, <3>2 DEF CallInv, tables
    <3> QED  BY <1>0, <2>1, <3>1, <3>2, <3>3, CallMoves DEF tables
  <2> QED  BY <2>2, <2>3
<1>5. ASSUME NEW c \in Callers, selectInserted(c) PROVE Inv'
  <2>1. /\ at[c] = "selectInserted" /\ call[c].op \in OnHeights /\ UNCHANGED <<tables, call>>
        /\ CallInv(c)
    BY <1>5 DEF selectInserted, Asks, Inv
  <2>2. CASE HeightsOf(call[c].path) # {}
    <3>1. Take(c, HeightsOf(call[c].path))  BY <1>5, <2>2 DEF selectInserted
    <3>2. CallInv(c)'  BY <2>1, <2>2, <3>1, TakeHolds
    <3>3. TakesOnly(c)  BY <2>1, <3>1, TakeMoves
    <3> QED  BY <1>0, <2>1, <3>2, <3>3, CallMoves DEF tables, TakesOnly
  <2>3. CASE HeightsOf(call[c].path) = {}
    <3>1. Answers(c, Error) /\ UNCHANGED row  BY <1>5, <2>3 DEF selectInserted
    <3> QED  BY <1>0, <2>1, <3>1, AnswerMoves DEF tables
  <2> QED  BY <2>2, <2>3
<1>6. ASSUME NEW c \in Callers, insertHeights(c) PROVE Inv'
  <2>1. CASE backend = "sqlite" /\ ~There(call[c].path)
    <3>1. Answers(c, Error) /\ UNCHANGED <<tables, call, row>>  BY <1>6, <2>1 DEF insertHeights
    <3> QED  BY <1>0, <3>1, AnswerMoves DEF tables
  <2>2. CASE ~(backend = "sqlite" /\ ~There(call[c].path))
    <3> DEFINE i == call[c].path
               n == nextId["heights"]
    <3>1. /\ relayedHeights' = relayedHeights \union {[id |-> n, path |-> i, value |-> 0]}
          /\ nextId' = [nextId EXCEPT !["heights"] = n + 1] /\ n \in Nat
          /\ at[c] = "insert" /\ at' = [at EXCEPT ![c] = "selectInserted"]
          /\ UNCHANGED <<relayPaths, call, row, answer>>
          /\ call[c].op \in OnHeights
      BY <1>6, <2>2, TypeFacts DEF insertHeights, Numbers, Goes, Asks, Inv
    <3>2. nextId'["heights"] = n + 1 /\ nextId'["paths"] = nextId["paths"] /\ nextId["paths"] \in Nat
      BY <3>1, TypeFacts DEF Inv
    <3>3. i < nextId["paths"]  BY <3>1 DEF Inv, CallInv
    <3>4. \A j : /\ HeightsOf(j) # {} => HeightsOf(j)' # {} /\ First(HeightsOf(j)') = First(HeightsOf(j))
                 /\ HeightsOf(j) = {} /\ HeightsOf(j)' # {} => First(HeightsOf(j)').value = 0
                 /\ j = i => HeightsOf(j)' # {}
      BY <3>1, RowAdded DEF Inv
    <3>5. \A r \in relayedHeights : r.id \in Nat /\ r.id < n  BY TypeFacts DEF Inv, Rows
    <3>6. RowsKept
      <4>1. \A r \in relayedHeights' : r.id < n => r \in relayedHeights  BY <3>1
      <4>2. \A j : There(j)' => There(j)  BY <3>1 DEF There
      <4>3. \A j : HeightsOf(j) # {} => HeightsOf(j)' # {} /\ First(HeightsOf(j)').id = First(HeightsOf(j)).id
        BY <3>4 DEF First
      <4> QED  BY <3>1, <3>2, <4>1, <4>2, <4>3 DEF RowsKept
    <3>7. Rows'
      <4>1. \A r \in relayPaths' : r.id < nextId'["paths"]  BY <3>1, <3>2 DEF Inv, Rows
      <4>2. \A r, t \in relayPaths' : r.id = t.id => r = t  BY <3>1 DEF Inv, Rows
      <4>3. \A r \in relayedHeights' : r.id < nextId'["heights"] /\ r.path < nextId'["paths"]
        BY <3>1, <3>2, <3>3, <3>5 DEF Inv, Rows
      <4>4. \A r, t \in relayedHeights' : r.id = t.id => r = t  BY <3>1, <3>5 DEF Inv, Rows
      <4> QED  BY <4>1, <4>2, <4>3, <4>4 DEF Rows
    <3>8. at'[c] = "selectInserted" /\ \A d \in Callers \ {c} : at'[d] = at[d]
      BY <3>1, TypeFacts DEF Inv
    <3>9. \A d \in Callers \ {c} : CallInv(d)'  BY <1>0, <3>1, <3>6, <3>8, OthersKeep
    <3>10. CallInv(c)'
      <4>1. CallInv(c)  BY DEF Inv
      <4>2. HeightsOf(i)' # {}  BY <3>1, <3>4 DEF HeightsOf
      <4>3. call'[c] = call[c] /\ answer'[c] = answer[c]  BY <3>1
      <4> QED  BY <3>1, <3>2, <3>3, <3>8, <4>1, <4>2, <4>3 DEF CallInv, HeightsOf
    <3> QED  BY <1>0, <3>7, <3>9, <3>10 DEF Inv
  <2> QED  BY <2>1, <2>2
<1>7. ASSUME NEW c \in Callers, updateHeights(c) PROVE Inv'
  <2> DEFINE a == IF {r \in relayedHeights : r.id = row[c]} = {} /\ backend = "sqlite" THEN Error ELSE NoAnswer
  <2>1. Answers(c, a) /\ UNCHANGED <<relayPaths, nextId, call, row>>
    BY <1>7 DEF updateHeights
  <2>2. /\ \A r \in relayedHeights' : \E t \in relayedHeights : t.id = r.id /\ t.path = r.path
        /\ \A r, t \in relayedHeights' : r.id = t.id => r = t
        /\ \A j : HeightsOf(j) # {} =>
              HeightsOf(j)' # {} /\ First(HeightsOf(j)').id = First(HeightsOf(j)).id
    <3> DEFINE n == row[c]
               v == call[c].value
    <3>1. Updates(n, v)  BY <1>7 DEF updateHeights, Updates
    <3>2. TypeOK /\ Rows  BY DEF Inv
    <3> HIDE DEF n, v
    <3> QED  BY <3>1, <3>2, RowUpdated
  <2>3. RowsKept
    <3>1. \A i : There(i)' = There(i)  BY <2>1 DEF There
    <3>2. nextId["paths"] \in Nat /\ nextId["heights"] \in Nat  BY DEF TypeOK, Inv
    <3> QED  BY <2>1, <2>2, <3>1, <3>2 DEF RowsKept
  <2>4. Rows'  BY <2>1, <2>2 DEF Inv, Rows
  <2>5. at'[c] = "answered" /\ \A d \in Callers \ {c} : at'[d] = at[d] /\ answer'[d] = answer[d]
    BY <2>1, TypeFacts DEF Answers, Goes, Inv
  <2>6. \A d \in Callers \ {c} : CallInv(d)'  BY <1>0, <2>1, <2>3, <2>5, OthersKeep
  <2>7. CallInv(c)'  BY <2>1, <2>5 DEF CallInv, Inv
  <2> QED  BY <1>0, <2>4, <2>6, <2>7 DEF Inv
<1>8. ASSUME NEW c \in Callers, Leave(c) PROVE Inv'
  <2>1. /\ call'[c] = Idle /\ at'[c] = "idle" /\ answer'[c] = NoAnswer
        /\ \A d \in Callers \ {c} : /\ call'[d] = call[d] /\ at'[d] = at[d]
                                     /\ row'[d] = row[d] /\ answer'[d] = answer[d]
    BY <1>8, TypeFacts DEF Leave, Goes, Inv
  <2>2. CallInv(c)'  BY <2>1 DEF CallInv, Idle, OnHeights
  <2> QED  BY <1>0, <1>8, <2>1, <2>2, CallMoves DEF Leave, tables
<1>9. ASSUME NEW i \in PathIds, RemovePath(i) PROVE Inv'
  <2>1. /\ relayPaths' = {r \in relayPaths : r.id # i}
        /\ relayedHeights' = {r \in relayedHeights : r.path # i}
        /\ UNCHANGED <<nextId, call, at, row, answer>>
    BY <1>9 DEF RemovePath
  <2>2. Rows'  BY <2>1 DEF Inv, Rows
  <2>3. RowsKept
    <3>1. \A j : There(j)' => There(j) /\ j # i  BY <2>1 DEF There
    <3>2. \A j : j # i => HeightsOf(j)' = HeightsOf(j)  BY <2>1 DEF HeightsOf
    <3>3. nextId["paths"] \in Nat /\ nextId["heights"] \in Nat  BY DEF TypeOK, Inv
    <3> QED  BY <2>1, <3>1, <3>2, <3>3 DEF RowsKept
  <2>4. \A d \in Callers : CallInv(d)'  BY <1>0, <2>1, <2>3, OthersKeep
  <2> QED  BY <1>0, <2>2, <2>4 DEF Inv
<1>10. CASE UNCHANGED vars
  <2>1. UNCHANGED <<relayPaths, relayedHeights, nextId, call, at, row, answer>>
    BY <1>10 DEF vars, tables
  <2>2. Rows'  BY <2>1 DEF Inv, Rows
  <2>3. \A d \in Callers : CallInv(d)'
    BY <2>1 DEF Inv, CallInv, Holds, HeightsOf, There
  <2> QED  BY <1>0, <2>2, <2>3 DEF Inv
<1> QED
  BY <1>1, <1>2, <1>3, <1>4, <1>5, <1>6, <1>7, <1>8, <1>9, <1>10, <1>11, <1>12, <1>13 DEF Next

-------------------------------------------------------------------------------
(***************************************************************************)
(* The refinement.                                                         *)
(***************************************************************************)

HeightsM == [i \in PathIds |-> ValueOf(i)]
CallM == [c \in Callers |-> IF Shows(c) THEN call[c] ELSE Idle]
StageM == [c \in Callers |-> Stage(c)]
AnswerM == [c \in Callers |-> IF Shows(c) THEN answer[c] ELSE NoAnswer]

OthersStay(c) ==
  \A d \in Callers \ {c} : call'[d] = call[d] /\ at'[d] = at[d] /\ answer'[d] = answer[d]

LEMMA CallerMaps ==
  ASSUME NEW c \in Callers, OthersStay(c)
  PROVE  /\ CallM' = [CallM EXCEPT ![c] = CallM'[c]]
         /\ StageM' = [StageM EXCEPT ![c] = StageM'[c]]
         /\ AnswerM' = [AnswerM EXCEPT ![c] = AnswerM'[c]]
<1>1. \A d \in Callers \ {c} : CallM'[d] = CallM[d] /\ StageM'[d] = StageM[d] /\ AnswerM'[d] = AnswerM[d]
  BY DEF CallM, StageM, AnswerM, OthersStay, Stage, Shows
<1>2. /\ CallM = [d \in Callers |-> CallM[d]] /\ CallM' = [d \in Callers |-> CallM'[d]]
      /\ StageM = [d \in Callers |-> StageM[d]] /\ StageM' = [d \in Callers |-> StageM'[d]]
      /\ AnswerM = [d \in Callers |-> AnswerM[d]] /\ AnswerM' = [d \in Callers |-> AnswerM'[d]]
  BY DEF CallM, StageM, AnswerM
<1> QED  BY <1>1, <1>2

LEMMA Stutters ==
  ASSUME NEW c \in Callers, OthersStay(c), UNCHANGED <<relayPaths, HeightsM>>,
         nextId'["paths"] = nextId["paths"],
         CallM'[c] = CallM[c], StageM'[c] = StageM[c], AnswerM'[c] = AnswerM[c]
  PROVE  UNCHANGED Promise!vars
<1>1. CallM' = CallM /\ StageM' = StageM /\ AnswerM' = AnswerM
  <2>1. /\ CallM' = [CallM EXCEPT ![c] = CallM[c]]
        /\ StageM' = [StageM EXCEPT ![c] = StageM[c]]
        /\ AnswerM' = [AnswerM EXCEPT ![c] = AnswerM[c]]
    BY CallerMaps
  <2> QED  BY <2>1 DEF CallM, StageM, AnswerM
<1> QED  BY <1>1 DEF Promise!vars, HeightsM, CallM, StageM, AnswerM

LEMMA AnswerMaps ==
  ASSUME Inv, NEW c \in Callers, NEW a, Answers(c, a), Shows(c),
         UNCHANGED <<relayPaths, HeightsM, call>>, nextId'["paths"] = nextId["paths"],
         Stage(c) \in {"asked", "applied"}, a \in Promise!Answers(c)
  PROVE  Promise!Next
<1>1. /\ at'[c] = "answered" /\ answer'[c] = a /\ OthersStay(c)
  BY TypeFacts DEF Answers, Goes, Inv, OthersStay
<1>2. AnswerM'[c] = a /\ StageM'[c] = "answered" /\ CallM'[c] = CallM[c]
  BY <1>1 DEF AnswerM, StageM, CallM, Stage, Shows
<1>3. /\ AnswerM' = [AnswerM EXCEPT ![c] = a]
      /\ StageM' = [StageM EXCEPT ![c] = "answered"]
      /\ CallM' = CallM
  <2>1. CallM' = [CallM EXCEPT ![c] = CallM[c]]  BY <1>1, <1>2, CallerMaps
  <2>2. CallM' = CallM  BY <2>1 DEF CallM
  <2> QED  BY <1>1, <1>2, <2>2, CallerMaps
<1>4. StageM[c] \in {"asked", "applied"}  BY DEF StageM
<1>5. Promise!Answer(c)
  BY <1>3, <1>4 DEF Promise!Answer, HeightsM, CallM, StageM, AnswerM
<1> QED  BY <1>5 DEF Promise!Next

\* What a path's first row is worth to who reads it.
LEMMA TakeMaps ==
  ASSUME Inv, NEW c \in Callers, call[c].op \in OnHeights, at[c] \in {"select", "selectInserted"},
         HeightsOf(call[c].path) # {}, Take(c, HeightsOf(call[c].path)), UNCHANGED <<tables, call>>
  PROVE  [Promise!Next]_(Promise!vars)
<1> DEFINE i == call[c].path
           r == First(HeightsOf(i))
           a == [NoAnswer EXCEPT !.value = r.value]
<1>1. r \in HeightsOf(i) /\ r \in relayedHeights
  <2>1. r \in HeightsOf(i)  BY FirstOf DEF Inv
  <2> QED  BY <2>1 DEF HeightsOf
<1>2. r.value \in 0..MaxHeight  BY <1>1, TypeFacts DEF Inv
<1>3. i \in PathIds  BY TypeFacts, CallFacts DEF Inv
<1>4. UNCHANGED <<relayPaths, HeightsM, call>> /\ nextId'["paths"] = nextId["paths"]
  BY DEF tables, HeightsM, ValueOf, HeightsOf, There
<1>5. Shows(c) /\ Stage(c) = "asked"  BY DEF Shows, Stage, OnHeights
<1>6. CASE call[c].op = "getRelayedHeights"
  <2>1. Answers(c, a)  BY <1>6 DEF Take
  <2>2. StageM[c] = "asked" /\ CallM[c] = call[c]  BY <1>5 DEF StageM, CallM
  <2>3. There(i) => HeightsM[i] = r.value  BY <1>1, <1>3 DEF HeightsM, ValueOf
  <2>4. a \in Promise!Answers(c)
    <3>1. CASE There(i)
      <4>1. Promise!There(CallM[c].path)  BY <2>2, <3>1 DEF There, Promise!There
      <4>2. Promise!Answers(c) = {[Promise!NoAnswer EXCEPT !.value = HeightsM[i]]}
        BY <1>6, <2>2, <4>1 DEF Promise!Answers, StageM, CallM, HeightsM
      <4> QED  BY <2>3, <3>1, <4>2 DEF NoAnswer, Promise!NoAnswer
    <3>2. CASE ~There(i)
      <4>1. ~Promise!There(CallM[c].path)  BY <2>2, <3>2 DEF There, Promise!There
      <4>2. Promise!Answers(c) = [ok : BOOLEAN, ids : {{}}, value : 0..MaxHeight]
        BY <1>6, <2>2, <4>1 DEF Promise!Answers, StageM, CallM, HeightsM
      <4> QED  BY <1>2, <4>2 DEF NoAnswer
    <3> QED  BY <3>1, <3>2
  <2> HIDE DEF a
  <2> QED  BY <2>1, <2>4, <1>4, <1>5, AnswerMaps
<1>7. CASE call[c].op = "updateRelayedHeights"
  <2>1. at' = [at EXCEPT ![c] = "update"] /\ answer' = answer  BY <1>7 DEF Take, Goes
  <2>2. at'[c] = "update" /\ OthersStay(c)  BY <2>1, <1>4, TypeFacts DEF OthersStay, Inv
  <2>3. StageM'[c] = StageM[c] /\ CallM'[c] = CallM[c] /\ AnswerM'[c] = AnswerM[c]
    BY <1>4, <1>5, <1>7, <2>1, <2>2 DEF StageM, CallM, AnswerM, Stage, Shows
  <2> QED  BY <1>4, <2>2, <2>3, Stutters
<1> QED  BY <1>6, <1>7 DEF OnHeights

\* Of a path that is gone, a call may be answered that there was an error.
LEMMA GoneMaps ==
  ASSUME Inv, NEW c \in Callers, call[c].op \in OnHeights, at[c] \notin {"idle", "answered"},
         ~There(call[c].path), NEW a \in {Error, NoAnswer}, Answers(c, a),
         UNCHANGED <<relayPaths, HeightsM, call>>, nextId'["paths"] = nextId["paths"]
  PROVE  Promise!Next
<1>1. Shows(c) /\ Stage(c) = "asked"  BY DEF Shows, Stage, OnHeights
<1>2. StageM[c] = "asked" /\ CallM[c] = call[c]  BY <1>1 DEF StageM, CallM
<1>3. ~Promise!There(CallM[c].path)  BY <1>2 DEF There, Promise!There
<1>4. Promise!Answers(c) = [ok : BOOLEAN, ids : {{}}, value : 0..MaxHeight]
  BY <1>2, <1>3 DEF Promise!Answers, StageM, CallM, HeightsM, OnHeights
<1>5. a \in Promise!Answers(c)  BY <1>4, TypeFacts DEF Inv, NoAnswer, Error
<1> QED  BY <1>1, <1>5, AnswerMaps

LEMMA AddMaps == ASSUME Inv, NEW c \in Callers, addRelayPath(c) PROVE Promise!Next
<1> DEFINE n == nextId["paths"]
<1>1. /\ relayPaths' = relayPaths \union {[id |-> n, key |-> call[c].key]}
      /\ nextId'["paths"] = n + 1 /\ n \in Nat
      /\ at[c] = "insert" /\ at' = [at EXCEPT ![c] = "select"]
      /\ UNCHANGED <<relayedHeights, call, answer>>
      /\ call[c].op = "addRelayPath"
  BY TypeFacts DEF addRelayPath, Numbers, Goes, Asks, Inv
<1>2. at'[c] = "select" /\ OthersStay(c)  BY <1>1, TypeFacts DEF OthersStay, Inv
<1>3. /\ CallM[c] = call[c] /\ CallM'[c] = call[c] /\ AnswerM'[c] = AnswerM[c]
      /\ StageM[c] = "asked" /\ StageM'[c] = "applied"
  BY <1>1, <1>2 DEF CallM, AnswerM, StageM, Shows, Stage
<1>4. /\ CallM' = CallM /\ AnswerM' = AnswerM /\ StageM' = [StageM EXCEPT ![c] = "applied"]
  <2>1. CallM' = [CallM EXCEPT ![c] = CallM[c]] /\ AnswerM' = [AnswerM EXCEPT ![c] = AnswerM[c]]
    BY <1>2, <1>3, CallerMaps
  <2> QED  BY <1>2, <1>3, <2>1, CallerMaps DEF CallM, AnswerM
<1>5. HeightsM' = HeightsM
  <2>1. \A i : HeightsOf(i)' = HeightsOf(i)  BY <1>1 DEF HeightsOf
  <2>2. HeightsOf(n) = {}  BY <1>1, TypeFacts DEF HeightsOf, Inv, Rows
  <2>3. \A i : There(i)' <=> (There(i) \/ i = n)
    <3> DEFINE new == [id |-> n, key |-> call[c].key]
    <3>1. relayPaths' = relayPaths \union {new} /\ new.id = n  BY <1>1
    <3> HIDE DEF n, new
    <3> QED  BY <3>1 DEF There
  <2>4. ASSUME NEW i \in PathIds PROVE ValueOf(i)' = ValueOf(i)
    <3>1. CASE i = n  BY <2>1, <2>2, <3>1 DEF ValueOf
    <3>2. CASE i # n
      <4>1. There(i)' = There(i)  BY <2>3, <3>2 DEF There
      <4>2. HeightsOf(i)' = HeightsOf(i)  BY <2>1
      <4> QED  BY <4>1, <4>2 DEF ValueOf
    <3> QED  BY <3>1, <3>2
  <2> QED  BY <2>4 DEF HeightsM
<1>6. Promise!AddPath(c)
  BY <1>1, <1>3, <1>4, <1>5 DEF Promise!AddPath, HeightsM, CallM, StageM, AnswerM
<1> QED  BY <1>6 DEF Promise!Next

LEMMA FoundMaps == ASSUME Inv, NEW c \in Callers, getRelayPath(c) PROVE Promise!Next
<1> DEFINE k == call[c].key
           ids == IF PathsOf(k) = {} THEN {} ELSE {First(PathsOf(k)).id}
           a == [NoAnswer EXCEPT !.ids = ids]
<1>1. /\ Answers(c, a) /\ UNCHANGED <<tables, call>>
      /\ at[c] = "select" /\ call[c].op \in {"addRelayPath", "getRelayPath"}
  BY DEF getRelayPath, Asks
<1>2. UNCHANGED <<relayPaths, HeightsM, call>> /\ nextId'["paths"] = nextId["paths"]
  BY <1>1 DEF tables, HeightsM, ValueOf, HeightsOf, There
<1>3. Shows(c) /\ Stage(c) = IF call[c].op = "addRelayPath" THEN "applied" ELSE "asked"
  BY <1>1 DEF Shows, Stage
<1>4. StageM[c] = Stage(c) /\ CallM[c] = call[c]  BY <1>3 DEF StageM, CallM
<1>5. Promise!Ids(k) = {p.id : p \in PathsOf(k)}  BY DEF Promise!Ids, PathsOf
<1>6. Promise!Least(Promise!Ids(k)) = ids
  <2>1. CASE PathsOf(k) = {}  BY <2>1, <1>5 DEF Promise!Least
  <2>2. CASE PathsOf(k) # {}
    <3>1. First(PathsOf(k)) \in PathsOf(k) /\ \A t \in PathsOf(k) : First(PathsOf(k)).id <= t.id
      BY <2>2, FirstOf DEF Inv
    <3>2. \A t \in PathsOf(k) : t.id \in Nat  BY TypeFacts DEF PathsOf, Inv
    <3>3. \A j \in Promise!Ids(k) : (\A m \in Promise!Ids(k) : j <= m) <=> j = First(PathsOf(k)).id
      BY <1>5, <3>1, <3>2
    <3>4. First(PathsOf(k)).id \in Promise!Ids(k)  BY <1>5, <3>1
    <3> QED  BY <2>2, <3>3, <3>4 DEF Promise!Least
  <2> QED  BY <2>1, <2>2
<1>7. a \in Promise!Answers(c)
  <2>1. StageM[c] = "applied" \/ CallM[c].op = "getRelayPath"  BY <1>1, <1>3, <1>4
  <2>2. Promise!Answers(c) = {[Promise!NoAnswer EXCEPT !.ids = Promise!Least(Promise!Ids(k))]}
    BY <1>1, <1>4, <2>1 DEF Promise!Answers, StageM, CallM
  <2>3. Promise!NoAnswer = NoAnswer  BY DEF NoAnswer, Promise!NoAnswer
  <2> HIDE DEF ids
  <2> QED  BY <1>6, <2>2, <2>3
<1> HIDE DEF a
<1> QED  BY <1>1, <1>2, <1>3, <1>7, AnswerMaps

LEMMA ListMaps == ASSUME Inv, NEW c \in Callers, getRelayPaths(c) PROVE Promise!Next
<1> DEFINE a == [NoAnswer EXCEPT !.ids = {r.id : r \in relayPaths}]
<1>1. /\ Answers(c, a) /\ UNCHANGED <<tables, call>>
      /\ at[c] = "select" /\ call[c].op = "getRelayPaths"
  BY DEF getRelayPaths, Asks
<1>2. UNCHANGED <<relayPaths, HeightsM, call>> /\ nextId'["paths"] = nextId["paths"]
  BY <1>1 DEF tables, HeightsM, ValueOf, HeightsOf, There
<1>3. Shows(c) /\ Stage(c) = "asked"  BY <1>1 DEF Shows, Stage
<1>4. StageM[c] = "asked" /\ CallM[c] = call[c]  BY <1>3 DEF StageM, CallM
<1>5. a \in Promise!Answers(c)
  BY <1>1, <1>4 DEF Promise!Answers, StageM, CallM, NoAnswer, Promise!NoAnswer
<1> HIDE DEF a
<1> QED  BY <1>1, <1>2, <1>3, <1>5, AnswerMaps

\* Each step of a storage is one of the promise, or shows nothing.
LEMMA StepMaps == Inv /\ [Next]_vars => [Promise!Next]_(Promise!vars)
<1> SUFFICES ASSUME Inv, [Next]_vars PROVE [Promise!Next]_(Promise!vars)  OBVIOUS
<1>1. ASSUME NEW c \in Callers, NEW k \in FeeCalls \union PathCalls \union HeightCalls, Call(c, k)
      PROVE  [Promise!Next]_(Promise!vars)
  <2>1. /\ UNCHANGED <<tables, answer>> /\ call'[c] = k /\ at[c] = "idle"
        /\ at'[c] = (IF k.op \in {"addChainFees", "addRelayPath"} THEN "insert" ELSE "select")
        /\ call[c] = Idle /\ answer[c] = NoAnswer /\ OthersStay(c)
    BY <1>1, TypeFacts DEF Call, Goes, Inv, CallInv, OthersStay
  <2>2. UNCHANGED <<relayPaths, HeightsM>> /\ nextId'["paths"] = nextId["paths"]
    BY <2>1 DEF tables, HeightsM, ValueOf, HeightsOf, There
  <2>3. CallM[c] = Idle /\ StageM[c] = "idle" /\ AnswerM[c] = NoAnswer
    BY <2>1 DEF CallM, StageM, AnswerM, Shows, Stage, Idle
  <2>4. AnswerM'[c] = NoAnswer  BY <2>1 DEF AnswerM
  <2>5. CASE k \in FeeCalls
    <3>1. k.op \in {"addChainFees", "getChainFees"}  BY <2>5 DEF FeeCalls
    <3>2. CallM'[c] = Idle /\ StageM'[c] = "idle"
      BY <2>1, <3>1 DEF CallM, StageM, Shows, Stage
    <3> QED  BY <2>1, <2>2, <2>3, <2>4, <3>2, Stutters
  <2>6. CASE k \in PathCalls \union HeightCalls
    <3>1. k.op \in {"addRelayPath", "getRelayPath", "getRelayPaths"} \union OnHeights
      BY <2>6 DEF PathCalls, HeightCalls, OnHeights
    <3>2. CallM'[c] = k /\ StageM'[c] = "asked"
      BY <2>1, <3>1 DEF CallM, StageM, Shows, Stage, OnHeights
    <3>3. /\ CallM' = [CallM EXCEPT ![c] = k]
          /\ StageM' = [StageM EXCEPT ![c] = "asked"]
          /\ AnswerM' = AnswerM
      <4>1. AnswerM' = [AnswerM EXCEPT ![c] = AnswerM[c]]  BY <2>1, <2>3, <2>4, CallerMaps
      <4> QED  BY <2>1, <3>2, <4>1, CallerMaps DEF AnswerM
    <3>4. Promise!Invoke(c)
      BY <2>2, <2>3, <2>6, <3>3 DEF Promise!Invoke, HeightsM, CallM, StageM, AnswerM
    <3> QED  BY <3>4 DEF Promise!Next
  <2> QED  BY <2>5, <2>6
<1>2. ASSUME NEW c \in Callers, addChainFees(c) PROVE UNCHANGED Promise!vars
  <2>1. /\ UNCHANGED <<relayPaths, relayedHeights, call, answer>> /\ ~Shows(c)
        /\ nextId'["paths"] = nextId["paths"] /\ OthersStay(c)
    BY <1>2, TypeFacts DEF addChainFees, Asks, Goes, Numbers, OthersStay, Shows, Inv
  <2>2. UNCHANGED <<relayPaths, HeightsM>>  BY <2>1 DEF HeightsM, ValueOf, HeightsOf, There
  <2>3. CallM'[c] = CallM[c] /\ StageM'[c] = StageM[c] /\ AnswerM'[c] = AnswerM[c]
    BY <2>1 DEF CallM, StageM, AnswerM, Shows, Stage
  <2> QED  BY <2>1, <2>2, <2>3, Stutters
<1>3. ASSUME NEW c \in Callers, getChainFees(c) PROVE UNCHANGED Promise!vars
  <2> DEFINE fees == FeesOf(call[c].chain)
             a == IF fees = {} THEN Error ELSE [NoAnswer EXCEPT !.value = First(fees).price]
  <2>1. Answers(c, a) /\ UNCHANGED <<tables, call>> /\ ~Shows(c)
    BY <1>3 DEF getChainFees, Asks, Shows
  <2> HIDE DEF a
  <2>2. OthersStay(c)  BY <2>1, TypeFacts DEF Answers, Goes, OthersStay, Inv
  <2>3. UNCHANGED <<relayPaths, HeightsM>> /\ nextId'["paths"] = nextId["paths"]
    BY <2>1 DEF tables, HeightsM, ValueOf, HeightsOf, There
  <2>4. CallM'[c] = CallM[c] /\ StageM'[c] = StageM[c] /\ AnswerM'[c] = AnswerM[c]
    BY <2>1 DEF CallM, StageM, AnswerM, Shows, Stage
  <2> QED  BY <2>2, <2>3, <2>4, Stutters
<1>4. ASSUME NEW c \in Callers, addRelayPath(c) \/ getRelayPath(c) \/ getRelayPaths(c)
      PROVE  Promise!Next
  BY <1>4, AddMaps, FoundMaps, ListMaps
<1>5. ASSUME NEW c \in Callers, selectHeights(c) PROVE [Promise!Next]_(Promise!vars)
  <2>1. /\ at[c] = "select" /\ call[c].op \in OnHeights /\ UNCHANGED <<tables, call>>
    BY <1>5 DEF selectHeights, Asks
  <2>2. CASE HeightsOf(call[c].path) # {}
    <3>1. Take(c, HeightsOf(call[c].path))  BY <1>5, <2>2 DEF selectHeights
    <3> QED  BY <2>1, <2>2, <3>1, TakeMaps
  <2>3. CASE HeightsOf(call[c].path) = {}
    <3>1. at' = [at EXCEPT ![c] = "insert"] /\ UNCHANGED <<row, answer>>
      BY <1>5, <2>3 DEF selectHeights, Goes
    <3>2. at'[c] = "insert" /\ OthersStay(c)  BY <2>1, <3>1, TypeFacts DEF OthersStay, Inv
    <3>3. UNCHANGED <<relayPaths, HeightsM>> /\ nextId'["paths"] = nextId["paths"]
      BY <2>1 DEF tables, HeightsM, ValueOf, HeightsOf, There
    <3>4. CallM'[c] = CallM[c] /\ StageM'[c] = StageM[c] /\ AnswerM'[c] = AnswerM[c]
      BY <2>1, <3>1, <3>2 DEF CallM, StageM, AnswerM, Shows, Stage, OnHeights
    <3> QED  BY <3>2, <3>3, <3>4, Stutters
  <2> QED  BY <2>2, <2>3
<1>6. ASSUME NEW c \in Callers, selectInserted(c) PROVE [Promise!Next]_(Promise!vars)
  <2>1. /\ at[c] = "selectInserted" /\ call[c].op \in OnHeights /\ UNCHANGED <<tables, call>>
    BY <1>6 DEF selectInserted, Asks
  <2>2. CASE HeightsOf(call[c].path) # {}
    <3>1. Take(c, HeightsOf(call[c].path))  BY <1>6, <2>2 DEF selectInserted
    <3> QED  BY <2>1, <2>2, <3>1, TakeMaps
  <2>3. CASE HeightsOf(call[c].path) = {}
    <3>1. Answers(c, Error)  BY <1>6, <2>3 DEF selectInserted
    <3>2. ~There(call[c].path)  BY <2>1, <2>3 DEF Inv, CallInv
    <3>3. UNCHANGED <<relayPaths, HeightsM>> /\ nextId'["paths"] = nextId["paths"]
      BY <2>1 DEF tables, HeightsM, ValueOf, HeightsOf, There
    <3> QED  BY <2>1, <3>1, <3>2, <3>3, GoneMaps
  <2> QED  BY <2>2, <2>3
<1>7. ASSUME NEW c \in Callers, insertHeights(c) PROVE [Promise!Next]_(Promise!vars)
  <2>1. at[c] = "insert" /\ call[c].op \in OnHeights /\ UNCHANGED <<call, row>>
    BY <1>7 DEF insertHeights, Asks
  <2>2. CASE backend = "sqlite" /\ ~There(call[c].path)
    <3>1. Answers(c, Error) /\ UNCHANGED tables  BY <1>7, <2>2 DEF insertHeights
    <3>2. UNCHANGED <<relayPaths, HeightsM>> /\ nextId'["paths"] = nextId["paths"]
      BY <3>1 DEF tables, HeightsM, ValueOf, HeightsOf, There
    <3> QED  BY <2>1, <2>2, <3>1, <3>2, GoneMaps
  <2>3. CASE ~(backend = "sqlite" /\ ~There(call[c].path))
    <3>1. /\ relayedHeights' = relayedHeights \union
               {[id |-> nextId["heights"], path |-> call[c].path, value |-> 0]}
          /\ nextId'["paths"] = nextId["paths"]
          /\ at' = [at EXCEPT ![c] = "selectInserted"] /\ UNCHANGED <<relayPaths, answer>>
      BY <1>7, <2>3, TypeFacts DEF insertHeights, Numbers, Goes, Inv
    <3>2. at'[c] = "selectInserted" /\ OthersStay(c)  BY <2>1, <3>1, TypeFacts DEF OthersStay, Inv
    <3>3. HeightsM' = HeightsM
      <4>1. \A j : /\ HeightsOf(j) # {} => HeightsOf(j)' # {} /\ First(HeightsOf(j)') = First(HeightsOf(j))
                   /\ HeightsOf(j) = {} /\ HeightsOf(j)' # {} => First(HeightsOf(j)').value = 0
                   /\ j = call[c].path => HeightsOf(j)' # {}
        <5>1. TypeOK /\ Rows  BY DEF Inv
        <5> QED  BY <3>1, <5>1, RowAdded
      <4>2. \A j : There(j)' = There(j)  BY <3>1 DEF There
      <4>3. ASSUME NEW j PROVE ValueOf(j)' = ValueOf(j)
        <5>1. CASE HeightsOf(j) # {}  BY <4>1, <4>2, <5>1 DEF ValueOf
        <5>2. CASE HeightsOf(j) = {}  BY <4>1, <4>2, <5>2 DEF ValueOf
        <5> QED  BY <5>1, <5>2
      <4> QED  BY <4>3 DEF HeightsM
    <3>4. CallM'[c] = CallM[c] /\ StageM'[c] = StageM[c] /\ AnswerM'[c] = AnswerM[c]
      BY <2>1, <3>1, <3>2 DEF CallM, StageM, AnswerM, Shows, Stage, OnHeights
    <3> QED  BY <3>1, <3>2, <3>3, <3>4, Stutters
  <2> QED  BY <2>2, <2>3
<1>8. ASSUME NEW c \in Callers, updateHeights(c) PROVE [Promise!Next]_(Promise!vars)
  <2> DEFINE i == call[c].path
             v == call[c].value
             a == IF {r \in relayedHeights : r.id = row[c]} = {} /\ backend = "sqlite" THEN Error ELSE NoAnswer
  <2>1. /\ Answers(c, a) /\ UNCHANGED <<relayPaths, nextId, call, row>>
        /\ at[c] = "update" /\ call[c].op = "updateRelayedHeights" /\ call[c].op \in OnHeights
    BY <1>8 DEF updateHeights, Asks, OnHeights
  <2>2. i \in PathIds /\ v \in 0..MaxHeight  BY <2>1, TypeFacts, CallFacts DEF Inv
  <2>3. Holds(c)  BY <2>1 DEF Inv, CallInv
  <2>4. /\ \A j : HeightsOf(j) # {} =>
             /\ HeightsOf(j)' # {} /\ First(HeightsOf(j)').id = First(HeightsOf(j)).id
             /\ First(HeightsOf(j)').value =
                  IF First(HeightsOf(j)).id = row[c] THEN v ELSE First(HeightsOf(j)).value
        /\ \A j : HeightsOf(j) = {} => HeightsOf(j)' = {}
    <3>1. Updates(row[c], v)  BY <1>8 DEF updateHeights, Updates
    <3>2. TypeOK /\ Rows  BY DEF Inv
    <3> HIDE DEF v
    <3> QED  BY <3>1, <3>2, RowUpdated
  <2>5. \A j : There(j)' = There(j)  BY <2>1 DEF There
  <2>6. ASSUME NEW j \in PathIds, j # i PROVE ValueOf(j)' = ValueOf(j)
    <3>1. CASE HeightsOf(j) = {}  BY <2>4, <2>5, <3>1 DEF ValueOf
    <3>2. CASE HeightsOf(j) # {}
      <4>1. First(HeightsOf(j)) \in relayedHeights /\ First(HeightsOf(j)).path = j
        <5>1. First(HeightsOf(j)) \in HeightsOf(j)  BY <3>2, FirstOf DEF Inv
        <5> QED  BY <5>1 DEF HeightsOf
      <4>2. First(HeightsOf(j)).id # row[c]  BY <2>3, <2>6, <4>1 DEF Holds
      <4> HIDE DEF v
      <4>3. HeightsOf(j)' # {} /\ First(HeightsOf(j)').value = First(HeightsOf(j)).value
        BY <2>4, <3>2, <4>2
      <4> QED  BY <2>5, <3>2, <4>3 DEF ValueOf
    <3> QED  BY <3>1, <3>2
  <2>7. CASE There(i)
    <3>1. HeightsOf(i) # {} /\ row[c] = First(HeightsOf(i)).id  BY <2>3, <2>7 DEF Holds
    <3>2. PICK p \in PathIds : p = i  BY <2>2
    <3>3. ValueOf(p)' = v
      <4>1. HeightsOf(p) # {} /\ row[c] = First(HeightsOf(p)).id  BY <3>1, <3>2
      <4>2. There(p)'  BY <2>5, <2>7, <3>2
      <4> HIDE DEF v
      <4> QED  BY <2>4, <4>1, <4>2 DEF ValueOf
    <3>4. HeightsM' = [HeightsM EXCEPT ![i] = v]
      <4>1. \A j \in PathIds : HeightsM'[j] = IF j = i THEN v ELSE HeightsM[j]
        BY <2>6, <3>2, <3>3 DEF HeightsM
      <4>2. HeightsM' = [j \in PathIds |-> HeightsM'[j]] /\ HeightsM = [j \in PathIds |-> HeightsM[j]]
        BY DEF HeightsM
      <4> HIDE DEF i, v
      <4> QED  BY <4>1, <4>2
    <3>5. {r \in relayedHeights : r.id = row[c]} # {}
      <4>1. First(HeightsOf(i)) \in HeightsOf(i)  BY <3>1, FirstOf DEF Inv
      <4> QED  BY <3>1, <4>1 DEF HeightsOf
    <3>6. Answers(c, NoAnswer)  BY <2>1, <3>5
    <3>7. answer[c] = NoAnswer  BY <2>1 DEF Inv, CallInv
    <3>8. at'[c] = "answered" /\ answer'[c] = NoAnswer /\ OthersStay(c)
      BY <2>1, <3>6, TypeFacts DEF Answers, Goes, OthersStay, Inv
    <3>9. /\ CallM[c] = call[c] /\ CallM'[c] = call[c] /\ AnswerM'[c] = AnswerM[c]
          /\ StageM[c] = "asked" /\ StageM'[c] = "answered"
      BY <2>1, <3>7, <3>8 DEF CallM, AnswerM, StageM, Shows, Stage
    <3>10. /\ CallM' = CallM /\ AnswerM' = AnswerM /\ StageM' = [StageM EXCEPT ![c] = "answered"]
      <4>1. CallM' = [CallM EXCEPT ![c] = CallM[c]] /\ AnswerM' = [AnswerM EXCEPT ![c] = AnswerM[c]]
        BY <3>8, <3>9, CallerMaps
      <4> QED  BY <3>8, <3>9, <4>1, CallerMaps DEF CallM, AnswerM
    <3>11. Promise!There(i)  BY <2>7 DEF There, Promise!There
    <3>12. CallM[c].path = i /\ CallM[c].value = v /\ CallM[c].op = "updateRelayedHeights"
      BY <2>1, <3>9
    <3> HIDE DEF i, v
    <3>13. Promise!Write(c)
      BY <2>1, <3>4, <3>9, <3>10, <3>11, <3>12 DEF Promise!Write, HeightsM, CallM, StageM, AnswerM
    <3> QED  BY <3>13 DEF Promise!Next
  <2>8. CASE ~There(i)
    <3>1. ASSUME NEW j \in PathIds PROVE ValueOf(j)' = ValueOf(j)
      <4>1. CASE j = i
        <5>1. ~There(j) /\ ~There(j)'  BY <2>5, <2>8, <4>1
        <5> QED  BY <5>1 DEF ValueOf
      <4>2. CASE j # i  BY <2>6, <4>2
      <4> QED  BY <4>1, <4>2
    <3>2. HeightsM' = HeightsM  BY <3>1 DEF HeightsM
    <3>3. a \in {Error, NoAnswer}  OBVIOUS
    <3>4. at[c] \notin {"idle", "answered"}  BY <2>1
    <3> HIDE DEF a
    <3> QED  BY <2>1, <2>8, <3>2, <3>3, <3>4, GoneMaps
  <2> QED  BY <2>7, <2>8
<1>9. ASSUME NEW c \in Callers, Leave(c) PROVE [Promise!Next]_(Promise!vars)
  <2>1. /\ call'[c] = Idle /\ at[c] # "idle" /\ at'[c] = "idle" /\ answer'[c] = NoAnswer
        /\ OthersStay(c) /\ UNCHANGED tables
    BY <1>9, TypeFacts DEF Leave, Goes, OthersStay, Inv
  <2>2. UNCHANGED <<relayPaths, HeightsM>> /\ nextId'["paths"] = nextId["paths"]
    BY <2>1 DEF tables, HeightsM, ValueOf, HeightsOf, There
  <2>3. CallM'[c] = Idle /\ StageM'[c] = "idle" /\ AnswerM'[c] = NoAnswer
    BY <2>1 DEF CallM, StageM, AnswerM, Shows, Stage, Idle
  <2>4. CASE Shows(c)
    <3>1. StageM[c] # "idle"  BY <2>1, <2>4 DEF StageM, Stage
    <3>2. /\ CallM' = [CallM EXCEPT ![c] = Idle]
          /\ StageM' = [StageM EXCEPT ![c] = "idle"]
          /\ AnswerM' = [AnswerM EXCEPT ![c] = NoAnswer]
      BY <2>1, <2>3, CallerMaps
    <3>3. Promise!Leave(c)
      BY <2>2, <3>1, <3>2
      DEF Promise!Leave, HeightsM, CallM, StageM, AnswerM, Idle, NoAnswer, Promise!Idle, Promise!NoAnswer
    <3> QED  BY <3>3 DEF Promise!Next
  <2>5. CASE ~Shows(c)
    <3>1. CallM[c] = Idle /\ StageM[c] = "idle" /\ AnswerM[c] = NoAnswer
      BY <2>5 DEF CallM, StageM, AnswerM, Stage, Shows
    <3> QED  BY <2>1, <2>2, <2>3, <3>1, Stutters
  <2> QED  BY <2>4, <2>5
<1>10. ASSUME NEW i \in PathIds, RemovePath(i) PROVE Promise!Next
  <2>1. /\ relayPaths' = {r \in relayPaths : r.id # i} /\ There(i)
        /\ relayedHeights' = {r \in relayedHeights : r.path # i}
        /\ UNCHANGED <<nextId, call, at, row, answer>>
    BY <1>10 DEF RemovePath
  <2>2. PICK p \in relayPaths : p.id = i  BY <2>1 DEF There
  <2>3. relayPaths' = relayPaths \ {p}  BY <2>1, <2>2 DEF Inv, Rows
  <2>4. HeightsM' = [HeightsM EXCEPT ![i] = 0]
    <3>1. ~There(i)' /\ \A j : j # i => There(j)' = There(j)  BY <2>1 DEF There
    <3>2. \A j : j # i => HeightsOf(j)' = HeightsOf(j)  BY <2>1 DEF HeightsOf
    <3>3. ValueOf(i)' = 0  BY <3>1 DEF ValueOf
    <3>4. ASSUME NEW j, j # i PROVE ValueOf(j)' = ValueOf(j)
      <4>1. There(j)' = There(j) /\ HeightsOf(j)' = HeightsOf(j)  BY <3>1, <3>2, <3>4
      <4> QED  BY <4>1 DEF ValueOf
    <3> QED  BY <3>3, <3>4 DEF HeightsM
  <2>5. CallM' = CallM /\ StageM' = StageM /\ AnswerM' = AnswerM
    BY <2>1 DEF CallM, StageM, AnswerM, Shows, Stage
  <2>6. Promise!Remove
    BY <2>1, <2>2, <2>3, <2>4, <2>5 DEF Promise!Remove, HeightsM, CallM, StageM, AnswerM
  <2> QED  BY <2>6 DEF Promise!Next
<1>11. CASE UNCHANGED vars
  BY <1>11 DEF vars, tables, Promise!vars, ValueOf, HeightsOf, There, Stage, Shows
<1> QED
  BY <1>1, <1>2, <1>3, <1>4, <1>5, <1>6, <1>7, <1>8, <1>9, <1>10, <1>11 DEF Next

LEMMA InitMaps == Init => Promise!Init
BY DEF Init, Promise!Init, ValueOf, There, Stage, Shows, Idle, NoAnswer, Promise!Idle, Promise!NoAnswer

LEMMA Invariance == Spec => []Inv
BY InvInit, InvNext, PTL DEF Spec

\* A storage of either kind keeps what IStorage promises about paths and
\* heights: though statements of several calls run in between and a path may
\* come to have several rows, each call works as if it were one step, and the
\* heights read are those written last.
THEOREM ImplementsStore == Spec => ImplementsPathStore
<1>1. Spec => []Inv  BY Invariance
<1>2. Inv /\ [Next]_vars => [Promise!Next]_(Promise!vars)  BY StepMaps
<1>3. Init => Promise!Init  BY InitMaps
<1> QED  BY <1>1, <1>2, <1>3, PTL DEF Spec, ImplementsPathStore, Promise!Spec

-------------------------------------------------------------------------------
(***************************************************************************)
(* Fees.  With SQLite a chain has one row, so it is the first and the last.*)
(***************************************************************************)

OneRow == backend = "sqlite" => \A r, t \in chainFees : r.chain = t.chain => r = t

LEMMA OneRowNext == OneRow /\ [Next]_vars => OneRow'
<1> SUFFICES ASSUME OneRow, [Next]_vars PROVE OneRow'  OBVIOUS
<1>1. ASSUME NEW c \in Callers, addChainFees(c) PROVE OneRow'
  <2>1. ASSUME backend = "sqlite"
        PROVE  \A r, t \in chainFees' : r.chain = t.chain => r = t
    <3> DEFINE new == [id |-> nextId["fees"], chain |-> call[c].chain, price |-> call[c].price]
    <3>1. chainFees' = (chainFees \ {r \in chainFees : r.chain = new.chain}) \union {new}
      BY <1>1, <2>1 DEF addChainFees, Replaced, FeesOf
    <3> HIDE DEF new
    <3> QED  BY <2>1, <3>1 DEF OneRow
  <2>2. backend' = backend  BY <1>1 DEF addChainFees
  <2> QED  BY <2>1, <2>2 DEF OneRow
<1>2. CASE UNCHANGED <<backend, chainFees>>
  BY <1>2 DEF OneRow
<1>3. ASSUME NEW c \in Callers,
             \/ \E k \in FeeCalls \union PathCalls \union HeightCalls : Call(c, k)
             \/ getChainFees(c) \/ getRelayPath(c) \/ getRelayPaths(c) \/ Leave(c)
      PROVE  UNCHANGED <<backend, chainFees>>
  BY <1>3 DEF Call, getChainFees, getRelayPath, getRelayPaths, Leave, tables
<1>4. ASSUME NEW c \in Callers,
             addRelayPath(c) \/ selectHeights(c) \/ selectInserted(c) \/ updateHeights(c)
      PROVE  UNCHANGED <<backend, chainFees>>
  BY <1>4 DEF addRelayPath, selectHeights, selectInserted, updateHeights, tables
<1>5. ASSUME NEW c \in Callers, insertHeights(c) PROVE UNCHANGED <<backend, chainFees>>
  BY <1>5 DEF insertHeights, tables
<1>6. ASSUME NEW i \in PathIds, RemovePath(i) PROVE UNCHANGED <<backend, chainFees>>
  BY <1>6 DEF RemovePath
<1>7. CASE UNCHANGED vars
  BY <1>2, <1>7 DEF vars, tables
<1> QED  BY <1>1, <1>2, <1>3, <1>4, <1>5, <1>6, <1>7 DEF Next

LEMMA OneRowSuffices == TypeOK /\ OneRow => SqliteFeesLatest
<1> SUFFICES ASSUME TypeOK, OneRow, backend = "sqlite", NEW n \in Chains, NEW r \in FeesOf(n)
             PROVE  r.price = First(FeesOf(n)).price
  BY DEF SqliteFeesLatest, LatestFeesRead
<1>1. First(FeesOf(n)) \in FeesOf(n)  BY FirstOf
<1>2. r = First(FeesOf(n))  BY <1>1 DEF FeesOf, OneRow
<1> QED  BY <1>2

\* With SQLite the fees read for a chain are those added for it last, whoever
\* added them.
THEOREM SqliteReadsLatest == Spec => []SqliteFeesLatest
<1>1. Init => OneRow  BY DEF Init, OneRow
<1> QED  BY <1>1, OneRowNext, OneRowSuffices, TypeCorrect, PTL DEF Spec

==============================================================================
