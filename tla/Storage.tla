------------------------------- MODULE Storage -------------------------------
(***************************************************************************)
(* The two storages behind IStorage, SQLite in Node and Dexie in a         *)
(* browser: each call is a few statements with awaits between them, so     *)
(* that those of other callers, in the same process or another, run in     *)
(* between.  Tables are sets of rows whose ids are never used again.       *)
(*                                                                         *)
(* Abstractions.  What a path is found by (chains, ids and version) is a   *)
(* key, its four heights, which are written together, are one value, and   *)
(* so are price, denomination and adjustment.                              *)
(***************************************************************************)
EXTENDS Naturals

CONSTANTS
  Backends,   \* storages to be used
  Callers,    \* calls that may be under way at once
  Keys,       \* what paths are found by
  Chains, Prices,
  MaxHeight,
  MaxCalls,   \* calls in all
  MaxPaths    \* rows ever put in relayPaths

ASSUME StorageAssumption ==
  /\ Backends \subseteq {"sqlite", "dexie"}
  /\ Prices \subseteq Nat \ {0}
  /\ MaxHeight \in Nat /\ MaxCalls \in Nat /\ MaxPaths \in Nat

VARIABLES
  backend,
  relayPaths, relayedHeights, chainFees,
  nextId,   \* the id of the next row of each table
  call,     \* what a caller has asked for
  at,       \* the statement its call is at
  row,      \* the row of heights its call has selected
  answer,
  calls

tables == <<relayPaths, relayedHeights, chainFees, nextId>>
vars == <<backend, tables, call, at, row, answer, calls>>

PathIds == 1..MaxPaths
Idle == [op |-> "none"]
FeeCalls == [op : {"addChainFees"}, chain : Chains, price : Prices] \union [op : {"getChainFees"}, chain : Chains]
PathCalls == [op : {"addRelayPath", "getRelayPath"}, key : Keys] \union [op : {"getRelayPaths"}]
HeightCalls == [op : {"getRelayedHeights"}, path : PathIds] \union
               [op : {"updateRelayedHeights"}, path : PathIds, value : 0..MaxHeight]

NoAnswer == [ok |-> TRUE, ids |-> {}, value |-> 0]
Error == [NoAnswer EXCEPT !.ok = FALSE]

Statements == {"select", "insert", "selectInserted", "update"}

TypeOK ==
  /\ backend \in Backends
  /\ relayPaths \subseteq [id : PathIds, key : Keys]
  /\ relayedHeights \subseteq [id : Nat, path : PathIds, value : 0..MaxHeight]
  /\ chainFees \subseteq [id : Nat, chain : Chains, price : Prices]
  /\ nextId \in [{"paths", "heights", "fees"} -> Nat \ {0}]
  /\ call \in [Callers -> {Idle} \union FeeCalls \union PathCalls \union HeightCalls]
  /\ at \in [Callers -> Statements \union {"idle", "answered"}]
  /\ row \in [Callers -> Nat]
  /\ answer \in [Callers -> [ok : BOOLEAN, ids : SUBSET PathIds, value : Nat]]
  /\ calls \in 0..MaxCalls

Init ==
  /\ backend \in Backends
  /\ relayPaths = {} /\ relayedHeights = {} /\ chainFees = {}
  /\ nextId = [t \in {"paths", "heights", "fees"} |-> 1]
  /\ call = [c \in Callers |-> Idle]
  /\ at = [c \in Callers |-> "idle"]
  /\ row = [c \in Callers |-> 0]
  /\ answer = [c \in Callers |-> NoAnswer]
  /\ calls = 0

First(S) == CHOOSE r \in S : \A t \in S : r.id <= t.id
PathsOf(k) == {r \in relayPaths : r.key = k}
HeightsOf(i) == {r \in relayedHeights : r.path = i}
FeesOf(n) == {r \in chainFees : r.chain = n}
There(i) == \E r \in relayPaths : r.id = i

Asks(c, stmt, ops) == at[c] = stmt /\ call[c].op \in ops
Goes(c, stmt) == at' = [at EXCEPT ![c] = stmt]
Answers(c, a) == Goes(c, "answered") /\ answer' = [answer EXCEPT ![c] = a]
Numbers(t) == nextId' = [nextId EXCEPT ![t] = @ + 1]

\* A caller asks for something, of paths whose ids it has from an answer.
Call(c, k) ==
  /\ at[c] = "idle" /\ calls < MaxCalls
  /\ k \in HeightCalls => k.path < nextId["paths"]
  /\ call' = [call EXCEPT ![c] = k]
  /\ Goes(c, IF k.op \in {"addChainFees", "addRelayPath"} THEN "insert" ELSE "select")
  /\ calls' = calls + 1
  /\ UNCHANGED <<backend, tables, row, answer>>

-------------------------------------------------------------------------------
(***************************************************************************)
(* chainFees: SQLite keeps one row for a chain, and replaces it.           *)
(***************************************************************************)

\* Slip: the schema has lost its UNIQUE ON CONFLICT REPLACE.
ReplacesNone(n) == {}

Replaced(n) == IF backend = "sqlite" THEN FeesOf(n) ELSE {}

addChainFees(c) ==
  /\ Asks(c, "insert", {"addChainFees"})
  /\ chainFees' = (chainFees \ Replaced(call[c].chain)) \union
       {[id |-> nextId["fees"], chain |-> call[c].chain, price |-> call[c].price]}
  /\ Numbers("fees")
  /\ Goes(c, "select")
  /\ UNCHANGED <<backend, relayPaths, relayedHeights, call, row, answer, calls>>

getChainFees(c) ==
  /\ Asks(c, "select", {"addChainFees", "getChainFees"})
  /\ LET fees == FeesOf(call[c].chain) IN
       Answers(c, IF fees = {} THEN Error ELSE [NoAnswer EXCEPT !.value = First(fees).price])
  /\ UNCHANGED <<backend, tables, call, row, calls>>

-------------------------------------------------------------------------------
(***************************************************************************)
(* relayPaths.                                                             *)
(***************************************************************************)

addRelayPath(c) ==
  /\ Asks(c, "insert", {"addRelayPath"})
  /\ nextId["paths"] <= MaxPaths
  /\ relayPaths' = relayPaths \union {[id |-> nextId["paths"], key |-> call[c].key]}
  /\ Numbers("paths")
  /\ Goes(c, "select")
  /\ UNCHANGED <<backend, relayedHeights, chainFees, call, row, answer, calls>>

\* Slip: what is not found is taken for id 0.
UndefinedAsZero(c) ==
  /\ Asks(c, "select", {"addRelayPath", "getRelayPath"})
  /\ LET found == PathsOf(call[c].key) IN
       Answers(c, [NoAnswer EXCEPT !.ids = IF found = {} THEN {0} ELSE {First(found).id}])
  /\ UNCHANGED <<backend, tables, call, row, calls>>

getRelayPath(c) ==
  /\ Asks(c, "select", {"addRelayPath", "getRelayPath"})
  /\ LET found == PathsOf(call[c].key) IN
       Answers(c, [NoAnswer EXCEPT !.ids = IF found = {} THEN {} ELSE {First(found).id}])
  /\ UNCHANGED <<backend, tables, call, row, calls>>

getRelayPaths(c) ==
  /\ Asks(c, "select", {"getRelayPaths"})
  /\ Answers(c, [NoAnswer EXCEPT !.ids = {r.id : r \in relayPaths}])
  /\ UNCHANGED <<backend, tables, call, row, calls>>

-------------------------------------------------------------------------------
(***************************************************************************)
(* relayedHeights.  updateRelayedHeights gets a row first, as              *)
(* getRelayedHeights does, and nothing keeps two callers that find none    *)
(* from inserting one each.                                                *)
(***************************************************************************)

\* Slip: the row that was inserted last is taken.
TakeLast(c, S) ==
  LET r == CHOOSE r \in S : \A t \in S : r.id >= t.id IN
    IF call[c].op = "getRelayedHeights"
    THEN Answers(c, [NoAnswer EXCEPT !.value = r.value]) /\ UNCHANGED row
    ELSE Goes(c, "update") /\ row' = [row EXCEPT ![c] = r.id] /\ UNCHANGED answer

Take(c, S) ==
  LET r == First(S) IN
    IF call[c].op = "getRelayedHeights"
    THEN Answers(c, [NoAnswer EXCEPT !.value = r.value]) /\ UNCHANGED row
    ELSE Goes(c, "update") /\ row' = [row EXCEPT ![c] = r.id] /\ UNCHANGED answer

OnHeights == {"getRelayedHeights", "updateRelayedHeights"}

selectHeights(c) ==
  /\ Asks(c, "select", OnHeights)
  /\ IF HeightsOf(call[c].path) # {}
     THEN Take(c, HeightsOf(call[c].path))
     ELSE Goes(c, "insert") /\ UNCHANGED <<row, answer>>
  /\ UNCHANGED <<backend, tables, call, calls>>

\* SQLite refuses heights of a path that is not there.
insertHeights(c) ==
  /\ Asks(c, "insert", OnHeights)
  /\ IF backend = "sqlite" /\ ~There(call[c].path)
     THEN Answers(c, Error) /\ UNCHANGED tables
     ELSE /\ relayedHeights' = relayedHeights \union
               {[id |-> nextId["heights"], path |-> call[c].path, value |-> 0]}
          /\ Numbers("heights")
          /\ Goes(c, "selectInserted")
          /\ UNCHANGED <<relayPaths, chainFees, answer>>
  /\ UNCHANGED <<backend, call, row, calls>>

selectInserted(c) ==
  /\ Asks(c, "selectInserted", OnHeights)
  /\ IF HeightsOf(call[c].path) # {}
     THEN Take(c, HeightsOf(call[c].path))
     ELSE Answers(c, Error) /\ UNCHANGED row
  /\ UNCHANGED <<backend, tables, call, calls>>

\* SQLite's storage throws when there was no row to update, Dexie's does not.
updateHeights(c) ==
  /\ Asks(c, "update", {"updateRelayedHeights"})
  /\ LET rows == {r \in relayedHeights : r.id = row[c]} IN
       /\ relayedHeights' = (relayedHeights \ rows) \union
            {[r EXCEPT !.value = call[c].value] : r \in rows}
       /\ Answers(c, IF rows = {} /\ backend = "sqlite" THEN Error ELSE NoAnswer)
  /\ UNCHANGED <<backend, relayPaths, chainFees, nextId, call, row, calls>>

-------------------------------------------------------------------------------
\* The caller goes on with its answer, or its process dies without one.
Leave(c) ==
  /\ at[c] # "idle"
  /\ call' = [call EXCEPT ![c] = Idle]
  /\ Goes(c, "idle")
  /\ row' = [row EXCEPT ![c] = 0]
  /\ answer' = [answer EXCEPT ![c] = NoAnswer]
  /\ UNCHANGED <<backend, tables, calls>>

\* An operator deletes a path and its heights.
RemovePath(i) ==
  /\ There(i)
  /\ relayPaths' = {r \in relayPaths : r.id # i}
  /\ relayedHeights' = {r \in relayedHeights : r.path # i}
  /\ UNCHANGED <<backend, chainFees, nextId, call, at, row, answer, calls>>

Next ==
  \/ \E c \in Callers :
       \/ \E k \in FeeCalls \union PathCalls \union HeightCalls : Call(c, k)
       \/ addChainFees(c) \/ getChainFees(c)
       \/ addRelayPath(c) \/ getRelayPath(c) \/ getRelayPaths(c)
       \/ selectHeights(c) \/ insertHeights(c) \/ selectInserted(c) \/ updateHeights(c)
       \/ Leave(c)
  \/ \E i \in PathIds : RemovePath(i)

Spec == Init /\ [][Next]_vars

-------------------------------------------------------------------------------
(***************************************************************************)
(* Properties.                                                             *)
(***************************************************************************)

\* A call has taken effect from the statement that makes it visible on; calls
\* about fees do not show.
Shows(c) == call[c].op \notin {"addChainFees", "getChainFees"}

Stage(c) ==
  CASE ~Shows(c) \/ at[c] = "idle" -> "idle"
    [] Shows(c) /\ at[c] = "answered" -> "answered"
    [] at[c] = "select" /\ call[c].op = "addRelayPath" -> "applied"
    [] OTHER -> "asked"

ValueOf(i) ==
  LET S == HeightsOf(i) IN
    IF There(i) /\ S # {} THEN First(S).value ELSE 0

\* Whatever statements of other calls run between those of a call, and wherever
\* callers die, each call about paths and heights works as if it were one step:
\* heights written are those read, though a path may have several rows.
Promise == INSTANCE PathStore WITH
  Calls <- PathCalls \union HeightCalls, Values <- 0..MaxHeight,
  paths <- relayPaths, next <- nextId["paths"],
  heights <- [i \in PathIds |-> ValueOf(i)],
  call <- [c \in Callers |-> IF Shows(c) THEN call[c] ELSE Idle],
  stage <- [c \in Callers |-> Stage(c)],
  answer <- [c \in Callers |-> IF Shows(c) THEN answer[c] ELSE NoAnswer]

ImplementsPathStore == Promise!Spec

\* The fees read for a chain, by addChainFees too, are those added last for it.
LatestFeesRead ==
  \A n \in Chains : \A r \in FeesOf(n) :
    r.price = First(FeesOf(n)).price \/ \E t \in FeesOf(n) : t.id > r.id

\* SQLite keeps to that: prices an operator adds later are those links use.
SqliteFeesLatest == backend = "sqlite" => LatestFeesRead

==============================================================================
