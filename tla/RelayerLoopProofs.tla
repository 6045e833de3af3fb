-------------------------- MODULE RelayerLoopProofs --------------------------
(***************************************************************************)
(* Proofs about RelayerLoop, for all processes, paths and bounds: the      *)
(* heights in the database never pass an event that is still to be         *)
(* relayed, only the row that is read is ever written, and every variable  *)
(* keeps its type.                                                         *)
(***************************************************************************)
EXTENDS RelayerLoop, WellFoundedInduction, TLAPS

\* The part of TypeOK the argument needs: where in its list of links a process
\* is does not matter, only that its place there is its own.
LoopTypes ==
  /\ tip \in [Paths -> Nat]
  /\ owed \in [Paths -> SUBSET Nat]
  /\ rows \in [Paths -> Seq(Nat)]
  /\ adder \in [Paths -> AddStages]
  /\ seed \in [NewPaths -> Nat]
  /\ pc \in [Procs -> Stages]
  /\ links = [p \in Procs |-> links[p]]
  /\ next = [p \in Procs |-> next[p]]
  /\ from \in [Procs -> Nat]
  /\ new \in [Procs -> Nat]
  /\ found \in [Procs -> SUBSET Nat]

\* Height h of path x is one its chain has reached, with all events below it
\* relayed.
Safe(x, h) == h <= tip[x] /\ \A e \in owed[x] : h <= e

\* What a process holds of the path it is at is safe to save when it is saved:
\* before its search the heights it loaded are, and while it relays the only
\* events below the new height are those it found.
RoundSafe(p, x) ==
  /\ AtLink(p, "round", x) => Safe(x, from[p])
  /\ AtLink(p, "relay", x) =>
       new[p] <= tip[x] /\ \A e \in owed[x] : e \in found[p] \/ new[p] <= e
  /\ AtLink(p, "save", x) => Safe(x, new[p])

\* The heights a command captured are safe until it has seeded them, as a new
\* path has no events before its clients are there.
SeedSafe(x) ==
  /\ adder[x] \in {"captured", "created", "seed"} => Safe(x, seed[x])
  /\ adder[x] \in {"new", "captured"} => owed[x] = {}

RowsSafe(x) ==
  /\ HasRow(x) => Safe(x, Heights(x))
  /\ \A i \in 2..Len(rows[x]) : rows[x][i] = 0

LoopInv ==
  /\ LoopTypes
  /\ \A x \in Paths : RowsSafe(x)
  /\ \A x \in NewPaths : SeedSafe(x)
  /\ \A p \in Procs, x \in Paths : RoundSafe(p, x)

-------------------------------------------------------------------------------
\* Rows stay as safe as they were when a row of zeros is added to them,
LEMMA InsertKeepsRows ==
  ASSUME NEW s \in Seq(Nat)
  PROVE  /\ Append(s, 0) \in Seq(Nat)
         /\ Append(s, 0) # <<>>
         /\ Append(s, 0)[1] = IF s = <<>> THEN 0 ELSE s[1]
         /\ (\A i \in 2..Len(s) : s[i] = 0) =>
              \A i \in 2..Len(Append(s, 0)) : Append(s, 0)[i] = 0
<1>1. /\ Append(s, 0) \in Seq(Nat)
      /\ Len(Append(s, 0)) = Len(s) + 1
      /\ \A i \in 1..Len(s) : Append(s, 0)[i] = s[i]
      /\ Append(s, 0)[Len(s) + 1] = 0
  OBVIOUS
<1>2. Len(s) \in Nat /\ (s = <<>> <=> Len(s) = 0) /\ Append(s, 0) # <<>>
  BY <1>1
<1>3. Append(s, 0)[1] = IF s = <<>> THEN 0 ELSE s[1]
  BY <1>1, <1>2
<1>4. ASSUME \A i \in 2..Len(s) : s[i] = 0
      PROVE  \A i \in 2..Len(Append(s, 0)) : Append(s, 0)[i] = 0
  <2>1. TAKE i \in 2..Len(Append(s, 0))
  <2>2. i \in 2..Len(s) \/ i = Len(s) + 1
    BY <1>1, <1>2
  <2> QED
    BY <1>1, <1>2, <1>4, <2>2
<1> QED
  BY <1>1, <1>2, <1>3, <1>4

\* and when their first is updated.
LEMMA UpdateKeepsRows ==
  ASSUME NEW s \in Seq(Nat), s # <<>>, NEW h \in Nat
  PROVE  /\ [s EXCEPT ![1] = h] \in Seq(Nat)
         /\ [s EXCEPT ![1] = h] # <<>>
         /\ [s EXCEPT ![1] = h][1] = h
         /\ Len([s EXCEPT ![1] = h]) = Len(s)
         /\ \A i \in 2..Len(s) : [s EXCEPT ![1] = h][i] = s[i]
OBVIOUS

\* A step of process p that leaves the chains, the heights and the commands
\* alone, and ends where it holds nothing of a path, or where it was.
LEMMA ProcessMoves ==
  ASSUME LoopInv, LoopTypes',
         UNCHANGED <<tip, owed, rows, adder, seed>>,
         NEW p \in Procs,
         \A q \in Procs \ {p} :
           /\ pc'[q] = pc[q] /\ links'[q] = links[q] /\ next'[q] = next[q]
           /\ from'[q] = from[q] /\ new'[q] = new[q] /\ found'[q] = found[q],
         pc'[p] \notin {"round", "relay", "save"}
  PROVE  LoopInv'
BY DEF LoopInv, RowsSafe, SeedSafe, RoundSafe, Safe, AtLink, Current, HasRow, Heights

\* A step in which no process moves, and which leaves the events alone but for
\* relayed ones, keeps what the processes hold safe.
LEMMA RoundsStay ==
  ASSUME LoopInv, UNCHANGED loopVars, NEW q \in Procs, NEW x \in Paths,
         tip[x] <= tip'[x], tip'[x] \in Nat, owed'[x] \subseteq Nat,
         \A e \in owed'[x] : e \in owed[x] \/ e > tip[x]
  PROVE  RoundSafe(q, x)'
<1>1. RoundSafe(q, x) /\ tip[x] \in Nat /\ from[q] \in Nat /\ new[q] \in Nat
  BY DEF LoopInv, LoopTypes
<1> QED
  BY <1>1 DEF RoundSafe, Safe, AtLink, Current, loopVars

-------------------------------------------------------------------------------
\* An event of a path is above every height read of its chain before.
LEMMA EventKeeps ==
  ASSUME LoopInv, NEW x \in Paths, Event(x)
  PROVE  LoopInv'
<1>1. LoopTypes'
  BY DEF LoopInv, LoopTypes, Event, addVars, dbVars, loopVars
<1>2. ASSUME NEW y \in Paths
      PROVE  /\ tip[y] <= tip'[y] /\ tip'[y] \in Nat /\ tip[y] \in Nat
             /\ \A e \in owed'[y] : e \in Nat /\ (e \in owed[y] \/ e > tip[y])
  BY DEF LoopInv, LoopTypes, Event
<1>3. ASSUME NEW y \in Paths, NEW h \in Nat, Safe(y, h)
      PROVE  Safe(y, h)'
  BY <1>2, <1>3 DEF Safe
<1>4. ASSUME NEW y \in Paths PROVE RowsSafe(y)'
  <2>1. rows' = rows /\ RowsSafe(y) /\ rows[y] \in Seq(Nat) /\ (HasRow(y) => Heights(y) \in Nat)
    BY DEF LoopInv, LoopTypes, Event, dbVars, HasRow, Heights
  <2> QED
    BY <1>3, <2>1 DEF RowsSafe, HasRow, Heights
<1>5. ASSUME NEW y \in NewPaths PROVE SeedSafe(y)'
  <2>1. y \in Paths /\ seed[y] \in Nat /\ UNCHANGED <<adder, seed>> /\ SeedSafe(y)
    BY DEF Paths, LoopInv, LoopTypes, Event, addVars
  <2>2. adder[y] \in {"new", "captured"} => owed'[y] = owed[y]
    BY <2>1 DEF LoopInv, LoopTypes, Event
  <2> QED
    BY <1>3, <2>1, <2>2 DEF SeedSafe
<1>6. ASSUME NEW q \in Procs, NEW y \in Paths PROVE RoundSafe(q, y)'
  BY <1>2, RoundsStay DEF Event
<1> QED
  BY <1>1, <1>4, <1>5, <1>6 DEF LoopInv

\* The steps of the command that adds a path.
LEMMA AdderKeeps ==
  ASSUME LoopInv, NEW x \in Paths,
         \/ AddExisting(x) \/ AddFails(x) \/ addRelayPath(x)
         \/ x \in NewPaths /\ (CaptureHeights(x) \/ CreateClients(x) \/ seedInitialHeights(x))
  PROVE  LoopInv'
<1>1. CASE AddExisting(x)
  <2>1. LoopTypes' /\ UNCHANGED <<tip, owed, rows, seed, loopVars>>
    BY <1>1 DEF LoopInv, LoopTypes, AddExisting, AddStages, chainVars, loopVars
  <2>2. \A y \in NewPaths : adder'[y] = adder[y]
    BY <1>1, PathsAssumption DEF AddExisting, LoopInv, LoopTypes, Paths
  <2> QED
    BY <2>1, <2>2 DEF LoopInv, RowsSafe, SeedSafe, RoundSafe, Safe, AtLink, Current, HasRow, Heights, loopVars
<1>2. CASE AddFails(x) \/ addRelayPath(x)
  <2>1. LoopTypes' /\ UNCHANGED <<tip, owed, rows, seed, loopVars>>
    BY <1>2 DEF LoopInv, LoopTypes, AddFails, addRelayPath, AddStages, chainVars, dbVars, loopVars
  <2>2. \A y \in NewPaths :
          /\ adder'[y] \in {"captured", "created", "seed"} => adder[y] \in {"captured", "created", "seed"}
          /\ adder'[y] \in {"new", "captured"} => adder[y] \in {"new", "captured"}
    BY <1>2 DEF AddFails, addRelayPath, LoopInv, LoopTypes, Paths
  <2> QED
    BY <2>1, <2>2 DEF LoopInv, RowsSafe, SeedSafe, RoundSafe, Safe, AtLink, Current, HasRow, Heights, loopVars
<1>3. CASE x \in NewPaths /\ CaptureHeights(x)
  <2>1. LoopTypes' /\ UNCHANGED <<tip, owed, rows, loopVars>>
    BY <1>3 DEF LoopInv, LoopTypes, CaptureHeights, AddStages, chainVars, dbVars, loopVars
  <2>2. ASSUME NEW y \in NewPaths PROVE SeedSafe(y)'
    <3>1. CASE y = x
      BY <1>3, <2>1, <3>1 DEF CaptureHeights, LoopInv, LoopTypes, SeedSafe, Safe, Paths
    <3>2. CASE y # x
      BY <1>3, <2>1, <3>2 DEF CaptureHeights, LoopInv, LoopTypes, SeedSafe, Safe, Paths
    <3> QED
      BY <3>1, <3>2
  <2> QED
    BY <2>1, <2>2 DEF LoopInv, RowsSafe, RoundSafe, Safe, AtLink, Current, HasRow, Heights, loopVars
<1>4. CASE x \in NewPaths /\ CreateClients(x)
  <2>1. LoopTypes' /\ UNCHANGED <<owed, rows, seed, loopVars>>
    BY <1>4 DEF LoopInv, LoopTypes, CreateClients, AddStages, dbVars, loopVars
  <2>2. \A y \in Paths : tip[y] \in Nat /\ tip[y] <= tip'[y] /\ tip'[y] \in Nat
    BY <1>4 DEF CreateClients, LoopInv, LoopTypes
  <2>3. ASSUME NEW y \in Paths, NEW h \in Nat, Safe(y, h) PROVE Safe(y, h)'
    BY <2>1, <2>2, <2>3 DEF Safe
  <2>4. ASSUME NEW y \in NewPaths PROVE SeedSafe(y)'
    <3>1. y \in Paths /\ SeedSafe(y) /\ seed[y] \in Nat
      BY DEF LoopInv, LoopTypes, Paths
    <3>2. /\ adder'[y] \in {"captured", "created", "seed"} => adder[y] \in {"captured", "created", "seed"}
          /\ adder'[y] \in {"new", "captured"} => adder[y] \in {"new", "captured"}
      BY <1>4, <3>1 DEF CreateClients, LoopInv, LoopTypes
    <3> QED
      BY <2>1, <2>3, <3>1, <3>2 DEF SeedSafe
  <2>5. ASSUME NEW y \in Paths PROVE RowsSafe(y)'
    <3>1. RowsSafe(y) /\ rows[y] \in Seq(Nat) /\ (HasRow(y) => Heights(y) \in Nat)
      BY DEF LoopInv, LoopTypes, HasRow, Heights
    <3> QED
      BY <2>1, <2>3, <3>1 DEF RowsSafe, HasRow, Heights
  <2>6. ASSUME NEW q \in Procs, NEW y \in Paths PROVE RoundSafe(q, y)'
    <3>1. owed'[y] = owed[y] /\ owed[y] \subseteq Nat
      BY <2>1 DEF LoopInv, LoopTypes
    <3> QED
      BY <2>1, <2>2, <3>1, RoundsStay
  <2> QED
    BY <2>1, <2>4, <2>5, <2>6 DEF LoopInv
<1>5. CASE x \in NewPaths /\ seedInitialHeights(x)
  <2>1. rows[x] \in Seq(Nat) /\ rows[x] # <<>> /\ seed[x] \in Nat /\ Safe(x, seed[x]) /\ RowsSafe(x)
    BY <1>5 DEF LoopInv, LoopTypes, seedInitialHeights, HasRow, SeedSafe
  <2>2. UNCHANGED <<tip, owed, seed, loopVars>> /\ rows' = [rows EXCEPT ![x] = [rows[x] EXCEPT ![1] = seed[x]]]
    BY <1>5 DEF seedInitialHeights, updateRelayedHeights, chainVars
  <2>3. LoopTypes'
    <3>1. [rows[x] EXCEPT ![1] = seed[x]] \in Seq(Nat)
      BY <2>1, UpdateKeepsRows
    <3>2. rows' \in [Paths -> Seq(Nat)]
      BY <2>2, <3>1 DEF LoopInv, LoopTypes
    <3>3. adder' \in [Paths -> AddStages]
      BY <1>5 DEF seedInitialHeights, AddStages, LoopInv, LoopTypes
    <3>4. UNCHANGED <<tip, owed, seed, pc, links, next, from, new, found>>
      BY <2>2 DEF loopVars
    <3> QED
      BY <3>2, <3>3, <3>4 DEF LoopInv, LoopTypes
  <2>4. ASSUME NEW y \in Paths PROVE RowsSafe(y)'
    <3>1. CASE y = x
      BY <2>1, <2>2, <3>1, UpdateKeepsRows DEF LoopInv, LoopTypes, RowsSafe, Safe, HasRow, Heights
    <3>2. CASE y # x
      BY <2>2, <3>2 DEF LoopInv, LoopTypes, RowsSafe, Safe, HasRow, Heights
    <3> QED
      BY <3>1, <3>2
  <2>5. \A y \in NewPaths : SeedSafe(y)'
    BY <1>5, <2>2 DEF LoopInv, LoopTypes, SeedSafe, Safe, seedInitialHeights, Paths
  <2> QED
    BY <2>2, <2>3, <2>4, <2>5 DEF LoopInv, RoundSafe, Safe, AtLink, Current, loopVars
<1> QED
  BY <1>1, <1>2, <1>3, <1>4, <1>5

\* The rows of a path appear, and disappear.
LEMMA RowsKeep ==
  ASSUME LoopInv, NEW x \in Paths,
         RemovePath(x) \/ \E a \in Procs \union NewPaths : InsertRow(a, x)
  PROVE  LoopInv'
<1>1. UNCHANGED <<tip, owed, adder, seed, loopVars>>
  BY DEF RemovePath, InsertRow, chainVars, addVars
<1>2. rows[x] \in Seq(Nat) /\ (rows' = [rows EXCEPT ![x] = <<>>] \/ rows' = [rows EXCEPT ![x] = Append(rows[x], 0)])
  BY DEF RemovePath, InsertRow, LoopInv, LoopTypes
<1>3. LoopTypes'
  <2>1. <<>> \in Seq(Nat) /\ Append(rows[x], 0) \in Seq(Nat)
    BY <1>2, InsertKeepsRows
  <2>2. rows' \in [Paths -> Seq(Nat)]
    BY <1>2, <2>1 DEF LoopInv, LoopTypes
  <2> QED
    BY <1>1, <2>2 DEF LoopInv, LoopTypes, loopVars
<1>4. ASSUME NEW y \in Paths PROVE RowsSafe(y)'
  <2>1. CASE y = x /\ rows' = [rows EXCEPT ![x] = <<>>]
    BY <2>1, <1>1 DEF LoopInv, LoopTypes, RowsSafe, HasRow
  <2>2. CASE y = x /\ rows' = [rows EXCEPT ![x] = Append(rows[x], 0)]
    <3>1. /\ rows'[x] = Append(rows[x], 0) /\ rows[x] \in Seq(Nat) /\ RowsSafe(x)
          /\ tip[x] \in Nat /\ owed[x] \subseteq Nat
      BY <2>2 DEF LoopInv, LoopTypes
    <3>2. Safe(x, 0)
      BY <3>1 DEF Safe
    <3> QED
      BY <1>1, <2>2, <3>1, <3>2, InsertKeepsRows DEF RowsSafe, HasRow, Heights, Safe
  <2>3. CASE y # x
    BY <1>1, <1>2, <2>3 DEF LoopInv, LoopTypes, RowsSafe, Safe, HasRow, Heights
  <2> QED
    BY <1>2, <2>1, <2>2, <2>3
<1> QED
  BY <1>1, <1>3, <1>4 DEF LoopInv, SeedSafe, RoundSafe, Safe, AtLink, Current, loopVars

\* Loading safe heights makes them safe to search from; what a search finds
\* is all that is below the height read with it; a round leaves nothing below
\* its height, whatever other processes relay beside it.
LEMMA RoundKeeps ==
  ASSUME LoopInv, NEW p \in Procs, NEW x \in Paths,
         Load(p, x) \/ BeginRound(p, x) \/ FinishRound(p, x)
  PROVE  LoopInv'
<1>1. UNCHANGED <<tip, rows, adder, seed, links, next>>
  BY DEF Load, BeginRound, FinishRound, dbVars, chainVars, addVars
<1>2. \A y \in Paths : owed'[y] \subseteq owed[y] /\ owed[y] \subseteq Nat /\ tip[y] \in Nat
  BY DEF Load, BeginRound, FinishRound, chainVars, LoopInv, LoopTypes
<1>3. LoopTypes'
  <2>1. CASE Load(p, x)
    <3>1. rows[x] \in Seq(Nat) /\ rows[x] # <<>>
      BY <2>1 DEF Load, HasRow, LoopInv, LoopTypes
    <3>2. Heights(x) \in Nat
      BY <3>1 DEF Heights
    <3> QED
      BY <2>1, <3>2 DEF LoopInv, LoopTypes, Load, Go, Stages, dbVars, chainVars, addVars
  <2>2. CASE BeginRound(p, x)
    BY <2>2 DEF LoopInv, LoopTypes, BeginRound, Go, Stages, dbVars, chainVars, addVars
  <2>3. CASE FinishRound(p, x)
    BY <2>3 DEF LoopInv, LoopTypes, FinishRound, Go, Stages, dbVars, addVars
  <2> QED
    BY <2>1, <2>2, <2>3
<1>4. \A y \in Paths : RowsSafe(y)'
  BY <1>1, <1>2 DEF LoopInv, RowsSafe, Safe, HasRow, Heights
<1>5. \A y \in NewPaths : SeedSafe(y)'
  BY <1>1, <1>2 DEF LoopInv, SeedSafe, Safe, Paths
<1>6. ASSUME NEW q \in Procs \ {p}, NEW y \in Paths PROVE RoundSafe(q, y)'
  <2>1. /\ pc'[q] = pc[q] /\ from'[q] = from[q] /\ new'[q] = new[q] /\ found'[q] = found[q]
        /\ RoundSafe(q, y)
    BY DEF Load, BeginRound, FinishRound, Go, LoopInv, LoopTypes
  <2> QED
    BY <1>1, <1>2, <2>1 DEF RoundSafe, Safe, AtLink, Current
<1>7. ASSUME NEW y \in Paths PROVE RoundSafe(p, y)'
  <2>1. CASE y # x
    BY <1>1, <2>1 DEF Load, BeginRound, FinishRound, RoundSafe, AtLink, Current
  <2>2. SUFFICES RoundSafe(p, x)'
    BY <2>1
  <2>3. CASE Load(p, x)
    <3>1. pc'[p] = "round" /\ from'[p] = Heights(x) /\ Safe(x, Heights(x)) /\ owed' = owed
      BY <2>3 DEF Load, Go, chainVars, LoopInv, LoopTypes, RowsSafe
    <3> QED
      BY <1>1, <3>1 DEF RoundSafe, Safe, AtLink
  <2>4. CASE BeginRound(p, x)
    <3>1. /\ pc'[p] = "relay" /\ new'[p] = tip[x] /\ owed' = owed
          /\ found'[p] = {h \in owed[x] : h >= from[p]} /\ Safe(x, from[p])
      BY <2>4 DEF BeginRound, Go, chainVars, LoopInv, LoopTypes, RoundSafe
    <3>2. \A e \in owed[x] : e >= from[p]
      BY <1>2, <3>1 DEF Safe, LoopInv, LoopTypes
    <3> QED
      BY <1>1, <1>2, <3>1, <3>2 DEF RoundSafe, AtLink
  <2>5. CASE FinishRound(p, x)
    <3>1. pc'[p] = "save" /\ new'[p] = new[p] /\ owed'[x] = owed[x] \ found[p]
      BY <2>5 DEF FinishRound, Go, LoopInv, LoopTypes
    <3>2. new[p] <= tip[x] /\ \A e \in owed[x] : e \in found[p] \/ new[p] <= e
      BY <2>5 DEF FinishRound, LoopInv, RoundSafe
    <3> QED
      BY <1>1, <3>1, <3>2 DEF RoundSafe, Safe, AtLink
  <2> QED
    BY <2>3, <2>4, <2>5
<1> QED
  BY <1>3, <1>4, <1>5, <1>6, <1>7 DEF LoopInv

\* What a process saves is safe, so its row stays safe.
LEMMA SaveKeeps ==
  ASSUME LoopInv, NEW p \in Procs, NEW x \in Paths, Save(p, x)
  PROVE  LoopInv'
<1>1. rows[x] \in Seq(Nat) /\ rows[x] # <<>> /\ new[p] \in Nat /\ Safe(x, new[p]) /\ RowsSafe(x)
  BY DEF LoopInv, LoopTypes, Save, HasRow, RoundSafe
<1>2. /\ rows' = [rows EXCEPT ![x] = [rows[x] EXCEPT ![1] = new[p]]] /\ pc' = [pc EXCEPT ![p] = "stale"]
      /\ UNCHANGED <<tip, owed, adder, seed, links, next, from, new, found>>
  BY DEF Save, updateRelayedHeights, Go, chainVars, addVars
<1>3. LoopTypes'
  <2>1. [rows[x] EXCEPT ![1] = new[p]] \in Seq(Nat)
    BY <1>1, UpdateKeepsRows
  <2>2. rows' \in [Paths -> Seq(Nat)]
    BY <1>2, <2>1 DEF LoopInv, LoopTypes
  <2> QED
    BY <1>2, <2>2 DEF LoopInv, LoopTypes, Stages
<1>4. ASSUME NEW y \in Paths PROVE RowsSafe(y)'
  <2>1. CASE y = x
    BY <1>1, <1>2, <2>1, UpdateKeepsRows DEF LoopInv, LoopTypes, RowsSafe, Safe, HasRow, Heights
  <2>2. CASE y # x
    BY <1>2, <2>2 DEF LoopInv, LoopTypes, RowsSafe, Safe, HasRow, Heights
  <2> QED
    BY <2>1, <2>2
<1>5. \A y \in NewPaths : SeedSafe(y)'
  BY <1>2 DEF LoopInv, SeedSafe, Safe
<1>6. ASSUME NEW q \in Procs, NEW y \in Paths PROVE RoundSafe(q, y)'
  BY <1>2 DEF LoopInv, LoopTypes, RoundSafe, Safe, AtLink, Current
<1> QED
  BY <1>3, <1>4, <1>5, <1>6 DEF LoopInv

\* A link that fails leaves only events that were owed before.
LEMMA LinkFailsKeeps ==
  ASSUME LoopInv, NEW p \in Procs, NEW S, LinkFails(p, S)
  PROVE  LoopInv'
<1>1. PICK x \in Paths : owed' = [owed EXCEPT ![x] = owed[x] \ S]
  BY DEF LinkFails
<1>2. /\ UNCHANGED <<tip, rows, adder, seed, links, next, from, new>>
      /\ pc' = [pc EXCEPT ![p] = "sleep"] /\ found' = [found EXCEPT ![p] = {}]
  BY DEF LinkFails, PassFails, Go, dbVars, addVars
<1>3. \A y \in Paths : owed'[y] \subseteq owed[y] /\ owed[y] \subseteq Nat
  BY <1>1 DEF LoopInv, LoopTypes
<1>4. LoopTypes'
  BY <1>1, <1>2 DEF LoopInv, LoopTypes, Stages
<1>5. \A y \in Paths : RowsSafe(y)'
  BY <1>2, <1>3 DEF LoopInv, RowsSafe, Safe, HasRow, Heights
<1>6. \A y \in NewPaths : SeedSafe(y)'
  BY <1>2, <1>3 DEF LoopInv, SeedSafe, Safe, Paths
<1>7. ASSUME NEW q \in Procs, NEW y \in Paths PROVE RoundSafe(q, y)'
  <2>1. CASE q = p
    BY <1>2, <2>1 DEF LoopInv, LoopTypes, RoundSafe, AtLink
  <2>2. CASE q # p
    BY <1>2, <1>3, <2>2 DEF LoopInv, LoopTypes, RoundSafe, Safe, AtLink, Current
  <2> QED
    BY <2>1, <2>2
<1> QED
  BY <1>4, <1>5, <1>6, <1>7 DEF LoopInv

-------------------------------------------------------------------------------
LEMMA LoopInvInit == Init => LoopInv
BY PathsAssumption DEF Init, LoopInv, LoopTypes, AddStages, Stages, RowsSafe, SeedSafe,
  RoundSafe, Safe, AtLink, HasRow, Heights, Paths

LEMMA LoopInvStep == LoopInv /\ [Next]_vars => LoopInv'
<1> SUFFICES ASSUME LoopInv, [Next]_vars PROVE LoopInv'
  OBVIOUS
<1>1. CASE UNCHANGED vars \/ \E a \in Procs \union NewPaths, x \in Paths : MissRow(a, x)
  <2>1. UNCHANGED <<chainVars, rows, addVars, loopVars>>
    BY <1>1 DEF vars, dbVars, MissRow
  <2> QED
    BY <2>1 DEF LoopInv, LoopTypes, RowsSafe, SeedSafe, RoundSafe, Safe, AtLink, Current,
      HasRow, Heights, chainVars, addVars, loopVars
<1>2. ASSUME NEW x \in Paths, Event(x) PROVE LoopInv'
  BY <1>2, EventKeeps
<1>3. ASSUME NEW x \in Paths,
             \/ AddExisting(x) \/ AddFails(x) \/ addRelayPath(x)
             \/ x \in NewPaths /\ (CaptureHeights(x) \/ CreateClients(x) \/ seedInitialHeights(x))
      PROVE  LoopInv'
  BY <1>3, AdderKeeps
<1>4. ASSUME NEW x \in Paths, RemovePath(x) \/ \E a \in Procs \union NewPaths : InsertRow(a, x)
      PROVE  LoopInv'
  BY <1>4, RowsKeep
<1>5. ASSUME NEW p \in Procs, NEW x \in Paths, Load(p, x) \/ BeginRound(p, x) \/ FinishRound(p, x)
      PROVE  LoopInv'
  BY <1>5, RoundKeeps
<1>6. ASSUME NEW p \in Procs, NEW x \in Paths, Save(p, x) PROVE LoopInv'
  BY <1>6, SaveKeeps
<1>7. ASSUME NEW p \in Procs, NEW S, LinkFails(p, S) PROVE LoopInv'
  BY <1>7, LinkFailsKeeps
<1>8. ASSUME NEW p \in Procs,
             \/ Wake(p) \/ ReadPaths(p) \/ Connect(p) \/ CleanUp(p) \/ PassEnds(p)
             \/ InsertRefused(p) \/ ConnectFails(p) \/ Crash(p)
             \/ \E x \in Paths : UpdateClients(p, x)
      PROVE  LoopInv'
  <2>1. UNCHANGED <<tip, owed, rows, adder, seed>>
    BY <1>8 DEF Wake, ReadPaths, Connect, CleanUp, PassEnds, InsertRefused, ConnectFails, Crash,
      UpdateClients, InitFails, PassFails, dbVars, chainVars, addVars
  <2>2. /\ pc' \in [Procs -> Stages] /\ pc'[p] \notin {"round", "relay", "save"}
        /\ \A q \in Procs \ {p} : pc'[q] = pc[q]
    BY <1>8 DEF Wake, ReadPaths, Connect, CleanUp, PassEnds, InsertRefused, ConnectFails, Crash,
      UpdateClients, InitFails, PassFails, Go, Stages, LoopInv, LoopTypes
  <2>3. /\ links' = [q \in Procs |-> links'[q]] /\ next' = [q \in Procs |-> next'[q]]
        /\ found' \in [Procs -> SUBSET Nat] /\ UNCHANGED <<from, new>>
        /\ \A q \in Procs \ {p} : links'[q] = links[q] /\ next'[q] = next[q] /\ found'[q] = found[q]
    BY <1>8 DEF Wake, ReadPaths, Connect, CleanUp, PassEnds, InsertRefused, ConnectFails, Crash,
      UpdateClients, InitFails, PassFails, LoopInv, LoopTypes
  <2>4. LoopTypes'
    BY <2>1, <2>2, <2>3 DEF LoopInv, LoopTypes
  <2> QED
    BY <2>1, <2>2, <2>3, <2>4, ProcessMoves
<1> QED
  <2>1. NewPaths \subseteq Paths
    BY DEF Paths
  <2> QED
    BY <1>1, <1>2, <1>3, <1>4, <1>5, <1>6, <1>7, <1>8, <2>1 DEF Next, AddStep, LoopStep, Failure

LEMMA LoopInvAlways == Spec => []LoopInv
BY LoopInvInit, LoopInvStep, PTL DEF Spec

\* No path's saved heights are ever above an event that is still to be
\* relayed: restarting from the database, as relayerLoop and init do, loses
\* nothing, whoever wrote the heights last.
THEOREM NothingIsSkipped == Spec => []NothingSkipped
<1>1. LoopInv => NothingSkipped
  BY DEF LoopInv, RowsSafe, Safe, NothingSkipped
<1> QED
  BY <1>1, LoopInvAlways, PTL

\* Rows that getRelayedHeights inserted twice for a path do no harm: only the
\* one it reads first is ever updated.
THEOREM SpareRowsKeepZero == Spec => []SpareRowsStayZero
<1>1. LoopInv => SpareRowsStayZero
  BY DEF LoopInv, RowsSafe, SpareRowsStayZero
<1> QED
  BY <1>1, LoopInvAlways, PTL

-------------------------------------------------------------------------------
(***************************************************************************)
(* The types.  What LoopInv needs of them is proved with it; the rest says *)
(* that lists of paths stay lists of paths, wherever a process drops some. *)
(***************************************************************************)

\* A set of numbers that has any has a least,
LEMMA Least ==
  ASSUME NEW B, B \subseteq Nat, B # {}
  PROVE  \E n \in B : \A m \in B : n <= m
<1> DEFINE R == {ss \in Nat \X Nat : ss[1] < ss[2]}
<1>1. IsWellFoundedOn(R, Nat)
  BY NatLessThanWellFounded DEF OpToRel
<1>2. PICK n \in B : \A m \in B : <<m, n>> \notin R
  <2> HIDE DEF R
  <2> QED
    BY <1>1, WFMin
<1>3. ASSUME NEW m \in B PROVE n <= m
  <2>1. m \in Nat /\ n \in Nat
    OBVIOUS
  <2>2. <<m, n>> \in Nat \X Nat /\ <<m, n>>[1] = m /\ <<m, n>>[2] = n
    BY <2>1
  <2>3. m < n => <<m, n>> \in R
    BY <2>2
  <2>4. ~(m < n)
    BY <1>2, <2>3
  <2> QED
    BY <2>1, <2>4
<1> QED
  BY <1>3

\* so what 0 has, and a number whenever the one before has it, they all have.
LEMMA UpTo ==
  ASSUME NEW n \in Nat, NEW G, 0 \in G, \A i \in 1..n : i - 1 \in G => i \in G
  PROVE  0..n \subseteq G
<1> DEFINE Bad == (0..n) \ G
<1>1. Bad \subseteq Nat
  OBVIOUS
<1> SUFFICES ASSUME Bad # {} PROVE FALSE
  OBVIOUS
<1>2. PICK i \in Bad : \A j \in Bad : i <= j
  <2> HIDE DEF Bad
  <2> QED
    BY <1>1, Least
<1>3. i \in 0..n /\ i \notin G /\ i # 0
  OBVIOUS
<1>4. i \in 1..n /\ i - 1 \in 0..n /\ ~(i <= i - 1)
  BY <1>3
<1>5. i - 1 \in G
  BY <1>2, <1>4
<1> QED
  BY <1>3, <1>4, <1>5

\* What is left of a sequence when members are taken out is a sequence: the
\* function Without defines by recursion exists, for longer and longer parts
\* of the sequence, and its values are sequences one after the other.
LEMMA WithoutType ==
  ASSUME NEW T, NEW s \in Seq(T), NEW S
  PROVE  Without(s, S) \in Seq(T)
<1> DEFINE Step(g, i) == IF i = 0 THEN <<>> ELSE IF s[i] \in S THEN g[i - 1] ELSE Append(g[i - 1], s[i])
           From(n) == {g \in [0..n -> Seq(T)] : \A i \in 0..n : g[i] = Step(g, i)}
           Some == {n \in Nat : \E g \in [0..n -> Seq(T)] : \A i \in 0..n : g[i] = Step(g, i)}
<1>1. Len(s) \in Nat /\ \A i \in 1..Len(s) : s[i] \in T
  OBVIOUS
<1>2. 0 \in Some
  <2> DEFINE z == [i \in 0..0 |-> <<>>]
  <2>1. z \in [0..0 -> Seq(T)] /\ \A i \in 0..0 : i = 0 /\ z[i] = <<>>
    OBVIOUS
  <2> QED
    BY <2>1
<1>3. ASSUME NEW n \in 1..Len(s), n - 1 \in Some PROVE n \in Some
  <2>1. PICK g \in [0..(n - 1) -> Seq(T)] : \A i \in 0..(n - 1) : g[i] = Step(g, i)
    BY <1>3
  <2> DEFINE h == [i \in 0..n |-> IF i = n THEN Step(g, n) ELSE g[i]]
  <2>2. n \in Nat /\ n # 0 /\ n - 1 \in 0..(n - 1) /\ n - 1 \in 0..n /\ n - 1 # n /\ n \in 0..n
    BY <1>1
  <2>3. g[n - 1] \in Seq(T) /\ s[n] \in T
    BY <1>1, <2>2
  <2>4. Step(g, n) \in Seq(T)
    BY <2>2, <2>3
  <2>5. ASSUME NEW i \in 0..n, i # n
        PROVE  i \in 0..(n - 1) /\ (i # 0 => i - 1 \in 0..(n - 1) /\ i - 1 # n /\ i - 1 \in 0..n)
    BY <2>2, <2>5
  <2>6. \A i \in 0..(n - 1) : h[i] = g[i]
    <3>1. \A i \in 0..(n - 1) : i \in 0..n /\ i # n
      BY <2>2
    <3> QED
      BY <3>1
  <2>7. h \in [0..n -> Seq(T)]
    <3> HIDE DEF Step
    <3> QED
      BY <2>4, <2>5
  <2>8. ASSUME NEW i \in 0..n PROVE h[i] = Step(h, i)
    <3> HIDE DEF h
    <3>1. CASE i = n
      <4>1. h[n - 1] = g[n - 1]
        BY <2>2, <2>6
      <4>2. Step(h, n) = Step(g, n)
        BY <4>1, <2>2
      <4>3. h[n] = Step(g, n)
        BY <2>2 DEF h
      <4> QED
        BY <3>1, <4>2, <4>3
    <3>2. CASE i # n
      <4>1. i \in 0..(n - 1)
        BY <2>5, <3>2
      <4>2. h[i] = g[i] /\ g[i] = Step(g, i)
        BY <4>1, <2>1, <2>6
      <4>3. Step(h, i) = Step(g, i)
        <5>1. CASE i = 0
          BY <5>1
        <5>2. CASE i # 0
          <6>1. h[i - 1] = g[i - 1]
            BY <5>2, <2>5, <3>2, <2>6
          <6> QED
            BY <6>1, <5>2
        <5> QED
          BY <5>1, <5>2
      <4> QED
        BY <4>2, <4>3
    <3> QED
      BY <3>1, <3>2
  <2> HIDE DEF h, Step
  <2> QED
    BY <2>2, <2>7, <2>8
<1>4. Len(s) \in Some
  <2> HIDE DEF Some
  <2>1. Len(s) \in 0..Len(s)
    BY <1>1
  <2> QED
    BY <1>1, <1>2, <1>3, <2>1, UpTo
<1>5. PICK g \in [0..Len(s) -> Seq(T)] : \A i \in 0..Len(s) : g[i] = Step(g, i)
  BY <1>4
<1> DEFINE rest == CHOOSE f : f = [i \in 0..Len(s) |-> Step(f, i)]
<1>6. g = [i \in 0..Len(s) |-> Step(g, i)]
  <2> HIDE DEF Step
  <2> QED
    BY <1>5
<1>7. rest = [i \in 0..Len(s) |-> Step(rest, i)]
  <2> HIDE DEF Step
  <2> QED
    BY <1>6
<1>8. ASSUME NEW i \in 0..Len(s) PROVE rest[i] = Step(rest, i)
  <2> HIDE DEF rest, Step
  <2> QED
    BY <1>7
<1> DEFINE Good == {n \in 0..Len(s) : rest[n] \in Seq(T)}
<1>9. 0 \in Good
  <2> HIDE DEF rest
  <2>1. 0 \in 0..Len(s)
    BY <1>1
  <2>2. rest[0] = <<>>
    BY <2>1, <1>8
  <2>3. <<>> \in Seq(T)
    OBVIOUS
  <2>4. rest[0] \in Seq(T)
    <3> HIDE DEF Step
    <3> QED
      BY <2>2, <2>3
  <2> QED
    BY <2>1, <2>4
<1>10. ASSUME NEW n \in 1..Len(s), n - 1 \in Good PROVE n \in Good
  <2> HIDE DEF rest
  <2>1. n \in 0..Len(s) /\ n # 0
    BY <1>1
  <2>2. rest[n - 1] \in Seq(T) /\ s[n] \in T
    BY <1>1, <1>10
  <2>3. rest[n] = Step(rest, n)
    BY <2>1, <1>8
  <2>4. rest[n] \in Seq(T)
    BY <2>1, <2>2, <2>3
  <2> QED
    BY <2>1, <2>4
<1>11. Len(s) \in Good
  <2> HIDE DEF Good
  <2>1. Len(s) \in 0..Len(s)
    BY <1>1
  <2> QED
    BY <1>1, <1>9, <1>10, <2>1, UpTo
<1>12. rest[Len(s)] \in Seq(T)
  <2> HIDE DEF rest
  <2> QED
    BY <1>11
<1> QED
  BY <1>12 DEF Without
\* The part of TypeOK that LoopTypes leaves out.
RestTypes ==
  /\ \A x \in Paths : tip[x] # 0
  /\ table \in Seq(Paths)
  /\ todo \in [Procs -> Seq(Paths)]
  /\ known \in [Procs -> SUBSET Paths]
  /\ links \in [Procs -> Seq(Paths)]
  /\ next \in [Procs -> Nat \ {0}]
  /\ missing \in [Procs \union NewPaths -> BOOLEAN]
  /\ faults \in Nat

LEMMA RestTypesInit == Init => RestTypes
<1> SUFFICES ASSUME Init PROVE RestTypes
  OBVIOUS
<1>1. <<>> \in Seq(Paths)
  OBVIOUS
<1> QED
  BY <1>1 DEF Init, RestTypes

\* Commands append to the table, an operator takes a path out of it.
LEMMA TableKeepsTypes ==
  ASSUME LoopInv, RestTypes, NEW x \in Paths,
         \/ Event(x) \/ AddExisting(x) \/ RemovePath(x)
         \/ x \in NewPaths /\ (CaptureHeights(x) \/ CreateClients(x) \/ addRelayPath(x))
         \/ x \in NewPaths /\ (seedInitialHeights(x) \/ AddFails(x))
  PROVE  RestTypes'
<1>1. UNCHANGED loopVars
  BY DEF Event, AddExisting, RemovePath, CaptureHeights, CreateClients, addRelayPath,
    seedInitialHeights, AddFails
<1>2. \A y \in Paths : tip'[y] # 0
  BY DEF Event, AddExisting, RemovePath, CaptureHeights, CreateClients, addRelayPath,
    seedInitialHeights, AddFails, chainVars, LoopInv, LoopTypes, RestTypes
<1>3. table' = table \/ table' = Append(table, x) \/ table' = Without(table, {x})
  BY DEF Event, AddExisting, RemovePath, CaptureHeights, CreateClients, addRelayPath,
    seedInitialHeights, AddFails, dbVars
<1>4. table' \in Seq(Paths)
  <2>1. table \in Seq(Paths)
    BY DEF RestTypes
  <2>2. Append(table, x) \in Seq(Paths)
    BY <2>1
  <2>3. Without(table, {x}) \in Seq(Paths)
    BY <2>1, WithoutType
  <2> QED
    BY <1>3, <2>1, <2>2, <2>3
<1>5. missing' = missing \/ missing' = [missing EXCEPT ![x] = FALSE]
  BY DEF Event, AddExisting, RemovePath, CaptureHeights, CreateClients, addRelayPath,
    seedInitialHeights, AddFails
<1>6. missing' \in [Procs \union NewPaths -> BOOLEAN]
  BY <1>5 DEF RestTypes
<1>7. faults' = faults \/ faults' = faults + 1
  BY DEF Event, AddExisting, RemovePath, CaptureHeights, CreateClients, addRelayPath,
    seedInitialHeights, AddFails, Fault
<1>8. faults' \in Nat
  BY <1>7 DEF RestTypes
<1> QED
  BY <1>1, <1>2, <1>4, <1>6, <1>8 DEF RestTypes, loopVars

\* A process takes its list of paths from the table, moves them to its links
\* one by one, and drops links from there.
LEMMA ListsKeepTypes ==
  ASSUME RestTypes, NEW p \in Procs, ReadPaths(p) \/ Connect(p) \/ CleanUp(p) \/ Crash(p)
  PROVE  RestTypes'
<1>1. /\ table \in Seq(Paths) /\ todo[p] \in Seq(Paths) /\ links[p] \in Seq(Paths)
      /\ <<>> \in Seq(Paths) /\ ToSet(table) \subseteq Paths
  BY DEF RestTypes, ToSet
<1>2. UNCHANGED <<tip, table>>
  BY DEF ReadPaths, Connect, CleanUp, Crash, chainVars, dbVars
<1>3. ASSUME NEW S PROVE Without(table, S) \in Seq(Paths) /\ Without(links[p], S) \in Seq(Paths)
  BY <1>1, WithoutType
<1>4. CASE ReadPaths(p)
  <2>1. todo' = todo \/ todo' = [todo EXCEPT ![p] = Without(table, ToSet(links[p]))]
    BY <1>4 DEF ReadPaths
  <2>2. todo' \in [Procs -> Seq(Paths)]
    <3>1. Without(table, ToSet(links[p])) \in Seq(Paths) /\ todo \in [Procs -> Seq(Paths)]
      BY <1>3 DEF RestTypes
    <3> QED
      BY <2>1, <3>1
  <2>3. known' \in [Procs -> SUBSET Paths] /\ next' \in [Procs -> Nat \ {0}]
    BY <1>1, <1>4 DEF ReadPaths, RestTypes
  <2>4. UNCHANGED <<links, missing, faults>>
    BY <1>4 DEF ReadPaths
  <2> QED
    BY <1>2, <2>2, <2>3, <2>4 DEF RestTypes
<1>5. CASE Connect(p)
  <2>1. todo[p] # <<>> /\ todo' = [todo EXCEPT ![p] = Tail(todo[p])]
        /\ links' = [links EXCEPT ![p] = Append(links[p], Head(todo[p]))]
    BY <1>5 DEF Connect
  <2>2. Tail(todo[p]) \in Seq(Paths) /\ Head(todo[p]) \in Paths
    BY <1>1, <2>1
  <2>3. Append(links[p], Head(todo[p])) \in Seq(Paths)
    BY <1>1, <2>2
  <2>4. todo' \in [Procs -> Seq(Paths)] /\ links' \in [Procs -> Seq(Paths)]
    BY <2>1, <2>2, <2>3 DEF RestTypes
  <2>5. UNCHANGED <<known, next, missing, faults>>
    BY <1>5 DEF Connect
  <2> QED
    BY <1>2, <2>4, <2>5 DEF RestTypes
<1>6. CASE CleanUp(p)
  <2>1. links' = [links EXCEPT ![p] = Without(links[p], ToSet(links[p]) \ known[p])]
    BY <1>6 DEF CleanUp
  <2>2. links' \in [Procs -> Seq(Paths)]
    BY <1>3, <2>1 DEF RestTypes
  <2>3. UNCHANGED <<todo, known, next, missing, faults>>
    BY <1>6 DEF CleanUp
  <2> QED
    BY <1>2, <2>2, <2>3 DEF RestTypes
<1>7. CASE Crash(p)
  <2>1. todo' \in [Procs -> Seq(Paths)] /\ links' \in [Procs -> Seq(Paths)]
    BY <1>1, <1>7 DEF Crash, RestTypes
  <2>2. known' \in [Procs -> SUBSET Paths] /\ next' \in [Procs -> Nat \ {0}]
    BY <1>7 DEF Crash, RestTypes
  <2>3. missing' \in [Procs \union NewPaths -> BOOLEAN] /\ faults' \in Nat
    BY <1>7 DEF Crash, Fault, RestTypes
  <2> QED
    BY <1>2, <2>1, <2>2, <2>3 DEF RestTypes
<1> QED
  BY <1>4, <1>5, <1>6, <1>7

\* The other steps of a process at most forget the paths it had still to read.
LEMMA LoopKeepsTypes ==
  ASSUME RestTypes, NEW p \in Procs,
         \/ Wake(p) \/ PassEnds(p) \/ InsertRefused(p) \/ ConnectFails(p)
         \/ \E S : LinkFails(p, S)
         \/ \E x \in Paths : Load(p, x) \/ BeginRound(p, x) \/ FinishRound(p, x) \/ Save(p, x)
         \/ \E x \in Paths : UpdateClients(p, x)
  PROVE  RestTypes'
<1>1. UNCHANGED <<tip, table, known, links>>
  BY DEF Wake, PassEnds, InsertRefused, ConnectFails, LinkFails, Load, BeginRound, FinishRound, Save,
    UpdateClients, InitFails, PassFails, chainVars, dbVars
<1>2. todo' = todo \/ todo' = [todo EXCEPT ![p] = <<>>]
  BY DEF Wake, PassEnds, InsertRefused, ConnectFails, LinkFails, Load, BeginRound, FinishRound, Save,
    UpdateClients, InitFails, PassFails
<1>3. todo' \in [Procs -> Seq(Paths)]
  <2>1. <<>> \in Seq(Paths)
    OBVIOUS
  <2> QED
    BY <1>2, <2>1 DEF RestTypes
<1>4. next' = next \/ next' = [next EXCEPT ![p] = next[p] + 1]
  BY DEF Wake, PassEnds, InsertRefused, ConnectFails, LinkFails, Load, BeginRound, FinishRound, Save,
    UpdateClients, InitFails, PassFails
<1>5. next' \in [Procs -> Nat \ {0}]
  <2>1. next \in [Procs -> Nat \ {0}] /\ next[p] + 1 \in Nat \ {0}
    BY DEF RestTypes
  <2> QED
    BY <1>4, <2>1
<1>6. missing' \in [Procs \union NewPaths -> BOOLEAN]
  BY DEF Wake, PassEnds, InsertRefused, ConnectFails, LinkFails, Load, BeginRound, FinishRound, Save,
    UpdateClients, InitFails, PassFails, RestTypes
<1>7. faults' \in Nat
  BY DEF Wake, PassEnds, InsertRefused, ConnectFails, LinkFails, Load, BeginRound, FinishRound, Save,
    UpdateClients, InitFails, PassFails, Fault, RestTypes
<1> QED
  BY <1>1, <1>3, <1>5, <1>6, <1>7 DEF RestTypes

LEMMA RestTypesStep == LoopInv /\ RestTypes /\ [Next]_vars => RestTypes'
<1> SUFFICES ASSUME LoopInv, RestTypes, [Next]_vars PROVE RestTypes'
  OBVIOUS
<1>1. CASE UNCHANGED vars
  BY <1>1 DEF vars, dbVars, chainVars, loopVars, RestTypes
<1>2. ASSUME NEW a \in Procs \union NewPaths, NEW x \in Paths, MissRow(a, x) \/ InsertRow(a, x)
      PROVE  RestTypes'
  <2>1. UNCHANGED <<tip, table, todo, known, links, next, faults>>
    BY <1>2 DEF MissRow, InsertRow, dbVars, chainVars, loopVars
  <2>2. missing' \in [Procs \union NewPaths -> BOOLEAN]
    BY <1>2 DEF MissRow, InsertRow, RestTypes
  <2> QED
    BY <2>1, <2>2 DEF RestTypes
<1>3. ASSUME NEW x \in Paths,
             \/ Event(x) \/ AddExisting(x) \/ RemovePath(x)
             \/ x \in NewPaths /\ (CaptureHeights(x) \/ CreateClients(x) \/ addRelayPath(x))
             \/ x \in NewPaths /\ (seedInitialHeights(x) \/ AddFails(x))
      PROVE  RestTypes'
  BY <1>3, TableKeepsTypes
<1>4. ASSUME NEW p \in Procs, ReadPaths(p) \/ Connect(p) \/ CleanUp(p) \/ Crash(p)
      PROVE  RestTypes'
  BY <1>4, ListsKeepTypes
<1>5. ASSUME NEW p \in Procs,
             \/ Wake(p) \/ PassEnds(p) \/ InsertRefused(p) \/ ConnectFails(p)
             \/ \E S : LinkFails(p, S)
             \/ \E x \in Paths : Load(p, x) \/ BeginRound(p, x) \/ FinishRound(p, x) \/ Save(p, x)
             \/ \E x \in Paths : UpdateClients(p, x)
      PROVE  RestTypes'
  BY <1>5, LoopKeepsTypes
<1> QED
  <2>1. NewPaths \subseteq Paths
    BY DEF Paths
  <2> QED
    BY <1>1, <1>2, <1>3, <1>4, <1>5, <2>1 DEF Next, AddStep, LoopStep, Failure

\* Every variable keeps its type: the links a process has built, and the lists
\* init takes paths out of, stay lists of paths of the database, whatever the
\* commands add to it and an operator removes meanwhile.
THEOREM TypeCorrect == Spec => []TypeOK
<1>1. LoopInv /\ RestTypes => TypeOK
  BY DEF LoopInv, LoopTypes, RestTypes, TypeOK
<1> QED
  BY <1>1, LoopInvAlways, RestTypesInit, RestTypesStep, PTL DEF Spec

==============================================================================
