----------------------------- MODULE RelayerLoop -----------------------------
(***************************************************************************)
(* The loop of relayer.ts over the paths of one database: relayer          *)
(* processes that read the paths, build links, load the heights of each,   *)
(* relay it and save the heights of its round, while add-path commands in  *)
(* processes of their own create paths and seed their heights.             *)
(*                                                                         *)
(* Abstractions.  A path has one height instead of four and its chains one *)
(* clock; a round of a link is what LinkV2 shows of it: it takes on every  *)
(* event from the height it was given, and returns the height it read when *)
(* it began.  Backoff and poll are the wait in "sleep".                    *)
(***************************************************************************)
EXTENDS Naturals, Sequences, SequencesExt

CONSTANTS
  Procs,      \* relayer processes on the database
  OldPaths,   \* paths added with the ids of existing clients
  NewPaths,   \* paths whose clients the relayer creates
  Removable,  \* paths an operator may delete from the database
  MaxHeight,  \* blocks with an event, per path
  MaxFaults   \* calls that throw, and crashes

Paths == OldPaths \union NewPaths

ASSUME PathsAssumption ==
  /\ OldPaths \intersect NewPaths = {}
  /\ Procs \intersect Paths = {}
  /\ Removable \subseteq Paths
  /\ MaxHeight \in Nat
  /\ MaxFaults \in Nat

VARIABLES
  tip,      \* height of a path's chains
  owed,     \* heights of the events of a path not relayed yet
  table,    \* relayPaths, in the order of their ids
  rows,     \* relayedHeights: the rows of each path, in the order of their ids
  adder,    \* how far the command that adds a path has come
  seed,     \* initHeight of that command
  pc,       \* where a process is in its loop
  todo,     \* paths init has still to build a link for
  known,    \* paths init has read
  links,    \* the links map of a process, in insertion order
  next,     \* the link the loop is at
  from,     \* heights the loop loaded for it
  new,      \* heights its round will return
  found,    \* events its round has taken on
  missing,  \* a SELECT of getRelayedHeights found no row
  faults

dbVars == <<table, rows>>
chainVars == <<tip, owed>>
addVars == <<adder, seed>>
loopVars == <<pc, todo, known, links, next, from, new, found>>
vars == <<dbVars, chainVars, addVars, loopVars, missing, faults>>

Stages == {"sleep", "init", "connect", "load", "round", "relay", "save", "stale"}
AddStages == {"new", "captured", "created", "seed", "done"}

TypeOK ==
  /\ tip \in [Paths -> Nat \ {0}]
  /\ owed \in [Paths -> SUBSET Nat]
  /\ table \in Seq(Paths)
  /\ rows \in [Paths -> Seq(Nat)]
  /\ adder \in [Paths -> AddStages]
  /\ seed \in [NewPaths -> Nat]
  /\ pc \in [Procs -> Stages]
  /\ todo \in [Procs -> Seq(Paths)]
  /\ known \in [Procs -> SUBSET Paths]
  /\ links \in [Procs -> Seq(Paths)]
  /\ next \in [Procs -> Nat \ {0}]
  /\ from \in [Procs -> Nat]
  /\ new \in [Procs -> Nat]
  /\ found \in [Procs -> SUBSET Nat]
  /\ missing \in [Procs \union NewPaths -> BOOLEAN]
  /\ faults \in Nat

Init ==
  /\ tip = [x \in Paths |-> 1]
  /\ owed = [x \in Paths |-> {}]
  /\ table = <<>>
  /\ rows = [x \in Paths |-> <<>>]
  /\ adder = [x \in Paths |-> "new"]
  /\ seed = [x \in NewPaths |-> 0]
  /\ pc = [p \in Procs |-> "sleep"]
  /\ todo = [p \in Procs |-> <<>>]
  /\ known = [p \in Procs |-> {}]
  /\ links = [p \in Procs |-> <<>>]
  /\ next = [p \in Procs |-> 1]
  /\ from = [p \in Procs |-> 0]
  /\ new = [p \in Procs |-> 0]
  /\ found = [p \in Procs |-> {}]
  /\ missing = [x \in Procs \union NewPaths |-> FALSE]
  /\ faults = 0

\* A sequence without the members of a set.
Without(s, S) ==
  LET rest[i \in 0..Len(s)] ==
        IF i = 0 THEN <<>> ELSE IF s[i] \in S THEN rest[i - 1] ELSE Append(rest[i - 1], s[i])
  IN  rest[Len(s)]

InTable(x) == \E i \in DOMAIN table : table[i] = x
Fault == faults < MaxFaults /\ faults' = faults + 1

\* A block of a path's chains with an event in it.  A new path has none
\* before its clients are created.
Event(x) ==
  /\ tip[x] <= MaxHeight
  /\ x \in NewPaths => adder[x] \notin {"new", "captured"}
  /\ tip' = [tip EXCEPT ![x] = @ + 1]
  /\ owed' = [owed EXCEPT ![x] = @ \union {tip[x] + 1}]
  /\ UNCHANGED <<dbVars, addVars, loopVars, missing, faults>>

-------------------------------------------------------------------------------
(***************************************************************************)
(* relayedHeights.  getRelayedHeights selects the first row of a path and  *)
(* inserts one of zeros when there is none; no key stops two processes     *)
(* from doing so at once.  updateRelayedHeights does the same, and then    *)
(* updates the row it selected.                                            *)
(***************************************************************************)

HasRow(x) == rows[x] # <<>>
Heights(x) == rows[x][1]

\* Slip: the row inserted last is updated, not the one that is read.
UpdateLastRow(x, h) == rows' = [rows EXCEPT ![x][Len(rows[x])] = h]

updateRelayedHeights(x, h) == rows' = [rows EXCEPT ![x][1] = h]

\* The path whose heights a process, or a command, is about to get.
Getting(a, x) ==
  \/ a \in Procs /\ pc[a] = "connect" /\ todo[a] # <<>> /\ x = Head(todo[a])
  \/ a \in Procs /\ pc[a] \in {"load", "save"} /\ next[a] <= Len(links[a]) /\ x = links[a][next[a]]
  \/ a \in NewPaths /\ adder[a] = "seed" /\ x = a

MissRow(a, x) ==
  /\ Getting(a, x)
  /\ ~missing[a] /\ ~HasRow(x)
  /\ missing' = [missing EXCEPT ![a] = TRUE]
  /\ UNCHANGED <<dbVars, chainVars, addVars, loopVars, faults>>

InsertRow(a, x) ==
  /\ Getting(a, x)
  /\ missing[a] /\ InTable(x)
  /\ rows' = [rows EXCEPT ![x] = Append(@, 0)]
  /\ missing' = [missing EXCEPT ![a] = FALSE]
  /\ UNCHANGED <<table, chainVars, addVars, loopVars, faults>>

-------------------------------------------------------------------------------
(***************************************************************************)
(* Adding paths.                                                           *)
(***************************************************************************)

\* addExistingRelayPath.
AddExisting(x) ==
  /\ x \in OldPaths /\ adder[x] = "new"
  /\ table' = Append(table, x)
  /\ adder' = [adder EXCEPT ![x] = "done"]
  /\ UNCHANGED <<rows, chainVars, seed, loopVars, missing, faults>>

\* addNewRelayPath reads both heights first,
CaptureHeights(x) ==
  /\ x \in NewPaths /\ adder[x] = "new"
  /\ seed' = [seed EXCEPT ![x] = tip[x]]
  /\ adder' = [adder EXCEPT ![x] = "captured"]
  /\ UNCHANGED <<dbVars, chainVars, loopVars, missing, faults>>

\* has the clients created in a later block,
CreateClients(x) ==
  /\ adder[x] = "captured"
  /\ tip' = [tip EXCEPT ![x] = @ + 1]
  /\ adder' = [adder EXCEPT ![x] = "created"]
  /\ UNCHANGED <<dbVars, owed, seed, loopVars, missing, faults>>

\* inserts the path,
addRelayPath(x) ==
  /\ adder[x] = "created"
  /\ table' = Append(table, x)
  /\ adder' = [adder EXCEPT ![x] = "seed"]
  /\ UNCHANGED <<rows, chainVars, seed, loopVars, missing, faults>>

\* and seeds its heights.
seedInitialHeights(x) ==
  /\ adder[x] = "seed" /\ ~missing[x] /\ HasRow(x)
  /\ updateRelayedHeights(x, seed[x])
  /\ adder' = [adder EXCEPT ![x] = "done"]
  /\ UNCHANGED <<table, chainVars, seed, loopVars, missing, faults>>

\* The command fails, or seeding does, which is only logged.
AddFails(x) ==
  /\ x \in NewPaths /\ adder[x] \notin {"new", "done"}
  /\ Fault
  /\ adder' = [adder EXCEPT ![x] = "done"]
  /\ missing' = [missing EXCEPT ![x] = FALSE]
  /\ UNCHANGED <<dbVars, chainVars, seed, loopVars>>

\* An operator deletes a path and its heights.  Its id is not used again.
RemovePath(x) ==
  /\ x \in Removable /\ InTable(x) /\ adder[x] = "done"
  /\ table' = Without(table, {x})
  /\ rows' = [rows EXCEPT ![x] = <<>>]
  /\ UNCHANGED <<chainVars, addVars, loopVars, missing, faults>>

-------------------------------------------------------------------------------
(***************************************************************************)
(* The loop of process p.                                                  *)
(***************************************************************************)

Go(p, stage) == pc' = [pc EXCEPT ![p] = stage]

\* The link the loop is at.
Current(p) == links[p][next[p]]
AtLink(p, stage, x) == pc[p] = stage /\ next[p] <= Len(links[p]) /\ x = Current(p)

Wake(p) ==
  /\ pc[p] = "sleep"
  /\ Go(p, "init")
  /\ UNCHANGED <<dbVars, chainVars, addVars, todo, known, links, next, from, new, found, missing, faults>>

\* init reads the paths, and returns at once when there is none.
ReadPaths(p) ==
  /\ pc[p] = "init"
  /\ known' = [known EXCEPT ![p] = ToSet(table)]
  /\ next' = [next EXCEPT ![p] = 1]
  /\ IF table = <<>>
     THEN Go(p, "load") /\ UNCHANGED todo
     ELSE /\ todo' = [todo EXCEPT ![p] = Without(table, ToSet(links[p]))]
          /\ Go(p, "connect")
  /\ UNCHANGED <<dbVars, chainVars, addVars, links, from, new, found, missing, faults>>

\* A link for the next path, once its heights have been got.
Connect(p) ==
  /\ pc[p] = "connect" /\ todo[p] # <<>>
  /\ ~missing[p] /\ HasRow(Head(todo[p]))
  /\ links' = [links EXCEPT ![p] = Append(@, Head(todo[p]))]
  /\ todo' = [todo EXCEPT ![p] = Tail(@)]
  /\ UNCHANGED <<dbVars, chainVars, addVars, pc, known, next, from, new, found, missing, faults>>

\* Links of paths that are gone are dropped.
CleanUp(p) ==
  /\ pc[p] = "connect" /\ todo[p] = <<>>
  /\ links' = [links EXCEPT ![p] = Without(@, ToSet(@) \ known[p])]
  /\ Go(p, "load")
  /\ UNCHANGED <<dbVars, chainVars, addVars, todo, known, next, from, new, found, missing, faults>>

\* Slip: the pass ends one link too early.
PassEndsEarly(p) ==
  /\ pc[p] = "load" /\ next[p] >= Len(links[p])
  /\ Go(p, "sleep")
  /\ UNCHANGED <<dbVars, chainVars, addVars, todo, known, links, next, from, new, found, missing, faults>>

PassEnds(p) ==
  /\ pc[p] = "load" /\ next[p] > Len(links[p])
  /\ Go(p, "sleep")
  /\ UNCHANGED <<dbVars, chainVars, addVars, todo, known, links, next, from, new, found, missing, faults>>

\* Slip: the search starts a block early, at the first block of a chain too.
LoadOneBelow(p, x) ==
  /\ AtLink(p, "load", x)
  /\ ~missing[p] /\ HasRow(x)
  /\ from' = [from EXCEPT ![p] = Heights(x) - 1]
  /\ Go(p, "round")
  /\ UNCHANGED <<dbVars, chainVars, addVars, todo, known, links, next, new, found, missing, faults>>

Load(p, x) ==
  /\ AtLink(p, "load", x)
  /\ ~missing[p] /\ HasRow(x)
  /\ from' = [from EXCEPT ![p] = Heights(x)]
  /\ Go(p, "round")
  /\ UNCHANGED <<dbVars, chainVars, addVars, todo, known, links, next, new, found, missing, faults>>

BeginRound(p, x) ==
  /\ AtLink(p, "round", x)
  /\ new' = [new EXCEPT ![p] = tip[x]]
  /\ found' = [found EXCEPT ![p] = {h \in owed[x] : h >= from[p]}]
  /\ Go(p, "relay")
  /\ UNCHANGED <<dbVars, chainVars, addVars, todo, known, links, next, from, missing, faults>>

FinishRound(p, x) ==
  /\ AtLink(p, "relay", x)
  /\ owed' = [owed EXCEPT ![x] = @ \ found[p]]
  /\ found' = [found EXCEPT ![p] = {}]
  /\ Go(p, "save")
  /\ UNCHANGED <<dbVars, tip, addVars, todo, known, links, next, from, new, missing, faults>>

\* Slip: the height saved is that at the end of the round.
SaveLatest(p, x) ==
  /\ AtLink(p, "save", x)
  /\ ~missing[p] /\ HasRow(x)
  /\ updateRelayedHeights(x, tip[x])
  /\ Go(p, "stale")
  /\ UNCHANGED <<table, chainVars, addVars, todo, known, links, next, from, new, found, missing, faults>>

Save(p, x) ==
  /\ AtLink(p, "save", x)
  /\ ~missing[p] /\ HasRow(x)
  /\ updateRelayedHeights(x, new[p])
  /\ Go(p, "stale")
  /\ UNCHANGED <<table, chainVars, addVars, todo, known, links, next, from, new, found, missing, faults>>

\* updateClientIfStale of both sides, and on to the next link.
UpdateClients(p, x) ==
  /\ AtLink(p, "stale", x)
  /\ next' = [next EXCEPT ![p] = @ + 1]
  /\ Go(p, "load")
  /\ UNCHANGED <<dbVars, chainVars, addVars, todo, known, links, from, new, found, missing, faults>>

\* init catches what is thrown in it, and the loop goes on with the links it has.
InitFails(p) ==
  /\ todo' = [todo EXCEPT ![p] = <<>>]
  /\ Go(p, "load")
  /\ missing' = [missing EXCEPT ![p] = FALSE]
  /\ UNCHANGED <<dbVars, chainVars, addVars, known, links, next, from, new, found>>

\* Anything else thrown ends the pass, whatever links were still to come.
PassFails(p) ==
  /\ found' = [found EXCEPT ![p] = {}]
  /\ Go(p, "sleep")
  /\ missing' = [missing EXCEPT ![p] = FALSE]
  /\ UNCHANGED <<dbVars, tip, addVars, todo, known, links, next, from, new>>

ConnectFails(p) == pc[p] = "connect" /\ Fault /\ InitFails(p)

\* A round that throws may have relayed some of what it took on.
LinkFails(p, S) ==
  /\ \E x \in Paths :
       /\ \E stage \in {"load", "round", "relay", "save", "stale"} : AtLink(p, stage, x)
       /\ owed' = [owed EXCEPT ![x] = @ \ S]
  /\ S \subseteq found[p]
  /\ Fault
  /\ PassFails(p)

\* The foreign key refuses heights for a path that is not in the table.
InsertRefused(p) ==
  /\ missing[p]
  /\ \E x \in Paths : Getting(p, x) /\ ~InTable(x)
  /\ \/ pc[p] = "connect" /\ InitFails(p)
     \/ pc[p] # "connect" /\ PassFails(p) /\ UNCHANGED owed
  /\ UNCHANGED faults

Crash(p) ==
  /\ Fault
  /\ pc' = [pc EXCEPT ![p] = "sleep"]
  /\ todo' = [todo EXCEPT ![p] = <<>>]
  /\ known' = [known EXCEPT ![p] = {}]
  /\ links' = [links EXCEPT ![p] = <<>>]
  /\ next' = [next EXCEPT ![p] = 1]
  /\ found' = [found EXCEPT ![p] = {}]
  /\ missing' = [missing EXCEPT ![p] = FALSE]
  /\ UNCHANGED <<dbVars, chainVars, addVars, from, new>>

-------------------------------------------------------------------------------
LoopStep(p) ==
  \/ Wake(p) \/ ReadPaths(p) \/ Connect(p) \/ CleanUp(p) \/ PassEnds(p) \/ InsertRefused(p)
  \/ \E x \in Paths :
       \/ MissRow(p, x) \/ InsertRow(p, x)
       \/ Load(p, x) \/ BeginRound(p, x) \/ FinishRound(p, x) \/ Save(p, x) \/ UpdateClients(p, x)

AddStep(x) ==
  \/ CaptureHeights(x) \/ CreateClients(x) \/ addRelayPath(x) \/ seedInitialHeights(x)
  \/ MissRow(x, x) \/ InsertRow(x, x)

Failure ==
  \/ \E x \in NewPaths : AddFails(x)
  \/ \E p \in Procs : ConnectFails(p) \/ Crash(p) \/ \E S \in SUBSET found[p] : LinkFails(p, S)

Next ==
  \/ \E x \in Paths : Event(x) \/ AddExisting(x) \/ RemovePath(x)
  \/ \E x \in NewPaths : AddStep(x)
  \/ \E p \in Procs : LoopStep(p)
  \/ Failure

Spec == Init /\ [][Next]_vars

\* A process that runs goes on with its pass: every await of it settles.
FairSpec == Spec /\ \A p \in Procs : WF_vars(LoopStep(p))

-------------------------------------------------------------------------------
(***************************************************************************)
(* Properties.                                                             *)
(***************************************************************************)

\* No path's saved heights are ever above an event that is still to be
\* relayed, whichever processes load, relay, seed and save them, in whatever
\* order, and whatever fails in between.
NothingSkipped == \A x \in Paths : HasRow(x) => \A h \in owed[x] : Heights(x) <= h

\* Rows two processes inserted for the same path do no harm: only the one
\* that is read is ever written.
SpareRowsStayZero == \A x \in Paths : \A i \in 2..Len(rows[x]) : rows[x][i] = 0

\* However often passes are cut short, and whichever process a path was added
\* by, every event of a path that stays in the database is relayed in the end.
EveryPathServed ==
  \A x \in Paths, h \in 2..MaxHeight + 1 :
    InTable(x) /\ h \in owed[x] ~> ~InTable(x) \/ h \notin owed[x]

==============================================================================
