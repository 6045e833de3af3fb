------------------------------ MODULE PathSetup ------------------------------
(***************************************************************************)
(* addNewRelayPath of relayer.ts from the first height it reads to the     *)
(* last message it sends: a pair of light clients, then for IBC v1 the     *)
(* connection handshake, for v2 the registration of counterparties, then   *)
(* the row of the path and its heights, and for v1 the channel handshake.  *)
(* Several commands run beside each other on the same two chains.          *)
(*                                                                         *)
(* Abstractions.  Each transaction is a block of its own.  Clients,        *)
(* connections and channels are numbered in the order a chain creates      *)
(* them.  Ports, versions and prefixes are the same everywhere; an update  *)
(* of a client is one transaction (ClientBisect has what it does).         *)
(***************************************************************************)
EXTENDS Naturals, Sequences, FiniteSets

CONSTANTS
  Attempts,   \* add-path commands
  Mixes,      \* the IBC versions they may be given together, 0 for not at all
  Prior,      \* light clients each chain has before
  MaxFaults   \* calls that throw, and updates by other relayers

ASSUME SetupAssumption ==
  /\ Mixes \subseteq [Attempts -> 0..2]
  /\ Prior \in [{"A", "B"} -> Nat]
  /\ MaxFaults \in Nat

VARIABLES
  height,   \* last committed block of each chain
  clients,  \* light clients of each chain
  ends,     \* connection and channel ends of each chain
  table,    \* rows of relayPaths
  rows,     \* heights seeded for them
  version,  \* the IBC version of each command
  pc,       \* the step a command is at
  prep,     \* how far it is with preparing that step
  own,      \* ids it read from its transactions' events, 0 before
  mark,     \* heights its waitOneBlock started from
  header,   \* header its proof is for
  floor,    \* initHeightA and initHeightB
  faults

chainVars == <<height, clients, ends>>
dbVars == <<table, rows>>
cmdVars == <<version, pc, prep, own, mark, header, floor>>
vars == <<chainVars, dbVars, cmdVars, faults>>

Sides == {"A", "B"}
Other(s) == IF s = "A" THEN "B" ELSE "A"
Kinds == {"conn", "chan"}
Zero == [s \in Sides |-> 0]

\* latest is the header a client knows, since the block of its last change,
\* born its first, peer the counterparty registered for it.
Client == [latest : Nat, since : Nat, born : Nat, peer : Nat]

\* on is what an end is built on: the client of a connection, the connection
\* of a channel.  peerOn is the client at the other end of a connection.
End == [on : Nat, peerOn : Nat, peer : Nat, state : {"INIT", "TRYOPEN", "OPEN"}, since : Nat]

Row == [version : {1, 2}, id : [Sides -> Nat]]

ProofSteps == {"connTry", "connAck", "connConfirm", "chanTry", "chanAck", "chanConfirm"}
Steps == ProofSteps \union
  {"heights", "clientB", "clientA", "blocks", "connInit", "registerB", "registerA",
   "save", "seed", "chanInit", "done", "failed"}

TypeOK ==
  /\ height \in [Sides -> Nat \ {0}]
  /\ clients \in [Sides -> Seq(Client)]
  /\ ends \in [Kinds -> [Sides -> Seq(End)]]
  /\ table \in [Attempts -> Row \union {<<>>}]
  /\ rows \in [Attempts -> [Sides -> Nat]]
  /\ version \in Mixes
  /\ pc \in [Attempts -> Steps]
  /\ prep \in [Attempts -> {"begin", "wait", "proof"}]
  /\ \A a \in Attempts, s \in Sides :
       /\ own[a].client[s] \in 0..Len(clients[s])
       /\ \A k \in Kinds : own[a][k][s] \in 0..Len(ends[k][s])
  /\ mark \in [Attempts -> [Sides -> Nat]]
  /\ header \in [Attempts -> Nat]
  /\ floor \in [Attempts -> [Sides -> Nat]]
  /\ faults \in 0..MaxFaults

Init ==
  /\ height = [s \in Sides |-> 1]
  /\ clients = [s \in Sides |-> [c \in 1..Prior[s] |->
       [latest |-> 1, since |-> 1, born |-> 1, peer |-> 0]]]
  /\ ends = [k \in Kinds |-> [s \in Sides |-> <<>>]]
  /\ table = [a \in Attempts |-> <<>>]
  /\ rows = [a \in Attempts |-> Zero]
  /\ version \in Mixes
  /\ pc = [a \in Attempts |-> IF version[a] = 0 THEN "done" ELSE "heights"]
  /\ prep = [a \in Attempts |-> "begin"]
  /\ own = [a \in Attempts |-> [client |-> Zero, conn |-> Zero, chan |-> Zero]]
  /\ mark = [a \in Attempts |-> Zero]
  /\ header = [a \in Attempts |-> 0]
  /\ floor = [a \in Attempts |-> Zero]
  /\ faults = 0

-------------------------------------------------------------------------------
(***************************************************************************)
(* The chains: a block with a transaction, or one somebody waits for.      *)
(***************************************************************************)

Waiting(a, s) ==
  /\ mark[a][s] = height[s]
  /\ prep[a] = "wait"

NewBlock(s) ==
  /\ \E a \in Attempts : Waiting(a, s)
  /\ height' = [height EXCEPT ![s] = @ + 1]
  /\ UNCHANGED <<clients, ends, dbVars, cmdVars, faults>>

Block(s) == height[s] + 1
Commits(s) == height' = [height EXCEPT ![s] = Block(s)]

ClientOf(a, s) == clients[s][own[a].client[s]]
EndOf(a, k, s) == ends[k][s][own[a][k][s]]

\* A header later than the one client c of chain s knows.
CanUpdate(s, c) == clients[s][c].latest < height[Other(s)]

Update(s, c) ==
  clients' = [clients EXCEPT ![s][c] =
    [@ EXCEPT !.latest = height[Other(s)], !.since = Block(s)]]

\* What chain s asks of a proof in state st of the other end of a handshake:
\* it was made before the header, the client of chain s has that header, and
\* the end is built on, and names, what chain s has on its own side.
Proven(a, k, s, st) ==
  LET e == EndOf(a, k, Other(s)) IN
    /\ header[a] <= ClientOf(a, s).latest
    /\ e.since < header[a] /\ e.state = st
    /\ IF k = "conn"
       THEN e.on = own[a].client[Other(s)] /\ e.peerOn = own[a].client[s]
       ELSE e.on = EndOf(a, "conn", s).peer
    /\ st # "INIT" => e.peer = own[a][k][s]

\* getConnectionHandshakeProof: the latest consensus height is asked for now,
\* the proof of it for the block before the header.
ConsensusProvable(a, s) == ClientOf(a, s).since < header[a]

-------------------------------------------------------------------------------
(***************************************************************************)
(* The steps of a command.                                                 *)
(***************************************************************************)

\* On to the next step; what the last one was prepared with is forgotten.
Goes(a, step) ==
  /\ pc' = [pc EXCEPT ![a] = step]
  /\ prep' = [prep EXCEPT ![a] = "begin"]
  /\ mark' = [mark EXCEPT ![a] = Zero]
  /\ header' = [header EXCEPT ![a] = 0]

\* Both currentHeight, before anything is created.
ReadHeights(a) ==
  /\ pc[a] = "heights"
  /\ floor' = [floor EXCEPT ![a] = height]
  /\ Goes(a, "clientB")
  /\ UNCHANGED <<chainVars, dbVars, version, own, faults>>

\* Slip: the id of the new client is taken for that of the other side.
CreateMixedUp(a, s) ==
  /\ pc[a] = (IF s = "B" THEN "clientB" ELSE "clientA")
  /\ Commits(s)
  /\ clients' = [clients EXCEPT ![s] = Append(@,
       [latest |-> height[Other(s)], since |-> Block(s), born |-> Block(s), peer |-> 0])]
  /\ own' = [own EXCEPT ![a].client[Other(s)] = Len(clients[s]) + 1]
  /\ Goes(a, IF s = "B" THEN "clientA" ELSE "blocks")
  /\ UNCHANGED <<ends, dbVars, version, floor>>

\* createClients: a client on B of the latest header of A, then one on A.
createClient(a, s) ==
  /\ pc[a] = (IF s = "B" THEN "clientB" ELSE "clientA")
  /\ Commits(s)
  /\ clients' = [clients EXCEPT ![s] = Append(@,
       [latest |-> height[Other(s)], since |-> Block(s), born |-> Block(s), peer |-> 0])]
  /\ own' = [own EXCEPT ![a].client[s] = Len(clients[s]) + 1]
  /\ Goes(a, IF s = "B" THEN "clientA" ELSE "blocks")
  /\ UNCHANGED <<ends, dbVars, version, floor>>

\* Slip: waitOneBlock takes nothing but the very next block.
NextBlockOnly(a, S) == \A s \in S : height[s] = mark[a][s] + 1

\* waitOneBlock returns when the height is no longer the one it started from.
Waited(a, S) == \A s \in S : height[s] # mark[a][s]

\* The chains a step waits for: both after createClients, later the one whose
\* state is to be proven.
Prover(a) == IF pc[a] \in {"connAck", "chanAck"} THEN "B" ELSE "A"
WaitsFor(a) == IF pc[a] = "blocks" THEN Sides ELSE {Prover(a)}

BeginWait(a) ==
  /\ pc[a] \in ProofSteps \union {"blocks"} /\ prep[a] = "begin"
  /\ mark' = [mark EXCEPT ![a] = [s \in Sides |-> IF s \in WaitsFor(a) THEN height[s] ELSE 0]]
  /\ prep' = [prep EXCEPT ![a] = "wait"]
  /\ UNCHANGED <<chainVars, dbVars, pc, own, header, floor, version, faults>>

BlocksPassed(a) ==
  /\ pc[a] = "blocks" /\ prep[a] = "wait" /\ Waited(a, Sides)
  /\ Goes(a, IF version[a] = 1 THEN "connInit" ELSE "registerB")
  /\ UNCHANGED <<chainVars, dbVars, own, floor, version, faults>>

\* Slip: no block is waited for before the client is updated.
UpdateReadyAtOnce(a) == pc[a] \in ProofSteps /\ prep[a] \in {"begin", "wait"}

\* prepareConnectionHandshake and prepareChannelHandshake: a block has passed,
\* and the client on the verifying chain is due for an update.
UpdateReady(a) == pc[a] \in ProofSteps /\ prep[a] = "wait" /\ Waited(a, {Prover(a)})

PrepareHandshake(a) ==
  LET d == Other(Prover(a)) IN
    /\ UpdateReady(a) /\ CanUpdate(d, own[a].client[d])
    /\ Commits(d)
    /\ Update(d, own[a].client[d])
    /\ header' = [header EXCEPT ![a] = height[Prover(a)]]
    /\ mark' = [mark EXCEPT ![a] = Zero]
    /\ prep' = [prep EXCEPT ![a] = "proof"]
    /\ UNCHANGED <<ends, dbVars, pc, own, floor, version>>

OpenInit(a, k, then) ==
  /\ Commits("A")
  /\ ends' = [ends EXCEPT ![k]["A"] = Append(@,
       [on |-> IF k = "conn" THEN own[a].client["A"] ELSE own[a].conn["A"],
        peerOn |-> IF k = "conn" THEN own[a].client["B"] ELSE 0,
        peer |-> 0, state |-> "INIT", since |-> Block("A")])]
  /\ own' = [own EXCEPT ![a][k]["A"] = Len(ends[k]["A"]) + 1]
  /\ Goes(a, then)
  /\ UNCHANGED <<clients, dbVars, floor, version>>

OpenTry(a, k, then) ==
  /\ Proven(a, k, "B", "INIT")
  /\ Commits("B")
  /\ ends' = [ends EXCEPT ![k]["B"] = Append(@,
       [on |-> IF k = "conn" THEN own[a].client["B"] ELSE own[a].conn["B"],
        peerOn |-> IF k = "conn" THEN own[a].client["A"] ELSE 0,
        peer |-> own[a][k]["A"], state |-> "TRYOPEN", since |-> Block("B")])]
  /\ own' = [own EXCEPT ![a][k]["B"] = Len(ends[k]["B"]) + 1]
  /\ Goes(a, then)
  /\ UNCHANGED <<clients, dbVars, floor, version>>

OpenAck(a, k, then) ==
  /\ Proven(a, k, "A", "TRYOPEN") /\ EndOf(a, k, "A").state = "INIT"
  /\ Commits("A")
  /\ ends' = [ends EXCEPT ![k]["A"][own[a][k]["A"]] =
       [@ EXCEPT !.state = "OPEN", !.peer = own[a][k]["B"], !.since = Block("A")]]
  /\ Goes(a, then)
  /\ UNCHANGED <<clients, dbVars, own, floor, version>>

OpenConfirm(a, k, then) ==
  /\ Proven(a, k, "B", "OPEN") /\ EndOf(a, k, "B").state = "TRYOPEN"
  /\ Commits("B")
  /\ ends' = [ends EXCEPT ![k]["B"][own[a][k]["B"]] =
       [@ EXCEPT !.state = "OPEN", !.since = Block("B")]]
  /\ Goes(a, then)
  /\ UNCHANGED <<clients, dbVars, own, floor, version>>

\* Slip: the path is stored when the other side has opened, before confirming.
AckThenSave(a) == pc[a] = "connAck" /\ ConsensusProvable(a, "B") /\ OpenAck(a, "conn", "save")

\* createWithNewConnections.
connOpenInit(a) == pc[a] = "connInit" /\ OpenInit(a, "conn", "connTry")
connOpenTry(a) == pc[a] = "connTry" /\ ConsensusProvable(a, "A") /\ OpenTry(a, "conn", "connAck")
connOpenAck(a) == pc[a] = "connAck" /\ ConsensusProvable(a, "B") /\ OpenAck(a, "conn", "connConfirm")
connOpenConfirm(a) == pc[a] = "connConfirm" /\ ConsensusProvable(a, "A") /\ OpenConfirm(a, "conn", "save")

\* createChannel.
channelOpenInit(a) == pc[a] = "chanInit" /\ OpenInit(a, "chan", "chanTry")
channelOpenTry(a) == pc[a] = "chanTry" /\ OpenTry(a, "chan", "chanAck")
channelOpenAck(a) == pc[a] = "chanAck" /\ OpenAck(a, "chan", "chanConfirm")
channelOpenConfirm(a) == pc[a] = "chanConfirm" /\ OpenConfirm(a, "chan", "done")

\* Slip: the counterparty registered is the newest client of the other chain.
RegisterNewest(a, s) ==
  /\ pc[a] = (IF s = "B" THEN "registerB" ELSE "registerA")
  /\ Commits(s)
  /\ clients' = [clients EXCEPT ![s][own[a].client[s]] =
       [@ EXCEPT !.peer = Len(clients[Other(s)])]]
  /\ Goes(a, IF s = "B" THEN "registerA" ELSE "save")
  /\ UNCHANGED <<ends, dbVars, own, floor, version>>

\* createWithNewClientsV2.
registerCounterParty(a, s) ==
  /\ pc[a] = (IF s = "B" THEN "registerB" ELSE "registerA")
  /\ Commits(s)
  /\ clients' = [clients EXCEPT ![s][own[a].client[s]] =
       [@ EXCEPT !.peer = own[a].client[Other(s)]]]
  /\ Goes(a, IF s = "B" THEN "registerA" ELSE "save")
  /\ UNCHANGED <<ends, dbVars, own, floor, version>>

\* A path is stored by its connections in v1, by its clients in v2.
addRelayPath(a) ==
  /\ pc[a] = "save"
  /\ table' = [table EXCEPT ![a] =
       [version |-> version[a], id |-> IF version[a] = 1 THEN own[a].conn ELSE own[a].client]]
  /\ Goes(a, "seed")
  /\ UNCHANGED <<chainVars, rows, own, floor, version>>

\* Slip: the heights are those of the time of seeding.
SeedLatest(a) ==
  /\ pc[a] = "seed"
  /\ rows' = [rows EXCEPT ![a] = height]
  /\ Goes(a, IF version[a] = 1 THEN "chanInit" ELSE "done")
  /\ UNCHANGED <<chainVars, table, own, floor, version>>

seedInitialHeights(a) ==
  /\ pc[a] = "seed"
  /\ rows' = [rows EXCEPT ![a] = floor[a]]
  /\ Goes(a, IF version[a] = 1 THEN "chanInit" ELSE "done")
  /\ UNCHANGED <<chainVars, table, own, floor, version>>

\* A step that sends a transaction, or writes to the database.
Effect(a) ==
  \/ \E s \in Sides : createClient(a, s) \/ registerCounterParty(a, s)
  \/ PrepareHandshake(a)
  \/ connOpenInit(a) \/ channelOpenInit(a)
  \/ /\ prep[a] = "proof"
     /\ \/ connOpenTry(a) \/ connOpenAck(a) \/ connOpenConfirm(a)
        \/ channelOpenTry(a) \/ channelOpenAck(a) \/ channelOpenConfirm(a)
  \/ addRelayPath(a) \/ seedInitialHeights(a)

Running(a) == pc[a] \notin {"done", "failed"}
Gone(a) == Goes(a, "failed") /\ UNCHANGED <<own, floor, version>>

\* A chain refuses an update with a header it has, or a proof; a proof cannot
\* be had.  The command ends.
Refused(a) ==
  LET d == Other(Prover(a)) IN
    \/ UpdateReady(a) /\ ~CanUpdate(d, own[a].client[d])
    \/ /\ prep[a] = "proof"
       /\ \/ pc[a] \in {"connTry", "connAck", "connConfirm"} /\ ~ConsensusProvable(a, Prover(a))
          \/ pc[a] = "connTry" /\ ~Proven(a, "conn", "B", "INIT")
          \/ pc[a] = "connAck" /\ ~Proven(a, "conn", "A", "TRYOPEN")
          \/ pc[a] = "connConfirm" /\ ~Proven(a, "conn", "B", "OPEN")
          \/ pc[a] = "chanTry" /\ ~Proven(a, "chan", "B", "INIT")
          \/ pc[a] = "chanAck" /\ ~Proven(a, "chan", "A", "TRYOPEN")
          \/ pc[a] = "chanConfirm" /\ ~Proven(a, "chan", "B", "OPEN")

Reject(a) == Refused(a) /\ Gone(a) /\ UNCHANGED <<chainVars, dbVars, faults>>

Fault == faults < MaxFaults /\ faults' = faults + 1

\* A call throws before it has any effect, or the process dies.
Interrupted(a) == Running(a) /\ Fault /\ Gone(a) /\ UNCHANGED <<chainVars, dbVars>>

\* Another relayer, which knows the client, brings it up to date.
UpdateByOther(s, c) ==
  /\ Fault
  /\ CanUpdate(s, c)
  /\ Commits(s)
  /\ Update(s, c)
  /\ UNCHANGED <<ends, dbVars, cmdVars>>

\* seedInitialHeights logs what is thrown in it, and the command goes on.
SeedFails(a) ==
  /\ pc[a] = "seed"
  /\ Fault
  /\ Goes(a, IF version[a] = 1 THEN "chanInit" ELSE "done")
  /\ UNCHANGED <<chainVars, dbVars, own, floor, version>>

Step(a) ==
  \/ ReadHeights(a) \/ BeginWait(a) \/ BlocksPassed(a) \/ Reject(a)
  \/ Effect(a) /\ UNCHANGED faults

Next ==
  \/ \E a \in Attempts : Step(a) \/ Interrupted(a) \/ SeedFails(a)
  \/ \E s \in Sides : NewBlock(s) \/ \E c \in Prior[s] + 1..Len(clients[s]) : UpdateByOther(s, c)

Spec == Init /\ [][Next]_vars

\* Every await of a command settles, and a chain somebody waits for goes on.
FairSpec ==
  /\ Spec
  /\ \A a \in Attempts : WF_vars(Step(a))
  /\ \A s \in Sides : WF_vars(NewBlock(s))

-------------------------------------------------------------------------------
(***************************************************************************)
(* What a relayer asks of a stored path when it builds the link again.     *)
(***************************************************************************)

createWithExistingConnections(id) ==
  /\ \A s \in Sides :
       /\ id[s] \in DOMAIN ends.conn[s]
       /\ ends.conn[s][id[s]].state = "OPEN"
  /\ ends.conn["A"][id["A"]].on = ends.conn["B"][id["B"]].peerOn
  /\ ends.conn["B"][id["B"]].on = ends.conn["A"][id["A"]].peerOn

createWithExistingClients(id) ==
  \A s \in Sides :
    /\ id[s] \in DOMAIN clients[s]
    /\ id[s] # 0 /\ clients[s][id[s]].peer = id[Other(s)]

LinkLoads(r) == IF r.version = 1 THEN createWithExistingConnections(r.id)
                                 ELSE createWithExistingClients(r.id)

-------------------------------------------------------------------------------
(***************************************************************************)
(* Properties.                                                             *)
(***************************************************************************)

\* A path in the database is one every later start can build its link for,
\* wherever the command that stored it stopped: nothing is stored before both
\* chains have the connection, or both counterparties.
SavedPathLoads == \A a \in Attempts : table[a] # <<>> => LinkLoads(table[a])

\* However commands run into each other, no end that is open, and no client
\* with a counterparty, is wired to one that is wired to something else.
EndsAgree ==
  /\ \A k \in Kinds, s \in Sides : \A i \in DOMAIN ends[k][s] :
       ends[k][s][i].state = "OPEN" =>
         LET e == ends[k][Other(s)][ends[k][s][i].peer] IN e.peer \in {0, i} /\ e.state # "INIT"
  /\ \A s \in Sides : \A c \in DOMAIN clients[s] :
       clients[s][c].peer # 0 => clients[Other(s)][clients[s][c].peer].peer \in {0, c}

\* The heights seeded for a path are below its clients' first blocks, as
\* addNewRelayPath says of heights read before anything is created, so that
\* no event of the path is below the floor of its first search.
FloorBelowClients ==
  \A a \in Attempts, s \in Sides : rows[a][s] # 0 => rows[a][s] < ClientOf(a, s).born

\* A command that nobody disturbs is never refused anything: every header is
\* newer than the client's, and late enough for what is proven with it.
UndisturbedNeverFails == faults = 0 => \A a \in Attempts : pc[a] # "failed"

\* Every command comes to its end.
SetupEnds == \A a \in Attempts : <>(pc[a] \in {"done", "failed"})

==============================================================================
