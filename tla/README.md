# IBC relayer: TLA+ verification

TLA+ models, TLC configurations and TLAPS proofs for the TypeScript IBC relayer
of this repository (the relayer itself is under `src/src`). `PROJECT.json` lists
the runs, the mutants that show each property can fail, the source lines behind
each definition, the findings, the hazards and the theorems.

    tlc -workers 2 -config LinkV2.cfg MCLinkV2           # a run
    tlapm LinkV2Proofs.tla                               # the proofs

## 1. The system

The relayer moves packets between pairs of chains. Neither chain trusts it: each
has a *light client* of the other, and every message carries a proof against a
header that client has verified. So the relayer cannot forge anything. What it
can do wrong is to lose a packet (never look at it again), to get stuck, to pay
twice, to submit proofs of nothing, or to leave half a path behind.

| component | state it keeps | operations | talks to |
|---|---|---|---|
| `Relayer` (`relayer.ts`) | `relayPaths`, `links`, `running` | `addNewRelayPath`, `addExistingRelayPath`, `init`, `relayerLoop`, `start`, `stop` | storage, links, chain clients |
| storage (`storage/`) | tables `relayPaths`, `relayedHeights`, `chainFees` in one SQLite file (Dexie in a browser) | `addRelayPath`, `getRelayPath`, `getRelayPaths`, `getRelayedHeights` (inserts when there is no row), `updateRelayedHeights`, `addChainFees`, `getChainFees` | shared by all processes, or all tabs of a browser |
| v2 link (`links/v2/link.ts`) | two endpoints; between rounds nothing but what the loop hands it | `checkAndRelayPacketsAndAcks`, `getPendingPackets`, `getPendingAcks`, `relayPackets`, `relayAcks`, `timeoutPackets`, `updateClientToHeight`, `updateClientIfStale`, creation | both chain clients |
| v1 link (`links/v1/link.ts`) | the same, with connections and channels | the same, with handshakes and `createChannel` | both chain clients |
| chain clients (`clients/tendermint`, `clients/gno`) | a connection and a signer | heights, headers, `waitOneBlock`, event searches, proofs, `updateClient` with bisection, messages | nodes, indexers |
| helpers (`utils/utils.ts`) | none | `splitPendingPackets`, height and time comparisons, handshake preparation, parsing | |
| configuration, signers, logging, query extensions, types | none that changes | | |

One pass of the loop: `init` reads the paths and builds links; for each link the
saved heights are loaded, one round of the link runs, the heights it returns are
saved, and clients that are about to expire are updated. A round searches both
chains for packets from the saved heights on, filters those that are done with,
splits them by timeout, relays both sides in a `Promise.all`, searches for
acknowledgements, relays them, and submits the timeouts.

What is hard about it:

* **Concurrency without threads.** Height and search are asked for at once and
  answered at different blocks. One side of a `Promise.all` throws and the round
  is over, while the call of the other side runs on beside the next round.
  Several processes (relayer, add-path command, other relayers) share the
  database file and the chains.
* **Failure.** Any call can throw before or after its effect; the process can die
  between any two awaits. All that survives is the database and the chains.
* **Ordering.** The saved heights must not pass a packet that is still owed,
  whichever order rounds, failures and blocks come in.
* **Off-by-ones.** A header proves the block before it. `>=` in a search, `+ 1` in
  a needed height, `- 1` in a proof's query, one block waited for, two in a Gno search.
* **Time.** Packets expire between the search and the submission; clients expire
  when the loop does not come by often enough.
* **Several statements for one call.** A storage call is a select, perhaps an
  insert, and an update, with awaits between them; a query of commitments is
  several pages, each at a state of its own.

What makes each component correct:

| component | properties |
|---|---|
| link round | no packet and no acknowledgement below the saved heights is owed; proofs are of what is there; what a round has in hand stays owed until it is done with it; every packet ends acknowledged or timed out |
| loop | saved heights never pass an owed event, whoever writes them; a path is served although others fail; no client expires that a pass reaches |
| storage | each call works as if it were one step, duplicate rows do no harm, what was set last is read |
| searches | nothing that is owed is left out, whatever else a transaction or a page holds |
| client updates | bisection ends, bounded by the blocks it crosses, at the header it set out for; it gives up only on a chain that cannot be followed |
| path creation | a stored path can be loaded; two ends agree with each other; interrupted commands leave nothing in the database that does not work; heights are seeded below the clients |

## 2. Modules

    PacketLifecycle   abstract: what becomes of a packet
      ^ implemented by
    LinkV2            rounds of one v2 path            LinkV2Proofs
    Searches          searches of paths on one chain   SearchesProofs
    LinkV1            rounds of one v1 connection      LinkV1Proofs
    RelayerLoop       processes, paths, database       RelayerLoopProofs
    Staleness         ages of clients, backoff         StalenessProofs
    ClientBisect      updates of one light client      ClientBisectProofs
    PathSetup         creation of paths                PathSetupProofs
    PathStore         abstract: what a storage promises
      ^ implemented by
    Storage           SQLite and Dexie                 StorageProofs
    MC*               constants of the runs

`LinkV2` is the core. The other modules take it apart along the interfaces of the
code: `RelayerLoop` has a round as one that takes on all events from the height
it was given and returns the height it read (which is what `LinkV2`'s theorems
say of it), `LinkV2` has `updateClient` as one step (what `ClientBisect` says of
it) and a search as one query of one client's packets (`Searches` takes that
apart), `Staleness` has what `RelayerLoop` leaves out, time, and leaves out what
rounds find; `PathSetup` ends where `RelayerLoop` takes a path up; `Storage` has
the statements behind the calls `RelayerLoop` and `PathSetup` make.

### LinkV2

A packet is a member of `Packets`; its chains keep the height it was sent and
received at and how it ended. `phase` is the await `doCheckAndRelay` is at, and
`calls` is the set of `relayPackets`, `relayAcks` and `timeoutPackets` calls under
way. A call has a step of its own for each await: reading the client state
(`UseKnownHeader`, `AwaitBlock`), waiting for a block (`UpdateDue`,
`UpdateClient`), submitting (`Submit`, `Reject`). A call whose round has thrown
loses its `live` mark and goes on. `ReadPacketHeight` and `SearchPackets` are the
two answers of one `Promise.all`, in either order and at different blocks:
`Slack` bounds how far the height may be ahead of what the search saw.
`Lookback` is the block more a Gno search returns. Faults are of four kinds: a
call that throws (`rpc`), a transaction whose answer is lost (`reply`), a crash,
and a commitment query that fails for another reason than a missing commitment
(`commitment`).

A search of packets is two steps, as the relayer asks two chains in turn:
`SearchPackets` is the search with the filter for what has been received, and
`queryCommitmentsV2` asks for the commitments of what is left (`asking` has the
sides that still do). What is received between the two stays in the round's hands,
which only a call that a failed round left running can bring about.

Abstractions: a block's time is its height; the search of a chain and the query
that filters its answer are one step, at the moment of the query; a transaction
is atomic; the packet filter, which no caller in `src/`
passes, is left out. Chains are external: they refuse what ibc-go and the Gno
realm refuse (an expired packet, a proof of nothing, a header that is not newer)
and ignore messages about packets that are done with.

### Searches

One chain, Tendermint or Gno (`kind`), from which packets are sent through the
clients of several links, and the loop that relays one link after the other.
`SendPackets` is a transaction with packets of one client or of several.
`querySentPacketsV2` is what a search returns: all packets of each transaction
with an event of the client (Tendermint), or those of the client (Gno).
`Ask` begins the query for the commitment of a packet, `pagedAbciQuery` reads one
page of it on Gno, at the commitments of its own moment, and `queryCommitmentsV2`
is the single query of Tendermint. `RelayPackets` is refused as a whole when
one of its packets is of another client (`Foreign`), which ends the pass.
`reads` remembers which commitments there were at a query's first page, for the
properties. Packets do not expire and calls do not fail here: `LinkV2` has that.

### LinkV1

The same round for one connection with several channels: `packetId` and `ackId`
with the filters that ask by them, timeouts by height and time, ordered and
unordered channels, and `timeoutPackets` with its lookup of the channel. One
refused message refuses the batch of all channels and ends the round. A packet
that expires on an ordered channel blocks those behind it, and its timeout is
refused too, since `getTimeoutProof` proves the absence of a receipt where such
a channel is asked for its next sequence. It is one of three exceptions that
`EveryPacketEnds` makes (`Blocked`); the others come from what searches return
(`Joined`, `Disordered`, below). Packets go one way, searches with filters and height are
one step, and the client is always updated, by one step with its block: `LinkV2`
has those races, and commitment queries that fail. Gno has no v1.

Beside the connection there is a channel to a third chain, which another relayer
serves (`OtherRelays`). A packet is sent by a transaction or by a block's own
events (`BlockSent`), and a block may send several. `querySentPackets` returns
what the two searches of the Tendermint client do: all packets of a transaction,
or of the events of a block, that sends one packet of the connection (`SentAlike`),
whatever connection the others are of. The messages of a batch are in the order
the searches list them in, all transactions before all block events: on an ordered
channel a packet of a transaction stands before an earlier one of a block's events
(`Misplaced`), and the chain refuses it (`RecvInOrder`), in every round until the
earlier packet expires (`Disordered`). A packet of another connection is refused
with its batch for as long as searches find it (`Joined`). Acknowledgements are listed
as their packets were taken, so `AckInOrder` needs no such rule. Among block events,
and among transactions, the searches list packets by height, and so by sequence.
At most one transaction of a block sends; and the transactions of B that receive
are this relayer's, so that a search for acknowledgements finds none of others.

### RelayerLoop

Processes with `pc`, the links they have built (in the order of the map), the
height they loaded and will save; add-path commands as processes of their own;
`relayPaths` and `relayedHeights` with rows in the order of their ids. The select
and the insert of `getRelayedHeights` are two steps, so two processes may both
insert. An error ends the pass (`LinkFails`) and `init` (`ConnectFails`); a crash
loses links and the height of the round. One height stands for a path's four.

### Staleness

The ages of two clients for each link, in the order a pass checks them, and a
clock. A pass wakes, takes each link through its round, which may update its
clients, and through `updateClientIfStale` for both (`Fresh`, `Stale`), with the
maximal age `relayerLoop` passes for each. `Option` is the age set for the chain
a client is on, which is what the properties go by, whichever age the call was
given. Anything thrown ends the pass
(`Refused` for a client that has expired, `Interrupted` for the rest) and the
sleep after it doubles up to `Cap`. Clients may have expired before the relayer
starts (`lost`). `PassTime` bounds what a pass awaits, for which the code has no
limit; `MaxMisses` bounds the passes in a row that break off for another reason
than an expired client. No other relayer updates the clients.

### ClientBisect

`trusts` is any relation between heights: which header the light client accepts
from which trusted one. The pending calls of the recursion are `stack`, the
heights still to be reached; `Update` returns the innermost, `Bisect` pushes the
midpoint, `Exhausted` is the gap of one block. `Fails` are errors of any other
kind, which are not bisected. Of the doc comment's "the original error is
rethrown" the code does what matters: it throws, though a new error that wraps
the original one.

### PathSetup

Commands (`addNewRelayPath`) with a step for each await: heights, two clients, a
block on both chains, then the connection handshake and, after storing and
seeding, the channel handshake for v1, or the two registrations for v2. Each
handshake step is preparation (wait for a block on the proving chain, update the
other's client) and the message with its proof, which the chain refuses when the
proof is of nothing. `Proven` and `ConsensusProvable` are the two proofs of a
handshake: the end itself, and the latest consensus state, whose height is read
now but proven at the block before the header. Another relayer may update the
same clients at any time. `LinkLoads` is what a later start asks of a stored path.

Abstractions: a transaction is a block of its own; clients, connections and
channels are numbered by their chain; building the arguments of a client and
creating it are one step; ports, versions and prefixes are the same everywhere;
headers are honest. The chain ids checked when a path is loaded always match.

### Storage

The three tables as sets of rows, and callers whose calls go from statement to
statement (`at`): `select`, `insert`, `selectInserted`, `update`, `answered`.
Both backends are the same statements but for three things: SQLite's fees
replace the row of their chain (`Replaced`), its foreign key refuses heights of
a path that is not there, and its update throws when there was no row. A caller
may stop at any statement (`Leave`), and an operator may delete a path with its
heights. `PathStore` is what `storage-interface.ts` promises, with one record of
heights for each path and calls that take effect at one moment; `Stage` says at
which statement that is. For a path that is gone, calls about heights may be
answered anything, an error included. Ids are never used again (`AUTOINCREMENT`,
`++id`); the columns a path is found by are one key, the four heights one value.

## 3. Runs

| run | instance | what it shows |
|---|---|---|
| `link_v2` | one packet each way, one may expire, a Gno search on B, one fault of kind rpc, reply or crash | `NoPacketStranded`, `NoAckStranded`, `ProofsVisible` hold with calls of abandoned rounds beside new ones and between the filters of a search, `NothingRedone`, and `ImplementsLifecycle`, liveness included |
| `link_v2_race` | one packet, `Slack` 2 | **violation**: a height two blocks ahead of its search loses a packet |
| `link_v2_misread` | one packet, one commitment query that fails | **violation**: the packet is taken as done with, and passed |
| `searches` | two links from one chain of either kind, three packets, pages of one commitment, another relayer | `OmissionNeedsRemoval`, `StrandedOnlyByOmission`, `EveryPacketEndsUnmixed` |
| `searches_joint` | a Tendermint chain, two packets | **violation**: a transaction for two links stops both |
| `link_v1` | an unordered and an ordered channel whose ids are crossed, a third one of another connection, four packets, one of them sent by block events, expiry on each channel, one fault | `NothingStranded`, `RefusalsExplained`, `EveryPacketEnds` |
| `link_v1_lookup` | a channel whose id on B no channel of A has | **violation**: `TimeoutsSubmitted`, timeouts of its packets are never submitted |
| `relayer_loop` | a relayer beside an add-path command, two paths, one of which may be deleted, one failure or crash | `NothingSkipped`, `SpareRowsStayZero`, `EveryPathServed` |
| `staleness` | two links, up to two passes in a row that break off | `NoneExpires`, `FreshAfterPass`, `StarvedBehindExpired` |
| `client_bisect` | two updates of one client over every relation on five heights, one failure | `TrustedIsKnown`, `ReturnsGoal`, `HonestNeverExhausted`, `Frugal` |
| `path_setup` | one v1 command, or two v2 commands at once, chain A with a client before, one disturbance | `SavedPathLoads`, `EndsAgree`, `FloorBelowClients`, `UndisturbedNeverFails`, `SetupEnds` |
| `storage` | two callers, five calls, two paths, either backend | `SqliteFeesLatest`, `ImplementsPathStore` |

The bounds. `MaxHeight` bounds only blocks nobody waits for: blocks that
transactions or `waitOneBlock` need are always made, so a run is as long as the
relayer makes it. A block or two of that kind are enough for a packet to be sent
before, between and after the two answers of a search. In `LinkV1` client
updates make blocks too, up to `MaxUpdates`, but for blocks a batch of packets or
acknowledgements needs, which are always made. One
fault reaches each error path at each await once; what needs two independent
faults is covered by the theorems, which have no bound on them. A relayer and
an add-path command are what the code is used with; the theorems are for any
number of processes. Five heights give bisection every shape of a gap of four,
both halves of it included. In `path_setup` chain A has a client before so that
ids differ on the two chains; a mix-up of them would otherwise not be seen.
`link_v1` crosses the channel ids for the same reason, has the earlier packet of
its ordered channel sent by block events and the later one by a transaction, and has the thresholds
above one block, as the configuration does, so that timeouts may be early. In `staleness` the
trusting periods leave just the room `ConfigFits` asks for: with an unbonding
period of 29 instead of 30, a client expires. Pages of one commitment make three
packets enough for pages that shift. In `storage` five calls are enough for two
callers to insert a row each, an update and the two reads that could tell which
row it went to; `MaxPaths` 2 has a path deleted and another added.

`path_setup` and `storage` do not check for deadlock, since commands end
and callers may stop asking. All other passing runs do: the relayer always has
something to do.

## 4. Fairness

* Rounds, passes and commands have weak fairness: each is a sequence of awaits,
  and `relayerLoop` begins another pass after any error it catches. That every
  await settles is assumed: the code sets no timeouts of its own, and a request
  that never answers would stop the loop for good. Rejection is a fault, bounded
  by `MaxFaults`, so liveness is claimed for failures that end. A link
  that fails for ever starves those behind it in the map, which
  `StarvedBehindExpired` states of links with an expired client.
* `Searches` has weak fairness of the loop's steps and none of the chain's or of
  the other relayer's.
* Blocks: a chain somebody waits for makes a block (weak fairness of `NewBlock`).
* `LinkV2` has strong fairness of the searches that see the latest block: an index
  that is behind catches up now and then. Without it a packet may never be found.
* Calls of abandoned rounds, other relayers, operators and applications have none.
* `Staleness` and `Storage` state safety only: time is a counter there, and what a
  storage must do is in its answers.

## 5. Proofs

All theorems are for every value of the constants under their named assumptions:
any packets, processes, paths, faults and bounds.

**LinkV2Proofs.** `TypeCorrect`. `ProofsAreVisible`: the strengthening `CallInv`
says that heights that are recorded have been reached (`HeightsReached`), that
what calls hold was sent or written (`InHand`), and that a call which waits for
one block needs no more than one (`OneBlockEnough`); the last is why a single
`waitOneBlock` suffices. `NoPacketIsStranded`: an owed packet is above the saved
height, and in the course of a round it is found, in a call, set aside to time
out, or above the height that will be saved (`PacketsCovered`), which needs the
status answer to stay near the search (`StatusNearSearch`), and that the round's
own calls are where it awaits them (`LiveCalls`). It assumes `TimelyStatus`
(`Slack <= Lookback[s] + 1` on both sides) and `CommitmentsAnswered`: exactly what
`link_v2_race` and `link_v2_misread` show to be needed. `NoAckIsStranded` is the
same for acknowledgements, and does without the second. `ImplementsSafely` is the
safety half of the refinement: every step is a step of `PacketLifecycle` or a
stutter, from `LifeInv`, which says that only packets that were sent have a fate,
and no packet two. `NothingIsRedone` is an action property: a round
takes nothing up that is of no use (a packet already received, or one its sender
has closed once its commitment was asked for), and what it has in hand stays of
use until a transaction of that round takes it, so that no call of a round does
the work of another. From `HandsInv`: a round awaits one call for each proving side
(`OnePerSide`), what it has set aside to time out is in none of its batches
(`ExpiredApart`), and it begins none of either before both commitment filters have
been answered (`StillAsked`); every step keeps the live calls to those there were and
those it makes (`LiveFrom`). The property exempts packets that a call of an
abandoned round still holds (`Abandoned`): such a call runs on beside the next
round and may deliver a packet which that round has found, between its two filters
as well as later, so a message can be submitted twice after a failure. The chain
ignores the second.

**RelayerLoopProofs.** `NothingIsSkipped` and `SpareRowsKeepZero` from `LoopInv`:
heights loaded, about to be saved, captured or stored are all safe (no owed event
is below them), wherever a process is. Seeding may lower a height, never raise it
past an event. `TypeCorrect` takes what is left of `TypeOK` (`RestTypes`): lists
of paths stay lists of paths. Its lemma `WithoutType`, that a sequence with some
members taken out is a sequence, is an induction: the library's theorems for
that are out of reach, so `UpTo` argues from the least number for which it fails,
first for the function `Without` defines to exist, then for its values.

**ClientBisectProofs.** `BisectTypes`, `BisectionIsFrugal`, `BisectionReachesGoal`,
`HonestIsNeverExhausted`, `TrustedIsAlwaysKnown` from `BisectInv`: the heights
still to be reached rise from above the trusted one to the goal (`Rising`), and
the headers submitted, with twice the blocks to cross less those already tried,
stay within the budget (`Budget`).

**SearchesProofs.** `OmissionsExplained`: while no commitment before it is
removed, a packet's commitment stays on its page, which is one there is
(`PageThere`, `PageStays`), so a query that went through all pages has seen it
(`ReadInv`). `OnlyOmissionsStrand`: from `FloorInv`, what a round has found and
not been told to be done with is in its hands until its heights are saved.

**LinkV1Proofs.** `NothingEverStranded`, for any channels and ids: `PacketKept` and
`AckKept` follow each packet through the phases of a round, to the lists that
carry it. `RefusalsAreExplained`: since one refused message refuses the batch of
all channels, none may be in it that need not be refused. From `BatchInv`: what a
round has in hand is owed (`BatchOwed`), what a batch misses of an ordered channel
is done with or set aside to time out (`NoGaps`, from `ChainInv`: such channels are
served in sequence), and the header is of a later block than all it proves
(`HeaderProves`), for which one `waitOneBlock` is enough since nothing found is
above the last block. So acknowledgements are never refused, packets when one has
expired, comes after one that was set aside, is of another connection, or stands
before an earlier one of its ordered channel (`Misplaced`), and timeouts before
their time, which thresholds above one block allow, on ordered channels, or for a
packet of another connection.

**StalenessProofs.** `ReachedClientsLive` and `PassesKeepFresh` from `Budget`: a
client's age, the time this sleep or pass still has, and what the passes that may
yet break off can take, add up to less than its trusting period until it is
checked. `ExpiredStarves` from the place a pass cannot get beyond (`StaysLost`).
They assume what `ConfigFits` says and no code checks.

**PathSetupProofs.** `PathsLoad`, `EndsFit` and `FloorsFit` from: commands have
clients of their own (`ClientsOwned`), the end that an open end names names it
back (`EndsPaired`), connections are built on their command's clients
(`ConnsBuilt`), and a path is stored only when both chains have what it is found by
(`PathsWired`). Another relayer's updates and the interruption of commands disturb
none of them, for any number of commands. `NobodyDisturbed`: a command with which
nothing interferes (no fault, no interruption) is refused nothing by the chains.
`Undisturbed` says of each command why its next message will do: what it has
made was made in blocks that are past (`Past`), its channel is on its connection
and A's open end names B's (`Built`), the end to be proven is in the state that is
asked for (`AtStep`), and the header is of a block late enough to prove it
(`LateEnough`). That other commands run beside it does not matter, since every
end belongs to one command (`EndsOwned`).

**StorageProofs.** `ImplementsStore`, the whole refinement, for both backends and
any number of callers: since ids are never used twice (`Rows`), a row a call has
selected is the first of its path for as long as the path is there (`Holds`),
whatever rows others insert, so reads and updates meet in one row.
`SqliteReadsLatest` from there being one row of fees for each chain.

Each module proves the type invariant as `TypeCorrect` (`BisectTypes` in
`ClientBisectProofs`). Every invariant and every action property of the passing
runs is a theorem.

Only model-checked: liveness (in `ImplementsLifecycle`, `EveryPathServed`,
`SetupEnds`, `EveryPacketEnds`, `EveryPacketEndsUnmixed`), which is beyond the
prover, and the runs that end in a violation.

## 6. Findings

1. Height and packets of a chain are read in one `Promise.all` and need not be of
   one block; a height two blocks ahead loses packets (`link_v2_race`).
2. Any error of a commitment query counts as a missing commitment, and loses the
   packet (`link_v2_misread`). Pages that shift come to the same (`searches`).
3. A Tendermint search returns packets of other clients in the same transaction;
   both links then fail for good (`searches_joint`).
4. v1 timeouts ask the source chain for the destination's channel
   (`link_v1_lookup`).

No run of its own is about the following.

* Dexie's `addChainFees` adds a row and its `getChainFees` reads the first of the
  chain, so fees added a second time are never read. `SqliteFeesLatest` therefore
  speaks of SQLite only.
* v1 searches on Tendermint return all packets of a transaction or block that
  matches, those of other connections too (`tendermint/IbcClient.ts` 2139-2186), as
  those of v2 do (finding 3).
* They list the packets of all transactions before those of block events
  (2007-2013) and nothing sorts them, so that a batch of an ordered channel may be
  in the wrong order. This and the last are exceptions that `RefusalsExplained` and
  `EveryPacketEnds` state.
* "Update client on dest chain (A) if stale" (`relayer.ts` 424; 426 likewise for B) names the wrong
  chain: `updateClientIfStale("A")` updates the client on B with a header of A, and
  B is the destination. The age that is passed with it is the right one.

## 7. Not modelled

* Height comparison across revisions: heights are saved without their revision, so
  that a chain that starts a new one is outside of what the code handles.
* `addExistingRelayPath` with connections that share their clients; a path whose
  channel is never created (`SavedPathLoads` says it loads; no promise is made).
* `start` and `stop`: the CLI starts once and never stops; two loops are as two
  processes.
* Event parsing, encoding, Gno code templates, query plumbing, signing (and with
  it the account sequences that commands with one signer compete for),
  configuration, logging: no protocol state. A search returns the packets the
  chain has, whatever they look like, and acknowledgements are written in
  transactions.
* Chains, light clients' cryptography, indexers: external, by the rules the code
  relies on.

## 8. How it was built, and what could follow

In this order: `LinkV2` with its abstract specification, `RelayerLoop`,
`ClientBisect`, the proofs about these three, `PathSetup`, `LinkV1`, `Staleness`,
`Searches`, `Storage` with its abstract specification, the proofs about these
five, the safety half of the refinement of `LinkV2`, and the theorems about
undisturbed commands, work done twice, refusals and the types of `RelayerLoop`.
Work done twice was once put as "nothing is relayed twice until something fails".
A run with a later expiry showed that not to hold: it depends on the calls that
abandoned rounds leave behind, and `NothingRedone` says how.

What could follow: `LinkV1` with packets both ways; heights with revisions, once
the code keeps them; a `Staleness` whose rounds take the time `LinkV2`'s awaits
take.
