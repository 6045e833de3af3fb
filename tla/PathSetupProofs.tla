---------------------------- MODULE PathSetupProofs ----------------------------
(***************************************************************************)
(* Proofs about PathSetup, for any number of commands of any versions,     *)
(* however they run into each other and wherever they stop: what is on the *)
(* chains fits together, a path that is stored can be loaded, and without  *)
(* a fault no command is refused anything.                                 *)
(***************************************************************************)
EXTENDS PathSetup, SequenceTheorems, TLAPS

-------------------------------------------------------------------------------
(***************************************************************************)
(* The invariant.                                                          *)
(***************************************************************************)

Own == [client : [Sides -> Nat], conn : [Sides -> Nat], chan : [Sides -> Nat]]

Has(a, k) == own[a][k]["A"] # 0 /\ own[a][k]["B"] # 0
HasNone(a, k) == own[a][k]["A"] = 0 /\ own[a][k]["B"] = 0

\* Steps before a command has a connection, steps that have its clients, and
\* those that may have a channel.
Early == {"heights", "clientB", "clientA", "blocks", "connInit", "registerB", "registerA"}
Middle == Steps \ {"heights", "clientB", "clientA", "done", "failed"}
Last == {"chanTry", "chanAck", "chanConfirm", "done", "failed"}

\* Which ids a command has read at the step it is at, and which version it is.
Order(a) ==
  /\ pc[a] \in {"heights", "clientB"} => HasNone(a, "client")
  /\ pc[a] = "clientA" => own[a].client["A"] = 0 /\ own[a].client["B"] # 0
  /\ pc[a] \in Middle => Has(a, "client")
  /\ pc[a] \in Early => HasNone(a, "conn")
  /\ pc[a] = "connTry" => own[a].conn["A"] # 0 /\ own[a].conn["B"] = 0
  /\ pc[a] \in {"connAck", "connConfirm"} => Has(a, "conn")
  /\ pc[a] \notin Last => HasNone(a, "chan")
  /\ pc[a] = "chanTry" => own[a].chan["A"] # 0 /\ own[a].chan["B"] = 0
  /\ pc[a] \in {"chanAck", "chanConfirm"} => Has(a, "chan")
  /\ pc[a] \notin {"done", "failed"} => version[a] \in {1, 2}
  /\ pc[a] \in {"connInit", "connTry", "connAck", "connConfirm", "chanInit"} => version[a] = 1
  /\ pc[a] \in {"registerB", "registerA"} => version[a] = 2

\* Commands have clients of their own, and a counterparty is registered by the
\* command that has both.
ClientsOwned ==
  /\ \A a, b \in Attempts, s \in Sides :
       own[a].client[s] # 0 /\ own[a].client[s] = own[b].client[s] => a = b
  /\ \A s \in Sides : \A c \in 1..Len(clients[s]) :
       clients[s][c].peer # 0 =>
         \E a \in Attempts : own[a].client[s] = c /\ own[a].client[Other(s)] = clients[s][c].peer

\* An open end is named by the end it names, which has come further than INIT;
\* the end a command has on B names the one it has on A.
EndsPaired ==
  \A k \in Kinds :
    /\ \A s \in Sides : \A i \in 1..Len(ends[k][s]) :
         ends[k][s][i].state = "OPEN" =>
           /\ ends[k][s][i].peer \in 1..Len(ends[k][Other(s)])
           /\ ends[k][Other(s)][ends[k][s][i].peer].peer = i
           /\ ends[k][Other(s)][ends[k][s][i].peer].state # "INIT"
    /\ \A a \in Attempts : own[a][k]["B"] # 0 =>
         /\ own[a][k]["A"] # 0
         /\ EndOf(a, k, "B").peer = own[a][k]["A"] /\ EndOf(a, k, "B").state # "INIT"

\* A command's connection is built on its clients.
ConnsBuilt ==
  \A a \in Attempts, s \in Sides : own[a].conn[s] # 0 =>
    /\ EndOf(a, "conn", s).on = own[a].client[s]
    /\ EndOf(a, "conn", s).peerOn = own[a].client[Other(s)]

FloorsBelow ==
  \A a \in Attempts, s \in Sides :
    /\ floor[a][s] <= height[s]
    /\ own[a].client[s] # 0 => floor[a][s] < ClientOf(a, s).born
    /\ rows[a][s] # 0 => rows[a][s] = floor[a][s] /\ own[a].client[s] # 0

\* Both chains have what the path of a command is stored by.
Wired(a) ==
  IF version[a] = 1
  THEN Has(a, "conn") /\ \A s \in Sides : EndOf(a, "conn", s).state = "OPEN"
  ELSE Has(a, "client") /\ \A s \in Sides : ClientOf(a, s).peer = own[a].client[Other(s)]

Stored(a) ==
  /\ pc[a] \in {"seed", "chanInit"} \union Last
  /\ Wired(a)
  /\ table[a] = [version |-> version[a], id |-> IF version[a] = 1 THEN own[a].conn ELSE own[a].client]

PathsWired ==
  \A a \in Attempts :
    /\ pc[a] = "registerA" => ClientOf(a, "B").peer = own[a].client["A"]
    /\ pc[a] = "save" => Wired(a)
    /\ table[a] # <<>> => Stored(a)

Typed == TypeOK /\ own \in [Attempts -> Own]

Inv == /\ Typed /\ \A a \in Attempts : Order(a)
       /\ ClientsOwned /\ EndsPaired /\ ConnsBuilt /\ FloorsBelow /\ PathsWired

LEMMA SideFacts ==
  /\ \A s \in Sides : Other(s) \in Sides /\ Other(s) # s /\ Other(Other(s)) = s
  /\ Sides = {"A", "B"} /\ Other("A") = "B" /\ Other("B") = "A"
  /\ Zero \in [Sides -> Nat] /\ \A s \in Sides : Zero[s] = 0
BY DEF Sides, Other, Zero

\* The invariant, taken apart.
LEMMA TypeFacts ==
  ASSUME Inv
  PROVE  /\ height \in [Sides -> Nat \ {0}] /\ clients \in [Sides -> Seq(Client)]
         /\ ends \in [Kinds -> [Sides -> Seq(End)]]
         /\ table \in [Attempts -> Row \union {<<>>}] /\ rows \in [Attempts -> [Sides -> Nat]]
         /\ version \in Mixes /\ version \in [Attempts -> 0..2]
         /\ pc \in [Attempts -> Steps] /\ prep \in [Attempts -> {"begin", "wait", "proof"}]
         /\ own \in [Attempts -> Own]
         /\ \A a \in Attempts, s \in Sides :
              /\ own[a].client[s] \in 0..Len(clients[s])
              /\ \A k \in Kinds : own[a][k][s] \in 0..Len(ends[k][s])
         /\ mark \in [Attempts -> [Sides -> Nat]] /\ header \in [Attempts -> Nat]
         /\ floor \in [Attempts -> [Sides -> Nat]] /\ faults \in 0..MaxFaults
BY SetupAssumption DEF Inv, Typed, TypeOK

\* An id that was read is of something that is there.
LEMMA OwnInRange ==
  ASSUME Inv
  PROVE  \A a \in Attempts, s \in Sides :
           /\ own[a].client[s] # 0 => own[a].client[s] \in 1..Len(clients[s])
           /\ \A k \in Kinds : own[a][k][s] # 0 => own[a][k][s] \in 1..Len(ends[k][s])
<1>1. \A a \in Attempts, s \in Sides :
        own[a].client[s] # 0 => own[a].client[s] \in 1..Len(clients[s])
  BY TypeFacts
<1>2. \A a \in Attempts, s \in Sides : \A k \in Kinds :
        own[a][k][s] # 0 => own[a][k][s] \in 1..Len(ends[k][s])
  BY TypeFacts
<1> QED  BY <1>1, <1>2

LEMMA SameForAll ==
  ASSUME NEW n \in Nat, NEW S, NEW r \in S
  PROVE  [c \in 1..n |-> r] \in Seq(S) /\ Len([c \in 1..n |-> r]) = n
<1>1. [c \in 1..n |-> r] \in [1..n -> S]  OBVIOUS
<1>2. [c \in 1..n |-> r] \in Seq(S)  BY <1>1, SeqDef
<1> QED  BY <1>2

LEMMA InvInit == Init => Inv
<1> SUFFICES ASSUME Init PROVE Inv  OBVIOUS
<1>1. /\ height = [s \in Sides |-> 1] /\ ends = [k \in Kinds |-> [s \in Sides |-> <<>>]]
      /\ clients = [s \in Sides |-> [c \in 1..Prior[s] |->
           [latest |-> 1, since |-> 1, born |-> 1, peer |-> 0]]]
      /\ version \in Mixes /\ version \in [Attempts -> 0..2]
      /\ \A a \in Attempts : /\ pc[a] = (IF version[a] = 0 THEN "done" ELSE "heights")
                             /\ own[a] = [client |-> Zero, conn |-> Zero, chan |-> Zero]
                             /\ table[a] = <<>> /\ rows[a] = Zero /\ floor[a] = Zero
  BY SetupAssumption DEF Init
<1>2. Zero \in [Sides -> Nat] /\ \A s \in Sides : Zero[s] = 0  BY SideFacts
<1>3. own \in [Attempts -> Own]  BY <1>2 DEF Init, Own
<1>4. clients \in [Sides -> Seq(Client)] /\ \A s \in Sides : Len(clients[s]) = Prior[s]
  <2>1. [latest |-> 1, since |-> 1, born |-> 1, peer |-> 0] \in Client  BY DEF Client
  <2>2. ASSUME NEW s \in Sides PROVE clients[s] \in Seq(Client) /\ Len(clients[s]) = Prior[s]
    <3>1. Prior[s] \in Nat  BY SetupAssumption DEF Sides
    <3>2. clients[s] = [c \in 1..Prior[s] |-> [latest |-> 1, since |-> 1, born |-> 1, peer |-> 0]]
      BY <1>1
    <3> QED  BY <3>1, <3>2, <2>1, SameForAll
  <2> QED  BY <1>1, <2>2
<1>5. ends \in [Kinds -> [Sides -> Seq(End)]]  BY <1>1
<1>6. \A a \in Attempts, s \in Sides :
        own[a].client[s] = 0 /\ \A k \in Kinds : own[a][k][s] = 0
  BY <1>1, <1>2 DEF Kinds
<1>7. Typed
  <2>1. ASSUME NEW a \in Attempts, NEW s \in Sides
        PROVE  /\ own[a].client[s] \in 0..Len(clients[s])
               /\ \A k \in Kinds : own[a][k][s] \in 0..Len(ends[k][s])
    <3>1. Len(clients[s]) \in Nat /\ \A k \in Kinds : Len(ends[k][s]) \in Nat  BY <1>4, <1>5
    <3> QED  BY <3>1, <1>6
  <2>2. pc \in [Attempts -> Steps]  BY <1>1 DEF Init, Steps
  <2>3. prep \in [Attempts -> {"begin", "wait", "proof"}] /\ header \in [Attempts -> Nat]
    BY DEF Init
  <2>4. /\ mark \in [Attempts -> [Sides -> Nat]] /\ floor \in [Attempts -> [Sides -> Nat]]
        /\ rows \in [Attempts -> [Sides -> Nat]]
    BY <1>2 DEF Init
  <2>5. height \in [Sides -> Nat \ {0}] /\ table \in [Attempts -> Row \union {<<>>}]  BY <1>1 DEF Init
  <2>6. faults \in 0..MaxFaults  BY SetupAssumption DEF Init
  <2> QED  BY <1>1, <1>3, <1>4, <1>5, <2>1, <2>2, <2>3, <2>4, <2>5, <2>6 DEF Typed, TypeOK
<1>8. ASSUME NEW a \in Attempts PROVE Order(a)
  <2>1. pc[a] \in {"done", "heights"} /\ (pc[a] = "heights" => version[a] \in {1, 2})  BY <1>1
  <2>2. HasNone(a, "client") /\ HasNone(a, "conn") /\ HasNone(a, "chan")
    BY <1>6, SideFacts DEF HasNone, Kinds
  <2> QED  BY <2>1, <2>2 DEF Order, Middle, Early
<1>9. \A s \in Sides : \A c \in 1..Len(clients[s]) : clients[s][c].peer = 0
  BY <1>1, <1>4
<1> QED
  <2>1. ClientsOwned  BY <1>6, <1>9 DEF ClientsOwned
  <2>2. EndsPaired  BY <1>1, <1>6, SideFacts DEF EndsPaired
  <2>3. ConnsBuilt  BY <1>6 DEF ConnsBuilt, Kinds
  <2>4. FloorsBelow  BY <1>1, <1>2, <1>6 DEF FloorsBelow
  <2>5. PathsWired  BY <1>1 DEF PathsWired
  <2> QED  BY <1>7, <1>8, <2>1, <2>2, <2>3, <2>4, <2>5 DEF Inv

-------------------------------------------------------------------------------
(***************************************************************************)
(* What a step may change.                                                 *)
(***************************************************************************)

LEMMA GoesFacts ==
  ASSUME Inv, NEW a \in Attempts, NEW step \in Steps, Goes(a, step)
  PROVE  /\ pc' \in [Attempts -> Steps] /\ prep' \in [Attempts -> {"begin", "wait", "proof"}]
         /\ mark' \in [Attempts -> [Sides -> Nat]] /\ header' \in [Attempts -> Nat]
         /\ pc'[a] = step /\ \A b \in Attempts \ {a} : pc'[b] = pc[b]
BY TypeFacts, SideFacts DEF Goes

\* A change of one client or end, or a new one.
LEMMA ClientAppended ==
  ASSUME clients \in [Sides -> Seq(Client)], NEW s \in Sides, NEW e \in Client,
         clients' = [clients EXCEPT ![s] = Append(@, e)]
  PROVE  /\ clients' \in [Sides -> Seq(Client)]
         /\ Len(clients'[s]) = Len(clients[s]) + 1 /\ clients'[s][Len(clients[s]) + 1] = e
         /\ \A c \in 1..Len(clients[s]) : clients'[s][c] = clients[s][c]
         /\ \A t \in Sides : t # s => clients'[t] = clients[t]
OBVIOUS

LEMMA ClientChanged ==
  ASSUME clients \in [Sides -> Seq(Client)], NEW s \in Sides, NEW c \in 1..Len(clients[s]),
         NEW e \in Client, clients' = [clients EXCEPT ![s][c] = e]
  PROVE  /\ clients' \in [Sides -> Seq(Client)]
         /\ Len(clients'[s]) = Len(clients[s]) /\ clients'[s][c] = e
         /\ \A d \in 1..Len(clients[s]) : d # c => clients'[s][d] = clients[s][d]
         /\ \A t \in Sides : t # s => clients'[t] = clients[t]
OBVIOUS

LEMMA EndAppended ==
  ASSUME ends \in [Kinds -> [Sides -> Seq(End)]], NEW k \in Kinds, NEW s \in Sides, NEW e \in End,
         ends' = [ends EXCEPT ![k][s] = Append(@, e)]
  PROVE  /\ ends' \in [Kinds -> [Sides -> Seq(End)]]
         /\ Len(ends'[k][s]) = Len(ends[k][s]) + 1 /\ ends'[k][s][Len(ends[k][s]) + 1] = e
         /\ \A i \in 1..Len(ends[k][s]) : ends'[k][s][i] = ends[k][s][i]
         /\ \A j \in Kinds, t \in Sides : j # k \/ t # s => ends'[j][t] = ends[j][t]
OBVIOUS

LEMMA EndChanged ==
  ASSUME ends \in [Kinds -> [Sides -> Seq(End)]], NEW k \in Kinds, NEW s \in Sides,
         NEW i \in 1..Len(ends[k][s]), NEW e \in End, ends' = [ends EXCEPT ![k][s][i] = e]
  PROVE  /\ ends' \in [Kinds -> [Sides -> Seq(End)]]
         /\ Len(ends'[k][s]) = Len(ends[k][s]) /\ ends'[k][s][i] = e
         /\ \A h \in 1..Len(ends[k][s]) : h # i => ends'[k][s][h] = ends[k][s][h]
         /\ \A j \in Kinds, t \in Sides : j # k \/ t # s => ends'[j][t] = ends[j][t]
OBVIOUS

LEMMA OwnClient ==
  ASSUME own \in [Attempts -> Own], NEW a \in Attempts, NEW s \in Sides, NEW n \in Nat,
         own' = [own EXCEPT ![a].client[s] = n]
  PROVE  /\ own' \in [Attempts -> Own] /\ own'[a].client[s] = n
         /\ \A t \in Sides : t # s => own'[a].client[t] = own[a].client[t]
         /\ \A k \in Kinds : own'[a][k] = own[a][k]
         /\ \A b \in Attempts \ {a} : own'[b] = own[b]
BY DEF Own, Kinds

LEMMA OwnEnd ==
  ASSUME own \in [Attempts -> Own], NEW a \in Attempts, NEW k \in Kinds, NEW s \in Sides, NEW n \in Nat,
         own' = [own EXCEPT ![a][k][s] = n]
  PROVE  /\ own' \in [Attempts -> Own] /\ own'[a][k][s] = n /\ own'[a].client = own[a].client
         /\ \A t \in Sides : t # s => own'[a][k][t] = own[a][k][t]
         /\ \A j \in Kinds : j # k => own'[a][j] = own[a][j]
         /\ \A b \in Attempts \ {a} : own'[b] = own[b]
BY DEF Own, Kinds

\* A step that creates nothing and wires nothing: at most, clients get headers.
Unwired ==
  /\ UNCHANGED <<ends, own, version>>
  /\ height' \in [Sides -> Nat \ {0}] /\ \A s \in Sides : height[s] <= height'[s]
  /\ clients' \in [Sides -> Seq(Client)]
  /\ \A s \in Sides :
       /\ Len(clients'[s]) = Len(clients[s])
       /\ \A c \in 1..Len(clients[s]) : /\ clients'[s][c].born = clients[s][c].born
                                          /\ clients'[s][c].peer = clients[s][c].peer

LEMMA UnwiredKeeps ==
  ASSUME Inv, Unwired
  PROVE  /\ ClientsOwned' /\ EndsPaired' /\ ConnsBuilt'
         /\ \A a \in Attempts : Wired(a) => Wired(a)'
         /\ \A a \in Attempts, s \in Sides : own[a].client[s] # 0 =>
              /\ ClientOf(a, s)'.born = ClientOf(a, s).born
              /\ ClientOf(a, s)'.peer = ClientOf(a, s).peer
<1>1. \A a \in Attempts, s \in Sides :
        own[a].client[s] # 0 => own[a].client[s] \in 1..Len(clients[s])
  BY TypeFacts
<1>2. \A a \in Attempts, s \in Sides : own[a].client[s] # 0 =>
        /\ ClientOf(a, s)'.born = ClientOf(a, s).born
        /\ ClientOf(a, s)'.peer = ClientOf(a, s).peer
  BY <1>1 DEF Unwired, ClientOf
<1>3. ClientsOwned'
  <2>1. ClientsOwned /\ own' = own  BY DEF Inv, Unwired
  <2>2. ASSUME NEW s \in Sides, NEW c \in 1..Len(clients'[s]), clients'[s][c].peer # 0
        PROVE  \E a \in Attempts : /\ own[a].client[s] = c
                                    /\ own[a].client[Other(s)] = clients'[s][c].peer
    <3>1. c \in 1..Len(clients[s]) /\ clients[s][c].peer = clients'[s][c].peer  BY <2>2 DEF Unwired
    <3> QED  BY <2>1, <2>2, <3>1 DEF ClientsOwned
  <2> QED  BY <2>1, <2>2 DEF ClientsOwned
<1>4. EndsPaired'  BY DEF Inv, EndsPaired, Unwired, EndOf
<1>5. ConnsBuilt'  BY DEF Inv, ConnsBuilt, Unwired, EndOf
<1>6. ASSUME NEW a \in Attempts, Wired(a) PROVE Wired(a)'
  BY <1>2, <1>6, SideFacts DEF Wired, Unwired, Has, EndOf
<1> QED  BY <1>2, <1>3, <1>4, <1>5, <1>6

LEMMA UnwiredFloors ==
  ASSUME Inv, Unwired, UNCHANGED <<floor, rows>>
  PROVE  FloorsBelow'
BY UnwiredKeeps, TypeFacts DEF Inv, FloorsBelow, Unwired

LEMMA UnwiredPaths ==
  ASSUME Inv, Unwired, UNCHANGED table,
         \A a \in Attempts :
           /\ pc'[a] \in {"registerA", "save"} => pc'[a] = pc[a]
           /\ table[a] # <<>> => pc'[a] \in {"seed", "chanInit"} \union Last
  PROVE  PathsWired'
<1> SUFFICES ASSUME NEW a \in Attempts
             PROVE  /\ pc'[a] = "registerA" => ClientOf(a, "B")'.peer = own'[a].client["A"]
                    /\ pc'[a] = "save" => Wired(a)'
                    /\ table'[a] # <<>> => Stored(a)'
  BY DEF PathsWired
<1>1. ASSUME pc'[a] = "registerA" PROVE ClientOf(a, "B")'.peer = own'[a].client["A"]
  <2>1. pc[a] = "registerA"  BY <1>1
  <2>2. own[a].client["B"] # 0 /\ ClientOf(a, "B").peer = own[a].client["A"]
    BY <2>1 DEF Inv, Order, Middle, Steps, Has, PathsWired
  <2> QED  BY <2>2, UnwiredKeeps, SideFacts DEF Unwired, ClientOf
<1>2. ASSUME pc'[a] = "save" PROVE Wired(a)'
  BY <1>2, UnwiredKeeps DEF Inv, PathsWired
<1>3. ASSUME table'[a] # <<>> PROVE Stored(a)'
  <2>1. table[a] # <<>> /\ Stored(a)  BY <1>3 DEF Inv, PathsWired
  <2> QED  BY <2>1, UnwiredKeeps DEF Stored, Unwired
<1> QED  BY <1>1, <1>2, <1>3

LEMMA UnwiredTyped ==
  ASSUME Inv, Unwired, table' \in [Attempts -> Row \union {<<>>}],
         rows' \in [Attempts -> [Sides -> Nat]], pc' \in [Attempts -> Steps],
         prep' \in [Attempts -> {"begin", "wait", "proof"}],
         mark' \in [Attempts -> [Sides -> Nat]], header' \in [Attempts -> Nat],
         floor' \in [Attempts -> [Sides -> Nat]], faults' \in 0..MaxFaults
  PROVE  Typed'
BY TypeFacts DEF Typed, TypeOK, Unwired

LEMMA OrderKept ==
  ASSUME Inv, NEW a \in Attempts, pc'[a] = pc[a], own'[a] = own[a], version'[a] = version[a]
  PROVE  Order(a)'
BY DEF Inv, Order, Has, HasNone

LEMMA StillUnwired ==
  ASSUME Inv, UNCHANGED <<chainVars, own, version>>
  PROVE  Unwired
<1>1. \A s \in Sides : height[s] <= height[s]  BY TypeFacts
<1> QED  BY <1>1, TypeFacts DEF Unwired, chainVars

LEMMA BlockUnwired ==
  ASSUME Inv, NEW s \in Sides, height' = [height EXCEPT ![s] = @ + 1],
         UNCHANGED <<clients, ends, own, version>>
  PROVE  Unwired
BY TypeFacts DEF Unwired

LEMMA UpdateUnwired ==
  ASSUME Inv, NEW s \in Sides, NEW c \in 1..Len(clients[s]), Commits(s), Update(s, c),
         UNCHANGED <<ends, own, version>>
  PROVE  Unwired
<1> DEFINE e == [clients[s][c] EXCEPT !.latest = height[Other(s)], !.since = Block(s)]
<1>1. clients[s][c] \in Client /\ height[Other(s)] \in Nat /\ Block(s) \in Nat
  BY TypeFacts, SideFacts DEF Block
<1>2. e \in Client /\ e.born = clients[s][c].born /\ e.peer = clients[s][c].peer
  BY <1>1 DEF Client
<1>3. clients' = [clients EXCEPT ![s][c] = e]  BY DEF Update
<1> HIDE DEF e
<1>4. /\ clients' \in [Sides -> Seq(Client)]
      /\ Len(clients'[s]) = Len(clients[s]) /\ clients'[s][c] = e
      /\ \A d \in 1..Len(clients[s]) : d # c => clients'[s][d] = clients[s][d]
      /\ \A t \in Sides : t # s => clients'[t] = clients[t]
  BY <1>2, <1>3, TypeFacts, ClientChanged
<1>5. height' \in [Sides -> Nat \ {0}] /\ \A t \in Sides : height[t] <= height'[t]
  BY TypeFacts DEF Commits, Block
<1> QED  BY <1>2, <1>4, <1>5 DEF Unwired

-------------------------------------------------------------------------------
(***************************************************************************)
(* The steps that wire nothing.                                            *)
(***************************************************************************)

\* A command goes on to a step at which it needs no more than it has.
LEMMA GoesOn ==
  ASSUME Inv, NEW a \in Attempts, NEW step \in Steps, Goes(a, step), Order(a)',
         Unwired, UNCHANGED <<table, rows, floor>>, faults' \in 0..MaxFaults,
         step \notin {"registerA", "save"},
         table[a] # <<>> => step \in {"seed", "chanInit"} \union Last
  PROVE  Inv'
<1>1. /\ pc' \in [Attempts -> Steps] /\ prep' \in [Attempts -> {"begin", "wait", "proof"}]
      /\ mark' \in [Attempts -> [Sides -> Nat]] /\ header' \in [Attempts -> Nat]
      /\ pc'[a] = step /\ \A b \in Attempts \ {a} : pc'[b] = pc[b]
  BY GoesFacts
<1>2. Typed'  BY <1>1, UnwiredTyped, TypeFacts
<1>3. ASSUME NEW b \in Attempts PROVE Order(b)'
  <2>1. CASE b = a  BY <2>1
  <2>2. CASE b # a  BY <2>2, <1>1, OrderKept DEF Unwired
  <2> QED  BY <2>1, <2>2
<1>4. PathsWired'
  <2>1. ASSUME NEW b \in Attempts, table[b] # <<>> PROVE pc[b] \in {"seed", "chanInit"} \union Last
    BY <2>1 DEF Inv, PathsWired, Stored
  <2> QED  BY <1>1, <2>1, UnwiredPaths
<1> QED  BY <1>2, <1>3, <1>4, UnwiredFloors, UnwiredKeeps DEF Inv

\* A command stays at its step.
LEMMA StaysAt ==
  ASSUME Inv, Unwired, UNCHANGED <<pc, table, rows, floor>>, faults' \in 0..MaxFaults,
         prep' \in [Attempts -> {"begin", "wait", "proof"}],
         mark' \in [Attempts -> [Sides -> Nat]], header' \in [Attempts -> Nat]
  PROVE  Inv'
<1>1. Typed'  BY UnwiredTyped, TypeFacts
<1>2. \A b \in Attempts : Order(b)'  BY OrderKept DEF Unwired
<1>3. PathsWired'  BY UnwiredPaths DEF Inv, PathsWired, Stored
<1> QED  BY <1>1, <1>2, <1>3, UnwiredFloors, UnwiredKeeps DEF Inv

LEMMA SeenByOrder ==
  ASSUME Inv, NEW a \in Attempts
  PROVE  /\ Order(a) /\ (table[a] # <<>> => Stored(a))
         /\ pc[a] \in Steps /\ version[a] \in 0..2 /\ (pc[a] \in Middle => Has(a, "client"))
BY TypeFacts DEF Inv, PathsWired, Order

LEMMA ReadHeightsKeeps ==
  ASSUME Inv, NEW a \in Attempts, ReadHeights(a), UNCHANGED faults
  PROVE  Inv'
<1>1. /\ pc' \in [Attempts -> Steps] /\ prep' \in [Attempts -> {"begin", "wait", "proof"}]
      /\ mark' \in [Attempts -> [Sides -> Nat]] /\ header' \in [Attempts -> Nat]
      /\ pc'[a] = "clientB" /\ \A b \in Attempts \ {a} : pc'[b] = pc[b]
  BY GoesFacts DEF ReadHeights, Steps
<1>2. Unwired /\ UNCHANGED <<table, rows, own, version, height, clients>> /\ pc[a] = "heights"
  BY StillUnwired DEF ReadHeights, dbVars, chainVars
<1>3. floor' \in [Attempts -> [Sides -> Nat]] /\ floor'[a] = height
      /\ \A b \in Attempts \ {a} : floor'[b] = floor[b]
  BY TypeFacts DEF ReadHeights
<1>4. Typed'  BY <1>1, <1>2, <1>3, UnwiredTyped, TypeFacts
<1>5. ASSUME NEW b \in Attempts PROVE Order(b)'
  <2>1. CASE b = a
    BY <2>1, <1>1, <1>2, SeenByOrder DEF Order, Has, HasNone, Middle, Early, Last
  <2>2. CASE b # a  BY <2>2, <1>1, <1>2, OrderKept DEF Unwired
  <2> QED  BY <2>1, <2>2
<1>6. PathsWired'
  <2>1. table[a] = <<>>  BY <1>2, SeenByOrder DEF Stored, Last
  <2>2. ASSUME NEW b \in Attempts, table[b] # <<>> PROVE pc'[b] \in {"seed", "chanInit"} \union Last
    BY <2>1, <2>2, <1>1, SeenByOrder DEF Stored
  <2> QED  BY <1>1, <1>2, <2>2, UnwiredPaths
<1>7. FloorsBelow'
  <2>1. own[a].client["A"] = 0 /\ own[a].client["B"] = 0
    BY <1>2, SeenByOrder DEF Order, HasNone
  <2>2. \A s \in Sides : own[a].client[s] = 0 /\ rows[a][s] = 0 /\ height[s] <= height[s]
    BY <2>1, SideFacts, TypeFacts DEF Inv, FloorsBelow
  <2> QED  BY <2>2, <1>2, <1>3 DEF Inv, FloorsBelow, ClientOf
<1> QED  BY <1>2, <1>4, <1>5, <1>6, <1>7, UnwiredKeeps DEF Inv

LEMMA BeginWaitKeeps ==
  ASSUME Inv, NEW a \in Attempts, BeginWait(a), UNCHANGED faults
  PROVE  Inv'
<1>1. Unwired /\ UNCHANGED <<pc, table, rows, floor, header>>
  BY StillUnwired DEF BeginWait, dbVars
<1>2. [s \in Sides |-> IF s \in WaitsFor(a) THEN height[s] ELSE 0] \in [Sides -> Nat]
  BY TypeFacts
<1>3. prep' \in [Attempts -> {"begin", "wait", "proof"}] /\ mark' \in [Attempts -> [Sides -> Nat]]
  BY <1>2, TypeFacts DEF BeginWait
<1> QED  BY <1>1, <1>3, TypeFacts, StaysAt

LEMMA BlocksPassedKeeps ==
  ASSUME Inv, NEW a \in Attempts, BlocksPassed(a), UNCHANGED faults
  PROVE  Inv'
<1> DEFINE step == IF version[a] = 1 THEN "connInit" ELSE "registerB"
<1>1. /\ Unwired /\ UNCHANGED <<table, rows, floor>> /\ pc[a] = "blocks" /\ Goes(a, step)
      /\ own' = own /\ version' = version
  BY StillUnwired DEF BlocksPassed, dbVars
<1>2. step \in Steps /\ step \notin {"registerA", "save"}  BY DEF Steps
<1>3. pc'[a] = step  BY <1>1, <1>2, GoesFacts
<1>4. version[a] \in {1, 2} /\ table[a] = <<>>
  BY <1>1, SeenByOrder DEF Order, Stored, Last
<1>5. Order(a)'
  BY <1>1, <1>3, <1>4, SeenByOrder DEF Order, Has, HasNone, Middle, Early, Last, Steps
<1> QED  BY <1>1, <1>2, <1>4, <1>5, TypeFacts, GoesOn

\* A command that stops leaves what it has done.
LEMMA GoneKeeps ==
  ASSUME Inv, NEW a \in Attempts, Gone(a), UNCHANGED <<chainVars, dbVars>>, faults' \in 0..MaxFaults
  PROVE  Inv'
<1>1. Unwired /\ UNCHANGED <<table, rows, floor>> /\ Goes(a, "failed")
  BY StillUnwired DEF Gone, dbVars
<1>2. pc'[a] = "failed" /\ "failed" \in Steps  BY <1>1, GoesFacts DEF Steps
<1>3. Order(a)'  BY <1>2 DEF Order, Middle, Early, Last
<1> QED  BY <1>1, <1>2, <1>3, GoesOn DEF Last

LEMMA SeedFailsKeeps ==
  ASSUME Inv, NEW a \in Attempts, SeedFails(a)
  PROVE  Inv'
<1> DEFINE step == IF version[a] = 1 THEN "chanInit" ELSE "done"
<1>1. /\ Unwired /\ UNCHANGED <<table, rows, floor>> /\ pc[a] = "seed" /\ Goes(a, step)
      /\ own' = own /\ version' = version
  BY StillUnwired DEF SeedFails, dbVars
<1>2. step \in Steps /\ step \notin {"registerA", "save"} /\ step \in {"seed", "chanInit"} \union Last
  BY DEF Steps, Last
<1>3. pc'[a] = step  BY <1>1, <1>2, GoesFacts
<1>4. Order(a)'
  BY <1>1, <1>3, SeenByOrder DEF Order, Has, HasNone, Middle, Early, Last, Steps
<1>5. faults' \in 0..MaxFaults  BY TypeFacts, SetupAssumption DEF SeedFails, Fault
<1> QED  BY <1>1, <1>2, <1>4, <1>5, GoesOn

LEMMA NewBlockKeeps ==
  ASSUME Inv, NEW s \in Sides, NewBlock(s)
  PROVE  Inv'
<1>1. Unwired /\ UNCHANGED <<pc, prep, mark, header, table, rows, floor, faults>>
  BY BlockUnwired DEF NewBlock, dbVars, cmdVars
<1> QED  BY <1>1, TypeFacts, StaysAt

LEMMA UpdateByOtherKeeps ==
  ASSUME Inv, NEW s \in Sides, NEW c \in Prior[s] + 1..Len(clients[s]), UpdateByOther(s, c)
  PROVE  Inv'
<1>1. c \in 1..Len(clients[s])
  <2>1. Prior[s] \in Nat /\ Len(clients[s]) \in Nat  BY TypeFacts, SetupAssumption DEF Sides
  <2> QED  BY <2>1
<1>2. Unwired /\ UNCHANGED <<pc, prep, mark, header, table, rows, floor>>
  BY <1>1, UpdateUnwired DEF UpdateByOther, dbVars, cmdVars
<1>3. faults' \in 0..MaxFaults  BY TypeFacts, SetupAssumption DEF UpdateByOther, Fault
<1> QED  BY <1>2, <1>3, TypeFacts, StaysAt

LEMMA PrepareKeeps ==
  ASSUME Inv, NEW a \in Attempts, PrepareHandshake(a), UNCHANGED faults
  PROVE  Inv'
<1> DEFINE d == Other(Prover(a))
           c == own[a].client[d]
<1>1. Prover(a) \in Sides /\ d \in Sides  BY SideFacts DEF Prover
<1>2. pc[a] \in ProofSteps  BY DEF PrepareHandshake, UpdateReady
<1>3. c \in 1..Len(clients[d])
  <2>1. pc[a] \in Middle  BY <1>2 DEF Middle, Steps, ProofSteps
  <2>2. c # 0  BY <2>1, <1>1, SeenByOrder, SideFacts DEF Order, Has
  <2> QED  BY <2>2, <1>1, TypeFacts
<1>4. /\ Commits(d) /\ Update(d, c) /\ UNCHANGED <<ends, own, version, pc, table, rows, floor>>
      /\ header' = [header EXCEPT ![a] = height[Prover(a)]]
      /\ mark' = [mark EXCEPT ![a] = Zero] /\ prep' = [prep EXCEPT ![a] = "proof"]
  BY DEF PrepareHandshake, dbVars
<1>5. height[Prover(a)] \in Nat  BY <1>1, TypeFacts
<1>6. /\ header' \in [Attempts -> Nat] /\ mark' \in [Attempts -> [Sides -> Nat]]
      /\ prep' \in [Attempts -> {"begin", "wait", "proof"}]
  BY <1>4, <1>5, TypeFacts, SideFacts
<1>7. Unwired
  <2> HIDE DEF d, c
  <2> QED  BY <1>1, <1>3, <1>4, UpdateUnwired
<1> QED  BY <1>4, <1>6, <1>7, TypeFacts, StaysAt

LEMMA AddRelayPathKeeps ==
  ASSUME Inv, NEW a \in Attempts, addRelayPath(a), UNCHANGED faults
  PROVE  Inv'
<1> DEFINE row == [version |-> version[a], id |-> IF version[a] = 1 THEN own[a].conn ELSE own[a].client]
<1>1. /\ Unwired /\ UNCHANGED <<rows, floor, own, version, clients, ends>> /\ pc[a] = "save"
      /\ Goes(a, "seed") /\ table' = [table EXCEPT ![a] = row]
  BY StillUnwired DEF addRelayPath, chainVars
<1>2. /\ pc' \in [Attempts -> Steps] /\ prep' \in [Attempts -> {"begin", "wait", "proof"}]
      /\ mark' \in [Attempts -> [Sides -> Nat]] /\ header' \in [Attempts -> Nat]
      /\ pc'[a] = "seed" /\ \A b \in Attempts \ {a} : pc'[b] = pc[b]
  BY <1>1, GoesFacts DEF Steps
<1>3. version[a] \in {1, 2} /\ HasNone(a, "chan") /\ Has(a, "client")
  BY <1>1, SeenByOrder DEF Order, Middle, Last, Steps
<1>4. row \in Row
  <2>1. own[a].conn \in [Sides -> Nat] /\ own[a].client \in [Sides -> Nat]  BY TypeFacts DEF Own
  <2> QED  BY <2>1, <1>3 DEF Row
<1>5. /\ table' \in [Attempts -> Row \union {<<>>}] /\ table'[a] = row
      /\ \A b \in Attempts \ {a} : table'[b] = table[b]
  <2> HIDE DEF row
  <2> QED  BY <1>1, <1>4, TypeFacts
<1>6. Typed'  BY <1>1, <1>2, <1>5, UnwiredTyped, TypeFacts
<1>7. ASSUME NEW b \in Attempts PROVE Order(b)'
  <2>1. CASE b = a
    BY <2>1, <1>1, <1>2, <1>3 DEF Order, Has, HasNone, Early, Last
  <2>2. CASE b # a  BY <2>2, <1>1, <1>2, OrderKept
  <2> QED  BY <2>1, <2>2
<1>8. PathsWired'
  <2>1. Stored(a)'
    <3>1. Wired(a)'  BY <1>1, UnwiredKeeps DEF Inv, PathsWired
    <3> QED  BY <3>1, <1>1, <1>2, <1>5 DEF Stored
  <2>2. ASSUME NEW b \in Attempts \ {a}
        PROVE  /\ pc'[b] = "registerA" => ClientOf(b, "B")'.peer = own'[b].client["A"]
               /\ pc'[b] = "save" => Wired(b)'
               /\ table'[b] # <<>> => Stored(b)'
    <3>1. pc'[b] = pc[b] /\ table'[b] = table[b]  BY <1>2, <1>5
    <3>2. Wired(b) => Wired(b)'  BY <1>1, UnwiredKeeps
    <3>3. pc[b] = "registerA" => ClientOf(b, "B")'.peer = own'[b].client["A"]
      BY <1>1 DEF Inv, PathsWired, ClientOf
    <3>4. table[b] # <<>> => Stored(b)'
      BY <3>1, <3>2, <1>1, SeenByOrder DEF Stored
    <3>5. pc[b] = "save" => Wired(b)'  BY <3>2 DEF Inv, PathsWired
    <3> QED  BY <3>1, <3>3, <3>4, <3>5
  <2>3. pc'[a] = "seed"  BY <1>2
  <2> QED  BY <2>1, <2>2, <2>3 DEF PathsWired
<1> QED  BY <1>1, <1>6, <1>7, <1>8, UnwiredFloors, UnwiredKeeps DEF Inv

LEMMA SeedKeeps ==
  ASSUME Inv, NEW a \in Attempts, seedInitialHeights(a), UNCHANGED faults
  PROVE  Inv'
<1> DEFINE step == IF version[a] = 1 THEN "chanInit" ELSE "done"
<1>1. /\ Unwired /\ UNCHANGED <<table, floor, own, version, height, clients>> /\ pc[a] = "seed"
      /\ Goes(a, step) /\ rows' = [rows EXCEPT ![a] = floor[a]]
  BY StillUnwired DEF seedInitialHeights, chainVars
<1>2. step \in Steps /\ step \notin {"registerA", "save"} /\ step \in {"seed", "chanInit"} \union Last
  BY DEF Steps, Last
<1>3. /\ pc' \in [Attempts -> Steps] /\ prep' \in [Attempts -> {"begin", "wait", "proof"}]
      /\ mark' \in [Attempts -> [Sides -> Nat]] /\ header' \in [Attempts -> Nat]
      /\ pc'[a] = step /\ \A b \in Attempts \ {a} : pc'[b] = pc[b]
  BY <1>1, <1>2, GoesFacts
<1>4. /\ rows' \in [Attempts -> [Sides -> Nat]] /\ rows'[a] = floor[a]
      /\ \A b \in Attempts \ {a} : rows'[b] = rows[b]
  BY <1>1, TypeFacts
<1>5. Typed'  BY <1>1, <1>3, <1>4, UnwiredTyped, TypeFacts
<1>6. ASSUME NEW b \in Attempts PROVE Order(b)'
  <2>1. CASE b = a
    BY <2>1, <1>1, <1>3, SeenByOrder DEF Order, Has, HasNone, Middle, Early, Last, Steps
  <2>2. CASE b # a  BY <2>2, <1>1, <1>3, OrderKept
  <2> QED  BY <2>1, <2>2
<1>7. PathsWired'
  <2>1. ASSUME NEW b \in Attempts, table[b] # <<>> PROVE pc'[b] \in {"seed", "chanInit"} \union Last
    BY <2>1, <1>2, <1>3, SeenByOrder DEF Stored
  <2>2. \A b \in Attempts : pc'[b] \in {"registerA", "save"} => pc'[b] = pc[b]  BY <1>2, <1>3
  <2> QED  BY <1>1, <2>1, <2>2, UnwiredPaths
<1>8. FloorsBelow'
  <2>1. Has(a, "client")  BY <1>1, SeenByOrder DEF Middle, Steps
  <2>2. \A s \in Sides : own[a].client[s] # 0  BY <2>1, SideFacts DEF Has
  <2> QED  BY <2>2, <1>1, <1>4 DEF Inv, FloorsBelow, ClientOf
<1> QED  BY <1>1, <1>5, <1>6, <1>7, <1>8, UnwiredKeeps DEF Inv

-------------------------------------------------------------------------------
(***************************************************************************)
(* Clients, and the counterparties registered for them.                    *)
(***************************************************************************)

LEMMA CommitsFacts ==
  ASSUME Inv, NEW s \in Sides, Commits(s)
  PROVE  /\ height' \in [Sides -> Nat \ {0}] /\ height[s] \in Nat /\ height'[s] = height[s] + 1
         /\ \A t \in Sides : t # s => height'[t] = height[t]
BY TypeFacts DEF Commits, Block

LEMMA CreateClientKeeps ==
  ASSUME Inv, NEW a \in Attempts, NEW s \in Sides, createClient(a, s), UNCHANGED faults
  PROVE  Inv'
<1> DEFINE e == [latest |-> height[Other(s)], since |-> Block(s), born |-> Block(s), peer |-> 0]
           n == Len(clients[s]) + 1
           step == IF s = "B" THEN "clientA" ELSE "blocks"
<1>1. /\ UNCHANGED <<ends, table, rows, version, floor>> /\ Commits(s) /\ Goes(a, step)
      /\ pc[a] = (IF s = "B" THEN "clientB" ELSE "clientA")
      /\ clients' = [clients EXCEPT ![s] = Append(@, e)]
      /\ own' = [own EXCEPT ![a].client[s] = n]
  BY DEF createClient, dbVars
<1>2. /\ height' \in [Sides -> Nat \ {0}] /\ height[s] \in Nat /\ height'[s] = height[s] + 1
      /\ \A t \in Sides : t # s => height'[t] = height[t]
  BY <1>1, CommitsFacts
<1>3. e \in Client /\ e.born = height[s] + 1 /\ e.peer = 0
  BY <1>2, TypeFacts, SideFacts DEF Client, Block
<1> HIDE DEF e
<1>4. /\ clients' \in [Sides -> Seq(Client)]
      /\ Len(clients'[s]) = n /\ clients'[s][n] = e
      /\ \A c \in 1..Len(clients[s]) : clients'[s][c] = clients[s][c]
      /\ \A t \in Sides : t # s => clients'[t] = clients[t]
  BY <1>1, <1>3, TypeFacts, ClientAppended
<1>5. n \in Nat /\ Len(clients[s]) \in Nat /\ n # 0  BY TypeFacts
<1>6. /\ own' \in [Attempts -> Own] /\ own'[a].client[s] = n
      /\ \A t \in Sides : t # s => own'[a].client[t] = own[a].client[t]
      /\ \A k \in Kinds : own'[a][k] = own[a][k]
      /\ \A b \in Attempts \ {a} : own'[b] = own[b]
  BY <1>1, <1>5, TypeFacts, OwnClient
<1>7. /\ pc' \in [Attempts -> Steps] /\ prep' \in [Attempts -> {"begin", "wait", "proof"}]
      /\ mark' \in [Attempts -> [Sides -> Nat]] /\ header' \in [Attempts -> Nat]
      /\ pc'[a] = step /\ \A b \in Attempts \ {a} : pc'[b] = pc[b]
  BY <1>1, GoesFacts DEF Steps
<1>8. own[a].client[s] = 0 /\ HasNone(a, "conn") /\ HasNone(a, "chan") /\ table[a] = <<>>
  BY <1>1, SeenByOrder, SideFacts DEF Order, HasNone, Early, Last, Stored
<1> HIDE DEF n
<1>9. \A b \in Attempts, t \in Sides :
        /\ own[b].client[t] \in 0..Len(clients[t]) /\ Len(clients[t]) \in Nat
        /\ (b # a \/ t # s) => own'[b].client[t] = own[b].client[t]
        /\ own[b].client[t] # 0 => /\ own'[b].client[t] = own[b].client[t]
                                   /\ ClientOf(b, t)' = ClientOf(b, t)
  <2>1. ASSUME NEW b \in Attempts, NEW t \in Sides
        PROVE  /\ own[b].client[t] \in 0..Len(clients[t]) /\ Len(clients[t]) \in Nat
               /\ (b # a \/ t # s) => own'[b].client[t] = own[b].client[t]
    <3>1. own[b].client[t] \in 0..Len(clients[t])  BY TypeFacts
    <3>2. Len(clients[t]) \in Nat  BY TypeFacts
    <3>3. ASSUME b # a PROVE own'[b].client[t] = own[b].client[t]  BY <3>3, <1>6
    <3>4. ASSUME b = a, t # s PROVE own'[b].client[t] = own[b].client[t]  BY <3>4, <1>6
    <3> QED  BY <3>1, <3>2, <3>3, <3>4
  <2>2. ASSUME NEW b \in Attempts, NEW t \in Sides, own[b].client[t] # 0
        PROVE  own'[b].client[t] = own[b].client[t] /\ ClientOf(b, t)' = ClientOf(b, t)
    <3>1. (b # a \/ t # s) /\ own'[b].client[t] = own[b].client[t]  BY <2>1, <2>2, <1>8
    <3>2. own[b].client[t] \in 1..Len(clients[t])  BY <2>1, <2>2
    <3> QED  BY <3>1, <3>2, <1>4 DEF ClientOf
  <2> QED  BY <2>1, <2>2
<1>10. Typed'
  <2>1. ASSUME NEW b \in Attempts, NEW t \in Sides PROVE own'[b].client[t] \in 0..Len(clients'[t])
    <3>1. CASE b = a /\ t = s  BY <3>1, <1>4, <1>5, <1>6
    <3>2. CASE t = s /\ b # a
      <4>1. own'[b].client[t] \in 0..Len(clients[s])  BY <3>2, <1>9
      <4> QED  BY <4>1, <3>2, <1>4, <1>5 DEF n
    <3>3. CASE t # s  BY <3>3, <1>4, <1>9
    <3> QED  BY <3>1, <3>2, <3>3
  <2>2. \A b \in Attempts, t \in Sides : \A k \in Kinds : own'[b][k][t] \in 0..Len(ends'[k][t])
    BY <1>1, <1>6, TypeFacts
  <2> QED  BY <2>1, <2>2, <1>1, <1>2, <1>4, <1>6, <1>7, TypeFacts DEF Typed, TypeOK
<1>11. ASSUME NEW b \in Attempts PROVE Order(b)'
  <2>1. CASE b = a
    <3>1. HasNone(a, "conn")' /\ HasNone(a, "chan")'  BY <1>6, <1>8 DEF HasNone, Kinds
    <3>2. CASE s = "B"
      <4>1. own[a].client["A"] = 0 /\ version[a] \in {1, 2}  BY <3>2, <1>1, SeenByOrder DEF Order, HasNone
      <4>2. own'[a].client["A"] = 0 /\ own'[a].client["B"] # 0  BY <4>1, <3>2, <1>5, <1>6, SideFacts
      <4> QED  BY <2>1, <3>1, <3>2, <4>1, <4>2, <1>1, <1>7 DEF Order, Middle, Early, Last
    <3>3. CASE s = "A"
      <4>1. own[a].client["B"] # 0 /\ version[a] \in {1, 2}  BY <3>3, <1>1, SeenByOrder DEF Order
      <4>2. own'[a].client["A"] # 0 /\ own'[a].client["B"] # 0  BY <4>1, <3>3, <1>5, <1>6, SideFacts
      <4> QED  BY <2>1, <3>1, <3>3, <4>1, <4>2, <1>1, <1>7 DEF Order, Has, Middle, Early, Last
    <3> QED  BY <3>2, <3>3, SideFacts
  <2>2. CASE b # a  BY <2>2, <1>1, <1>6, <1>7, OrderKept
  <2> QED  BY <2>1, <2>2
<1>12. ClientsOwned'
  <2>1. ASSUME NEW b \in Attempts, NEW c \in Attempts, NEW t \in Sides,
               own'[b].client[t] # 0, own'[b].client[t] = own'[c].client[t]
        PROVE  b = c
    <3>1. CASE t = s /\ (b = a \/ c = a)
      <4>1. \A d \in Attempts \ {a} : own'[d].client[s] # n  BY <1>5, <1>9 DEF n
      <4> QED  BY <3>1, <2>1, <4>1, <1>6
    <3>2. CASE ~(t = s /\ (b = a \/ c = a))
      BY <3>2, <2>1, <1>9 DEF Inv, ClientsOwned
    <3> QED  BY <3>1, <3>2
  <2>2. ASSUME NEW t \in Sides, NEW c \in 1..Len(clients'[t]), clients'[t][c].peer # 0
        PROVE  \E b \in Attempts : /\ own'[b].client[t] = c
                                   /\ own'[b].client[Other(t)] = clients'[t][c].peer
    <3>1. c \in 1..Len(clients[t]) /\ clients'[t][c] = clients[t][c]
      <4>1. CASE t = s
        <5>1. c # n  BY <2>2, <4>1, <1>3, <1>4
        <5>2. c \in 1..Len(clients[s])  BY <5>1, <4>1, <1>4, <1>5 DEF n
        <5> QED  BY <5>2, <4>1, <1>4
      <4>2. CASE t # s  BY <4>2, <1>4
      <4> QED  BY <4>1, <4>2
    <3>2. PICK b \in Attempts : own[b].client[t] = c /\ own[b].client[Other(t)] = clients[t][c].peer
      BY <3>1, <2>2 DEF Inv, ClientsOwned
    <3>3. own[b].client[t] # 0 /\ own[b].client[Other(t)] # 0  BY <3>1, <3>2, <2>2, <1>9
    <3>4. own'[b].client[t] = c /\ own'[b].client[Other(t)] = clients'[t][c].peer
      BY <3>1, <3>2, <3>3, <1>9, SideFacts
    <3> QED  BY <3>4
  <2> QED  BY <2>1, <2>2 DEF ClientsOwned
<1>13. EndsPaired'
  <2>1. \A b \in Attempts, k \in Kinds : own'[b][k] = own[b][k]  BY <1>6
  <2>2. EndsPaired /\ ends' = ends  BY <1>1 DEF Inv
  <2>3. ASSUME NEW k \in Kinds, NEW b \in Attempts, own'[b][k]["B"] # 0
        PROVE  /\ own'[b][k]["A"] # 0
               /\ EndOf(b, k, "B")'.peer = own'[b][k]["A"] /\ EndOf(b, k, "B")'.state # "INIT"
    <3>1. own'[b][k] = own[b][k]  BY <2>1
    <3> QED  BY <3>1, <2>2, <2>3 DEF EndsPaired, EndOf
  <2>4. ASSUME NEW k \in Kinds, NEW t \in Sides, NEW i \in 1..Len(ends'[k][t]), ends'[k][t][i].state = "OPEN"
        PROVE  /\ ends'[k][t][i].peer \in 1..Len(ends'[k][Other(t)])
               /\ ends'[k][Other(t)][ends'[k][t][i].peer].peer = i
               /\ ends'[k][Other(t)][ends'[k][t][i].peer].state # "INIT"
    BY <2>2, <2>4 DEF EndsPaired
  <2> QED  BY <2>3, <2>4 DEF EndsPaired
<1>14. \A b \in Attempts : own'[b].conn = own[b].conn /\ own'[b].chan = own[b].chan
  BY <1>6 DEF Kinds
<1>15. ConnsBuilt'
  <2>1. ASSUME NEW b \in Attempts, NEW t \in Sides, own'[b].conn[t] # 0
        PROVE  /\ EndOf(b, "conn", t)'.on = own'[b].client[t]
               /\ EndOf(b, "conn", t)'.peerOn = own'[b].client[Other(t)]
    <3>1. b # a  BY <2>1, <1>14, <1>8, SideFacts DEF HasNone
    <3> QED  BY <3>1, <2>1, <1>1, <1>6 DEF Inv, ConnsBuilt, EndOf
  <2> QED  BY <2>1 DEF ConnsBuilt
<1>16. FloorsBelow'
  <2>1. ASSUME NEW b \in Attempts, NEW t \in Sides
        PROVE  /\ floor[b][t] <= height'[t]
               /\ own'[b].client[t] # 0 => floor[b][t] < ClientOf(b, t)'.born
               /\ rows[b][t] # 0 => rows[b][t] = floor[b][t] /\ own'[b].client[t] # 0
    <3>1. floor[b][t] \in Nat /\ height[t] \in Nat /\ floor[b][t] <= height[t]
      BY TypeFacts DEF Inv, FloorsBelow
    <3>2. CASE b = a /\ t = s
      <4>1. ClientOf(b, t)'.born = height[s] + 1  BY <3>2, <1>3, <1>4, <1>6 DEF ClientOf
      <4> QED  BY <3>1, <3>2, <4>1, <1>2, <1>5, <1>6 DEF Inv, FloorsBelow
    <3>3. CASE b # a \/ t # s
      <4>1. floor[b][t] <= height'[t]
        <5>1. height'[t] \in {height[t], height[t] + 1}  BY <1>2
        <5> QED  BY <3>1, <5>1
      <4>2. own'[b].client[t] = own[b].client[t]  BY <3>3, <1>9
      <4> QED  BY <4>1, <4>2, <1>9 DEF Inv, FloorsBelow
    <3> QED  BY <3>2, <3>3
  <2> QED  BY <2>1, <1>1 DEF FloorsBelow
<1>17. PathsWired'
  <2>1. ASSUME NEW b \in Attempts \ {a}, Has(b, "client")
        PROVE  /\ \A t \in Sides : ClientOf(b, t)' = ClientOf(b, t)
               /\ own'[b] = own[b] /\ pc'[b] = pc[b]
    <3>1. \A t \in Sides : own[b].client[t] # 0  BY <2>1, SideFacts DEF Has
    <3> QED  BY <3>1, <1>6, <1>7, <1>9
  <2>2. ASSUME NEW b \in Attempts \ {a}, Wired(b) PROVE Wired(b)'
    <3>1. own'[b] = own[b] /\ version' = version /\ ends' = ends  BY <1>1, <1>6
    <3> QED  BY <2>1, <2>2, <3>1 DEF Wired, Has, EndOf
  <2>3. ASSUME NEW b \in Attempts \ {a}
        PROVE  /\ pc'[b] = "registerA" => ClientOf(b, "B")'.peer = own'[b].client["A"]
               /\ pc'[b] = "save" => Wired(b)'
               /\ table'[b] # <<>> => Stored(b)'
    <3>1. pc'[b] = pc[b] /\ own'[b] = own[b] /\ UNCHANGED <<table, version>>  BY <1>1, <1>6, <1>7
    <3>2. pc[b] = "registerA" => Has(b, "client")  BY SeenByOrder DEF Middle, Steps
    <3>3. pc[b] = "registerA" => ClientOf(b, "B").peer = own[b].client["A"]  BY DEF Inv, PathsWired
    <3>4. pc[b] = "registerA" => ClientOf(b, "B")' = ClientOf(b, "B")
      BY <2>1, <3>2, SideFacts DEF ClientOf
    <3>5. pc[b] = "save" => Wired(b)'  BY <2>2 DEF Inv, PathsWired
    <3>6. table[b] # <<>> => Stored(b)'  BY <2>2, <3>1, SeenByOrder DEF Stored
    <3> QED  BY <3>1, <3>3, <3>4, <3>5, <3>6
  <2>4. table'[a] = <<>> /\ pc'[a] \notin {"registerA", "save"}  BY <1>1, <1>7, <1>8
  <2> QED  BY <2>3, <2>4 DEF PathsWired
<1> QED  BY <1>10, <1>11, <1>12, <1>13, <1>15, <1>16, <1>17 DEF Inv

LEMMA RegisterKeeps ==
  ASSUME Inv, NEW a \in Attempts, NEW s \in Sides, registerCounterParty(a, s), UNCHANGED faults
  PROVE  Inv'
<1> DEFINE i == own[a].client[s]
           p == own[a].client[Other(s)]
           e == [clients[s][i] EXCEPT !.peer = p]
           step == IF s = "B" THEN "registerA" ELSE "save"
<1>1. /\ UNCHANGED <<ends, table, rows, own, version, floor>> /\ Commits(s) /\ Goes(a, step)
      /\ pc[a] = (IF s = "B" THEN "registerB" ELSE "registerA")
      /\ clients' = [clients EXCEPT ![s][i] = e]
  BY DEF registerCounterParty, dbVars
<1>2. /\ height' \in [Sides -> Nat \ {0}] /\ height[s] \in Nat /\ height'[s] = height[s] + 1
      /\ \A t \in Sides : t # s => height'[t] = height[t]
  BY <1>1, CommitsFacts
<1>3. Has(a, "client") /\ table[a] = <<>> /\ HasNone(a, "conn") /\ HasNone(a, "chan") /\ version[a] = 2
  BY <1>1, SeenByOrder DEF Order, Early, Middle, Last, Stored, Steps
<1>4. i \in 1..Len(clients[s]) /\ p \in 1..Len(clients[Other(s)]) /\ i # 0 /\ p # 0 /\ p \in Nat
  <2>1. i # 0 /\ p # 0  BY <1>3, SideFacts DEF Has
  <2>2. i \in 0..Len(clients[s]) /\ p \in 0..Len(clients[Other(s)])  BY TypeFacts, SideFacts
  <2> QED  BY <2>1, <2>2
<1>5. e \in Client /\ e.born = clients[s][i].born /\ e.peer = p
  <2>1. clients[s][i] \in Client  BY <1>4, TypeFacts
  <2> QED  BY <2>1, <1>4 DEF Client
<1> HIDE DEF e
<1>6. /\ clients' \in [Sides -> Seq(Client)]
      /\ Len(clients'[s]) = Len(clients[s]) /\ clients'[s][i] = e
      /\ \A c \in 1..Len(clients[s]) : c # i => clients'[s][c] = clients[s][c]
      /\ \A t \in Sides : t # s => clients'[t] = clients[t]
  <2> HIDE DEF i
  <2> QED  BY <1>1, <1>4, <1>5, TypeFacts, ClientChanged
<1>7. /\ pc' \in [Attempts -> Steps] /\ prep' \in [Attempts -> {"begin", "wait", "proof"}]
      /\ mark' \in [Attempts -> [Sides -> Nat]] /\ header' \in [Attempts -> Nat]
      /\ pc'[a] = step /\ \A b \in Attempts \ {a} : pc'[b] = pc[b]
  BY <1>1, GoesFacts DEF Steps
<1>8. \A t \in Sides : /\ Len(clients'[t]) = Len(clients[t])
                       /\ \A c \in 1..Len(clients[t]) : clients'[t][c].born = clients[t][c].born
  BY <1>5, <1>6
<1>9. Typed'
  <2>1. \A b \in Attempts, t \in Sides :
          /\ own'[b].client[t] \in 0..Len(clients'[t])
          /\ \A k \in Kinds : own'[b][k][t] \in 0..Len(ends'[k][t])
    BY <1>1, <1>8, TypeFacts
  <2> QED  BY <2>1, <1>1, <1>2, <1>6, <1>7, TypeFacts DEF Typed, TypeOK
<1>10. ASSUME NEW b \in Attempts PROVE Order(b)'
  <2>1. CASE b = a
    BY <2>1, <1>1, <1>3, <1>7 DEF Order, Has, HasNone, Early, Last
  <2>2. CASE b # a  BY <2>2, <1>1, <1>7, OrderKept
  <2> QED  BY <2>1, <2>2
<1>11. ClientsOwned'
  <2>1. ClientsOwned /\ own' = own  BY <1>1 DEF Inv
  <2>2. ASSUME NEW t \in Sides, NEW c \in 1..Len(clients'[t]), clients'[t][c].peer # 0
        PROVE  \E b \in Attempts : /\ own[b].client[t] = c
                                   /\ own[b].client[Other(t)] = clients'[t][c].peer
    <3>1. CASE t = s /\ c = i
      <4>1. own[a].client[t] = c /\ own[a].client[Other(t)] = clients'[t][c].peer
        BY <3>1, <1>5, <1>6
      <4> QED  BY <4>1
    <3>2. CASE ~(t = s /\ c = i)
      <4>1. c \in 1..Len(clients[t]) /\ clients'[t][c] = clients[t][c]  BY <3>2, <2>2, <1>6
      <4> QED  BY <4>1, <2>1, <2>2 DEF ClientsOwned
    <3> QED  BY <3>1, <3>2
  <2> QED  BY <2>1, <2>2 DEF ClientsOwned
<1>12. EndsPaired'
  <2>1. EndsPaired /\ UNCHANGED <<ends, own>>  BY <1>1 DEF Inv
  <2> QED  BY <2>1 DEF EndsPaired, EndOf
<1>13. ConnsBuilt'
  <2>1. ConnsBuilt /\ UNCHANGED <<ends, own>>  BY <1>1 DEF Inv
  <2> QED  BY <2>1 DEF ConnsBuilt, EndOf
<1>14. FloorsBelow'
  <2>1. ASSUME NEW b \in Attempts, NEW t \in Sides
        PROVE  /\ floor[b][t] <= height'[t]
               /\ own[b].client[t] # 0 => floor[b][t] < ClientOf(b, t)'.born
    <3>1. height'[t] \in {height[t], height[t] + 1}  BY <1>2
    <3>2. floor[b][t] \in Nat /\ height[t] \in Nat /\ floor[b][t] <= height[t]
      BY TypeFacts DEF Inv, FloorsBelow
    <3>3. ASSUME own[b].client[t] # 0 PROVE floor[b][t] < ClientOf(b, t)'.born
      <4>1. own[b].client[t] \in 1..Len(clients[t])  BY <3>3, OwnInRange
      <4>2. ClientOf(b, t)'.born = ClientOf(b, t).born  BY <4>1, <1>1, <1>8 DEF ClientOf
      <4> QED  BY <4>2, <3>3 DEF Inv, FloorsBelow
    <3> QED  BY <3>1, <3>2, <3>3
  <2>2. \A b \in Attempts, t \in Sides : rows[b][t] # 0 => rows[b][t] = floor[b][t] /\ own[b].client[t] # 0
    BY DEF Inv, FloorsBelow
  <2> QED  BY <2>1, <2>2, <1>1 DEF FloorsBelow
<1>15. PathsWired'
  <2>1. ASSUME NEW b \in Attempts \ {a}, NEW t \in Sides, own[b].client[t] # 0
        PROVE  ClientOf(b, t)' = ClientOf(b, t)
    <3>1. own[b].client[t] \in 1..Len(clients[t])  BY <2>1, OwnInRange
    <3>2. ~(t = s /\ own[b].client[t] = i)  BY <2>1, <1>4 DEF Inv, ClientsOwned
    <3> QED  BY <3>1, <3>2, <1>1, <1>6 DEF ClientOf
  <2>2. ASSUME NEW b \in Attempts \ {a}, Wired(b) PROVE Wired(b)'
    <3>1. CASE version[b] = 1  BY <2>2, <3>1, <1>1 DEF Wired, Has, EndOf
    <3>2. CASE version[b] # 1
      <4>1. Has(b, "client") /\ \A t \in Sides : ClientOf(b, t).peer = own[b].client[Other(t)]
        BY <2>2, <3>2 DEF Wired
      <4>2. \A t \in Sides : own[b].client[t] # 0  BY <4>1, SideFacts DEF Has
      <4>3. \A t \in Sides : ClientOf(b, t)'.peer = own[b].client[Other(t)]  BY <4>1, <4>2, <2>1
      <4>4. Has(b, "client")'  BY <4>1, <1>1 DEF Has
      <4> QED  BY <4>3, <4>4, <3>2, <1>1 DEF Wired
    <3> QED  BY <3>1, <3>2
  <2>3. ASSUME NEW b \in Attempts \ {a}
        PROVE  /\ pc'[b] = "registerA" => ClientOf(b, "B")'.peer = own'[b].client["A"]
               /\ pc'[b] = "save" => Wired(b)'
               /\ table'[b] # <<>> => Stored(b)'
    <3>1. pc'[b] = pc[b] /\ UNCHANGED <<own, table, version>>  BY <1>1, <1>7
    <3>2. pc[b] = "registerA" => Has(b, "client")  BY SeenByOrder DEF Middle, Steps
    <3>3. pc[b] = "registerA" => ClientOf(b, "B").peer = own[b].client["A"]  BY DEF Inv, PathsWired
    <3>4. pc[b] = "registerA" => ClientOf(b, "B")' = ClientOf(b, "B")
      BY <2>1, <3>2, SideFacts DEF ClientOf, Has
    <3>5. pc[b] = "save" => Wired(b)'  BY <2>2 DEF Inv, PathsWired
    <3>6. table[b] # <<>> => Stored(b)'  BY <2>2, <3>1, SeenByOrder DEF Stored
    <3> QED  BY <3>1, <3>3, <3>4, <3>5, <3>6
  <2>4. ClientOf(a, s)'.peer = own[a].client[Other(s)]  BY <1>1, <1>5, <1>6 DEF ClientOf
  <2>5. s = "B" => ClientOf(a, "B")'.peer = own'[a].client["A"]
    BY <2>4, <1>1, SideFacts DEF ClientOf
  <2>6. ASSUME s = "A" PROVE Wired(a)'
    <3>1. ClientOf(a, "B").peer = own[a].client["A"]  BY <2>6, <1>1 DEF Inv, PathsWired
    <3>2. ClientOf(a, "B")' = ClientOf(a, "B")  BY <2>6, <1>1, <1>6, SideFacts DEF ClientOf
    <3>3. \A t \in Sides : ClientOf(a, t)'.peer = own[a].client[Other(t)]
      BY <3>1, <3>2, <2>4, <2>6, SideFacts DEF ClientOf
    <3>4. Has(a, "client")'  BY <1>1, <1>3 DEF Has
    <3> QED  BY <3>3, <3>4, <1>1, <1>3 DEF Wired
  <2>7. /\ table'[a] = <<>> /\ (pc'[a] = "registerA" => s = "B") /\ (pc'[a] = "save" => s = "A")
    BY <1>1, <1>3, <1>7, SideFacts
  <2> QED  BY <2>3, <2>5, <2>6, <2>7 DEF PathsWired
<1> QED  BY <1>9, <1>10, <1>11, <1>12, <1>13, <1>14, <1>15 DEF Inv

-------------------------------------------------------------------------------
(***************************************************************************)
(* Handshakes.                                                             *)
(***************************************************************************)

\* What all four of their steps leave alone.
LEMMA HandshakeFrame ==
  ASSUME Inv, NEW a \in Attempts, NEW s \in Sides, NEW then \in Steps, Commits(s), Goes(a, then),
         UNCHANGED <<clients, dbVars, floor, version, faults>>,
         ends' \in [Kinds -> [Sides -> Seq(End)]], own' \in [Attempts -> Own],
         \A b \in Attempts : own'[b].client = own[b].client,
         \A b \in Attempts \ {a} : own'[b] = own[b],
         \A k \in Kinds, t \in Sides : /\ own'[a][k][t] \in 0..Len(ends'[k][t])
                                       /\ Len(ends[k][t]) <= Len(ends'[k][t]),
         Order(a)'
  PROVE  /\ Typed' /\ ClientsOwned' /\ FloorsBelow'
         /\ \A b \in Attempts : Order(b)'
<1>1. /\ height' \in [Sides -> Nat \ {0}] /\ height[s] \in Nat /\ height'[s] = height[s] + 1
      /\ \A t \in Sides : t # s => height'[t] = height[t]
  BY CommitsFacts
<1>2. /\ pc' \in [Attempts -> Steps] /\ prep' \in [Attempts -> {"begin", "wait", "proof"}]
      /\ mark' \in [Attempts -> [Sides -> Nat]] /\ header' \in [Attempts -> Nat]
      /\ pc'[a] = then /\ \A b \in Attempts \ {a} : pc'[b] = pc[b]
  BY GoesFacts
<1>3. Typed'
  <2>1. ASSUME NEW b \in Attempts, NEW t \in Sides, NEW k \in Kinds
        PROVE  own'[b][k][t] \in 0..Len(ends'[k][t])
    <3>1. CASE b = a  BY <3>1
    <3>2. CASE b # a
      <4>1. own'[b][k][t] = own[b][k][t] /\ own[b][k][t] \in 0..Len(ends[k][t])  BY <3>2, TypeFacts
      <4>2. ends \in [Kinds -> [Sides -> Seq(End)]]  BY TypeFacts
      <4>3. Len(ends[k][t]) \in Nat  BY <4>2
      <4>4. Len(ends'[k][t]) \in Nat /\ Len(ends[k][t]) <= Len(ends'[k][t])  OBVIOUS
      <4> QED  BY <4>1, <4>3, <4>4
    <3> QED  BY <3>1, <3>2
  <2>2. \A b \in Attempts, t \in Sides : own'[b].client[t] \in 0..Len(clients'[t])  BY TypeFacts
  <2> QED  BY <1>1, <1>2, <2>1, <2>2, TypeFacts DEF Typed, TypeOK, dbVars
<1>4. ASSUME NEW b \in Attempts PROVE Order(b)'
  <2>1. CASE b = a  BY <2>1
  <2>2. CASE b # a  BY <2>2, <1>2, OrderKept
  <2> QED  BY <2>1, <2>2
<1>5. ClientsOwned'
  <2>1. ClientsOwned /\ clients' = clients  BY DEF Inv
  <2>2. \A b, c \in Attempts, t \in Sides :
          own'[b].client[t] # 0 /\ own'[b].client[t] = own'[c].client[t] => b = c
    BY <2>1 DEF ClientsOwned
  <2>3. ASSUME NEW t \in Sides, NEW c \in 1..Len(clients'[t]), clients'[t][c].peer # 0
        PROVE  \E b \in Attempts : /\ own'[b].client[t] = c
                                   /\ own'[b].client[Other(t)] = clients'[t][c].peer
    <3>1. PICK b \in Attempts : own[b].client[t] = c /\ own[b].client[Other(t)] = clients[t][c].peer
      BY <2>1, <2>3 DEF ClientsOwned
    <3>2. own'[b].client = own[b].client /\ clients' = clients  BY <2>1
    <3> QED  BY <3>1, <3>2
  <2> QED  BY <2>2, <2>3 DEF ClientsOwned
<1>6. FloorsBelow'
  <2>1. ASSUME NEW b \in Attempts, NEW t \in Sides PROVE floor[b][t] <= height'[t]
    <3>1. height'[t] \in {height[t], height[t] + 1}  BY <1>1
    <3>2. floor[b][t] \in Nat /\ height[t] \in Nat /\ floor[b][t] <= height[t]
      BY TypeFacts DEF Inv, FloorsBelow
    <3> QED  BY <3>1, <3>2
  <2>2. FloorsBelow /\ UNCHANGED <<clients, floor, rows>>  BY DEF Inv, dbVars
  <2>3. \A b \in Attempts, t \in Sides : ClientOf(b, t)' = ClientOf(b, t)  BY <2>2 DEF ClientOf
  <2>4. \A b \in Attempts, t \in Sides : own'[b].client[t] = own[b].client[t]  OBVIOUS
  <2> QED  BY <2>1, <2>2, <2>3, <2>4 DEF FloorsBelow
<1> QED  BY <1>3, <1>4, <1>5, <1>6

\* A stored path stays wired as long as its connection stays open.
LEMMA HandshakePaths ==
  ASSUME Inv, NEW a \in Attempts, NEW then \in Steps, Goes(a, then), then # "registerA",
         UNCHANGED <<clients, table, version>>,
         \A b \in Attempts : own'[b].client = own[b].client,
         \A b \in Attempts \ {a} : own'[b] = own[b],
         table[a] # <<>> => own'[a].conn = own[a].conn /\ then \in {"seed", "chanInit"} \union Last,
         \A b \in Attempts, s \in Sides :
           own[b].conn[s] # 0 /\ EndOf(b, "conn", s).state = "OPEN" /\ own'[b].conn = own[b].conn
             => EndOf(b, "conn", s)'.state = "OPEN",
         then = "save" => Wired(a)'
  PROVE  PathsWired'
<1>1. pc'[a] = then /\ \A b \in Attempts \ {a} : pc'[b] = pc[b]  BY GoesFacts
<1>2. \A b \in Attempts, t \in Sides : ClientOf(b, t)' = ClientOf(b, t)  BY DEF ClientOf
<1>3. ASSUME NEW b \in Attempts, own'[b].conn = own[b].conn, Wired(b) PROVE Wired(b)'
  <2>1. CASE version[b] = 1
    <3>1. Has(b, "conn") /\ \A t \in Sides : EndOf(b, "conn", t).state = "OPEN"  BY <1>3, <2>1 DEF Wired
    <3>2. \A t \in Sides : own[b].conn[t] # 0  BY <3>1, SideFacts DEF Has
    <3>3. \A t \in Sides : EndOf(b, "conn", t)'.state = "OPEN"  BY <1>3, <3>1, <3>2
    <3>4. Has(b, "conn")'  BY <1>3, <3>1 DEF Has
    <3> QED  BY <2>1, <3>3, <3>4 DEF Wired
  <2>2. CASE version[b] # 1
    <3>1. Has(b, "client") /\ \A t \in Sides : ClientOf(b, t).peer = own[b].client[Other(t)]
      BY <1>3, <2>2 DEF Wired
    <3>2. Has(b, "client")'  BY <3>1 DEF Has
    <3>3. \A t \in Sides : ClientOf(b, t)'.peer = own'[b].client[Other(t)]  BY <3>1, <1>2
    <3> QED  BY <2>2, <3>2, <3>3 DEF Wired
  <2> QED  BY <2>1, <2>2
<1>4. ASSUME NEW b \in Attempts PROVE table'[b] # <<>> => Stored(b)'
  <2> SUFFICES ASSUME table[b] # <<>> PROVE Stored(b)'  OBVIOUS
  <2>1. Stored(b) /\ Wired(b)  BY SeenByOrder DEF Stored
  <2>2. own'[b].conn = own[b].conn /\ pc'[b] \in {"seed", "chanInit"} \union Last
    BY <1>1, <2>1 DEF Stored
  <2>3. Wired(b)'  BY <2>1, <2>2, <1>3
  <2> QED  BY <2>1, <2>2, <2>3 DEF Stored
<1>5. ASSUME NEW b \in Attempts PROVE pc'[b] = "save" => Wired(b)'
  <2>1. CASE b = a  BY <2>1, <1>1
  <2>2. CASE b # a  BY <2>2, <1>1, <1>3 DEF Inv, PathsWired
  <2> QED  BY <2>1, <2>2
<1>6. ASSUME NEW b \in Attempts, pc'[b] = "registerA" PROVE ClientOf(b, "B")'.peer = own'[b].client["A"]
  <2>1. b # a /\ pc[b] = "registerA"  BY <1>1, <1>6
  <2>2. ClientOf(b, "B").peer = own[b].client["A"]  BY <2>1 DEF Inv, PathsWired
  <2>3. ClientOf(b, "B")' = ClientOf(b, "B")  BY <1>2, SideFacts DEF ClientOf
  <2> QED  BY <2>2, <2>3
<1> QED  BY <1>4, <1>5, <1>6 DEF PathsWired

\* OpenInit and OpenTry: a new end, which is not open yet.
LEMMA HandshakeAppends ==
  ASSUME Inv, NEW a \in Attempts, NEW k \in Kinds, NEW s \in Sides, NEW then \in Steps, NEW e \in End,
         Commits(s), Goes(a, then), UNCHANGED <<clients, dbVars, floor, version, faults>>,
         ends' = [ends EXCEPT ![k][s] = Append(@, e)],
         own' = [own EXCEPT ![a][k][s] = Len(ends[k][s]) + 1],
         own[a][k][s] = 0, e.state # "OPEN",
         k = "conn" => e.on = own[a].client[s] /\ e.peerOn = own[a].client[Other(s)],
         s = "B" => own[a][k]["A"] # 0 /\ e.peer = own[a][k]["A"] /\ e.state # "INIT",
         table[a] # <<>> => k = "chan" /\ then \in Last,
         then \notin {"registerA", "save"}, Order(a)'
  PROVE  Inv'
<1> DEFINE n == Len(ends[k][s]) + 1
<1>1. /\ ends' \in [Kinds -> [Sides -> Seq(End)]]
      /\ Len(ends'[k][s]) = n /\ ends'[k][s][n] = e
      /\ \A i \in 1..Len(ends[k][s]) : ends'[k][s][i] = ends[k][s][i]
      /\ \A j \in Kinds, t \in Sides : j # k \/ t # s => ends'[j][t] = ends[j][t]
  BY TypeFacts, EndAppended
<1>2. Len(ends[k][s]) \in Nat /\ n \in Nat /\ n # 0
  <2>1. ends \in [Kinds -> [Sides -> Seq(End)]]  BY TypeFacts
  <2> QED  BY <2>1
<1>3. /\ own' \in [Attempts -> Own] /\ own'[a][k][s] = n /\ own'[a].client = own[a].client
      /\ \A t \in Sides : t # s => own'[a][k][t] = own[a][k][t]
      /\ \A j \in Kinds : j # k => own'[a][j] = own[a][j]
      /\ \A b \in Attempts \ {a} : own'[b] = own[b]
  <2>1. own \in [Attempts -> Own]  BY TypeFacts
  <2> QED  BY <1>2, <2>1, OwnEnd
<1>4. \A j \in Kinds, t \in Sides : \A i \in 1..Len(ends[j][t]) :
        i \in 1..Len(ends'[j][t]) /\ ends'[j][t][i] = ends[j][t][i]
  <2> SUFFICES ASSUME NEW j \in Kinds, NEW t \in Sides, NEW i \in 1..Len(ends[j][t])
               PROVE  i \in 1..Len(ends'[j][t]) /\ ends'[j][t][i] = ends[j][t][i]
    OBVIOUS
  <2>1. CASE j = k /\ t = s  BY <2>1, <1>1, <1>2
  <2>2. CASE j # k \/ t # s  BY <2>2, <1>1
  <2> QED  BY <2>1, <2>2
<1>5. \A b \in Attempts, j \in Kinds, t \in Sides : own[b][j][t] # 0 =>
        own'[b][j][t] = own[b][j][t] /\ ends'[j][t][own'[b][j][t]] = ends[j][t][own[b][j][t]]
  <2> SUFFICES ASSUME NEW b \in Attempts, NEW j \in Kinds, NEW t \in Sides, own[b][j][t] # 0
               PROVE  /\ own'[b][j][t] = own[b][j][t]
                      /\ ends'[j][t][own'[b][j][t]] = ends[j][t][own[b][j][t]]
    OBVIOUS
  <2>1. own'[b][j][t] = own[b][j][t]
    <3>1. CASE b # a  BY <3>1, <1>3
    <3>2. CASE b = a /\ j # k  BY <3>2, <1>3
    <3>3. CASE b = a /\ j = k
      <4>1. t # s  BY <3>3
      <4> QED  BY <3>3, <4>1, <1>3
    <3> QED  BY <3>1, <3>2, <3>3
  <2>2. own[b][j][t] \in 1..Len(ends[j][t])  BY OwnInRange
  <2> QED  BY <2>1, <2>2, <1>4
<1>6. \A j \in Kinds, t \in Sides : /\ own'[a][j][t] \in 0..Len(ends'[j][t])
                                    /\ Len(ends[j][t]) <= Len(ends'[j][t])
  <2> SUFFICES ASSUME NEW j \in Kinds, NEW t \in Sides
               PROVE  own'[a][j][t] \in 0..Len(ends'[j][t]) /\ Len(ends[j][t]) <= Len(ends'[j][t])
    OBVIOUS
  <2>1. CASE j = k /\ t = s  BY <2>1, <1>1, <1>2, <1>3
  <2>2. CASE j # k \/ t # s
    <3>1. own'[a][j][t] = own[a][j][t] /\ ends'[j][t] = ends[j][t]  BY <2>2, <1>1, <1>3
    <3>2. own[a][j][t] \in 0..Len(ends[j][t])  BY TypeFacts
    <3>3. Len(ends[j][t]) \in Nat
      <4>1. ends \in [Kinds -> [Sides -> Seq(End)]]  BY TypeFacts
      <4> QED  BY <4>1
    <3> QED  BY <3>1, <3>2, <3>3
  <2> QED  BY <2>1, <2>2
<1>7. \A b \in Attempts : own'[b].client = own[b].client  BY <1>3
<1>8. Typed' /\ ClientsOwned' /\ FloorsBelow' /\ \A b \in Attempts : Order(b)'
  BY <1>1, <1>3, <1>6, <1>7, HandshakeFrame
<1>9. PathsWired'
  <2>1. table[a] # <<>> => own'[a].conn = own[a].conn /\ then \in {"seed", "chanInit"} \union Last
    BY <1>3 DEF Kinds
  <2>2. \A b \in Attempts, t \in Sides :
          own[b].conn[t] # 0 /\ EndOf(b, "conn", t).state = "OPEN" /\ own'[b].conn = own[b].conn
            => EndOf(b, "conn", t)'.state = "OPEN"
    BY <1>5 DEF EndOf, Kinds
  <2>3. UNCHANGED table  BY DEF dbVars
  <2> QED  BY <2>1, <2>2, <2>3, <1>3, <1>7, HandshakePaths
<1>10. EndsPaired'
  <2>1. ASSUME NEW j \in Kinds, NEW t \in Sides, NEW i \in 1..Len(ends'[j][t]), ends'[j][t][i].state = "OPEN"
        PROVE  /\ ends'[j][t][i].peer \in 1..Len(ends'[j][Other(t)])
               /\ ends'[j][Other(t)][ends'[j][t][i].peer].peer = i
               /\ ends'[j][Other(t)][ends'[j][t][i].peer].state # "INIT"
    <3>1. i \in 1..Len(ends[j][t])
      <4>1. CASE j = k /\ t = s
        <5>1. i # n  BY <2>1, <4>1, <1>1
        <5> QED  BY <5>1, <4>1, <1>1, <1>2
      <4>2. CASE j # k \/ t # s  BY <4>2, <1>1
      <4> QED  BY <4>1, <4>2
    <3>2. ends'[j][t][i] = ends[j][t][i]  BY <3>1, <1>4
    <3>3. /\ ends[j][t][i].peer \in 1..Len(ends[j][Other(t)])
          /\ ends[j][Other(t)][ends[j][t][i].peer].peer = i
          /\ ends[j][Other(t)][ends[j][t][i].peer].state # "INIT"
      BY <2>1, <3>1, <3>2 DEF Inv, EndsPaired
    <3>4. Other(t) \in Sides  BY SideFacts
    <3>5. /\ ends[j][t][i].peer \in 1..Len(ends'[j][Other(t)])
          /\ ends'[j][Other(t)][ends[j][t][i].peer] = ends[j][Other(t)][ends[j][t][i].peer]
      BY <3>3, <3>4, <1>4
    <3> QED  BY <3>2, <3>3, <3>5
  <2>2. ASSUME NEW j \in Kinds, NEW b \in Attempts, own'[b][j]["B"] # 0
        PROVE  /\ own'[b][j]["A"] # 0
               /\ EndOf(b, j, "B")'.peer = own'[b][j]["A"] /\ EndOf(b, j, "B")'.state # "INIT"
    <3>1. CASE b = a /\ j = k /\ s = "B"
      <4>1. own'[b][j]["A"] = own[a][k]["A"]  BY <3>1, <1>3, SideFacts
      <4>2. EndOf(b, j, "B")' = e  BY <3>1, <1>1, <1>3 DEF EndOf
      <4> QED  BY <3>1, <4>1, <4>2
    <3>2. CASE ~(b = a /\ j = k /\ s = "B")
      <4>1. own[b][j]["B"] # 0
        <5>1. own'[b][j]["B"] = own[b][j]["B"]  BY <3>2, <1>3, SideFacts
        <5> QED  BY <5>1, <2>2
      <4>2. /\ own[b][j]["A"] # 0
            /\ EndOf(b, j, "B").peer = own[b][j]["A"] /\ EndOf(b, j, "B").state # "INIT"
        BY <4>1 DEF Inv, EndsPaired
      <4> QED  BY <4>1, <4>2, <1>5, SideFacts DEF EndOf
    <3> QED  BY <3>1, <3>2
  <2> QED  BY <2>1, <2>2 DEF EndsPaired
<1>11. ConnsBuilt'
  <2>1. ASSUME NEW b \in Attempts, NEW t \in Sides, own'[b].conn[t] # 0
        PROVE  /\ EndOf(b, "conn", t)'.on = own'[b].client[t]
               /\ EndOf(b, "conn", t)'.peerOn = own'[b].client[Other(t)]
    <3>1. CASE b = a /\ k = "conn" /\ t = s
      <4>1. EndOf(b, "conn", t)' = e  BY <3>1, <1>1, <1>3 DEF EndOf
      <4> QED  BY <3>1, <4>1, <1>3
    <3>2. CASE ~(b = a /\ k = "conn" /\ t = s)
      <4>1. own[b].conn[t] # 0
        <5>1. own'[b].conn[t] = own[b].conn[t]  BY <3>2, <1>3 DEF Kinds
        <5> QED  BY <5>1, <2>1
      <4>2. EndOf(b, "conn", t)' = EndOf(b, "conn", t)  BY <4>1, <1>5 DEF EndOf, Kinds
      <4> QED  BY <4>1, <4>2, <1>7 DEF Inv, ConnsBuilt
    <3> QED  BY <3>1, <3>2
  <2> QED  BY <2>1 DEF ConnsBuilt
<1> QED  BY <1>8, <1>9, <1>10, <1>11 DEF Inv

\* OpenAck and OpenConfirm: the end of a command opens, towards the end it has
\* on the other chain, which names it already.
LEMMA HandshakeOpens ==
  ASSUME Inv, NEW a \in Attempts, NEW k \in Kinds, NEW s \in Sides, NEW then \in Steps, NEW e \in End,
         Commits(s), Goes(a, then), UNCHANGED <<clients, dbVars, own, floor, version, faults>>,
         ends' = [ends EXCEPT ![k][s][own[a][k][s]] = e],
         Has(a, k), e.state = "OPEN",
         e.on = EndOf(a, k, s).on, e.peerOn = EndOf(a, k, s).peerOn, e.peer = own[a][k][Other(s)],
         EndOf(a, k, s).state = "INIT" \/ EndOf(a, k, s).peer = e.peer,
         EndOf(a, k, Other(s)).peer = own[a][k][s], EndOf(a, k, Other(s)).state # "INIT",
         s = "B" \/ EndOf(a, k, s).state = "INIT",
         table[a] # <<>> => then \in Last,
         then = "save" => k = "conn" /\ version[a] = 1 /\ EndOf(a, k, Other(s)).state = "OPEN",
         then # "registerA", Order(a)'
  PROVE  Inv'
<1> DEFINE i == own[a][k][s]
           p == own[a][k][Other(s)]
           old == ends[k][s][i]
<1>1. i \in 1..Len(ends[k][s]) /\ p \in 1..Len(ends[k][Other(s)])
  <2>1. i # 0 /\ p # 0  BY SideFacts DEF Has
  <2> QED  BY <2>1, OwnInRange, SideFacts
<1>2. /\ ends' \in [Kinds -> [Sides -> Seq(End)]]
      /\ Len(ends'[k][s]) = Len(ends[k][s]) /\ ends'[k][s][i] = e
      /\ \A h \in 1..Len(ends[k][s]) : h # i => ends'[k][s][h] = ends[k][s][h]
      /\ \A j \in Kinds, t \in Sides : j # k \/ t # s => ends'[j][t] = ends[j][t]
  <2>1. ends \in [Kinds -> [Sides -> Seq(End)]] /\ ends' = [ends EXCEPT ![k][s][i] = e]  BY TypeFacts
  <2> QED  BY <1>1, <2>1, EndChanged
<1>3. /\ old = EndOf(a, k, s)
      /\ old.state = "INIT" \/ old.peer = e.peer
      /\ s = "B" \/ old.state = "INIT"
  BY DEF EndOf
<1>4. ends[k][Other(s)][p].peer = i /\ ends[k][Other(s)][p].state # "INIT"  BY DEF EndOf
<1>5. \A j \in Kinds, t \in Sides :
        /\ Len(ends'[j][t]) = Len(ends[j][t])
        /\ \A h \in 1..Len(ends[j][t]) : ~(j = k /\ t = s /\ h = i) => ends'[j][t][h] = ends[j][t][h]
  BY <1>2
<1>6. ASSUME NEW j \in Kinds, NEW t \in Sides, NEW h \in 1..Len(ends[j][t])
      PROVE  /\ ends'[j][t][h].on = ends[j][t][h].on
             /\ ends'[j][t][h].peerOn = ends[j][t][h].peerOn
             /\ ends[j][t][h].state # "INIT" => ends'[j][t][h].peer = ends[j][t][h].peer
             /\ ends[j][t][h].state # "INIT" => ends'[j][t][h].state # "INIT"
             /\ ends[j][t][h].state = "OPEN" => ends'[j][t][h].state = "OPEN"
  <2>1. CASE j = k /\ t = s /\ h = i
    <3>1. ends'[j][t][h] = e /\ ends[j][t][h] = old  BY <2>1, <1>2
    <3>2. e.on = old.on /\ e.peerOn = old.peerOn  BY DEF EndOf
    <3> QED  BY <3>1, <3>2, <1>3
  <2>2. CASE ~(j = k /\ t = s /\ h = i)  BY <2>2, <1>5
  <2> QED  BY <2>1, <2>2
<1>7. \A j \in Kinds, t \in Sides : /\ own'[a][j][t] \in 0..Len(ends'[j][t])
                                    /\ Len(ends[j][t]) <= Len(ends'[j][t])
  <2>1. ends \in [Kinds -> [Sides -> Seq(End)]]  BY TypeFacts
  <2>2. \A j \in Kinds, t \in Sides : Len(ends[j][t]) \in Nat  BY <2>1
  <2>3. \A j \in Kinds, t \in Sides : own[a][j][t] \in 0..Len(ends[j][t])  BY TypeFacts
  <2> QED  BY <2>2, <2>3, <1>5
<1>8. Typed' /\ ClientsOwned' /\ FloorsBelow' /\ \A b \in Attempts : Order(b)'
  BY <1>2, <1>7, TypeFacts, HandshakeFrame
<1>9. \A b \in Attempts, j \in Kinds, t \in Sides : own[b][j][t] # 0 =>
        own[b][j][t] \in 1..Len(ends[j][t])
  BY OwnInRange
<1>10. PathsWired'
  <2>1. \A b \in Attempts, t \in Sides :
          own[b].conn[t] # 0 /\ EndOf(b, "conn", t).state = "OPEN"
            => EndOf(b, "conn", t)'.state = "OPEN"
    <3> SUFFICES ASSUME NEW b \in Attempts, NEW t \in Sides, own[b].conn[t] # 0,
                        EndOf(b, "conn", t).state = "OPEN"
                 PROVE  EndOf(b, "conn", t)'.state = "OPEN"
      OBVIOUS
    <3>1. own[b]["conn"][t] \in 1..Len(ends["conn"][t])  BY <1>9 DEF Kinds
    <3>2. "conn" \in Kinds  BY DEF Kinds
    <3>3. ends["conn"][t][own[b]["conn"][t]].state = "OPEN"  BY DEF EndOf
    <3>4. ends'["conn"][t][own[b]["conn"][t]].state = "OPEN"  BY <3>1, <3>2, <3>3, <1>6
    <3> QED  BY <3>4 DEF EndOf
  <2>2. ASSUME then = "save" PROVE Wired(a)'
    <3>1. EndOf(a, "conn", s)'.state = "OPEN"  BY <2>2, <1>2 DEF EndOf
    <3>2. EndOf(a, "conn", Other(s))'.state = "OPEN"
      <4>1. ends'[k][Other(s)][p] = ends[k][Other(s)][p]  BY <1>1, <1>2, SideFacts
      <4> QED  BY <4>1, <2>2 DEF EndOf
    <3>3. \A t \in Sides : EndOf(a, "conn", t)'.state = "OPEN"
      BY <3>1, <3>2, SideFacts DEF EndOf
    <3>4. Has(a, "conn")' /\ version'[a] = 1  BY <2>2 DEF Has
    <3> QED  BY <3>3, <3>4 DEF Wired
  <2>3. UNCHANGED table /\ (table[a] # <<>> => then \in {"seed", "chanInit"} \union Last)  BY DEF dbVars
  <2> QED  BY <2>1, <2>2, <2>3, HandshakePaths
<1>11. EndsPaired'
  <2>1. ASSUME NEW j \in Kinds, NEW t \in Sides, NEW h \in 1..Len(ends'[j][t]), ends'[j][t][h].state = "OPEN"
        PROVE  /\ ends'[j][t][h].peer \in 1..Len(ends'[j][Other(t)])
               /\ ends'[j][Other(t)][ends'[j][t][h].peer].peer = h
               /\ ends'[j][Other(t)][ends'[j][t][h].peer].state # "INIT"
    <3>0. Other(t) \in Sides /\ h \in 1..Len(ends[j][t])  BY <2>1, <1>5, SideFacts
    <3>1. CASE j = k /\ t = s /\ h = i
      <4>1. ends'[j][t][h].peer = p  BY <3>1, <1>2
      <4>2. ends'[k][Other(s)][p] = ends[k][Other(s)][p]  BY <1>1, <1>2, SideFacts
      <4>3. p \in 1..Len(ends'[j][Other(t)])  BY <3>0, <3>1, <1>1, <1>5
      <4>4. ends'[j][Other(t)][p].peer = h /\ ends'[j][Other(t)][p].state # "INIT"
        BY <3>1, <4>2, <1>4
      <4> QED  BY <4>1, <4>3, <4>4
    <3>2. CASE ~(j = k /\ t = s /\ h = i)
      <4>1. ends'[j][t][h] = ends[j][t][h]  BY <3>0, <3>2, <1>5
      <4>2. /\ ends[j][t][h].peer \in 1..Len(ends[j][Other(t)])
            /\ ends[j][Other(t)][ends[j][t][h].peer].peer = h
            /\ ends[j][Other(t)][ends[j][t][h].peer].state # "INIT"
        BY <2>1, <3>0, <4>1 DEF Inv, EndsPaired
      <4>3. /\ ends'[j][Other(t)][ends[j][t][h].peer].peer = h
            /\ ends'[j][Other(t)][ends[j][t][h].peer].state # "INIT"
        BY <3>0, <4>2, <1>6
      <4> QED  BY <4>1, <4>2, <4>3, <3>0, <1>5
    <3> QED  BY <3>1, <3>2
  <2>2. ASSUME NEW j \in Kinds, NEW b \in Attempts, own'[b][j]["B"] # 0
        PROVE  /\ own'[b][j]["A"] # 0
               /\ EndOf(b, j, "B")'.peer = own'[b][j]["A"] /\ EndOf(b, j, "B")'.state # "INIT"
    <3>1. own' = own /\ own[b][j]["B"] # 0 /\ "B" \in Sides  BY <2>2, SideFacts
    <3>2. /\ own[b][j]["A"] # 0
          /\ EndOf(b, j, "B").peer = own[b][j]["A"] /\ EndOf(b, j, "B").state # "INIT"
      BY <3>1 DEF Inv, EndsPaired
    <3>3. own[b][j]["B"] \in 1..Len(ends[j]["B"])  BY <3>1, <1>9
    <3>4. ends[j]["B"][own[b][j]["B"]].peer = own[b][j]["A"] /\ ends[j]["B"][own[b][j]["B"]].state # "INIT"
      BY <3>2 DEF EndOf
    <3>5. ends'[j]["B"][own[b][j]["B"]].peer = own[b][j]["A"] /\ ends'[j]["B"][own[b][j]["B"]].state # "INIT"
      BY <3>1, <3>3, <3>4, <1>6
    <3> QED  BY <3>1, <3>2, <3>5 DEF EndOf
  <2> QED  BY <2>1, <2>2 DEF EndsPaired
<1>12. ConnsBuilt'
  <2>1. ASSUME NEW b \in Attempts, NEW t \in Sides, own'[b].conn[t] # 0
        PROVE  /\ EndOf(b, "conn", t)'.on = own'[b].client[t]
               /\ EndOf(b, "conn", t)'.peerOn = own'[b].client[Other(t)]
    <3>1. own' = own /\ own[b].conn[t] # 0  BY <2>1
    <3>2. own[b]["conn"][t] \in 1..Len(ends["conn"][t])  BY <3>1, <1>9 DEF Kinds
    <3>3. EndOf(b, "conn", t).on = own[b].client[t] /\ EndOf(b, "conn", t).peerOn = own[b].client[Other(t)]
      BY <3>1 DEF Inv, ConnsBuilt
    <3>4. "conn" \in Kinds  BY DEF Kinds
    <3>5. /\ ends["conn"][t][own[b]["conn"][t]].on = own[b].client[t]
          /\ ends["conn"][t][own[b]["conn"][t]].peerOn = own[b].client[Other(t)]
      BY <3>3 DEF EndOf
    <3>6. /\ ends'["conn"][t][own[b]["conn"][t]].on = own[b].client[t]
          /\ ends'["conn"][t][own[b]["conn"][t]].peerOn = own[b].client[Other(t)]
      BY <3>2, <3>4, <3>5, <1>6
    <3> QED  BY <3>1, <3>6 DEF EndOf
  <2> QED  BY <2>1 DEF ConnsBuilt
<1> QED  BY <1>8, <1>10, <1>11, <1>12 DEF Inv
\* OpenInit, of a connection or a channel.
LEMMA OpenInitKeeps ==
  ASSUME Inv, NEW a \in Attempts, NEW k \in Kinds, NEW then, OpenInit(a, k, then), UNCHANGED faults,
         \/ k = "conn" /\ pc[a] = "connInit" /\ then = "connTry"
         \/ k = "chan" /\ pc[a] = "chanInit" /\ then = "chanTry"
  PROVE  Inv'
<1> DEFINE e == [on |-> IF k = "conn" THEN own[a].client["A"] ELSE own[a].conn["A"],
                 peerOn |-> IF k = "conn" THEN own[a].client["B"] ELSE 0,
                 peer |-> 0, state |-> "INIT", since |-> Block("A")]
           n == Len(ends[k]["A"]) + 1
<1>1. /\ Commits("A") /\ Goes(a, then) /\ UNCHANGED <<clients, dbVars, floor, version, faults>>
      /\ ends' = [ends EXCEPT ![k]["A"] = Append(@, e)]
      /\ own' = [own EXCEPT ![a][k]["A"] = n]
  BY DEF OpenInit
<1>2. e \in End
  <2>1. own[a] \in Own /\ height["A"] \in Nat  BY TypeFacts, SideFacts
  <2> QED  BY <2>1, SideFacts DEF Own, End, Block
<1>3. then \in Steps /\ then \notin {"registerA", "save"}  BY DEF Steps, ProofSteps
<1>4. Order(a)  BY DEF Inv
<1>5. HasNone(a, k)  BY <1>4 DEF Order, Early, Last
<1>6. table[a] # <<>> => k = "chan" /\ then \in Last
  <2>1. table[a] # <<>> => pc[a] \in {"seed", "chanInit"} \union Last  BY DEF Inv, PathsWired, Stored
  <2> QED  BY <2>1 DEF Last
<1>7. /\ pc'[a] = then /\ version'[a] = version[a]
      /\ own'[a][k]["A"] # 0 /\ own'[a][k]["B"] = 0 /\ own'[a].client = own[a].client
      /\ k = "conn" => own'[a].chan = own[a].chan
      /\ k = "chan" => own'[a].conn = own[a].conn
  <2>1. Len(ends[k]["A"]) \in Nat
    <3>1. ends \in [Kinds -> [Sides -> Seq(End)]]  BY TypeFacts
    <3> QED  BY <3>1, SideFacts
  <2>2. n \in Nat /\ n # 0  BY <2>1
  <2>3. own \in [Attempts -> Own]  BY TypeFacts
  <2>4. /\ own'[a][k]["A"] = n /\ own'[a].client = own[a].client
        /\ \A t \in Sides : t # "A" => own'[a][k][t] = own[a][k][t]
        /\ \A j \in Kinds : j # k => own'[a][j] = own[a][j]
    <3>1. own' = [own EXCEPT ![a][k]["A"] = n] /\ n \in Nat /\ "A" \in Sides  BY <1>1, <2>2, SideFacts
    <3> HIDE DEF n, e
    <3>2. CASE k = "conn"  BY <3>1, <3>2, <2>3 DEF Own, Kinds
    <3>3. CASE k = "chan"  BY <3>1, <3>3, <2>3 DEF Own, Kinds
    <3> QED  BY <3>2, <3>3 DEF Kinds
  <2>5. pc'[a] = then  BY <1>1, <1>3, GoesFacts
  <2>6. own'[a][k]["B"] = 0  BY <2>4, <1>5, SideFacts DEF HasNone
  <2>7. version'[a] = version[a]  BY <1>1
  <2> QED  BY <2>2, <2>4, <2>5, <2>6, <2>7 DEF Kinds
<1>8. Order(a)'
  <2>1. CASE k = "conn"
    <3>1. pc[a] = "connInit" /\ pc'[a] = "connTry"  BY <2>1, <1>7
    <3>2. Has(a, "client") /\ HasNone(a, "chan") /\ version[a] = 1
      BY <3>1, <1>4 DEF Order, Middle, Last, Steps, ProofSteps
    <3> QED  BY <3>1, <3>2, <2>1, <1>7 DEF Order, Has, HasNone, Middle, Early, Last
  <2>2. CASE k = "chan"
    <3>1. pc[a] = "chanInit" /\ pc'[a] = "chanTry"  BY <2>2, <1>7
    <3>2. Has(a, "client") /\ version[a] = 1  BY <3>1, <1>4 DEF Order, Middle, Steps, ProofSteps
    <3> QED  BY <3>1, <3>2, <2>2, <1>7 DEF Order, Has, HasNone, Middle, Early, Last
  <2> QED  BY <2>1, <2>2 DEF Kinds
<1>9. own[a][k]["A"] = 0 /\ e.state # "OPEN" /\ "A" \in Sides /\ "A" # "B"  BY <1>5, SideFacts DEF HasNone
<1>10. k = "conn" => e.on = own[a].client["A"] /\ e.peerOn = own[a].client[Other("A")]  BY SideFacts
<1> HIDE DEF e
<1> QED  BY <1>1, <1>2, <1>3, <1>6, <1>8, <1>9, <1>10, HandshakeAppends

\* OpenTry.
LEMMA OpenTryKeeps ==
  ASSUME Inv, NEW a \in Attempts, NEW k \in Kinds, NEW then, OpenTry(a, k, then), UNCHANGED faults,
         \/ k = "conn" /\ pc[a] = "connTry" /\ then = "connAck"
         \/ k = "chan" /\ pc[a] = "chanTry" /\ then = "chanAck"
  PROVE  Inv'
<1> DEFINE e == [on |-> IF k = "conn" THEN own[a].client["B"] ELSE own[a].conn["B"],
                 peerOn |-> IF k = "conn" THEN own[a].client["A"] ELSE 0,
                 peer |-> own[a][k]["A"], state |-> "TRYOPEN", since |-> Block("B")]
           n == Len(ends[k]["B"]) + 1
<1>1. /\ Commits("B") /\ Goes(a, then) /\ UNCHANGED <<clients, dbVars, floor, version, faults>>
      /\ ends' = [ends EXCEPT ![k]["B"] = Append(@, e)]
      /\ own' = [own EXCEPT ![a][k]["B"] = n]
  BY DEF OpenTry
<1>2. e \in End
  <2>1. own[a] \in Own /\ height["B"] \in Nat  BY TypeFacts, SideFacts
  <2>2. own[a][k]["A"] \in Nat  BY <2>1, SideFacts DEF Own, Kinds
  <2> QED  BY <2>1, <2>2, SideFacts DEF Own, End, Block
<1>3. then \in Steps /\ then \notin {"registerA", "save"}  BY DEF Steps, ProofSteps
<1>4. Order(a)  BY DEF Inv
<1>5. own[a][k]["A"] # 0 /\ own[a][k]["B"] = 0  BY <1>4 DEF Order
<1>6. table[a] # <<>> => k = "chan" /\ then \in Last
  <2>1. table[a] # <<>> => pc[a] \in {"seed", "chanInit"} \union Last  BY DEF Inv, PathsWired, Stored
  <2> QED  BY <2>1 DEF Last
<1>7. /\ pc'[a] = then /\ version'[a] = version[a]
      /\ own'[a][k]["B"] # 0 /\ own'[a][k]["A"] # 0 /\ own'[a].client = own[a].client
      /\ k = "conn" => own'[a].chan = own[a].chan
      /\ k = "chan" => own'[a].conn = own[a].conn
  <2>1. Len(ends[k]["B"]) \in Nat
    <3>1. ends \in [Kinds -> [Sides -> Seq(End)]]  BY TypeFacts
    <3> QED  BY <3>1, SideFacts
  <2>2. n \in Nat /\ n # 0  BY <2>1
  <2>3. own \in [Attempts -> Own]  BY TypeFacts
  <2>4. /\ own'[a][k]["B"] = n /\ own'[a].client = own[a].client
        /\ \A t \in Sides : t # "B" => own'[a][k][t] = own[a][k][t]
        /\ \A j \in Kinds : j # k => own'[a][j] = own[a][j]
    <3>1. own' = [own EXCEPT ![a][k]["B"] = n] /\ n \in Nat /\ "B" \in Sides  BY <1>1, <2>2, SideFacts
    <3> HIDE DEF n, e
    <3>2. CASE k = "conn"  BY <3>1, <3>2, <2>3 DEF Own, Kinds
    <3>3. CASE k = "chan"  BY <3>1, <3>3, <2>3 DEF Own, Kinds
    <3> QED  BY <3>2, <3>3 DEF Kinds
  <2>5. pc'[a] = then  BY <1>1, <1>3, GoesFacts
  <2>6. own'[a][k]["A"] # 0  BY <2>4, <1>5, SideFacts
  <2>7. version'[a] = version[a]  BY <1>1
  <2> QED  BY <2>2, <2>4, <2>5, <2>6, <2>7 DEF Kinds
<1>8. Order(a)'
  <2>1. CASE k = "conn"
    <3>1. pc[a] = "connTry" /\ pc'[a] = "connAck"  BY <2>1, <1>7
    <3>2. Has(a, "client") /\ HasNone(a, "chan") /\ version[a] = 1
      BY <3>1, <1>4 DEF Order, Middle, Last, Steps, ProofSteps
    <3> QED  BY <3>1, <3>2, <2>1, <1>7 DEF Order, Has, HasNone, Middle, Early, Last
  <2>2. CASE k = "chan"
    <3>1. pc[a] = "chanTry" /\ pc'[a] = "chanAck"  BY <2>2, <1>7
    <3>2. Has(a, "client") /\ version[a] \in {1, 2}  BY <3>1, <1>4 DEF Order, Middle, Steps, ProofSteps
    <3> QED  BY <3>1, <3>2, <2>2, <1>7 DEF Order, Has, HasNone, Middle, Early, Last
  <2> QED  BY <2>1, <2>2 DEF Kinds
<1>9. e.state # "OPEN" /\ e.state # "INIT" /\ e.peer = own[a][k]["A"] /\ "B" \in Sides  BY SideFacts
<1>10. k = "conn" => e.on = own[a].client["B"] /\ e.peerOn = own[a].client[Other("B")]  BY SideFacts
<1> HIDE DEF e
<1> QED  BY <1>1, <1>2, <1>3, <1>5, <1>6, <1>8, <1>9, <1>10, HandshakeAppends

\* OpenAck: A's end is still at INIT, and B's, which was proven, names it.
LEMMA OpenAckKeeps ==
  ASSUME Inv, NEW a \in Attempts, NEW k \in Kinds, NEW then, OpenAck(a, k, then), UNCHANGED faults,
         \/ k = "conn" /\ pc[a] = "connAck" /\ then = "connConfirm"
         \/ k = "chan" /\ pc[a] = "chanAck" /\ then = "chanConfirm"
  PROVE  Inv'
<1> DEFINE e == [EndOf(a, k, "A") EXCEPT !.state = "OPEN", !.peer = own[a][k]["B"], !.since = Block("A")]
<1>1. /\ Commits("A") /\ Goes(a, then) /\ UNCHANGED <<clients, dbVars, own, floor, version, faults>>
      /\ ends' = [ends EXCEPT ![k]["A"][own[a][k]["A"]] = e]
      /\ EndOf(a, k, "A").state = "INIT"
  BY DEF OpenAck, EndOf
<1>2. Order(a)  BY DEF Inv
<1>3. Has(a, k)  BY <1>2 DEF Order
<1>4. EndOf(a, k, "A") \in End
  <2>1. own[a][k]["A"] \in 1..Len(ends[k]["A"])  BY <1>3, OwnInRange, SideFacts DEF Has
  <2>2. ends \in [Kinds -> [Sides -> Seq(End)]]  BY TypeFacts
  <2>3. ends[k]["A"] \in Seq(End)  BY <2>2, SideFacts
  <2> QED  BY <2>1, <2>3 DEF EndOf
<1>5. /\ e \in End /\ e.state = "OPEN" /\ e.peer = own[a][k]["B"]
      /\ e.on = EndOf(a, k, "A").on /\ e.peerOn = EndOf(a, k, "A").peerOn
  <2>1. own[a] \in Own /\ height["A"] \in Nat  BY TypeFacts, SideFacts
  <2>2. own[a][k]["B"] \in Nat  BY <2>1, SideFacts DEF Own, Kinds
  <2>3. Block("A") \in Nat  BY <2>1 DEF Block
  <2> QED  BY <1>4, <2>2, <2>3 DEF End
<1>6. EndOf(a, k, "B").peer = own[a][k]["A"] /\ EndOf(a, k, "B").state # "INIT"
  BY <1>3 DEF Inv, EndsPaired, Has
<1>7. then \in Steps /\ then \notin {"registerA", "save"}  BY DEF Steps, ProofSteps
<1>8. table[a] # <<>> => then \in Last
  <2>1. table[a] # <<>> => pc[a] \in {"seed", "chanInit"} \union Last  BY DEF Inv, PathsWired, Stored
  <2> QED  BY <2>1 DEF Last
<1>9. Order(a)'
  <2>1. pc'[a] = then /\ own' = own /\ version' = version  BY <1>1, <1>7, GoesFacts
  <2>2. Has(a, "client") /\ version[a] \in {1, 2} /\ (k = "conn" => version[a] = 1 /\ HasNone(a, "chan"))
    BY <1>2 DEF Order, Middle, Last, Steps, ProofSteps
  <2> QED  BY <2>1, <2>2, <1>3 DEF Order, Has, HasNone, Middle, Early, Last
<1>10. "A" \in Sides /\ Other("A") = "B"  BY SideFacts
<1> HIDE DEF e
<1> QED  BY <1>1, <1>3, <1>5, <1>6, <1>7, <1>8, <1>9, <1>10, HandshakeOpens

\* OpenConfirm: A's end, which was proven open, names B's, which names it.
LEMMA OpenConfirmKeeps ==
  ASSUME Inv, NEW a \in Attempts, NEW k \in Kinds, NEW then, OpenConfirm(a, k, then), UNCHANGED faults,
         \/ k = "conn" /\ pc[a] = "connConfirm" /\ then = "save"
         \/ k = "chan" /\ pc[a] = "chanConfirm" /\ then = "done"
  PROVE  Inv'
<1> DEFINE e == [EndOf(a, k, "B") EXCEPT !.state = "OPEN", !.since = Block("B")]
<1>1. /\ Commits("B") /\ Goes(a, then) /\ UNCHANGED <<clients, dbVars, own, floor, version, faults>>
      /\ ends' = [ends EXCEPT ![k]["B"][own[a][k]["B"]] = e]
  BY DEF OpenConfirm, EndOf
<1>2. Order(a)  BY DEF Inv
<1>3. Has(a, k)  BY <1>2 DEF Order
<1>4. EndOf(a, k, "B") \in End
  <2>1. own[a][k]["B"] \in 1..Len(ends[k]["B"])  BY <1>3, OwnInRange, SideFacts DEF Has
  <2>2. ends \in [Kinds -> [Sides -> Seq(End)]]  BY TypeFacts
  <2>3. ends[k]["B"] \in Seq(End)  BY <2>2, SideFacts
  <2> QED  BY <2>1, <2>3 DEF EndOf
<1>5. /\ e \in End /\ e.state = "OPEN" /\ e.peer = EndOf(a, k, "B").peer
      /\ e.on = EndOf(a, k, "B").on /\ e.peerOn = EndOf(a, k, "B").peerOn
  <2>1. height["B"] \in Nat  BY TypeFacts, SideFacts
  <2>2. Block("B") \in Nat  BY <2>1 DEF Block
  <2> QED  BY <1>4, <2>2 DEF End
<1>6. EndOf(a, k, "B").peer = own[a][k]["A"]  BY <1>3 DEF Inv, EndsPaired, Has
<1>7. EndOf(a, k, "A").state = "OPEN" /\ EndOf(a, k, "A").peer = own[a][k]["B"]
  BY SideFacts DEF OpenConfirm, Proven
<1>8. then \in Steps /\ then # "registerA"  BY DEF Steps, ProofSteps
<1>9. table[a] # <<>> => then \in Last
  <2>1. table[a] # <<>> => pc[a] \in {"seed", "chanInit"} \union Last  BY DEF Inv, PathsWired, Stored
  <2> QED  BY <2>1 DEF Last
<1>10. Has(a, "client") /\ version[a] \in {1, 2} /\ (k = "conn" => version[a] = 1 /\ HasNone(a, "chan"))
  BY <1>2 DEF Order, Middle, Last, Steps, ProofSteps
<1>11. Order(a)'
  <2>1. pc'[a] = then /\ own' = own /\ version' = version  BY <1>1, <1>8, GoesFacts
  <2> QED  BY <2>1, <1>10, <1>3 DEF Order, Has, HasNone, Middle, Early, Last
<1>12. "B" \in Sides /\ Other("B") = "A"  BY SideFacts
<1>13. e.peer = own[a][k]["A"]  BY <1>5, <1>6
<1>14. then = "save" => k = "conn" /\ version[a] = 1  BY <1>10
<1>15. EndOf(a, k, "A").state # "INIT" /\ (EndOf(a, k, "B").state = "INIT" \/ EndOf(a, k, "B").peer = e.peer)
  BY <1>5, <1>7
<1> HIDE DEF e
<1> QED  BY <1>1, <1>3, <1>5, <1>7, <1>8, <1>9, <1>11, <1>12, <1>13, <1>14, <1>15, HandshakeOpens
-------------------------------------------------------------------------------
(***************************************************************************)
(* The theorems.                                                           *)
(***************************************************************************)

LEMMA EffectKeeps ==
  ASSUME Inv, NEW a \in Attempts, Effect(a), UNCHANGED faults
  PROVE  Inv'
<1>1. "conn" \in Kinds /\ "chan" \in Kinds  BY DEF Kinds
<1>2. ASSUME NEW s \in Sides, createClient(a, s) PROVE Inv'  BY <1>2, CreateClientKeeps
<1>3. ASSUME NEW s \in Sides, registerCounterParty(a, s) PROVE Inv'  BY <1>3, RegisterKeeps
<1>4. CASE PrepareHandshake(a)  BY <1>4, PrepareKeeps
<1>5. CASE connOpenInit(a)  BY <1>1, <1>5, OpenInitKeeps DEF connOpenInit
<1>6. CASE channelOpenInit(a)  BY <1>1, <1>6, OpenInitKeeps DEF channelOpenInit
<1>7. CASE connOpenTry(a)  BY <1>1, <1>7, OpenTryKeeps DEF connOpenTry
<1>8. CASE channelOpenTry(a)  BY <1>1, <1>8, OpenTryKeeps DEF channelOpenTry
<1>9. CASE connOpenAck(a)  BY <1>1, <1>9, OpenAckKeeps DEF connOpenAck
<1>10. CASE channelOpenAck(a)  BY <1>1, <1>10, OpenAckKeeps DEF channelOpenAck
<1>11. CASE connOpenConfirm(a)  BY <1>1, <1>11, OpenConfirmKeeps DEF connOpenConfirm
<1>12. CASE channelOpenConfirm(a)  BY <1>1, <1>12, OpenConfirmKeeps DEF channelOpenConfirm
<1>13. CASE addRelayPath(a)  BY <1>13, AddRelayPathKeeps
<1>14. CASE seedInitialHeights(a)  BY <1>14, SeedKeeps
<1> QED
  BY <1>2, <1>3, <1>4, <1>5, <1>6, <1>7, <1>8, <1>9, <1>10, <1>11, <1>12, <1>13, <1>14 DEF Effect

LEMMA InvNext == Inv /\ [Next]_vars => Inv'
<1> SUFFICES ASSUME Inv, [Next]_vars PROVE Inv'  OBVIOUS
<1>1. ASSUME NEW a \in Attempts, Step(a) PROVE Inv'
  <2>1. CASE ReadHeights(a)  BY <2>1, ReadHeightsKeeps DEF ReadHeights
  <2>2. CASE BeginWait(a)  BY <2>2, BeginWaitKeeps DEF BeginWait
  <2>3. CASE BlocksPassed(a)  BY <2>3, BlocksPassedKeeps DEF BlocksPassed
  <2>4. CASE Reject(a)
    <3>1. faults' \in 0..MaxFaults  BY <2>4, TypeFacts DEF Reject
    <3> QED  BY <2>4, <3>1, GoneKeeps DEF Reject
  <2>5. CASE Effect(a) /\ UNCHANGED faults  BY <2>5, EffectKeeps
  <2> QED  BY <1>1, <2>1, <2>2, <2>3, <2>4, <2>5 DEF Step
<1>2. ASSUME NEW a \in Attempts, Interrupted(a) PROVE Inv'
  <2>1. faults' \in 0..MaxFaults  BY <1>2, TypeFacts, SetupAssumption DEF Interrupted, Fault
  <2> QED  BY <1>2, <2>1, GoneKeeps DEF Interrupted
<1>3. ASSUME NEW a \in Attempts, SeedFails(a) PROVE Inv'  BY <1>3, SeedFailsKeeps
<1>4. ASSUME NEW s \in Sides, NewBlock(s) PROVE Inv'  BY <1>4, NewBlockKeeps
<1>5. ASSUME NEW s \in Sides, NEW c \in Prior[s] + 1..Len(clients[s]), UpdateByOther(s, c) PROVE Inv'
  BY <1>5, UpdateByOtherKeeps
<1>6. CASE UNCHANGED vars
  <2>1. Unwired /\ UNCHANGED <<pc, prep, mark, header, table, rows, floor, faults>>
    BY <1>6, StillUnwired DEF vars, chainVars, dbVars, cmdVars
  <2> QED  BY <2>1, TypeFacts, StaysAt
<1> QED  BY <1>1, <1>2, <1>3, <1>4, <1>5, <1>6 DEF Next

LEMMA Invariant == Spec => []Inv
BY InvInit, InvNext, PTL DEF Spec

\* State is of its type: in particular, every id that a command has read is of
\* something that is on that chain.
THEOREM TypeCorrect == Spec => []TypeOK
<1>1. Inv => TypeOK  BY DEF Inv, Typed
<1> QED  BY <1>1, Invariant, PTL

\* Whatever stops a command, and wherever, and however many others run beside
\* it, the path it has stored passes what createWithExistingConnections or
\* createWithExistingClients checks at every later start.
THEOREM PathsLoad == Spec => []SavedPathLoads
<1>1. Inv => SavedPathLoads
  <2> SUFFICES ASSUME Inv, NEW a \in Attempts, table[a] # <<>> PROVE LinkLoads(table[a])
    BY DEF SavedPathLoads
  <2>1. /\ table[a] = [version |-> version[a], id |-> IF version[a] = 1 THEN own[a].conn ELSE own[a].client]
        /\ Wired(a)
    BY DEF Inv, PathsWired, Stored
  <2>2. CASE version[a] = 1
    <3>1. table[a].version = 1 /\ table[a].id = own[a].conn  BY <2>1, <2>2
    <3>2. \A s \in Sides : own[a].conn[s] # 0 /\ EndOf(a, "conn", s).state = "OPEN"
      BY <2>1, <2>2, SideFacts DEF Wired, Has
    <3>3. \A s \in Sides : own[a]["conn"][s] \in 1..Len(ends["conn"][s])
      BY <3>2, OwnInRange DEF Kinds
    <3>4. ends \in [Kinds -> [Sides -> Seq(End)]]  BY TypeFacts
    <3>5. \A s \in Sides : own[a].conn[s] \in DOMAIN ends.conn[s]
      <4>1. \A s \in Sides : ends["conn"][s] \in Seq(End)  BY <3>4 DEF Kinds
      <4> QED  BY <4>1, <3>3
    <3>6. \A s \in Sides : /\ EndOf(a, "conn", s).on = own[a].client[s]
                           /\ EndOf(a, "conn", s).peerOn = own[a].client[Other(s)]
      BY <3>2 DEF Inv, ConnsBuilt
    <3>7. createWithExistingConnections(own[a].conn)
      BY <3>2, <3>5, <3>6, SideFacts DEF createWithExistingConnections, EndOf
    <3> QED  BY <3>1, <3>7 DEF LinkLoads
  <2>3. CASE version[a] # 1
    <3>1. /\ table[a].version # 1 /\ table[a].id = own[a].client  BY <2>1, <2>3
    <3>2. \A s \in Sides : own[a].client[s] # 0 /\ ClientOf(a, s).peer = own[a].client[Other(s)]
      BY <2>1, <2>3, SideFacts DEF Wired, Has
    <3>3. \A s \in Sides : own[a].client[s] \in DOMAIN clients[s]
      <4>1. \A s \in Sides : own[a].client[s] \in 1..Len(clients[s])  BY <3>2, OwnInRange
      <4>2. \A s \in Sides : clients[s] \in Seq(Client)  BY TypeFacts
      <4> QED  BY <4>1, <4>2
    <3>4. createWithExistingClients(own[a].client)
      BY <3>2, <3>3 DEF createWithExistingClients, ClientOf
    <3> QED  BY <3>1, <3>4 DEF LinkLoads
  <2> QED  BY <2>2, <2>3
<1> QED  BY <1>1, Invariant, PTL

\* Commands that run into each other never cross their wires: an open end, or a
\* client with a counterparty, is named by nothing but what it names.
THEOREM EndsFit == Spec => []EndsAgree
<1>1. Inv => EndsAgree
  <2> SUFFICES ASSUME Inv PROVE EndsAgree  OBVIOUS
  <2>1. ASSUME NEW k \in Kinds, NEW s \in Sides, NEW i \in DOMAIN ends[k][s], ends[k][s][i].state = "OPEN"
        PROVE  LET e == ends[k][Other(s)][ends[k][s][i].peer] IN e.peer \in {0, i} /\ e.state # "INIT"
    <3>1. i \in 1..Len(ends[k][s])
      <4>1. ends \in [Kinds -> [Sides -> Seq(End)]]  BY TypeFacts
      <4> QED  BY <4>1
    <3> QED  BY <2>1, <3>1 DEF Inv, EndsPaired
  <2>2. ASSUME NEW s \in Sides, NEW c \in DOMAIN clients[s], clients[s][c].peer # 0
        PROVE  clients[Other(s)][clients[s][c].peer].peer \in {0, c}
    <3>1. c \in 1..Len(clients[s])  BY TypeFacts
    <3>2. PICK a \in Attempts : own[a].client[s] = c /\ own[a].client[Other(s)] = clients[s][c].peer
      BY <2>2, <3>1 DEF Inv, ClientsOwned
    <3> DEFINE d == clients[s][c].peer
    <3>3. d \in 1..Len(clients[Other(s)]) /\ Other(s) \in Sides  BY <2>2, <3>2, OwnInRange, SideFacts
    <3>4. SUFFICES ASSUME clients[Other(s)][d].peer # 0 PROVE clients[Other(s)][d].peer = c
      OBVIOUS
    <3>5. PICK b \in Attempts :
            own[b].client[Other(s)] = d /\ own[b].client[Other(Other(s))] = clients[Other(s)][d].peer
      BY <3>3, <3>4 DEF Inv, ClientsOwned
    <3>6. a = b  BY <2>2, <3>2, <3>3, <3>5 DEF Inv, ClientsOwned
    <3> QED  BY <3>2, <3>5, <3>6, SideFacts
  <2> QED  BY <2>1, <2>2 DEF EndsAgree
<1> QED  BY <1>1, Invariant, PTL

\* The heights that are seeded for a path are of before its clients, on both
\* chains, so the first search of its link misses no event of the path.
THEOREM FloorsFit == Spec => []FloorBelowClients
<1>1. Inv => FloorBelowClients
  BY DEF Inv, FloorsBelow, FloorBelowClients
<1> QED  BY <1>1, Invariant, PTL

-------------------------------------------------------------------------------
(***************************************************************************)
(* A command that nobody disturbs.                                         *)
(***************************************************************************)

TryOf(k) == IF k = "conn" THEN "connTry" ELSE "chanTry"
AckOf(k) == IF k = "conn" THEN "connAck" ELSE "chanAck"
ConfirmOf(k) == IF k = "conn" THEN "connConfirm" ELSE "chanConfirm"
ChanSteps == {"chanInit", "chanTry", "chanAck", "chanConfirm"}

\* The steps of the handshake of kind k that prove an end of chain p.
ProvenAt(k, p) == IF p = "A" THEN {TryOf(k), ConfirmOf(k)} ELSE {AckOf(k)}

\* Commands have ends of their own.
EndsOwned ==
  \A a, b \in Attempts, k \in Kinds, s \in Sides :
    own[a][k][s] # 0 /\ own[a][k][s] = own[b][k][s] => a = b

\* What a command has made was made in blocks that are there, and what its
\* clients know is of such blocks.
Past(a) ==
  \A s \in Sides :
    /\ own[a].client[s] # 0 =>
         ClientOf(a, s).latest <= height[Other(s)] /\ ClientOf(a, s).since <= height[s]
    /\ \A k \in Kinds : own[a][k][s] # 0 => EndOf(a, k, s).since <= height[s]

\* Its channel is built on its connection, and A's open end names B's.
Built(a) ==
  /\ \A s \in Sides : own[a].chan[s] # 0 => EndOf(a, "chan", s).on = own[a].conn[s]
  /\ \A k \in Kinds : own[a][k]["A"] # 0 /\ EndOf(a, k, "A").state = "OPEN" =>
       EndOf(a, k, "A").peer = own[a][k]["B"]

\* The end that is to be proven is in the state that is asked for.
AtStep(a) ==
  /\ \A k \in Kinds :
       /\ pc[a] = TryOf(k) => EndOf(a, k, "A").state = "INIT"
       /\ pc[a] = AckOf(k) => EndOf(a, k, "B").state = "TRYOPEN"
       /\ pc[a] = ConfirmOf(k) => EndOf(a, k, "A").state = "OPEN"
  /\ pc[a] \in {"seed"} \union ChanSteps => Wired(a)
  /\ pc[a] \in ChanSteps => version[a] = 1

\* The block a command waits for, or the header it has, is late enough: for the
\* end of chain p that it proves, and for the client there.
LateEnough(a, k, p) ==
  /\ prep[a] = "wait" =>
       /\ ClientOf(a, p).since <= mark[a][p] /\ EndOf(a, k, p).since <= mark[a][p]
       /\ ClientOf(a, Other(p)).latest <= mark[a][p] /\ mark[a][p] <= height[p]
  /\ prep[a] = "proof" =>
       /\ ClientOf(a, p).since < header[a] /\ EndOf(a, k, p).since < header[a]
       /\ header[a] <= ClientOf(a, Other(p)).latest

Prepared(a) == \A k \in Kinds, p \in Sides : pc[a] \in ProvenAt(k, p) => LateEnough(a, k, p)

Ready(a) == pc[a] # "failed" /\ Past(a) /\ Built(a) /\ AtStep(a) /\ Prepared(a)

Undisturbed == faults = 0 => EndsOwned /\ \A a \in Attempts : Ready(a)

\* The invariant has each command's own clients and ends where they should be.
LEMMA OwnFacts ==
  ASSUME Inv, NEW a \in Attempts, NEW s \in Sides
  PROVE  /\ own[a].client[s] \in Nat /\ height[s] \in Nat
         /\ own[a].client[s] # 0 => ClientOf(a, s) \in Client
         /\ \A k \in Kinds : /\ own[a][k][s] \in Nat
                             /\ own[a][k][s] # 0 => EndOf(a, k, s) \in End
<1>1. own[a] \in Own /\ height[s] \in Nat  BY TypeFacts
<1>2. own[a].client[s] \in Nat /\ \A k \in Kinds : own[a][k][s] \in Nat  BY <1>1 DEF Own, Kinds
<1>3. ASSUME own[a].client[s] # 0 PROVE ClientOf(a, s) \in Client
  <2>1. own[a].client[s] \in 1..Len(clients[s]) /\ clients[s] \in Seq(Client)
    BY <1>3, OwnInRange, TypeFacts
  <2> QED  BY <2>1 DEF ClientOf
<1>4. ASSUME NEW k \in Kinds, own[a][k][s] # 0 PROVE EndOf(a, k, s) \in End
  <2>1. own[a][k][s] \in 1..Len(ends[k][s])  BY <1>4, OwnInRange
  <2>2. ends \in [Kinds -> [Sides -> Seq(End)]]  BY TypeFacts
  <2>3. ends[k][s] \in Seq(End)  BY <2>2
  <2> QED  BY <2>1, <2>3 DEF EndOf
<1> QED  BY <1>1, <1>2, <1>3, <1>4

\* Heights of blocks that have grown.
HeightsGrow == \A s \in Sides : height'[s] \in Nat /\ height[s] <= height'[s]

\* A step that leaves alone what a command has made.
Kept(a) ==
  /\ own'[a] = own[a] /\ version'[a] = version[a] /\ HeightsGrow
  /\ \A s \in Sides :
       /\ own[a].client[s] # 0 => ClientOf(a, s)' = ClientOf(a, s)
       /\ \A k \in Kinds : own[a][k][s] # 0 => EndOf(a, k, s)' = EndOf(a, k, s)

\* A command of which a step leaves everything alone stays ready.
SameSpot(a) == pc'[a] = pc[a] /\ prep'[a] = prep[a] /\ mark'[a] = mark[a] /\ header'[a] = header[a]

LEMMA PastKept ==
  ASSUME Inv, NEW a \in Attempts, Past(a), Kept(a)
  PROVE  Past(a)'
<1> SUFFICES ASSUME NEW s \in Sides
             PROVE  /\ own'[a].client[s] # 0 =>
                         ClientOf(a, s)'.latest <= height'[Other(s)] /\ ClientOf(a, s)'.since <= height'[s]
                    /\ \A k \in Kinds : own'[a][k][s] # 0 => EndOf(a, k, s)'.since <= height'[s]
  BY DEF Past
<1>1. /\ Other(s) \in Sides /\ height[s] \in Nat /\ height[Other(s)] \in Nat
      /\ height'[s] \in Nat /\ height'[Other(s)] \in Nat
      /\ height[s] <= height'[s] /\ height[Other(s)] <= height'[Other(s)]
  BY SideFacts, OwnFacts DEF Kept, HeightsGrow
<1>2. ASSUME own'[a].client[s] # 0
      PROVE  ClientOf(a, s)'.latest <= height'[Other(s)] /\ ClientOf(a, s)'.since <= height'[s]
  <2>1. own[a].client[s] # 0 /\ ClientOf(a, s)' = ClientOf(a, s)  BY <1>2 DEF Kept
  <2>2. ClientOf(a, s).latest \in Nat /\ ClientOf(a, s).since \in Nat
    BY <2>1, OwnFacts DEF Client
  <2>3. ClientOf(a, s).latest <= height[Other(s)] /\ ClientOf(a, s).since <= height[s]
    BY <2>1 DEF Past
  <2> QED  BY <1>1, <2>1, <2>2, <2>3
<1>3. ASSUME NEW k \in Kinds, own'[a][k][s] # 0 PROVE EndOf(a, k, s)'.since <= height'[s]
  <2>1. own[a][k][s] # 0 /\ EndOf(a, k, s)' = EndOf(a, k, s)  BY <1>3 DEF Kept
  <2>2. EndOf(a, k, s).since \in Nat  BY <2>1, OwnFacts DEF End
  <2>3. EndOf(a, k, s).since <= height[s]  BY <2>1 DEF Past
  <2> QED  BY <1>1, <2>1, <2>2, <2>3
<1> QED  BY <1>2, <1>3

LEMMA BuiltKept ==
  ASSUME Inv, NEW a \in Attempts, Built(a), Kept(a)
  PROVE  Built(a)'
BY SideFacts DEF Built, Kept, Kinds

LEMMA WiredKept ==
  ASSUME NEW a \in Attempts, Wired(a), Kept(a)
  PROVE  Wired(a)'
<1>1. CASE version[a] = 1
  <2>1. Has(a, "conn") /\ \A s \in Sides : EndOf(a, "conn", s).state = "OPEN"
    BY <1>1 DEF Wired
  <2>2. \A s \in Sides : own[a]["conn"][s] # 0  BY <2>1, SideFacts DEF Has
  <2>3. \A s \in Sides : EndOf(a, "conn", s)' = EndOf(a, "conn", s)  BY <2>2 DEF Kept, Kinds
  <2>4. version'[a] = 1 /\ Has(a, "conn")'  BY <1>1, <2>1 DEF Kept, Has
  <2> QED  BY <2>1, <2>3, <2>4 DEF Wired
<1>2. CASE version[a] # 1
  <2>1. Has(a, "client") /\ \A s \in Sides : ClientOf(a, s).peer = own[a].client[Other(s)]
    BY <1>2 DEF Wired
  <2>2. \A s \in Sides : own[a].client[s] # 0  BY <2>1, SideFacts DEF Has
  <2>3. \A s \in Sides : ClientOf(a, s)' = ClientOf(a, s)  BY <2>2 DEF Kept
  <2>4. version'[a] # 1 /\ Has(a, "client")' /\ own'[a] = own[a]  BY <1>2, <2>1 DEF Kept, Has
  <2> QED  BY <2>1, <2>3, <2>4 DEF Wired
<1> QED  BY <1>1, <1>2

\* At a step of a handshake, the end that is to be proven is there.
LEMMA ProverHas ==
  ASSUME Inv, NEW a \in Attempts, NEW k \in Kinds, NEW p \in Sides, pc[a] \in ProvenAt(k, p)
  PROVE  /\ Prover(a) = p /\ pc[a] \in ProofSteps /\ own[a][k][p] # 0
         /\ own[a].client[p] # 0 /\ own[a].client[Other(p)] # 0
         /\ pc[a] # TryOf(k) => Has(a, k)
<1>1. Order(a)  BY DEF Inv
<1>2. pc[a] \in ProofSteps /\ Prover(a) = p
  BY SideFacts DEF ProvenAt, TryOf, AckOf, ConfirmOf, ProofSteps, Prover, Kinds
<1>3. pc[a] \in Middle  BY <1>2 DEF Middle, Steps, ProofSteps
<1>4. own[a].client["A"] # 0 /\ own[a].client["B"] # 0  BY <1>1, <1>3 DEF Order, Has
<1>5. pc[a] # TryOf(k) => Has(a, k)
  BY <1>1 DEF Order, ProvenAt, TryOf, AckOf, ConfirmOf, Kinds
<1>6. pc[a] = TryOf(k) => p = "A" /\ own[a][k]["A"] # 0
  BY <1>1 DEF Order, ProvenAt, TryOf, AckOf, ConfirmOf, Kinds
<1> QED  BY <1>2, <1>4, <1>5, <1>6, SideFacts DEF Has

LEMMA LateKept ==
  ASSUME Inv, NEW a \in Attempts, Ready(a), Kept(a), SameSpot(a),
         NEW k \in Kinds, NEW p \in Sides, pc[a] \in ProvenAt(k, p)
  PROVE  LateEnough(a, k, p)'
<1>1. own[a][k][p] # 0 /\ own[a].client[p] # 0 /\ own[a].client[Other(p)] # 0 /\ Other(p) \in Sides
  BY ProverHas, SideFacts
<1>2. /\ EndOf(a, k, p)' = EndOf(a, k, p) /\ ClientOf(a, p)' = ClientOf(a, p)
      /\ ClientOf(a, Other(p))' = ClientOf(a, Other(p))
  BY <1>1 DEF Kept
<1>3. LateEnough(a, k, p)  BY DEF Ready, Prepared
<1>4. mark[a][p] \in Nat /\ height[p] \in Nat /\ height'[p] \in Nat /\ height[p] <= height'[p]
  BY TypeFacts DEF Kept, HeightsGrow
<1>5. mark[a][p] <= height[p] => mark[a][p] <= height'[p]  BY <1>4
<1> HIDE DEF Kept
<1> QED  BY <1>2, <1>3, <1>5 DEF LateEnough, SameSpot

LEMMA AtStepKept ==
  ASSUME Inv, NEW a \in Attempts, Ready(a), Kept(a), pc'[a] = pc[a]
  PROVE  AtStep(a)'
<1>1. Wired(a) => Wired(a)'  BY WiredKept
<1>2. ASSUME NEW k \in Kinds
      PROVE  /\ pc[a] = TryOf(k) => EndOf(a, k, "A")'.state = "INIT"
             /\ pc[a] = AckOf(k) => EndOf(a, k, "B")'.state = "TRYOPEN"
             /\ pc[a] = ConfirmOf(k) => EndOf(a, k, "A")'.state = "OPEN"
  <2>1. ASSUME NEW p \in Sides, pc[a] \in ProvenAt(k, p) PROVE EndOf(a, k, p)' = EndOf(a, k, p)
    BY <2>1, ProverHas DEF Kept
  <2>2. AtStep(a)  BY DEF Ready
  <2> QED  BY <2>1, <2>2, SideFacts DEF AtStep, ProvenAt
<1> QED  BY <1>1, <1>2 DEF AtStep, Ready, Kept

LEMMA ReadyKept ==
  ASSUME Inv, NEW a \in Attempts, Ready(a), Kept(a), SameSpot(a)
  PROVE  Ready(a)'
<1>1. Past(a)' /\ Built(a)'  BY PastKept, BuiltKept DEF Ready
<1>2. pc'[a] = pc[a] /\ pc'[a] # "failed"  BY DEF SameSpot, Ready
<1>3. AtStep(a)'  BY <1>2, AtStepKept
<1>4. Prepared(a)'  BY <1>2, LateKept DEF Prepared
<1> QED  BY <1>1, <1>2, <1>3, <1>4 DEF Ready

\* A command that goes on is prepared for nothing yet.
LEMMA GoesReady ==
  ASSUME Inv, NEW a \in Attempts, NEW step \in Steps, Goes(a, step), step # "failed",
         Past(a)', Built(a)', AtStep(a)'
  PROVE  Ready(a)'
<1>1. pc'[a] = step  BY GoesFacts
<1>2. prep'[a] = "begin"  BY TypeFacts DEF Goes
<1>3. Prepared(a)'  BY <1>2 DEF Prepared, LateEnough
<1> QED  BY <1>1, <1>3 DEF Ready

\* What Goes leaves to the other commands.
LEMMA GoesOthers ==
  ASSUME Inv, NEW a \in Attempts, NEW step \in Steps, Goes(a, step)
  PROVE  \A b \in Attempts \ {a} : SameSpot(b)
BY TypeFacts DEF Goes, SameSpot

\* A step of command a: of what is there it changes at most what a has made.
Apart(a) ==
  /\ HeightsGrow /\ version' = version
  /\ \A b \in Attempts \ {a} : own'[b] = own[b] /\ SameSpot(b)
  /\ \A s \in Sides : \A c \in 1..Len(clients[s]) :
       c # own[a].client[s] => clients'[s][c] = clients[s][c]
  /\ \A k \in Kinds, s \in Sides : \A i \in 1..Len(ends[k][s]) :
       i # own[a][k][s] => ends'[k][s][i] = ends[k][s][i]

\* Which the other commands stay ready through, as ids are of one command each.
LEMMA OthersReady ==
  ASSUME Inv, EndsOwned, NEW a \in Attempts, Apart(a), NEW b \in Attempts \ {a}, Ready(b)
  PROVE  Ready(b)'
<1>1. own'[b] = own[b] /\ SameSpot(b) /\ version'[b] = version[b]  BY DEF Apart
<1>2. ASSUME NEW s \in Sides, own[b].client[s] # 0 PROVE ClientOf(b, s)' = ClientOf(b, s)
  <2>1. own[b].client[s] \in 1..Len(clients[s])  BY <1>2, OwnInRange
  <2>2. own[b].client[s] # own[a].client[s]  BY <1>2 DEF Inv, ClientsOwned
  <2> QED  BY <1>1, <2>1, <2>2 DEF Apart, ClientOf
<1>3. ASSUME NEW k \in Kinds, NEW s \in Sides, own[b][k][s] # 0 PROVE EndOf(b, k, s)' = EndOf(b, k, s)
  <2>1. own[b][k][s] \in 1..Len(ends[k][s])  BY <1>3, OwnInRange
  <2>2. own[b][k][s] # own[a][k][s]  BY <1>3 DEF EndsOwned
  <2>3. ends'[k][s][own[b][k][s]] = ends[k][s][own[b][k][s]]  BY <2>1, <2>2 DEF Apart
  <2> QED  BY <1>1, <2>3 DEF EndOf
<1>4. HeightsGrow  BY DEF Apart
<1>5. Kept(b)  BY <1>1, <1>2, <1>3, <1>4 DEF Kept
<1> QED  BY <1>1, <1>5, ReadyKept

LEMMA Grows ==
  ASSUME Inv, UNCHANGED height \/ \E s \in Sides : Commits(s)
  PROVE  HeightsGrow
<1>1. CASE UNCHANGED height  BY <1>1, TypeFacts DEF HeightsGrow
<1>2. ASSUME NEW s \in Sides, Commits(s) PROVE HeightsGrow
  <2>1. /\ height' \in [Sides -> Nat \ {0}] /\ height[s] \in Nat /\ height'[s] = height[s] + 1
        /\ \A t \in Sides : t # s => height'[t] = height[t]
    BY <1>2, CommitsFacts
  <2>2. ASSUME NEW t \in Sides PROVE height'[t] \in Nat /\ height[t] <= height'[t]
    <3>1. height[t] \in Nat /\ height'[t] \in {height[t], height[t] + 1}  BY <2>1, TypeFacts
    <3> QED  BY <3>1
  <2> QED  BY <2>2 DEF HeightsGrow
<1> QED  BY <1>1, <1>2

\* A step that makes nothing on the chains and reads nothing from them.
LEMMA NothingMade ==
  ASSUME Inv, NEW a \in Attempts, HeightsGrow, UNCHANGED <<clients, ends, own, version>>
  PROVE  /\ Kept(a)
         /\ (\A b \in Attempts \ {a} : SameSpot(b)) => Apart(a)
         /\ EndsOwned => EndsOwned'
BY DEF Kept, Apart, EndsOwned, ClientOf, EndOf

LEMMA GoesKept ==
  ASSUME Inv, NEW a \in Attempts, Ready(a), Kept(a), NEW step \in Steps, Goes(a, step),
         step # "failed", AtStep(a)'
  PROVE  Ready(a)'
BY PastKept, BuiltKept, GoesReady DEF Ready

\* A step after which there is no end to be proven and no channel to be built.
LEMMA NoHandshake ==
  ASSUME NEW a \in Attempts, pc'[a] \notin ProofSteps \union {"seed"} \union ChanSteps
  PROVE  AtStep(a)'
BY DEF AtStep, TryOf, AckOf, ConfirmOf, ProofSteps, ChanSteps

LEMMA ReadHeightsReady ==
  ASSUME Inv, EndsOwned, NEW a \in Attempts, ReadHeights(a), \A b \in Attempts : Ready(b)
  PROVE  \A b \in Attempts : Ready(b)'
<1>1. UNCHANGED <<height, clients, ends, own, version>> /\ Goes(a, "clientB") /\ "clientB" \in Steps
  BY DEF ReadHeights, chainVars, Steps
<1>2. HeightsGrow  BY <1>1, Grows
<1>3. Kept(a) /\ Apart(a)  BY <1>1, <1>2, NothingMade, GoesOthers
<1>4. AtStep(a)'
  <2>1. pc'[a] = "clientB"  BY <1>1, GoesFacts
  <2> QED  BY <2>1, NoHandshake DEF ProofSteps, ChanSteps
<1>5. Ready(a)'  BY <1>1, <1>3, <1>4, GoesKept
<1> QED  BY <1>3, <1>5, OthersReady

LEMMA BlocksPassedReady ==
  ASSUME Inv, EndsOwned, NEW a \in Attempts, BlocksPassed(a), \A b \in Attempts : Ready(b)
  PROVE  \A b \in Attempts : Ready(b)'
<1> DEFINE step == IF version[a] = 1 THEN "connInit" ELSE "registerB"
<1>1. UNCHANGED <<height, clients, ends, own, version>> /\ Goes(a, step)
  BY DEF BlocksPassed, chainVars
<1>2. step \in Steps \ (ProofSteps \union {"seed", "failed"} \union ChanSteps)
  BY DEF Steps, ProofSteps, ChanSteps
<1> HIDE DEF step
<1>3. HeightsGrow  BY <1>1, Grows
<1>4. Kept(a) /\ Apart(a)  BY <1>1, <1>2, <1>3, NothingMade, GoesOthers
<1>5. AtStep(a)'
  <2>1. pc'[a] = step  BY <1>1, <1>2, GoesFacts
  <2> QED  BY <2>1, <1>2, NoHandshake
<1>6. Ready(a)'  BY <1>1, <1>2, <1>4, <1>5, GoesKept
<1> QED  BY <1>4, <1>6, OthersReady

\* The block that is waited for is not there yet, while what is to be proven is.
LEMMA BeginWaitReady ==
  ASSUME Inv, EndsOwned, NEW a \in Attempts, BeginWait(a), \A b \in Attempts : Ready(b)
  PROVE  \A b \in Attempts : Ready(b)'
<1>1. /\ UNCHANGED <<height, clients, ends, own, version, pc, header>>
      /\ mark' = [mark EXCEPT ![a] = [s \in Sides |-> IF s \in WaitsFor(a) THEN height[s] ELSE 0]]
      /\ prep' = [prep EXCEPT ![a] = "wait"]
  BY DEF BeginWait, chainVars
<1>2. HeightsGrow  BY <1>1, Grows
<1>3. \A b \in Attempts \ {a} : SameSpot(b)  BY <1>1, TypeFacts DEF SameSpot
<1>4. Kept(a) /\ Apart(a)  BY <1>1, <1>2, <1>3, NothingMade
<1>5. prep'[a] = "wait" /\ \A s \in Sides : mark'[a][s] = IF s \in WaitsFor(a) THEN height[s] ELSE 0
  BY <1>1, TypeFacts
<1>6. ASSUME NEW k \in Kinds, NEW p \in Sides, pc[a] \in ProvenAt(k, p) PROVE LateEnough(a, k, p)'
  <2>1. /\ own[a][k][p] # 0 /\ own[a].client[p] # 0 /\ own[a].client[Other(p)] # 0
        /\ Other(p) \in Sides /\ Other(Other(p)) = p
    BY <1>6, ProverHas, SideFacts
  <2>2. /\ EndOf(a, k, p)' = EndOf(a, k, p) /\ ClientOf(a, p)' = ClientOf(a, p)
        /\ ClientOf(a, Other(p))' = ClientOf(a, Other(p))
    BY <2>1, <1>4 DEF Kept
  <2>3. p \in WaitsFor(a)  BY <1>6, ProverHas DEF WaitsFor, ProofSteps
  <2>4. Past(a)  BY DEF Ready
  <2>5. /\ ClientOf(a, p).since <= height[p] /\ EndOf(a, k, p).since <= height[p]
        /\ ClientOf(a, Other(p)).latest <= height[p]
    BY <2>1, <2>4 DEF Past
  <2>6. height[p] \in Nat /\ height' = height  BY <1>1, TypeFacts
  <2>7. mark'[a][p] = height[p] /\ height[p] <= height[p]  BY <1>5, <2>3, <2>6
  <2> QED  BY <1>5, <2>2, <2>5, <2>6, <2>7 DEF LateEnough
<1>7. Prepared(a)'  BY <1>1, <1>6 DEF Prepared
<1>8. Ready(a)'
  <2>1. Past(a)' /\ Built(a)' /\ AtStep(a)'  BY <1>1, <1>4, PastKept, BuiltKept, AtStepKept DEF Ready
  <2> QED  BY <2>1, <1>1, <1>7 DEF Ready
<1> QED  BY <1>4, <1>8, OthersReady

LEMMA NewBlockReady ==
  ASSUME Inv, EndsOwned, NEW s \in Sides, NewBlock(s), \A b \in Attempts : Ready(b)
  PROVE  \A b \in Attempts : Ready(b)'
<1>1. /\ UNCHANGED <<clients, ends, own, version, pc, prep, mark, header>> /\ Commits(s)
  BY DEF NewBlock, cmdVars, Commits, Block
<1>2. HeightsGrow  BY <1>1, Grows
<1>3. ASSUME NEW b \in Attempts PROVE Ready(b)'
  <2>1. Kept(b)  BY <1>1, <1>2, NothingMade
  <2>2. SameSpot(b)  BY <1>1 DEF SameSpot
  <2> QED  BY <2>1, <2>2, ReadyKept
<1> QED  BY <1>3

\* prepare...Handshake: the header is of a block after the one that was waited
\* from, so what is to be proven was there before it, and the client gets it.
LEMMA PrepareReady ==
  ASSUME Inv, EndsOwned, NEW a \in Attempts, PrepareHandshake(a), \A b \in Attempts : Ready(b)
  PROVE  \A b \in Attempts : Ready(b)'
<1>0. PICK q \in Sides : q = Prover(a)  BY SideFacts DEF Prover
<1> DEFINE d == Other(q)
           c == own[a].client[d]
           e == [clients[d][c] EXCEPT !.latest = height[q], !.since = Block(d)]
<1>1. /\ pc[a] \in ProofSteps /\ prep[a] = "wait" /\ height[q] # mark[a][q]
      /\ Commits(d) /\ UNCHANGED <<ends, own, version, pc>>
      /\ header' = [header EXCEPT ![a] = height[q]] /\ prep' = [prep EXCEPT ![a] = "proof"]
      /\ mark' = [mark EXCEPT ![a] = Zero]
  BY <1>0 DEF PrepareHandshake, UpdateReady, Waited
<1>2. q \in Sides /\ d \in Sides /\ Other(d) = q /\ d # q  BY SideFacts
<1>3. clients' = [clients EXCEPT ![d][c] = e]
  <2>1. clients' = [clients EXCEPT ![d][c] = [@ EXCEPT !.latest = height[Other(d)], !.since = Block(d)]]
    BY <1>0 DEF PrepareHandshake, Update
  <2> QED  BY <2>1, <1>2
<1>4. c # 0 /\ own[a].client[q] # 0
  <2>1. pc[a] \in Middle  BY <1>1 DEF Middle, Steps, ProofSteps
  <2>2. Has(a, "client")  BY <2>1 DEF Inv, Order
  <2> QED  BY <2>2, <1>2, SideFacts DEF Has
<1>5. c \in 1..Len(clients[d])  BY <1>2, <1>4, OwnInRange
<1>6. e \in Client /\ e.latest = height[q] /\ e.since = Block(d)
      /\ e.born = clients[d][c].born /\ e.peer = clients[d][c].peer
  <2>1. clients[d][c] \in Client  BY <1>2, <1>5, TypeFacts
  <2>2. height[q] \in Nat /\ Block(d) \in Nat  BY <1>2, TypeFacts DEF Block
  <2> QED  BY <2>1, <2>2 DEF Client
<1> HIDE DEF e
<1>7. /\ clients'[d][c] = e
      /\ \A h \in 1..Len(clients[d]) : h # c => clients'[d][h] = clients[d][h]
      /\ \A t \in Sides : t # d => clients'[t] = clients[t]
  <2> HIDE DEF d, c
  <2> QED  BY <1>2, <1>3, <1>5, <1>6, TypeFacts, ClientChanged
<1>8. HeightsGrow /\ height[q] \in Nat /\ height'[q] = height[q] /\ height'[d] = Block(d)
  <2>1. height'[d] = height[d] + 1 /\ \A t \in Sides : t # d => height'[t] = height[t]
    BY <1>1, <1>2, CommitsFacts
  <2>2. height[q] \in Nat  BY <1>2, TypeFacts
  <2> QED  BY <1>1, <1>2, <2>1, <2>2, Grows DEF Block
<1>9. Apart(a)
  <2>1. \A b \in Attempts \ {a} : SameSpot(b)  BY <1>1, TypeFacts DEF SameSpot
  <2>2. \A s \in Sides : \A h \in 1..Len(clients[s]) :
          h # own[a].client[s] => clients'[s][h] = clients[s][h]
    BY <1>7, <1>2
  <2> QED  BY <1>1, <1>8, <2>1, <2>2 DEF Apart
<1>10. /\ ClientOf(a, d)' = e /\ ClientOf(a, q)' = ClientOf(a, q)
       /\ \A k \in Kinds, s \in Sides : EndOf(a, k, s)' = EndOf(a, k, s)
  BY <1>1, <1>2, <1>7 DEF ClientOf, EndOf
<1>11. Ready(a) /\ own'[a] = own[a]  BY <1>1
<1>12. Past(a)'
  <2>1. ASSUME NEW s \in Sides, NEW k \in Kinds, own[a][k][s] # 0 PROVE EndOf(a, k, s)'.since <= height'[s]
    <3>1. EndOf(a, k, s).since \in Nat /\ height[s] \in Nat  BY <2>1, OwnFacts DEF End
    <3>2. EndOf(a, k, s).since <= height[s]  BY <2>1, <1>11 DEF Ready, Past
    <3>3. height'[s] \in Nat /\ height[s] <= height'[s]  BY <1>8 DEF HeightsGrow
    <3> QED  BY <3>1, <3>2, <3>3, <1>10
  <2>2. ClientOf(a, d)'.latest <= height'[q] /\ ClientOf(a, d)'.since <= height'[d]
    <3>1. Block(d) \in Nat  BY <1>2, TypeFacts DEF Block
    <3> QED  BY <3>1, <1>6, <1>8, <1>10
  <2>3. ClientOf(a, q)'.latest <= height'[d] /\ ClientOf(a, q)'.since <= height'[q]
    <3>1. ClientOf(a, q) \in Client  BY <1>2, <1>4, OwnFacts
    <3>2. ClientOf(a, q).latest \in Nat /\ ClientOf(a, q).since \in Nat  BY <3>1 DEF Client
    <3>3. ClientOf(a, q).latest <= height[d] /\ ClientOf(a, q).since <= height[q]
      BY <1>2, <1>4, <1>11 DEF Ready, Past
    <3>4. height[d] \in Nat /\ height'[d] \in Nat /\ height[d] <= height'[d]
      BY <1>2, <1>8, TypeFacts DEF HeightsGrow
    <3> QED  BY <3>2, <3>3, <3>4, <1>8, <1>10
  <2>4. \A s \in Sides : s = d \/ s = q  BY <1>2, SideFacts
  <2> QED  BY <2>1, <2>2, <2>3, <2>4, <1>2, <1>11 DEF Past
<1>13. Built(a)'  BY <1>10, <1>11, SideFacts DEF Ready, Built, Kinds
<1>14. AtStep(a)'
  <2>1. Wired(a) => Wired(a)'
    <3>1. Unwired  BY <1>0, <1>1, <1>2, <1>5, UpdateUnwired DEF PrepareHandshake
    <3> QED  BY <3>1, UnwiredKeeps
  <2> QED  BY <2>1, <1>1, <1>10, <1>11, SideFacts DEF Ready, AtStep
<1>15. Prepared(a)'
  <2>1. ASSUME NEW k \in Kinds, NEW p \in Sides, pc[a] \in ProvenAt(k, p) PROVE LateEnough(a, k, p)'
    <3>1. p = q /\ own[a][k][p] # 0  BY <2>1, <1>0, ProverHas
    <3>2. LateEnough(a, k, p)  BY <2>1, <1>11 DEF Ready, Prepared
    <3>3. /\ ClientOf(a, p).since <= mark[a][p] /\ EndOf(a, k, p).since <= mark[a][p]
          /\ mark[a][p] <= height[p]
      BY <3>2, <1>1 DEF LateEnough
    <3>4. ClientOf(a, p).since \in Nat /\ EndOf(a, k, p).since \in Nat /\ mark[a][p] \in Nat
      <4>1. ClientOf(a, p) \in Client /\ EndOf(a, k, p) \in End  BY <3>1, <1>4, OwnFacts
      <4>2. mark[a][p] \in Nat  BY TypeFacts
      <4> QED  BY <4>1, <4>2 DEF Client, End
    <3>5. ClientOf(a, p).since < height[p] /\ EndOf(a, k, p).since < height[p]
      BY <3>1, <3>3, <3>4, <1>1, <1>8
    <3>6. header'[a] = height[q] /\ prep'[a] = "proof"  BY <1>1, TypeFacts
    <3>7. ClientOf(a, Other(p))'.latest = height[q]  BY <3>1, <1>6, <1>10
    <3>8. header'[a] <= ClientOf(a, Other(p))'.latest  BY <3>6, <3>7, <1>8
    <3> QED  BY <3>1, <3>5, <3>6, <3>8, <1>10 DEF LateEnough
  <2> QED  BY <2>1, <1>1 DEF Prepared
<1>16. Ready(a)'  BY <1>1, <1>11, <1>12, <1>13, <1>14, <1>15 DEF Ready
<1> QED  BY <1>9, <1>16, OthersReady

LEMMA CreateClientReady ==
  ASSUME Inv, EndsOwned, NEW a \in Attempts, NEW s \in Sides, createClient(a, s),
         \A b \in Attempts : Ready(b)
  PROVE  EndsOwned' /\ \A b \in Attempts : Ready(b)'
<1> DEFINE e == [latest |-> height[Other(s)], since |-> Block(s), born |-> Block(s), peer |-> 0]
           n == Len(clients[s]) + 1
           step == IF s = "B" THEN "clientA" ELSE "blocks"
<1>1. /\ UNCHANGED <<ends, version>> /\ Commits(s) /\ Goes(a, step)
      /\ pc[a] = (IF s = "B" THEN "clientB" ELSE "clientA")
      /\ clients' = [clients EXCEPT ![s] = Append(@, e)]
      /\ own' = [own EXCEPT ![a].client[s] = n]
  BY DEF createClient
<1>2. /\ height[s] \in Nat /\ height'[s] = height[s] + 1
      /\ \A t \in Sides : t # s => height'[t] = height[t]
      /\ HeightsGrow
  BY <1>1, CommitsFacts, Grows
<1>3. e \in Client /\ e.latest = height[Other(s)] /\ e.since = height[s] + 1
  BY <1>2, TypeFacts, SideFacts DEF Client, Block
<1> HIDE DEF e
<1>4. /\ clients'[s][n] = e
      /\ \A c \in 1..Len(clients[s]) : clients'[s][c] = clients[s][c]
      /\ \A t \in Sides : t # s => clients'[t] = clients[t]
  BY <1>1, <1>3, TypeFacts, ClientAppended
<1>5. n \in Nat /\ n # 0
  <2>1. Len(clients[s]) \in Nat  BY TypeFacts
  <2> QED  BY <2>1
<1>6. /\ own' \in [Attempts -> Own] /\ own'[a].client[s] = n
      /\ \A t \in Sides : t # s => own'[a].client[t] = own[a].client[t]
      /\ \A k \in Kinds : own'[a][k] = own[a][k]
      /\ \A b \in Attempts \ {a} : own'[b] = own[b]
  BY <1>1, <1>5, TypeFacts, OwnClient
<1> HIDE DEF n
<1>7. step \in Steps \ (ProofSteps \union {"seed", "failed"} \union ChanSteps)
  BY DEF Steps, ProofSteps, ChanSteps
<1> HIDE DEF step
<1>8. EndsOwned'
  <2>1. \A b \in Attempts, k \in Kinds : own'[b][k] = own[b][k]  BY <1>6
  <2> QED  BY <2>1 DEF EndsOwned
<1>9. Apart(a)
  <2>1. \A t \in Sides : \A c \in 1..Len(clients[t]) : clients'[t][c] = clients[t][c]
    BY <1>4
  <2>2. \A b \in Attempts \ {a} : SameSpot(b)  BY <1>1, <1>7, GoesOthers
  <2> QED  BY <2>1, <2>2, <1>1, <1>2, <1>6 DEF Apart
<1>10. HasNone(a, "conn") /\ HasNone(a, "chan")
  BY <1>1 DEF Inv, Order, Early, Last
<1>11. \A k \in Kinds, t \in Sides : own'[a][k][t] = 0
  BY <1>6, <1>10, SideFacts DEF HasNone, Kinds
<1>12. Past(a)'
  <2>1. ASSUME NEW t \in Sides, own'[a].client[t] # 0
        PROVE  ClientOf(a, t)'.latest <= height'[Other(t)] /\ ClientOf(a, t)'.since <= height'[t]
    <3>1. /\ Other(t) \in Sides /\ height[Other(t)] \in Nat /\ height[t] \in Nat
          /\ height'[t] \in Nat /\ height'[Other(t)] \in Nat
          /\ height[t] <= height'[t] /\ height[Other(t)] <= height'[Other(t)]
      BY <1>2, SideFacts, TypeFacts DEF HeightsGrow
    <3>2. CASE t = s
      <4>1. ClientOf(a, t)' = e  BY <3>2, <1>4, <1>6 DEF ClientOf
      <4> QED  BY <4>1, <3>1, <3>2, <1>2, <1>3
    <3>3. CASE t # s
      <4>1. own[a].client[t] # 0 /\ ClientOf(a, t)' = ClientOf(a, t)  BY <3>3, <2>1, <1>4, <1>6 DEF ClientOf
      <4>2. ClientOf(a, t).latest \in Nat /\ ClientOf(a, t).since \in Nat  BY <4>1, OwnFacts DEF Client
      <4>3. ClientOf(a, t).latest <= height[Other(t)] /\ ClientOf(a, t).since <= height[t]
        BY <4>1 DEF Ready, Past
      <4> QED  BY <4>1, <4>2, <4>3, <3>1
    <3> QED  BY <3>2, <3>3
  <2> QED  BY <2>1, <1>11 DEF Past
<1>13. Built(a)'  BY <1>11, SideFacts DEF Built, Kinds
<1>14. AtStep(a)'
  <2>1. pc'[a] = step  BY <1>1, <1>7, GoesFacts
  <2> QED  BY <2>1, <1>7, NoHandshake
<1>15. Ready(a)'  BY <1>1, <1>7, <1>12, <1>13, <1>14, GoesReady
<1> QED  BY <1>8, <1>9, <1>15, OthersReady

LEMMA RegisterReady ==
  ASSUME Inv, EndsOwned, NEW a \in Attempts, NEW s \in Sides, registerCounterParty(a, s),
         \A b \in Attempts : Ready(b)
  PROVE  \A b \in Attempts : Ready(b)'
<1> DEFINE i == own[a].client[s]
           e == [clients[s][i] EXCEPT !.peer = own[a].client[Other(s)]]
           step == IF s = "B" THEN "registerA" ELSE "save"
<1>1. /\ UNCHANGED <<ends, own, version>> /\ Commits(s) /\ Goes(a, step)
      /\ pc[a] = (IF s = "B" THEN "registerB" ELSE "registerA")
      /\ clients' = [clients EXCEPT ![s][i] = e]
  BY DEF registerCounterParty
<1>2. HeightsGrow  BY <1>1, Grows
<1>3. \A t \in Sides : own[a].client[t] # 0
  <2>1. Has(a, "client")  BY <1>1 DEF Inv, Order, Middle, Steps
  <2> QED  BY <2>1, SideFacts DEF Has
<1>4. i \in 1..Len(clients[s])  BY <1>3, OwnInRange
<1>5. e \in Client /\ e.latest = clients[s][i].latest /\ e.since = clients[s][i].since
  <2>1. clients[s][i] \in Client  BY <1>4, TypeFacts
  <2>2. own[a].client[Other(s)] \in Nat  BY OwnFacts, SideFacts
  <2> QED  BY <2>1, <2>2 DEF Client
<1> HIDE DEF e
<1>6. /\ clients'[s][i] = e
      /\ \A c \in 1..Len(clients[s]) : c # i => clients'[s][c] = clients[s][c]
      /\ \A t \in Sides : t # s => clients'[t] = clients[t]
  <2> HIDE DEF i
  <2> QED  BY <1>1, <1>4, <1>5, TypeFacts, ClientChanged
<1>7. step \in Steps \ (ProofSteps \union {"seed", "failed"} \union ChanSteps)
  BY DEF Steps, ProofSteps, ChanSteps
<1> HIDE DEF step
<1>8. Apart(a)
  <2>1. \A t \in Sides : \A c \in 1..Len(clients[t]) :
          c # own[a].client[t] => clients'[t][c] = clients[t][c]
    BY <1>6
  <2>2. \A b \in Attempts \ {a} : SameSpot(b)  BY <1>1, <1>7, GoesOthers
  <2> QED  BY <2>1, <2>2, <1>1, <1>2 DEF Apart
<1>9. HasNone(a, "conn") /\ HasNone(a, "chan")
  BY <1>1 DEF Inv, Order, Early, Last
<1>10. \A k \in Kinds, t \in Sides : own'[a][k][t] = 0
  BY <1>1, <1>9, SideFacts DEF HasNone, Kinds
<1>11. Past(a)'
  <2>1. ASSUME NEW t \in Sides
        PROVE  ClientOf(a, t)'.latest <= height'[Other(t)] /\ ClientOf(a, t)'.since <= height'[t]
    <3>1. /\ Other(t) \in Sides /\ height[Other(t)] \in Nat /\ height[t] \in Nat
          /\ height'[t] \in Nat /\ height'[Other(t)] \in Nat
          /\ height[t] <= height'[t] /\ height[Other(t)] <= height'[Other(t)]
      BY <1>2, SideFacts, TypeFacts DEF HeightsGrow
    <3>2. ClientOf(a, t)'.latest = ClientOf(a, t).latest /\ ClientOf(a, t)'.since = ClientOf(a, t).since
      BY <1>1, <1>5, <1>6 DEF ClientOf
    <3>3. ClientOf(a, t).latest \in Nat /\ ClientOf(a, t).since \in Nat  BY <1>3, OwnFacts DEF Client
    <3>4. ClientOf(a, t).latest <= height[Other(t)] /\ ClientOf(a, t).since <= height[t]
      BY <1>3 DEF Ready, Past
    <3> QED  BY <3>1, <3>2, <3>3, <3>4
  <2> QED  BY <2>1, <1>10 DEF Past
<1>12. Built(a)'  BY <1>10, SideFacts DEF Built, Kinds
<1>13. AtStep(a)'
  <2>1. pc'[a] = step  BY <1>1, <1>7, GoesFacts
  <2> QED  BY <2>1, <1>7, NoHandshake
<1>14. Ready(a)'  BY <1>1, <1>7, <1>11, <1>12, <1>13, GoesReady
<1> QED  BY <1>8, <1>14, OthersReady

\* The path that is stored, and after it the heights: it is wired by now.
LEMMA StoringReady ==
  ASSUME Inv, EndsOwned, NEW a \in Attempts, addRelayPath(a) \/ seedInitialHeights(a),
         \A b \in Attempts : Ready(b)
  PROVE  \A b \in Attempts : Ready(b)'
<1> DEFINE step == IF pc[a] = "save" THEN "seed" ELSE IF version[a] = 1 THEN "chanInit" ELSE "done"
<1>1. /\ UNCHANGED <<height, clients, ends, own, version>> /\ pc[a] \in {"save", "seed"}
      /\ Goes(a, step)
  BY DEF addRelayPath, seedInitialHeights, chainVars
<1>2. step \in Steps \ {"failed"}  BY DEF Steps
<1>3. HeightsGrow  BY <1>1, Grows
<1>4. Kept(a) /\ Apart(a)  BY <1>1, <1>2, <1>3, NothingMade, GoesOthers
<1>5. AtStep(a)'
  <2>1. pc'[a] = step  BY <1>1, <1>2, GoesFacts
  <2>2. Wired(a)  BY <1>1 DEF Inv, PathsWired, Ready, AtStep
  <2>3. Wired(a)' /\ version'[a] = version[a]  BY <2>2, <1>1, <1>4, WiredKept
  <2> QED  BY <2>1, <2>3, <1>1 DEF AtStep, ChanSteps, TryOf, AckOf, ConfirmOf
<1>6. Ready(a)'
  <2> HIDE DEF step
  <2> QED  BY <1>1, <1>2, <1>4, <1>5, GoesKept
<1> QED  BY <1>4, <1>6, OthersReady

\* A step of a channel's handshake leaves the connection as it is.
LEMMA WiredStays ==
  ASSUME NEW a \in Attempts, Wired(a), version[a] = 1, version' = version,
         own'[a].conn = own[a].conn,
         \A s \in Sides : own[a].conn[s] # 0 => EndOf(a, "conn", s)' = EndOf(a, "conn", s)
  PROVE  Wired(a)'
<1>1. Has(a, "conn") /\ \A s \in Sides : EndOf(a, "conn", s).state = "OPEN"  BY DEF Wired
<1>2. \A s \in Sides : own[a].conn[s] # 0  BY <1>1, SideFacts DEF Has
<1>3. \A s \in Sides : EndOf(a, "conn", s)'.state = "OPEN"  BY <1>1, <1>2
<1>4. Has(a, "conn")' /\ version'[a] = 1  BY <1>1 DEF Has
<1> QED  BY <1>3, <1>4 DEF Wired

\* A new end: the first of the command's of this kind on this chain.
LEMMA AppendReady ==
  ASSUME Inv, EndsOwned, NEW a \in Attempts, NEW k \in Kinds, NEW s \in Sides,
         NEW then \in Steps, NEW e \in End, \A b \in Attempts : Ready(b),
         Commits(s), Goes(a, then), UNCHANGED <<clients, version>>,
         ends' = [ends EXCEPT ![k][s] = Append(@, e)],
         own' = [own EXCEPT ![a][k][s] = Len(ends[k][s]) + 1],
         own[a][k][s] = 0, e.since = Block(s),
         k = "conn" => HasNone(a, "chan"),
         k = "chan" => e.on = own[a].conn[s] /\ Wired(a) /\ version[a] = 1,
         s = "A" => e.state = "INIT" /\ then = TryOf(k),
         s = "B" => /\ e.state = "TRYOPEN" /\ then = AckOf(k)
                    /\ own[a][k]["A"] # 0 /\ EndOf(a, k, "A").state = "INIT"
  PROVE  EndsOwned' /\ \A b \in Attempts : Ready(b)'
<1> DEFINE n == Len(ends[k][s]) + 1
<1>1. /\ ends'[k][s][n] = e
      /\ \A i \in 1..Len(ends[k][s]) : ends'[k][s][i] = ends[k][s][i]
      /\ \A j \in Kinds, t \in Sides : j # k \/ t # s => ends'[j][t] = ends[j][t]
  BY TypeFacts, EndAppended
<1>2. Len(ends[k][s]) \in Nat /\ n \in Nat /\ n # 0
  <2>1. ends \in [Kinds -> [Sides -> Seq(End)]]  BY TypeFacts
  <2> QED  BY <2>1
<1>3. /\ own' \in [Attempts -> Own] /\ own'[a][k][s] = n /\ own'[a].client = own[a].client
      /\ \A t \in Sides : t # s => own'[a][k][t] = own[a][k][t]
      /\ \A j \in Kinds : j # k => own'[a][j] = own[a][j]
      /\ \A b \in Attempts \ {a} : own'[b] = own[b]
  <2>1. own \in [Attempts -> Own]  BY TypeFacts
  <2> QED  BY <1>2, <2>1, OwnEnd
<1>4. height[s] \in Nat /\ height'[s] = height[s] + 1 /\ HeightsGrow /\ e.since = height'[s]
  BY CommitsFacts, Grows DEF Block
<1>5. \A b \in Attempts : own[b][k][s] # n
  <2>1. \A b \in Attempts : own[b][k][s] \in 0..Len(ends[k][s])  BY TypeFacts
  <2> QED  BY <2>1, <1>2
<1> HIDE DEF n
<1>6. EndsOwned'
  <2> SUFFICES ASSUME NEW b \in Attempts, NEW c \in Attempts, NEW j \in Kinds, NEW t \in Sides,
                      own'[b][j][t] # 0, own'[b][j][t] = own'[c][j][t]
               PROVE  b = c
    BY DEF EndsOwned
  <2>1. CASE j = k /\ t = s
    <3>1. \A d \in Attempts \ {a} : own'[d][k][s] # n  BY <1>3, <1>5
    <3>2. b # a /\ c # a => own[b][j][t] # 0 /\ own[b][j][t] = own[c][j][t]  BY <1>3
    <3> QED  BY <2>1, <3>1, <3>2, <1>3 DEF EndsOwned
  <2>2. CASE ~(j = k /\ t = s)
    <3>1. \A d \in Attempts : own'[d][j][t] = own[d][j][t]
      <4>1. ASSUME NEW d \in Attempts PROVE own'[d][j][t] = own[d][j][t]
        <5>1. CASE d # a  BY <5>1, <1>3
        <5>2. CASE d = a /\ j # k  BY <5>2, <1>3
        <5>3. CASE d = a /\ j = k  BY <5>3, <2>2, <1>3
        <5> QED  BY <5>1, <5>2, <5>3
      <4> QED  BY <4>1
    <3> QED  BY <3>1 DEF EndsOwned
  <2> QED  BY <2>1, <2>2
<1>7. Apart(a)
  <2>1. \A j \in Kinds, t \in Sides : \A i \in 1..Len(ends[j][t]) : ends'[j][t][i] = ends[j][t][i]
    <3>1. ASSUME NEW j \in Kinds, NEW t \in Sides, NEW i \in 1..Len(ends[j][t])
          PROVE  ends'[j][t][i] = ends[j][t][i]
      <4>1. CASE j = k /\ t = s  BY <4>1, <1>1
      <4>2. CASE j # k \/ t # s  BY <4>2, <1>1
      <4> QED  BY <4>1, <4>2
    <3> QED  BY <3>1
  <2>2. \A b \in Attempts \ {a} : SameSpot(b)  BY GoesOthers
  <2> QED  BY <2>1, <2>2, <1>3, <1>4 DEF Apart
\* What the command had.
<1>8. ASSUME NEW j \in Kinds, NEW t \in Sides, own'[a][j][t] # 0, ~(j = k /\ t = s)
      PROVE  /\ own'[a][j][t] = own[a][j][t] /\ own[a][j][t] # 0
             /\ EndOf(a, j, t)' = EndOf(a, j, t)
  <2>1. own'[a][j][t] = own[a][j][t]
    <3>1. CASE j # k  BY <3>1, <1>3
    <3>2. CASE j = k  BY <3>2, <1>8, <1>3
    <3> QED  BY <3>1, <3>2
  <2>2. ends'[j][t] = ends[j][t]  BY <1>8, <1>1
  <2> QED  BY <2>1, <2>2, <1>8 DEF EndOf
<1>9. EndOf(a, k, s)' = e  BY <1>1, <1>3 DEF EndOf
<1>10. \A t \in Sides : ClientOf(a, t)' = ClientOf(a, t)  BY <1>3 DEF ClientOf
<1>11. Past(a)'
  <2>1. ASSUME NEW t \in Sides
        PROVE  own'[a].client[t] # 0 =>
                 ClientOf(a, t)'.latest <= height'[Other(t)] /\ ClientOf(a, t)'.since <= height'[t]
    <3> SUFFICES ASSUME own[a].client[t] # 0
                 PROVE  ClientOf(a, t).latest <= height'[Other(t)] /\ ClientOf(a, t).since <= height'[t]
      BY <1>3, <1>10
    <3>1. ClientOf(a, t).latest \in Nat /\ ClientOf(a, t).since \in Nat  BY OwnFacts DEF Client
    <3>2. ClientOf(a, t).latest <= height[Other(t)] /\ ClientOf(a, t).since <= height[t]
      BY DEF Ready, Past
    <3>3. /\ Other(t) \in Sides /\ height[Other(t)] \in Nat /\ height[t] \in Nat
          /\ height'[t] \in Nat /\ height'[Other(t)] \in Nat
          /\ height[t] <= height'[t] /\ height[Other(t)] <= height'[Other(t)]
      BY <1>4, SideFacts, TypeFacts DEF HeightsGrow
    <3> QED  BY <3>1, <3>2, <3>3
  <2>2. ASSUME NEW t \in Sides, NEW j \in Kinds, own'[a][j][t] # 0
        PROVE  EndOf(a, j, t)'.since <= height'[t]
    <3>1. CASE j = k /\ t = s  BY <3>1, <1>4, <1>9
    <3>2. CASE ~(j = k /\ t = s)
      <4>1. own[a][j][t] # 0 /\ EndOf(a, j, t)' = EndOf(a, j, t)  BY <3>2, <2>2, <1>8
      <4>2. EndOf(a, j, t).since \in Nat  BY <4>1, OwnFacts DEF End
      <4>3. EndOf(a, j, t).since <= height[t]  BY <4>1 DEF Ready, Past
      <4>4. height[t] \in Nat /\ height'[t] \in Nat /\ height[t] <= height'[t]
        BY <1>4, TypeFacts DEF HeightsGrow
      <4> QED  BY <4>1, <4>2, <4>3, <4>4
    <3> QED  BY <3>1, <3>2
  <2> QED  BY <2>1, <2>2 DEF Past
<1>12. own'[a].conn = own[a].conn \/ k = "conn"  BY <1>3 DEF Kinds
<1>13. Built(a)'
  <2>1. ASSUME NEW t \in Sides, own'[a].chan[t] # 0 PROVE EndOf(a, "chan", t)'.on = own'[a].conn[t]
    <3>1. k = "chan"
      <4>1. k = "conn" => own'[a].chan = own[a].chan  BY <1>3 DEF Kinds
      <4>2. k = "conn" => own[a].chan[t] = 0  BY SideFacts DEF HasNone
      <4> QED  BY <2>1, <4>1, <4>2 DEF Kinds
    <3>2. own'[a].conn = own[a].conn  BY <3>1, <1>12
    <3>3. CASE t = s  BY <3>1, <3>2, <3>3, <1>9
    <3>4. CASE t # s
      <4>1. own[a].chan[t] # 0 /\ EndOf(a, "chan", t)' = EndOf(a, "chan", t)
        BY <3>1, <3>4, <2>1, <1>8 DEF Kinds
      <4>2. EndOf(a, "chan", t).on = own[a].conn[t]  BY <4>1 DEF Ready, Built
      <4> QED  BY <4>1, <4>2, <3>2
    <3> QED  BY <3>3, <3>4
  <2>2. ASSUME NEW j \in Kinds, own'[a][j]["A"] # 0, EndOf(a, j, "A")'.state = "OPEN"
        PROVE  EndOf(a, j, "A")'.peer = own'[a][j]["B"]
    <3>1. ~(j = k /\ s = "A")  BY <2>2, <1>9
    <3>2. own[a][j]["A"] # 0 /\ EndOf(a, j, "A")' = EndOf(a, j, "A")
      BY <3>1, <2>2, <1>8, SideFacts
    <3>3. j # k
      <4>1. s = "B" => EndOf(a, k, "A").state # "OPEN"  OBVIOUS
      <4> QED  BY <4>1, <3>1, <3>2, <2>2, SideFacts
    <3>4. EndOf(a, j, "A").peer = own[a][j]["B"]  BY <3>2, <2>2 DEF Ready, Built
    <3> QED  BY <3>2, <3>3, <3>4, <1>3
  <2> QED  BY <2>1, <2>2 DEF Built
<1>14. AtStep(a)'
  <2>1. pc'[a] = then  BY GoesFacts
  <2>2. k = "chan" => Wired(a)' /\ version'[a] = 1
    <3> SUFFICES ASSUME k = "chan" PROVE Wired(a)' /\ version'[a] = 1  OBVIOUS
    <3>1. own'[a].conn = own[a].conn  BY <1>12
    <3>2. \A t \in Sides : own[a].conn[t] # 0 => EndOf(a, "conn", t)' = EndOf(a, "conn", t)
      BY <3>1, <1>8 DEF Kinds
    <3> QED  BY <3>1, <3>2, WiredStays
  <2>3. s \in {"A", "B"} /\ (s = "A" => then = TryOf(k)) /\ (s = "B" => then = AckOf(k))
    BY SideFacts
  <2>4. \A j \in Kinds : /\ then = TryOf(j) => j = k /\ s = "A"
                         /\ then = AckOf(j) => j = k /\ s = "B"
                         /\ then # ConfirmOf(j)
    BY <2>3 DEF TryOf, AckOf, ConfirmOf, Kinds
  <2>5. then \in {"seed"} \union ChanSteps => k = "chan"
    BY <2>3 DEF TryOf, AckOf, ChanSteps, Kinds
  <2> QED  BY <2>1, <2>2, <2>4, <2>5, <1>9 DEF AtStep, ChanSteps
<1>15. Ready(a)'
  <2>1. then # "failed"  BY SideFacts DEF TryOf, AckOf
  <2> QED  BY <2>1, <1>11, <1>13, <1>14, GoesReady
<1> QED  BY <1>6, <1>7, <1>15, OthersReady

\* An end that opens.
LEMMA OpenReady ==
  ASSUME Inv, EndsOwned, NEW a \in Attempts, NEW k \in Kinds, NEW s \in Sides,
         NEW then \in Steps, NEW e \in End, \A b \in Attempts : Ready(b),
         Commits(s), Goes(a, then), UNCHANGED <<clients, own, version>>,
         ends' = [ends EXCEPT ![k][s][own[a][k][s]] = e], Has(a, k),
         e.since = Block(s), e.state = "OPEN", e.on = EndOf(a, k, s).on,
         k = "chan" => Wired(a) /\ version[a] = 1,
         s = "A" => e.peer = own[a][k]["B"] /\ then = ConfirmOf(k),
         s = "B" => then \in {"save", "done"}
  PROVE  \A b \in Attempts : Ready(b)'
<1> DEFINE n == own[a][k][s]
<1>1. n # 0 /\ n \in 1..Len(ends[k][s])
  <2>1. n # 0  BY SideFacts DEF Has
  <2> QED  BY <2>1, OwnInRange
<1>2. /\ ends'[k][s][n] = e
      /\ \A i \in 1..Len(ends[k][s]) : i # n => ends'[k][s][i] = ends[k][s][i]
      /\ \A j \in Kinds, t \in Sides : j # k \/ t # s => ends'[j][t] = ends[j][t]
  <2>1. ends \in [Kinds -> [Sides -> Seq(End)]]  BY TypeFacts
  <2>2. ends' = [ends EXCEPT ![k][s][n] = e]  OBVIOUS
  <2> HIDE DEF n
  <2> QED  BY <1>1, <2>1, <2>2, EndChanged
<1>3. height[s] \in Nat /\ height'[s] = height[s] + 1 /\ HeightsGrow /\ e.since = height'[s]
  BY CommitsFacts, Grows DEF Block
<1>4. Apart(a)
  <2>1. ASSUME NEW j \in Kinds, NEW t \in Sides, NEW i \in 1..Len(ends[j][t]), i # own[a][j][t]
        PROVE  ends'[j][t][i] = ends[j][t][i]
    <3>1. CASE j = k /\ t = s  BY <3>1, <2>1, <1>2
    <3>2. CASE j # k \/ t # s  BY <3>2, <1>2
    <3> QED  BY <3>1, <3>2
  <2>2. \A b \in Attempts \ {a} : SameSpot(b)  BY GoesOthers
  <2>3. \A j \in Kinds, t \in Sides : \A i \in 1..Len(ends[j][t]) :
          i # own[a][j][t] => ends'[j][t][i] = ends[j][t][i]
    BY <2>1
  <2> QED  BY <2>2, <2>3, <1>3 DEF Apart
<1>5. ASSUME NEW j \in Kinds, NEW t \in Sides, ~(j = k /\ t = s)
      PROVE  EndOf(a, j, t)' = EndOf(a, j, t)
  <2>1. ends'[j][t] = ends[j][t]  BY <1>5, <1>2
  <2> QED  BY <2>1 DEF EndOf
<1>6. EndOf(a, k, s)' = e  BY <1>2 DEF EndOf
<1>7. \A t \in Sides : ClientOf(a, t)' = ClientOf(a, t)  BY DEF ClientOf
<1> HIDE DEF n
<1>8. Past(a)'
  <2>1. ASSUME NEW t \in Sides
        PROVE  own[a].client[t] # 0 =>
                 ClientOf(a, t)'.latest <= height'[Other(t)] /\ ClientOf(a, t)'.since <= height'[t]
    <3> SUFFICES ASSUME own[a].client[t] # 0
                 PROVE  ClientOf(a, t).latest <= height'[Other(t)] /\ ClientOf(a, t).since <= height'[t]
      BY <1>7
    <3>1. ClientOf(a, t).latest \in Nat /\ ClientOf(a, t).since \in Nat  BY OwnFacts DEF Client
    <3>2. ClientOf(a, t).latest <= height[Other(t)] /\ ClientOf(a, t).since <= height[t]
      BY DEF Ready, Past
    <3>3. /\ Other(t) \in Sides /\ height[Other(t)] \in Nat /\ height[t] \in Nat
          /\ height'[t] \in Nat /\ height'[Other(t)] \in Nat
          /\ height[t] <= height'[t] /\ height[Other(t)] <= height'[Other(t)]
      BY <1>3, SideFacts, TypeFacts DEF HeightsGrow
    <3> QED  BY <3>1, <3>2, <3>3
  <2>2. ASSUME NEW t \in Sides, NEW j \in Kinds, own[a][j][t] # 0
        PROVE  EndOf(a, j, t)'.since <= height'[t]
    <3>1. CASE j = k /\ t = s  BY <3>1, <1>3, <1>6
    <3>2. CASE ~(j = k /\ t = s)
      <4>1. EndOf(a, j, t)' = EndOf(a, j, t)  BY <3>2, <1>5
      <4>2. EndOf(a, j, t).since \in Nat  BY <2>2, OwnFacts DEF End
      <4>3. EndOf(a, j, t).since <= height[t]  BY <2>2 DEF Ready, Past
      <4>4. height[t] \in Nat /\ height'[t] \in Nat /\ height[t] <= height'[t]
        BY <1>3, TypeFacts DEF HeightsGrow
      <4> QED  BY <4>1, <4>2, <4>3, <4>4
    <3> QED  BY <3>1, <3>2
  <2>3. own' = own  OBVIOUS
  <2> QED  BY <2>1, <2>2, <2>3 DEF Past
<1>9. Built(a)
  BY DEF Ready
<1>10. Built(a)'
  <2>1. ASSUME NEW t \in Sides, own[a].chan[t] # 0 PROVE EndOf(a, "chan", t)'.on = own[a].conn[t]
    <3>1. EndOf(a, "chan", t).on = own[a].conn[t]  BY <2>1, <1>9 DEF Built
    <3>2. CASE k = "chan" /\ t = s  BY <3>1, <3>2, <1>6
    <3>3. CASE ~(k = "chan" /\ t = s)
      <4>1. EndOf(a, "chan", t)' = EndOf(a, "chan", t)  BY <3>3, <1>5 DEF Kinds
      <4> QED  BY <4>1, <3>1
    <3> QED  BY <3>2, <3>3
  <2>2. ASSUME NEW j \in Kinds, own[a][j]["A"] # 0, EndOf(a, j, "A")'.state = "OPEN"
        PROVE  EndOf(a, j, "A")'.peer = own[a][j]["B"]
    <3>1. CASE j = k /\ s = "A"  BY <3>1, <1>6
    <3>2. CASE ~(j = k /\ s = "A")
      <4>1. EndOf(a, j, "A")' = EndOf(a, j, "A")  BY <3>2, <1>5, SideFacts
      <4> QED  BY <4>1, <2>2, <1>9 DEF Built
    <3> QED  BY <3>1, <3>2
  <2>3. own' = own  OBVIOUS
  <2> QED  BY <2>1, <2>2, <2>3 DEF Built
<1>11. AtStep(a)'
  <2>1. pc'[a] = then  BY GoesFacts
  <2>2. k = "chan" => Wired(a)' /\ version'[a] = 1
    <3> SUFFICES ASSUME k = "chan" PROVE Wired(a)' /\ version'[a] = 1  OBVIOUS
    <3>1. \A t \in Sides : EndOf(a, "conn", t)' = EndOf(a, "conn", t)  BY <1>5 DEF Kinds
    <3> QED  BY <3>1, WiredStays
  <2>3. s = "A" \/ s = "B"  BY SideFacts
  <2>4. \A j \in Kinds : /\ then # TryOf(j) /\ then # AckOf(j)
                         /\ then = ConfirmOf(j) => j = k /\ s = "A"
    BY <2>3 DEF TryOf, AckOf, ConfirmOf, Kinds
  <2>5. then \in {"seed"} \union ChanSteps => k = "chan"
    BY <2>3 DEF ConfirmOf, ChanSteps, Kinds
  <2> QED  BY <2>1, <2>2, <2>4, <2>5, <1>6 DEF AtStep, ChanSteps
<1>12. Ready(a)'
  <2>1. then # "failed"  BY SideFacts DEF ConfirmOf
  <2> QED  BY <2>1, <1>8, <1>10, <1>11, GoesReady
<1> QED  BY <1>4, <1>12, OthersReady

LEMMA OpenInitReady ==
  ASSUME Inv, EndsOwned, NEW a \in Attempts, NEW k \in Kinds, \A b \in Attempts : Ready(b),
         OpenInit(a, k, TryOf(k)), pc[a] = (IF k = "conn" THEN "connInit" ELSE "chanInit")
  PROVE  EndsOwned' /\ \A b \in Attempts : Ready(b)'
<1> DEFINE e == [on |-> IF k = "conn" THEN own[a].client["A"] ELSE own[a].conn["A"],
                 peerOn |-> IF k = "conn" THEN own[a].client["B"] ELSE 0,
                 peer |-> 0, state |-> "INIT", since |-> Block("A")]
<1>1. /\ Commits("A") /\ Goes(a, TryOf(k)) /\ UNCHANGED <<clients, version>>
      /\ ends' = [ends EXCEPT ![k]["A"] = Append(@, e)]
      /\ own' = [own EXCEPT ![a][k]["A"] = Len(ends[k]["A"]) + 1]
  BY DEF OpenInit
<1>2. e \in End
  <2>1. own[a] \in Own /\ height["A"] \in Nat  BY TypeFacts, SideFacts
  <2> QED  BY <2>1, SideFacts DEF Own, End, Block
<1>3. e.state = "INIT" /\ e.since = Block("A") /\ (k = "chan" => e.on = own[a].conn["A"])  OBVIOUS
<1> HIDE DEF e
<1>4. own[a][k]["A"] = 0 /\ (k = "conn" => HasNone(a, "chan"))
  BY DEF Inv, Order, Early, Last, HasNone, Kinds
<1>5. k = "chan" => Wired(a) /\ version[a] = 1  BY DEF Ready, AtStep, ChanSteps
<1>6. TryOf(k) \in Steps /\ "A" \in Sides  BY SideFacts DEF TryOf, Steps, ProofSteps
<1> QED  BY <1>1, <1>2, <1>3, <1>4, <1>5, <1>6, AppendReady

LEMMA OpenTryReady ==
  ASSUME Inv, EndsOwned, NEW a \in Attempts, NEW k \in Kinds, \A b \in Attempts : Ready(b),
         OpenTry(a, k, AckOf(k)), pc[a] = TryOf(k)
  PROVE  EndsOwned' /\ \A b \in Attempts : Ready(b)'
<1> DEFINE e == [on |-> IF k = "conn" THEN own[a].client["B"] ELSE own[a].conn["B"],
                 peerOn |-> IF k = "conn" THEN own[a].client["A"] ELSE 0,
                 peer |-> own[a][k]["A"], state |-> "TRYOPEN", since |-> Block("B")]
<1>1. /\ Commits("B") /\ Goes(a, AckOf(k)) /\ UNCHANGED <<clients, version>>
      /\ ends' = [ends EXCEPT ![k]["B"] = Append(@, e)]
      /\ own' = [own EXCEPT ![a][k]["B"] = Len(ends[k]["B"]) + 1]
  BY DEF OpenTry
<1>2. e \in End
  <2>1. own[a] \in Own /\ height["B"] \in Nat  BY TypeFacts, SideFacts
  <2>2. own[a][k]["A"] \in Nat  BY <2>1, SideFacts DEF Own, Kinds
  <2> QED  BY <2>1, <2>2, SideFacts DEF Own, End, Block
<1>3. e.state = "TRYOPEN" /\ e.since = Block("B") /\ (k = "chan" => e.on = own[a].conn["B"])  OBVIOUS
<1> HIDE DEF e
<1>4. own[a][k]["A"] # 0 /\ own[a][k]["B"] = 0 /\ (k = "conn" => HasNone(a, "chan"))
  BY DEF Inv, Order, Last, TryOf, Kinds
<1>5. k = "chan" => Wired(a) /\ version[a] = 1  BY DEF Ready, AtStep, ChanSteps, TryOf
<1>6. EndOf(a, k, "A").state = "INIT"  BY DEF Ready, AtStep
<1>7. AckOf(k) \in Steps /\ "B" \in Sides  BY SideFacts DEF AckOf, Steps, ProofSteps
<1> QED  BY <1>1, <1>2, <1>3, <1>4, <1>5, <1>6, <1>7, AppendReady

LEMMA OpenAckReady ==
  ASSUME Inv, EndsOwned, NEW a \in Attempts, NEW k \in Kinds, \A b \in Attempts : Ready(b),
         OpenAck(a, k, ConfirmOf(k)), pc[a] = AckOf(k)
  PROVE  \A b \in Attempts : Ready(b)'
<1> DEFINE e == [EndOf(a, k, "A") EXCEPT !.state = "OPEN", !.peer = own[a][k]["B"], !.since = Block("A")]
<1>1. /\ Commits("A") /\ Goes(a, ConfirmOf(k)) /\ UNCHANGED <<clients, own, version>>
      /\ ends' = [ends EXCEPT ![k]["A"][own[a][k]["A"]] = e]
  BY DEF OpenAck, EndOf
<1>2. Has(a, k)  BY DEF Inv, Order, AckOf, Kinds
<1>3. /\ e \in End /\ e.state = "OPEN" /\ e.peer = own[a][k]["B"] /\ e.since = Block("A")
      /\ e.on = EndOf(a, k, "A").on
  <2>1. EndOf(a, k, "A") \in End /\ own[a][k]["B"] \in Nat  BY <1>2, OwnFacts, SideFacts DEF Has
  <2>2. Block("A") \in Nat  BY TypeFacts, SideFacts DEF Block
  <2> QED  BY <2>1, <2>2 DEF End
<1> HIDE DEF e
<1>4. k = "chan" => Wired(a) /\ version[a] = 1  BY DEF Ready, AtStep, ChanSteps, AckOf
<1>5. ConfirmOf(k) \in Steps /\ "A" \in Sides  BY SideFacts DEF ConfirmOf, Steps, ProofSteps
<1> QED  BY <1>1, <1>2, <1>3, <1>4, <1>5, OpenReady

LEMMA OpenConfirmReady ==
  ASSUME Inv, EndsOwned, NEW a \in Attempts, NEW k \in Kinds, \A b \in Attempts : Ready(b),
         NEW then \in {"save", "done"}, OpenConfirm(a, k, then), pc[a] = ConfirmOf(k)
  PROVE  \A b \in Attempts : Ready(b)'
<1> DEFINE e == [EndOf(a, k, "B") EXCEPT !.state = "OPEN", !.since = Block("B")]
<1>1. /\ Commits("B") /\ Goes(a, then) /\ UNCHANGED <<clients, own, version>>
      /\ ends' = [ends EXCEPT ![k]["B"][own[a][k]["B"]] = e]
  BY DEF OpenConfirm, EndOf
<1>2. Has(a, k)  BY DEF Inv, Order, ConfirmOf, Kinds
<1>3. /\ e \in End /\ e.state = "OPEN" /\ e.since = Block("B") /\ e.on = EndOf(a, k, "B").on
  <2>1. EndOf(a, k, "B") \in End  BY <1>2, OwnFacts, SideFacts DEF Has
  <2>2. Block("B") \in Nat  BY TypeFacts, SideFacts DEF Block
  <2> QED  BY <2>1, <2>2 DEF End
<1> HIDE DEF e
<1>4. k = "chan" => Wired(a) /\ version[a] = 1  BY DEF Ready, AtStep, ChanSteps, ConfirmOf
<1>5. then \in Steps /\ "B" \in Sides  BY SideFacts DEF Steps
<1> QED  BY <1>1, <1>2, <1>3, <1>4, <1>5, OpenReady

LEMMA EffectReady ==
  ASSUME Inv, EndsOwned, NEW a \in Attempts, Effect(a), \A b \in Attempts : Ready(b)
  PROVE  EndsOwned' /\ \A b \in Attempts : Ready(b)'
<1>1. /\ "conn" \in Kinds /\ TryOf("conn") = "connTry" /\ AckOf("conn") = "connAck"
      /\ ConfirmOf("conn") = "connConfirm"
      /\ "chan" \in Kinds /\ TryOf("chan") = "chanTry" /\ AckOf("chan") = "chanAck"
      /\ ConfirmOf("chan") = "chanConfirm"
  BY DEF Kinds, TryOf, AckOf, ConfirmOf
<1>2. UNCHANGED own => EndsOwned'  BY DEF EndsOwned
<1>3. ASSUME NEW s \in Sides, createClient(a, s) PROVE EndsOwned' /\ \A b \in Attempts : Ready(b)'
  BY <1>3, CreateClientReady
<1>4. ASSUME NEW s \in Sides, registerCounterParty(a, s) PROVE EndsOwned' /\ \A b \in Attempts : Ready(b)'
  BY <1>2, <1>4, RegisterReady DEF registerCounterParty
<1>5. CASE PrepareHandshake(a)  BY <1>2, <1>5, PrepareReady DEF PrepareHandshake
<1>6. CASE connOpenInit(a)  BY <1>1, <1>6, OpenInitReady DEF connOpenInit
<1>7. CASE channelOpenInit(a)  BY <1>1, <1>7, OpenInitReady DEF channelOpenInit
<1>8. CASE connOpenTry(a)  BY <1>1, <1>8, OpenTryReady DEF connOpenTry
<1>9. CASE channelOpenTry(a)  BY <1>1, <1>9, OpenTryReady DEF channelOpenTry
<1>10. CASE connOpenAck(a)  BY <1>1, <1>2, <1>10, OpenAckReady DEF connOpenAck, OpenAck
<1>11. CASE channelOpenAck(a)  BY <1>1, <1>2, <1>11, OpenAckReady DEF channelOpenAck, OpenAck
<1>12. CASE connOpenConfirm(a)  BY <1>1, <1>2, <1>12, OpenConfirmReady DEF connOpenConfirm, OpenConfirm
<1>13. CASE channelOpenConfirm(a)
  BY <1>1, <1>2, <1>13, OpenConfirmReady DEF channelOpenConfirm, OpenConfirm
<1>14. CASE addRelayPath(a) \/ seedInitialHeights(a)
  BY <1>2, <1>14, StoringReady DEF addRelayPath, seedInitialHeights
<1> QED
  BY <1>3, <1>4, <1>5, <1>6, <1>7, <1>8, <1>9, <1>10, <1>11, <1>12, <1>13, <1>14 DEF Effect

\* What is proven at a step is what the other chain asks for.
LEMMA ProvenThen ==
  ASSUME Inv, NEW a \in Attempts, Ready(a), NEW k \in Kinds, NEW p \in Sides,
         pc[a] \in ProvenAt(k, p), prep[a] = "proof", NEW st,
         st = (IF pc[a] = TryOf(k) THEN "INIT" ELSE IF p = "B" THEN "TRYOPEN" ELSE "OPEN")
  PROVE  ConsensusProvable(a, p) /\ Proven(a, k, Other(p), st)
<1>1. LateEnough(a, k, p) /\ AtStep(a) /\ Built(a)  BY DEF Ready, Prepared
<1>2. /\ ClientOf(a, p).since < header[a] /\ EndOf(a, k, p).since < header[a]
      /\ header[a] <= ClientOf(a, Other(p)).latest
  BY <1>1 DEF LateEnough
<1>3. /\ own[a][k][p] # 0 /\ (pc[a] # TryOf(k) => Has(a, k))
      /\ Other(p) \in Sides /\ Other(Other(p)) = p /\ p \in {"A", "B"}
      /\ Other("A") = "B" /\ Other("B") = "A"
  BY ProverHas, SideFacts
<1>4. EndOf(a, k, p).state = st
  BY <1>1, <1>3 DEF AtStep, ProvenAt, TryOf, AckOf, ConfirmOf, Kinds
<1>5. st = "INIT" \/ (p = "B" /\ st = "TRYOPEN") \/ (p = "A" /\ st = "OPEN")  BY <1>3
<1>6. st # "INIT" => EndOf(a, k, p).peer = own[a][k][Other(p)]
  <2> SUFFICES ASSUME st # "INIT" PROVE EndOf(a, k, p).peer = own[a][k][Other(p)]  OBVIOUS
  <2>1. CASE p = "B"  BY <2>1, <1>3 DEF Inv, EndsPaired
  <2>2. CASE p = "A"  BY <2>2, <1>1, <1>3, <1>4, <1>5 DEF Built
  <2> QED  BY <2>1, <2>2, <1>3
<1>7. CASE k = "conn"
  <2>1. EndOf(a, k, p).on = own[a].client[p] /\ EndOf(a, k, p).peerOn = own[a].client[Other(p)]
    BY <1>3, <1>7 DEF Inv, ConnsBuilt
  <2> QED  BY <1>2, <1>3, <1>4, <1>6, <1>7, <2>1 DEF Proven, ConsensusProvable
<1>8. CASE k = "chan"
  <2>1. EndOf(a, "chan", p).on = own[a].conn[p]  BY <1>1, <1>3, <1>8 DEF Built
  <2>2. Wired(a) /\ version[a] = 1
    BY <1>1, <1>8 DEF AtStep, ProvenAt, ChanSteps, TryOf, AckOf, ConfirmOf
  <2>3. Has(a, "conn") /\ EndOf(a, "conn", "A").state = "OPEN"  BY <2>2, SideFacts DEF Wired
  <2>4. EndOf(a, "conn", "A").peer = own[a].conn["B"]  BY <2>3, <1>1 DEF Built, Has, Kinds
  <2>5. EndOf(a, "conn", "B").peer = own[a].conn["A"]  BY <2>3 DEF Inv, EndsPaired, Has, Kinds
  <2>6. EndOf(a, "conn", Other(p)).peer = own[a].conn[p]  BY <2>4, <2>5, <1>3
  <2> QED  BY <1>2, <1>3, <1>4, <1>6, <1>8, <2>1, <2>6 DEF Proven, ConsensusProvable
<1> QED  BY <1>7, <1>8 DEF Kinds

\* And the header it waits for is newer than the client's.
LEMMA NeverRefused ==
  ASSUME Inv, NEW a \in Attempts, Ready(a)
  PROVE  ~Refused(a)
<1>1. ASSUME pc[a] \in ProofSteps
      PROVE  \E k \in Kinds : pc[a] \in ProvenAt(k, Prover(a)) /\ Prover(a) \in Sides
  BY <1>1, SideFacts DEF ProofSteps, ProvenAt, Prover, TryOf, AckOf, ConfirmOf, Kinds
<1>2. ASSUME UpdateReady(a)
      PROVE  CanUpdate(Other(Prover(a)), own[a].client[Other(Prover(a))])
  <2>1. pc[a] \in ProofSteps /\ prep[a] = "wait" /\ height[Prover(a)] # mark[a][Prover(a)]
    BY <1>2 DEF UpdateReady, Waited
  <2>2. PICK k \in Kinds : pc[a] \in ProvenAt(k, Prover(a)) /\ Prover(a) \in Sides  BY <1>1, <2>1
  <2>3. PICK p \in Sides : p = Prover(a)  BY <2>2
  <2>4. LateEnough(a, k, p)  BY <2>2, <2>3 DEF Ready, Prepared
  <2>5. ClientOf(a, Other(p)).latest <= mark[a][p] /\ mark[a][p] <= height[p]
    BY <2>1, <2>4 DEF LateEnough
  <2>6. own[a].client[Other(p)] # 0 /\ Other(p) \in Sides /\ Other(Other(p)) = p
    BY <2>2, <2>3, ProverHas, SideFacts
  <2>7. ClientOf(a, Other(p)).latest \in Nat /\ mark[a][p] \in Nat /\ height[p] \in Nat
    <3>1. ClientOf(a, Other(p)) \in Client  BY <2>6, OwnFacts
    <3> QED  BY <3>1, TypeFacts DEF Client
  <2>8. height[p] # mark[a][p]  BY <2>1, <2>3
  <2>9. ClientOf(a, Other(p)).latest < height[p]  BY <2>5, <2>7, <2>8
  <2> QED  BY <2>3, <2>6, <2>9 DEF CanUpdate, ClientOf
<1>3. ASSUME prep[a] = "proof", NEW k \in Kinds, NEW p \in Sides, pc[a] \in ProvenAt(k, p)
      PROVE  /\ ConsensusProvable(a, p)
             /\ pc[a] = TryOf(k) => Proven(a, k, Other(p), "INIT")
             /\ pc[a] = AckOf(k) => Proven(a, k, Other(p), "TRYOPEN")
             /\ pc[a] = ConfirmOf(k) => Proven(a, k, Other(p), "OPEN")
  <2>1. TryOf(k) # AckOf(k) /\ TryOf(k) # ConfirmOf(k) /\ AckOf(k) # ConfirmOf(k)
    BY DEF TryOf, AckOf, ConfirmOf
  <2>2. \/ pc[a] = TryOf(k)
        \/ pc[a] = AckOf(k) /\ p = "B"
        \/ pc[a] = ConfirmOf(k) /\ p = "A"
    BY <1>3, SideFacts DEF ProvenAt
  <2>3. CASE pc[a] = TryOf(k)  BY <2>1, <2>3, <1>3, ProvenThen
  <2>4. CASE pc[a] = AckOf(k) /\ p = "B"  BY <2>1, <2>4, <1>3, ProvenThen
  <2>5. CASE pc[a] = ConfirmOf(k) /\ p = "A"  BY <2>1, <2>5, <1>3, ProvenThen
  <2> QED  BY <2>2, <2>3, <2>4, <2>5
<1>4. ASSUME prep[a] = "proof", pc[a] = "connTry"
      PROVE  ConsensusProvable(a, Prover(a)) /\ Proven(a, "conn", "B", "INIT")
  BY <1>3, <1>4, SideFacts DEF ProvenAt, TryOf, Prover, Kinds
<1>5. ASSUME prep[a] = "proof", pc[a] = "connAck"
      PROVE  ConsensusProvable(a, Prover(a)) /\ Proven(a, "conn", "A", "TRYOPEN")
  BY <1>3, <1>5, SideFacts DEF ProvenAt, AckOf, Prover, Kinds
<1>6. ASSUME prep[a] = "proof", pc[a] = "connConfirm"
      PROVE  ConsensusProvable(a, Prover(a)) /\ Proven(a, "conn", "B", "OPEN")
  BY <1>3, <1>6, SideFacts DEF ProvenAt, ConfirmOf, Prover, Kinds
<1>7. ASSUME prep[a] = "proof", pc[a] = "chanTry" PROVE Proven(a, "chan", "B", "INIT")
  BY <1>3, <1>7, SideFacts DEF ProvenAt, TryOf, Kinds
<1>8. ASSUME prep[a] = "proof", pc[a] = "chanAck" PROVE Proven(a, "chan", "A", "TRYOPEN")
  BY <1>3, <1>8, SideFacts DEF ProvenAt, AckOf, Kinds
<1>9. ASSUME prep[a] = "proof", pc[a] = "chanConfirm" PROVE Proven(a, "chan", "B", "OPEN")
  BY <1>3, <1>9, SideFacts DEF ProvenAt, ConfirmOf, Kinds
<1> QED  BY <1>2, <1>4, <1>5, <1>6, <1>7, <1>8, <1>9 DEF Refused

LEMMA UndisturbedInit == Init => Undisturbed
<1> SUFFICES ASSUME Init PROVE Undisturbed  OBVIOUS
<1>1. Inv  BY InvInit
<1>2. \A a \in Attempts, s \in Sides :
        own[a].client[s] = 0 /\ \A k \in Kinds : own[a][k][s] = 0
  BY SideFacts DEF Init, Kinds
<1>3. EndsOwned  BY <1>2 DEF EndsOwned
<1>4. ASSUME NEW a \in Attempts PROVE Ready(a)
  <2>1. pc[a] \in {"done", "heights"} /\ prep[a] = "begin"  BY DEF Init
  <2>2. Past(a)  BY <1>2 DEF Past
  <2>3. Built(a)  BY <1>2, SideFacts DEF Built, Kinds
  <2>4. AtStep(a)  BY <2>1 DEF AtStep, TryOf, AckOf, ConfirmOf, ChanSteps
  <2>5. Prepared(a)  BY <2>1 DEF Prepared, LateEnough
  <2> QED  BY <2>1, <2>2, <2>3, <2>4, <2>5 DEF Ready
<1> QED  BY <1>3, <1>4 DEF Undisturbed

LEMMA UndisturbedNext == Inv /\ Undisturbed /\ [Next]_vars => Undisturbed'
<1> SUFFICES ASSUME Inv, Undisturbed, [Next]_vars, faults' = 0
             PROVE  EndsOwned' /\ \A b \in Attempts : Ready(b)'
  BY DEF Undisturbed
<1>1. faults \in Nat /\ ~Fault  BY TypeFacts, SetupAssumption DEF Fault
<1>2. \A a \in Attempts : ~Interrupted(a) /\ ~SeedFails(a)  BY <1>1 DEF Interrupted, SeedFails
<1>3. \A s \in Sides, c \in Nat : ~UpdateByOther(s, c)  BY <1>1 DEF UpdateByOther
<1>4. UNCHANGED own => EndsOwned' \/ ~EndsOwned  BY DEF EndsOwned
<1>5. ASSUME faults = 0 PROVE EndsOwned /\ \A b \in Attempts : Ready(b)  BY <1>5 DEF Undisturbed
<1>6. ASSUME NEW a \in Attempts, Step(a) PROVE EndsOwned' /\ \A b \in Attempts : Ready(b)'
  <2>1. faults = 0
    BY <1>6 DEF Step, ReadHeights, BeginWait, BlocksPassed, Reject
  <2>2. EndsOwned /\ \A b \in Attempts : Ready(b)  BY <2>1, <1>5
  <2>3. CASE ReadHeights(a)  BY <2>2, <2>3, <1>4, ReadHeightsReady DEF ReadHeights
  <2>4. CASE BeginWait(a)  BY <2>2, <2>4, <1>4, BeginWaitReady DEF BeginWait
  <2>5. CASE BlocksPassed(a)  BY <2>2, <2>5, <1>4, BlocksPassedReady DEF BlocksPassed
  <2>6. ~Reject(a)  BY <2>2, NeverRefused DEF Reject
  <2>7. CASE Effect(a) /\ UNCHANGED faults  BY <2>2, <2>7, EffectReady
  <2> QED  BY <1>6, <2>3, <2>4, <2>5, <2>6, <2>7 DEF Step
<1>7. ASSUME NEW s \in Sides, NewBlock(s) PROVE EndsOwned' /\ \A b \in Attempts : Ready(b)'
  <2>1. faults = 0 /\ UNCHANGED own  BY <1>7 DEF NewBlock, cmdVars
  <2> QED  BY <2>1, <1>4, <1>5, <1>7, NewBlockReady
<1>8. CASE UNCHANGED vars
  <2>1. UNCHANGED <<height, clients, ends, version, pc, prep, own, mark, header, faults>>
    BY <1>8 DEF vars, chainVars, cmdVars
  <2>2. faults = 0  BY <2>1
  <2>3. HeightsGrow  BY <2>1, Grows
  <2>4. ASSUME NEW b \in Attempts PROVE Ready(b)'
    <3>1. Kept(b) /\ SameSpot(b)  BY <2>1, <2>3, NothingMade DEF SameSpot
    <3> QED  BY <3>1, <2>2, <1>5, ReadyKept
  <2> QED  BY <2>1, <2>2, <2>4, <1>4, <1>5
<1>9. \A s \in Sides : Prior[s] + 1..Len(clients[s]) \subseteq Nat
  <2>1. \A s \in Sides : Prior[s] \in Nat  BY SetupAssumption DEF Sides
  <2> QED  BY <2>1
<1> QED  BY <1>2, <1>3, <1>6, <1>7, <1>8, <1>9 DEF Next

\* A command that no call fails, and whose clients no other relayer updates, is
\* refused nothing by either chain, however the steps of other commands fall
\* between its own: every update is with a newer header, and every proof is of
\* a block that had what is proven, for a header the client has.
THEOREM NobodyDisturbed == Spec => []UndisturbedNeverFails
<1>1. Undisturbed => UndisturbedNeverFails  BY DEF Undisturbed, UndisturbedNeverFails, Ready
<1> QED  BY <1>1, Invariant, UndisturbedInit, UndisturbedNext, PTL DEF Spec


===============================================================================
