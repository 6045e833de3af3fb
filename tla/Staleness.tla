------------------------------ MODULE Staleness ------------------------------
(***************************************************************************)
(* Whether the loop of relayer.ts keeps the light clients of its paths     *)
(* from expiring.  A pass goes over the links, relays each and then brings *)
(* up to date its two clients if they are stale; what is thrown anywhere   *)
(* ends the pass, and the loop sleeps, longer with each failure in a row.  *)
(*                                                                         *)
(* Abstractions.  Clients are numbered in the order a pass checks them:    *)
(* link i has clients 2i-1, which updateClientIfStale("A") is for, and 2i. *)
(* Time is counted in units, and what a pass awaits takes PassTime of them *)
(* at most, for which the code has no limit.  A pass that breaks off for   *)
(* another reason than an expired client does so MaxMisses times in a row  *)
(* at most.  No other relayer updates the clients.                         *)
(***************************************************************************)
EXTENDS Integers

CONSTANTS
  Count,      \* links of the loop
  Unbonding,  \* unbonding period of the chain each client follows
  MaxAgeDest, MaxAgeSrc,  \* the relayer's two maximal ages
  Poll,       \* pollInterval
  Cap,        \* longest backoff
  PassTime,   \* longest pass
  Lag,        \* age of the latest header, when it is compared or submitted
  MaxMisses   \* passes in a row that break off

Clients == 1..2*Count

ASSUME TimesAssumption ==
  /\ Count \in Nat /\ Unbonding \in [Clients -> Nat \ {0}]
  /\ MaxAgeDest \in Nat \ {0} /\ MaxAgeSrc \in Nat \ {0}
  /\ Poll \in Nat /\ Cap \in Nat /\ Poll <= Cap
  /\ PassTime \in Nat /\ Lag \in Nat /\ MaxMisses \in Nat

VARIABLES
  age,      \* time since the block of the last header a client was given
  lost,     \* clients that had expired when the relayer was started
  pc,       \* "sleep", or what the pass is at: a link's round, or a check
  at,       \* of which client
  wait,     \* time left of the sleep, or of the pass
  backoff,  \* min(poll * 2^consecutiveErrors, cap)
  misses    \* passes in a row that have broken off

vars == <<age, lost, pc, at, wait, backoff, misses>>

\* buildCreateClientArgs: two thirds of the unbonding period.
trustPeriodSec(k) == (2 * Unbonding[k]) \div 3

\* Which maximal age relayerLoop passes for a client.
FirstOfLink(k) == k % 2 = 1

\* Slip: each side is given the maximal age of the other.
CrossedAges(k) == IF FirstOfLink(k) THEN MaxAgeSrc ELSE MaxAgeDest

MaxAge(k) == IF FirstOfLink(k) THEN MaxAgeDest ELSE MaxAgeSrc

\* The chain takes no header for a client that has expired.  An age is not
\* counted on when neither the chain nor the relayer can tell any more.
Expired(k) == age[k] >= trustPeriodSec(k)
Oldest(k) == IF trustPeriodSec(k) < MaxAge(k) + Lag THEN MaxAge(k) + Lag ELSE trustPeriodSec(k)

TypeOK ==
  /\ age \in [Clients -> Nat] /\ \A k \in Clients : age[k] <= Oldest(k)
  /\ lost \subseteq Clients
  /\ pc \in {"sleep", "round", "check"}
  /\ at \in 1..2*Count + 1
  /\ wait \in Nat /\ wait <= IF pc = "sleep" THEN Cap ELSE PassTime
  /\ backoff \in Poll..Cap
  /\ misses \in 0..MaxMisses

Init ==
  /\ lost \in SUBSET Clients
  /\ age = [k \in Clients |-> IF k \in lost THEN Oldest(k) ELSE 0]
  /\ pc = "sleep" /\ at = 1 /\ wait = 0
  /\ backoff = Poll
  /\ misses = 0

Tick ==
  /\ wait > 0
  /\ wait' = wait - 1
  /\ age' = [k \in Clients |-> IF age[k] < Oldest(k) THEN age[k] + 1 ELSE age[k]]
  /\ UNCHANGED <<lost, pc, at, backoff, misses>>

Wake ==
  /\ pc = "sleep" /\ wait = 0
  /\ pc' = "round" /\ at' = 1 /\ wait' = PassTime
  /\ UNCHANGED <<age, lost, backoff, misses>>

-------------------------------------------------------------------------------
(***************************************************************************)
(* A pass.                                                                 *)
(***************************************************************************)

\* The clients of the link whose round is due.
OfLink == {at, at + 1}

\* A header is submitted to each client of K.
Updated(K) ==
  \E l \in 0..Lag : age' = [k \in Clients |-> IF k \in K /\ l < age[k] THEN l ELSE age[k]]

\* checkAndRelayPacketsAndAcks updates the clients it needs, if any.
Round(K) ==
  /\ pc = "round" /\ at \in Clients
  /\ K \subseteq OfLink /\ \A k \in K : ~Expired(k)
  /\ Updated(K)
  /\ pc' = "check"
  /\ UNCHANGED <<lost, at, wait, backoff, misses>>

\* On to the other client of the link, or to the next link.
Checked ==
  /\ at' = at + 1
  /\ pc' = IF FirstOfLink(at) THEN "check" ELSE "round"
  /\ UNCHANGED <<lost, wait, backoff, misses>>

\* updateClientIfStale: the header the client has is not far behind the
\* latest, which itself is up to Lag old.
Fresh ==
  /\ pc = "check"
  /\ age[at] - Lag < MaxAge(at)
  /\ Checked /\ UNCHANGED age

\* Slip: the client on the other chain is given the header.
StaleOther ==
  /\ pc = "check"
  /\ age[at] >= MaxAge(at) /\ ~Expired(at)
  /\ Updated({IF FirstOfLink(at) THEN at + 1 ELSE at - 1}) /\ Checked

Stale ==
  /\ pc = "check"
  /\ age[at] >= MaxAge(at) /\ ~Expired(at)
  /\ Updated({at}) /\ Checked

PassEnds ==
  /\ pc = "round" /\ at \notin Clients
  /\ pc' = "sleep" /\ wait' = Poll
  /\ backoff' = Poll
  /\ misses' = 0
  /\ UNCHANGED <<age, lost, at>>

Smaller(a, b) == IF a < b THEN a ELSE b

\* Slip: the longest backoff is not the limit.
BackoffBeyondCap == Smaller(2 * backoff, 2 * Cap)

Backoff == Smaller(2 * backoff, Cap)

\* Something is thrown in the pass: one error more in a row.
PassFails ==
  /\ pc' = "sleep"
  /\ backoff' = Backoff /\ wait' = Backoff
  /\ UNCHANGED <<age, lost, at>>

RefusedRound == pc = "round" /\ at \in Clients /\ \E k \in OfLink : Expired(k)
RefusedUpdate == pc = "check" /\ age[at] >= MaxAge(at) /\ Expired(at)

\* Slip: what one link throws is caught before the next.
RefusedAlone ==
  /\ RefusedUpdate
  /\ Checked /\ UNCHANGED age

\* A client that has expired cannot be updated, and the pass is over.
Refused ==
  /\ RefusedRound \/ RefusedUpdate
  /\ PassFails
  /\ misses' = 0

Miss == misses < MaxMisses /\ misses' = misses + 1

\* Any other call of the pass throws.
Interrupted ==
  /\ pc # "sleep"
  /\ Miss
  /\ PassFails

\* The process dies, and is started again within Cap.
Restarted ==
  /\ pc # "sleep"
  /\ Miss
  /\ pc' = "sleep" /\ wait' \in 0..Cap
  /\ backoff' = Poll
  /\ UNCHANGED <<age, lost, at>>

Next ==
  \/ Tick \/ Wake
  \/ \E K \in SUBSET OfLink : Round(K)
  \/ Fresh \/ Stale \/ PassEnds
  \/ Refused \/ Interrupted \/ Restarted

Spec == Init /\ [][Next]_vars

-------------------------------------------------------------------------------
(***************************************************************************)
(* Properties.                                                             *)
(***************************************************************************)

LastOfLink(k) == IF FirstOfLink(k) THEN k + 1 ELSE k

\* The option that is named for the chain a client is on: the first client of
\* a link is on B, its destination, and follows A.
Option(k) == IF k % 2 = 1 THEN MaxAgeDest ELSE MaxAgeSrc

\* A pass reaches the check of k: no client of its link, or of a link before
\* it, had expired.
Reached(k) == \A j \in lost : j > LastOfLink(k)

\* The maximal ages leave room before each trusting period for a pass, and for
\* MaxMisses that break off, with the longest sleep after each.  Nothing in
\* config/index.ts compares them.
ConfigFits ==
  \A k \in Clients :
    Option(k) + Lag + PassTime + (MaxMisses + 1) * (Cap + PassTime) <= trustPeriodSec(k)

\* Under that condition updateClientIfStale keeps every client that passes
\* reach from expiring, although passes break off and sleeps grow, even while
\* a link behind it makes every pass fail.
NoneExpires == ConfigFits => \A k \in Clients : Reached(k) => ~Expired(k)

\* However passes ended, but for one that broke off: each client they reach is
\* younger than the maximal age set for the chain it is on, the pass and the
\* sleep together, which is what the options maxAgeDest and maxAgeSrc are for.
FreshAfterPass ==
  ConfigFits /\ pc = "sleep" /\ misses = 0 =>
    \A k \in Clients : Reached(k) =>
      age[k] + wait < Option(k) + Lag + PassTime + backoff

\* The other side of it: relayerLoop has one try around all its links, so a
\* client that has expired keeps every later link from ever being updated.
StarvedBehindExpired ==
  [][\A k \in Clients, j \in lost : k > LastOfLink(j) => age'[k] >= age[k]]_vars

==============================================================================
