----------------------------- MODULE ClientBisect -----------------------------
(***************************************************************************)
(* updateClient of the two clients: the light client of a source chain is  *)
(* brought to its latest header, through headers between when validator    *)
(* sets have changed too much for one step.  Several updates of one client *)
(* may run at once: the rounds of two relayers, or a call whose round was  *)
(* given up.                                                               *)
(*                                                                         *)
(* Abstractions.  A header is its height.  What the light client makes of  *)
(* a pair of validator sets is any relation between heights.  The calls of *)
(* updateClientBisect that have not returned are a stack of the heights    *)
(* they are to reach, the innermost first.                                 *)
(***************************************************************************)
EXTENDS Integers, Sequences

CONSTANTS
  Updaters,   \* updates that may run at once
  MaxHeight,  \* height of the source chain
  MaxFaults   \* submissions that fail, or whose answer is lost

ASSUME BisectAssumption == MaxHeight \in Nat \ {0} /\ MaxFaults \in Nat

Heights == 1..MaxHeight
Forward == {pair \in Heights \X Heights : pair[1] < pair[2]}

VARIABLES
  trusts,     \* pairs of heights the light client can step between
  tip,        \* height of the source chain
  known,      \* heights of the consensus states of the light client
  pc,         \* where an update is
  start,      \* trustedHeight it started from
  goal,       \* height of the first header it built
  stack,      \* heights to reach, the innermost call's first
  trusted,    \* trustedHeight of the innermost call
  spent,      \* headers it has submitted
  returned,   \* height it has returned
  exhausted,  \* it threw as the gap was one block
  faults

chainVars == <<trusts, tip>>
runVars == <<pc, start, goal, stack, trusted, spent, returned, exhausted>>
vars == <<chainVars, known, runVars, faults>>

TypeOK ==
  /\ trusts \subseteq Forward
  /\ tip \in Heights
  /\ known \in SUBSET Heights
  /\ pc \in [Updaters -> {"idle", "build", "submit"}]
  /\ start \in [Updaters -> Nat]
  /\ goal \in [Updaters -> Nat]
  /\ stack \in [Updaters -> Seq(Heights)]
  /\ trusted \in [Updaters -> Nat]
  /\ spent \in [Updaters -> Nat]
  /\ returned \in [Updaters -> Nat]
  /\ exhausted \in [Updaters -> BOOLEAN]
  /\ faults \in Nat

Init ==
  /\ trusts \in SUBSET Forward
  /\ tip = 1
  /\ known = {1}
  /\ pc = [u \in Updaters |-> "idle"]
  /\ start = [u \in Updaters |-> 0]
  /\ goal = [u \in Updaters |-> 0]
  /\ stack = [u \in Updaters |-> <<>>]
  /\ trusted = [u \in Updaters |-> 0]
  /\ spent = [u \in Updaters |-> 0]
  /\ returned = [u \in Updaters |-> 0]
  /\ exhausted = [u \in Updaters |-> FALSE]
  /\ faults = 0

NewBlock ==
  /\ tip < MaxHeight
  /\ tip' = tip + 1
  /\ UNCHANGED <<trusts, known, runVars, faults>>

\* latestHeight of the client state.
Latest(h) == h \in known /\ \A k \in known : k <= h

\* updateClient asks for the latest height of the client,
Start(u) ==
  /\ pc[u] = "idle"
  /\ \E h \in Heights :
       /\ Latest(h)
       /\ start' = [start EXCEPT ![u] = h]
       /\ trusted' = [trusted EXCEPT ![u] = h]
  /\ pc' = [pc EXCEPT ![u] = "build"]
  /\ goal' = [goal EXCEPT ![u] = 0]
  /\ spent' = [spent EXCEPT ![u] = 0]
  /\ returned' = [returned EXCEPT ![u] = 0]
  /\ exhausted' = [exhausted EXCEPT ![u] = FALSE]
  /\ UNCHANGED <<chainVars, known, stack, faults>>

\* Slip: a header that could not be read has height 0.
BuildUnread(u) ==
  /\ pc[u] = "build"
  /\ goal' = [goal EXCEPT ![u] = 0]
  /\ stack' = [stack EXCEPT ![u] = <<0>>]
  /\ pc' = [pc EXCEPT ![u] = "submit"]
  /\ UNCHANGED <<chainVars, known, start, trusted, spent, returned, exhausted, faults>>

\* and buildHeader, with no height given, for the latest header of the chain.
BuildHeader(u) ==
  /\ pc[u] = "build"
  /\ goal' = [goal EXCEPT ![u] = tip]
  /\ stack' = [stack EXCEPT ![u] = <<tip>>]
  /\ pc' = [pc EXCEPT ![u] = "submit"]
  /\ UNCHANGED <<chainVars, known, start, trusted, spent, returned, exhausted, faults>>

-------------------------------------------------------------------------------
Attempted(u) == Head(stack[u])

\* The light client takes a header above the one it is verified from, if it
\* trusts enough of its validators.
Accepts(u) == <<trusted[u], Attempted(u)>> \in trusts
Untrusted(u) == Attempted(u) > trusted[u] /\ ~Accepts(u)

Submits(u) == pc[u] = "submit" /\ spent' = [spent EXCEPT ![u] = @ + 1]

\* Slip: the header is submitted again from the height the run started with.
NextFromStart(u) ==
  trusted' = [trusted EXCEPT ![u] = IF Len(stack[u]) = 1 THEN Attempted(u) ELSE start[u]]

\* The caller goes on from the height that was reached.
NextFromReached(u) == trusted' = [trusted EXCEPT ![u] = Attempted(u)]

\* A call returns the height it attempted, to the caller's second call or from
\* updateClient.
Update(u) ==
  /\ Submits(u)
  /\ Accepts(u)
  /\ known' = known \union {Attempted(u)}
  /\ NextFromReached(u)
  /\ stack' = [stack EXCEPT ![u] = Tail(@)]
  /\ IF Len(stack[u]) = 1
     THEN /\ pc' = [pc EXCEPT ![u] = "idle"]
          /\ returned' = [returned EXCEPT ![u] = Attempted(u)]
     ELSE UNCHANGED <<pc, returned>>
  /\ UNCHANGED <<chainVars, start, goal, exhausted, faults>>

Throw(u) ==
  /\ pc' = [pc EXCEPT ![u] = "idle"]
  /\ stack' = [stack EXCEPT ![u] = <<>>]

\* Slip: gives up a block too early.
GapUpToTwo(u) == Attempted(u) - trusted[u] <= 2

GapClosed(u) == Attempted(u) - trusted[u] <= 1

Midpoint(u) == (trusted[u] + Attempted(u)) \div 2

\* Slip: the midpoint is reached instead of the target, not before it.
MidInstead(u) == stack' = [stack EXCEPT ![u] = <<Midpoint(u)>> \o Tail(@)]

PushMid(u) == stack' = [stack EXCEPT ![u] = <<Midpoint(u)>> \o @]

\* Slip: the midpoint is trusted before the light client has its header.
MidTrusted(u) ==
  /\ Submits(u)
  /\ Untrusted(u) /\ ~GapClosed(u)
  /\ trusted' = [trusted EXCEPT ![u] = Midpoint(u)]
  /\ UNCHANGED <<chainVars, known, pc, start, goal, stack, returned, exhausted, faults>>

Bisect(u) ==
  /\ Submits(u)
  /\ Untrusted(u) /\ ~GapClosed(u)
  /\ PushMid(u)
  /\ UNCHANGED <<chainVars, known, pc, start, goal, trusted, returned, exhausted, faults>>

Exhausted(u) ==
  /\ Submits(u)
  /\ Untrusted(u) /\ GapClosed(u)
  /\ Throw(u)
  /\ exhausted' = [exhausted EXCEPT ![u] = TRUE]
  /\ UNCHANGED <<chainVars, known, start, goal, trusted, returned, faults>>

\* A header the client has is refused, with an error that is not one of trust.
Refused(u) ==
  /\ Submits(u)
  /\ Attempted(u) <= trusted[u]
  /\ Throw(u)
  /\ UNCHANGED <<chainVars, known, start, goal, trusted, returned, exhausted, faults>>

Fault == faults < MaxFaults /\ faults' = faults + 1

\* A header is not built, or not taken for some other reason.
Fails(u) ==
  /\ pc[u] # "idle"
  /\ Fault
  /\ Throw(u)
  /\ UNCHANGED <<chainVars, known, start, goal, trusted, spent, returned, exhausted>>

\* The light client takes the header, and the answer does not come back.
ReplyLost(u) ==
  /\ Submits(u)
  /\ Accepts(u)
  /\ Fault
  /\ known' = known \union {Attempted(u)}
  /\ Throw(u)
  /\ UNCHANGED <<chainVars, start, goal, trusted, returned, exhausted>>

UpdateStep(u) ==
  \/ BuildHeader(u) \/ Update(u) \/ Bisect(u) \/ Exhausted(u) \/ Refused(u)

Next ==
  \/ NewBlock
  \/ \E u \in Updaters : Start(u) \/ UpdateStep(u) \/ Fails(u) \/ ReplyLost(u)

Spec == Init /\ [][Next]_vars

-------------------------------------------------------------------------------
(***************************************************************************)
(* Properties.                                                             *)
(***************************************************************************)

\* Every header is verified from a consensus state the light client has, so
\* that it is refused for want of trust only.
TrustedIsKnown == \A u \in Updaters : pc[u] # "idle" => trusted[u] \in known

\* "Returns the height that was updated to": through whatever midpoints, it is
\* that of the first header built, and the client has it.
ReturnsGoal == \A u \in Updaters : returned[u] # 0 => returned[u] = goal[u] /\ goal[u] \in known

\* A light client that can step from each block to the next, as it can on any
\* chain that keeps its own rules, is never given up on.
HonestNeverExhausted ==
  (\A h \in Heights : h < MaxHeight => <<h, h + 1>> \in trusts) =>
    \A u \in Updaters : ~exhausted[u]

\* Bisection ends: it submits fewer than two headers per block it has to cross,
\* however the validator sets have changed and whoever else updates the client.
Frugal ==
  \A u \in Updaters : goal[u] > start[u] => spent[u] < 2 * (goal[u] - start[u])

==============================================================================
