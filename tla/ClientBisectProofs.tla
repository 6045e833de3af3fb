-------------------------- MODULE ClientBisectProofs --------------------------
(***************************************************************************)
(* Proofs about ClientBisect, for every history of validator sets, any     *)
(* number of updates at once and any height of the chain: bisection is     *)
(* bounded, ends at the header it set out for, and is given up only where  *)
(* two blocks in a row cannot be crossed.                                  *)
(***************************************************************************)
EXTENDS ClientBisect, SequenceTheorems, TLAPS

\* The heights to reach rise from above the trusted one to the goal, so that
\* there are no more of them than blocks between the two.
Rising(s, low, top) ==
  /\ s # <<>>
  /\ low < s[1]
  /\ s[Len(s)] = top
  /\ \A i \in 1..Len(s) - 1 : s[i] < s[i + 1]
  /\ \A i \in 1..Len(s) : s[i] <= top - (Len(s) - i)

\* What was submitted, and twice the blocks still to cross but for the rejected
\* headers that are still to be tried again, is within the bound.
Budget(u) ==
  spent[u] + 2 * (goal[u] - trusted[u]) - Len(stack[u]) <= 2 * (goal[u] - start[u]) - 1

\* The client is at the goal already: the one submission is refused.
NothingNew(u) == goal[u] = start[u] /\ trusted[u] = start[u] /\ stack[u] = <<goal[u]>>

\* Two blocks in a row the light client cannot step between.
Broken == \E h \in Heights : h < MaxHeight /\ <<h, h + 1>> \notin trusts

RunInv(u) ==
  /\ pc[u] = "build" => goal[u] = 0 /\ spent[u] = 0 /\ returned[u] = 0 /\ trusted[u] = start[u]
  /\ pc[u] = "submit" => NothingNew(u) \/ (Rising(stack[u], trusted[u], goal[u]) /\ Budget(u))
  /\ pc[u] # "idle" => trusted[u] \in known
  /\ goal[u] > start[u] => spent[u] < 2 * (goal[u] - start[u])
  /\ returned[u] # 0 => returned[u] = goal[u] /\ goal[u] \in known
  /\ exhausted[u] => Broken

BisectInv ==
  /\ TypeOK
  /\ \A h \in known : h <= tip
  /\ \A u \in Updaters : goal[u] <= tip
  /\ \A u \in Updaters : RunInv(u)

-------------------------------------------------------------------------------
\* A rising sequence is no longer than its range.
LEMMA RisingBound ==
  ASSUME NEW s \in Seq(Nat), NEW low \in Nat, NEW top \in Nat, Rising(s, low, top)
  PROVE  Len(s) \in Nat /\ 1 <= Len(s) /\ Len(s) <= top - low /\ s[1] \in Nat /\ s[1] <= top
<1>1. Len(s) \in Nat /\ Len(s) # 0
  BY EmptySeq DEF Rising
<1>2. 1 \in 1..Len(s) /\ s[1] \in Nat
  BY <1>1, ElementOfSeq
<1> QED
  BY <1>1, <1>2 DEF Rising

LEMMA LongNotEmpty ==
  ASSUME NEW s \in Seq(Nat), Len(s) >= 1
  PROVE  s # <<>>
OBVIOUS

\* It still rises when its first height is reached,
LEMMA RisingTail ==
  ASSUME NEW s \in Seq(Nat), NEW low \in Nat, NEW top \in Nat, Rising(s, low, top),
         Len(s) # 1
  PROVE  Rising(Tail(s), s[1], top) /\ Len(Tail(s)) = Len(s) - 1
<1>1. Len(s) \in Nat /\ Len(s) >= 2
  <2> DEFINE n == Len(s)
  <2>1. n \in Nat /\ 1 <= n /\ n # 1
    BY RisingBound
  <2> HIDE DEF n
  <2>2. n >= 2
    BY <2>1
  <2> QED
    BY <2>1, <2>2 DEF n
<1>2. /\ Tail(s) \in Seq(Nat) /\ Len(Tail(s)) = Len(s) - 1
      /\ \A i \in 1..Len(s) - 1 : Tail(s)[i] = s[i + 1]
  BY <1>1
<1>3. Tail(s) # <<>> /\ s[1] < Tail(s)[1] /\ Tail(s)[Len(Tail(s))] = top
  <2>1. Tail(s) # <<>>
    <3>1. Len(Tail(s)) >= 1
      BY <1>1, <1>2
    <3> QED
      BY <1>2, <3>1, LongNotEmpty
  <2>2. s[1] < s[1 + 1] /\ Tail(s)[1] = s[1 + 1]
    BY <1>1, <1>2 DEF Rising
  <2>3. Tail(s)[Len(s) - 1] = s[Len(s)]
    BY <1>1, <1>2
  <2> QED
    BY <1>2, <2>1, <2>2, <2>3 DEF Rising
<1>4. \A i \in 1..Len(Tail(s)) - 1 : Tail(s)[i] < Tail(s)[i + 1]
  BY <1>1, <1>2 DEF Rising
<1>5. ASSUME NEW i \in 1..Len(Tail(s))
      PROVE  Tail(s)[i] <= top - (Len(Tail(s)) - i)
  <2>1. i + 1 \in 1..Len(s) /\ Tail(s)[i] = s[i + 1]
    BY <1>1, <1>2
  <2>2. s[i + 1] <= top - (Len(s) - (i + 1))
    BY <2>1 DEF Rising
  <2>3. top - (Len(s) - (i + 1)) = top - (Len(Tail(s)) - i)
    BY <1>1, <1>2
  <2> QED
    BY <2>1, <2>2, <2>3
<1> QED
  BY <1>2, <1>3, <1>4, <1>5 DEF Rising

\* and when a height below its first is put before it.
LEMMA RisingPush ==
  ASSUME NEW s \in Seq(Nat), NEW low \in Nat, NEW top \in Nat, Rising(s, low, top),
         NEW m \in Nat, low < m, m < s[1]
  PROVE  Rising(<<m>> \o s, low, top) /\ Len(<<m>> \o s) = Len(s) + 1
<1> DEFINE t == <<m>> \o s
<1>1. Len(s) \in Nat /\ 1 <= Len(s) /\ s[1] \in Nat /\ s[1] <= top - (Len(s) - 1)
  BY RisingBound DEF Rising
<1>2. /\ t \in Seq(Nat) /\ Len(t) = Len(s) + 1 /\ t[1] = m
      /\ \A i \in 1..Len(s) : t[i + 1] = s[i]
  BY <1>1
<1>3. t # <<>> /\ low < t[1] /\ t[Len(t)] = top
  BY <1>1, <1>2 DEF Rising
<1>4. ASSUME NEW i \in 1..Len(t) - 1 PROVE t[i] < t[i + 1]
  <2>1. CASE i = 1
    BY <1>1, <1>2, <2>1
  <2>2. CASE i # 1
    <3>1. i - 1 \in 1..Len(s) - 1 /\ t[i] = s[i - 1] /\ t[i + 1] = s[i]
      BY <1>1, <1>2, <2>2
    <3>2. s[i - 1] < s[(i - 1) + 1]
      BY <3>1 DEF Rising
    <3> QED
      BY <3>1, <3>2
  <2> QED
    BY <2>1, <2>2
<1>5. ASSUME NEW i \in 1..Len(t) PROVE t[i] <= top - (Len(t) - i)
  <2>1. CASE i = 1
    BY <1>1, <1>2, <2>1
  <2>2. CASE i # 1
    <3>1. i - 1 \in 1..Len(s) /\ t[i] = s[i - 1]
      BY <1>1, <1>2, <2>2
    <3>2. s[i - 1] <= top - (Len(s) - (i - 1))
      BY <3>1 DEF Rising
    <3> QED
      BY <1>1, <1>2, <3>1, <3>2
  <2> QED
    BY <2>1, <2>2
<1>6. Rising(t, low, top)
  BY <1>3, <1>4, <1>5 DEF Rising
<1> QED
  BY <1>2, <1>6

-------------------------------------------------------------------------------
LEMMA TypeInit == Init => TypeOK
BY BisectAssumption DEF Init, TypeOK, Heights, Forward

\* The height an update is at, and the types of what it holds.
LEMMA SubmitFacts ==
  ASSUME BisectInv, NEW u \in Updaters, pc[u] = "submit"
  PROVE  /\ stack[u] \in Seq(Heights) /\ stack[u] \in Seq(Nat) /\ stack[u] # <<>>
         /\ Attempted(u) = stack[u][1] /\ Attempted(u) \in Heights /\ Tail(stack[u]) \in Seq(Heights)
         /\ trusted[u] \in Nat /\ trusted[u] \in known /\ trusted[u] \in Heights
         /\ start[u] \in Nat /\ goal[u] \in Nat /\ spent[u] \in Nat
         /\ NothingNew(u) \/ (Rising(stack[u], trusted[u], goal[u]) /\ Budget(u))
<1>1. /\ stack[u] \in Seq(Heights) /\ trusted[u] \in Nat /\ trusted[u] \in known /\ known \subseteq Heights
      /\ start[u] \in Nat /\ goal[u] \in Nat /\ spent[u] \in Nat
      /\ NothingNew(u) \/ (Rising(stack[u], trusted[u], goal[u]) /\ Budget(u))
  BY DEF BisectInv, TypeOK, RunInv
<1>2. stack[u] # <<>>
  <2>1. CASE NothingNew(u)
    <3>1. <<goal[u]>> # <<>>
      OBVIOUS
    <3> QED
      BY <2>1, <3>1 DEF NothingNew
  <2>2. CASE Rising(stack[u], trusted[u], goal[u])
    BY <2>2 DEF Rising
  <2> QED
    BY <1>1, <2>1, <2>2
<1>3. stack[u] \in Seq(Nat)
  <2>1. Heights \subseteq Nat
    BY DEF Heights
  <2> QED
    BY <1>1, <2>1, SeqMonotonic
<1>4. Head(stack[u]) = stack[u][1] /\ Head(stack[u]) \in Heights /\ Tail(stack[u]) \in Seq(Heights)
  BY <1>1, <1>2
<1> QED
  BY <1>1, <1>2, <1>3, <1>4 DEF Attempted

\* What an update has spent while its goal is ahead.
LEMMA WithinBudget ==
  ASSUME BisectInv, NEW u \in Updaters, pc[u] = "submit",
         Rising(stack[u], trusted[u], goal[u]), Budget(u)
  PROVE  spent[u] + 1 < 2 * (goal[u] - start[u])
<1>1. Len(stack[u]) \in Nat /\ 1 <= Len(stack[u]) /\ Len(stack[u]) <= goal[u] - trusted[u]
  BY SubmitFacts, RisingBound
<1> DEFINE n == Len(stack[u])
<1>2. /\ n \in Nat /\ 1 <= n /\ n <= goal[u] - trusted[u]
      /\ spent[u] + 2 * (goal[u] - trusted[u]) - n <= 2 * (goal[u] - start[u]) - 1
      /\ spent[u] \in Nat /\ goal[u] \in Nat /\ trusted[u] \in Nat /\ start[u] \in Nat
  BY <1>1, SubmitFacts DEF Budget
<1> HIDE DEF n
<1> QED
  BY <1>2

LEMMA BudgetBorrows ==
  ASSUME NEW sp \in Nat, NEW st \in Nat, NEW gl \in Nat, NEW tr \in Nat, NEW n \in Nat,
         sp + 2 * (gl - tr) - n <= 2 * (gl - st) - 1
  PROVE  (sp + 1) + 2 * (gl - tr) - (n + 1) <= 2 * (gl - st) - 1
OBVIOUS

LEMMA BudgetCarries ==
  ASSUME NEW sp \in Nat, NEW st \in Nat, NEW gl \in Nat, NEW tr \in Nat, NEW h \in Nat, NEW n \in Nat,
         sp + 2 * (gl - tr) - n <= 2 * (gl - st) - 1, tr < h
  PROVE  sp + 1 + 2 * (gl - h) - (n - 1) <= 2 * (gl - st) - 1
OBVIOUS

\* Steps of one update leave what the others hold alone.
LEMMA OthersKeep ==
  ASSUME BisectInv, NEW u \in Updaters, NEW v \in Updaters, v # u,
         trusts' = trusts, known \subseteq known',
         pc'[v] = pc[v], start'[v] = start[v], goal'[v] = goal[v], stack'[v] = stack[v],
         trusted'[v] = trusted[v], spent'[v] = spent[v], returned'[v] = returned[v],
         exhausted'[v] = exhausted[v]
  PROVE  RunInv(v)'
BY DEF BisectInv, RunInv, Rising, Budget, NothingNew, Broken

\* An update that has thrown owes nothing but its account.
LEMMA ThrownKeeps ==
  ASSUME BisectInv, NEW u \in Updaters, pc[u] = "submit",
         pc'[u] = "idle", trusts' = trusts, known \subseteq known',
         start'[u] = start[u], goal'[u] = goal[u], spent'[u] = spent[u] + 1,
         returned'[u] = returned[u], exhausted'[u] => exhausted[u] \/ Broken
  PROVE  RunInv(u)'
<1>1. goal[u] > start[u] => spent[u] + 1 < 2 * (goal[u] - start[u])
  <2>1. CASE NothingNew(u)
    BY <2>1, SubmitFacts DEF NothingNew
  <2>2. CASE Rising(stack[u], trusted[u], goal[u]) /\ Budget(u)
    BY <2>2, WithinBudget
  <2> QED
    BY <2>1, <2>2, SubmitFacts
<1> QED
  BY <1>1 DEF BisectInv, RunInv, Broken

-------------------------------------------------------------------------------
\* The first header built is the goal; it is ahead of the client or is the one
\* the client has, as no client is ahead of its chain.
LEMMA BuildKeeps ==
  ASSUME BisectInv, NEW u \in Updaters, BuildHeader(u)
  PROVE  BisectInv'
<1>1. /\ pc[u] = "build" /\ UNCHANGED <<trusts, tip, known, start, trusted, spent, returned, exhausted>>
      /\ goal' = [goal EXCEPT ![u] = tip] /\ stack' = [stack EXCEPT ![u] = <<tip>>]
      /\ pc' = [pc EXCEPT ![u] = "submit"]
  BY DEF BuildHeader, chainVars
<1>2. /\ tip \in Heights /\ tip \in Nat /\ <<tip>> \in Seq(Heights)
      /\ trusted[u] \in Nat /\ start[u] \in Nat /\ trusted[u] \in known
      /\ trusted[u] <= tip /\ trusted[u] = start[u] /\ spent[u] = 0 /\ returned[u] = 0
  BY <1>1 DEF BisectInv, TypeOK, RunInv, Heights
<1>3. TypeOK'
  <2>1. stack' \in [Updaters -> Seq(Heights)] /\ goal' \in [Updaters -> Nat]
    BY <1>1, <1>2 DEF BisectInv, TypeOK
  <2>2. pc' \in [Updaters -> {"idle", "build", "submit"}]
    BY <1>1 DEF BisectInv, TypeOK
  <2> QED
    BY <1>1, <2>1, <2>2 DEF BisectInv, TypeOK, BuildHeader
<1>4. ASSUME NEW v \in Updaters \ {u} PROVE RunInv(v)'
  BY <1>1, OthersKeep DEF BisectInv, TypeOK
<1>5. RunInv(u)'
  <2>1. pc'[u] = "submit" /\ goal'[u] = tip /\ stack'[u] = <<tip>>
    BY <1>1 DEF BisectInv, TypeOK
  <2>2. CASE trusted[u] = tip
    <3>1. NothingNew(u)'
      BY <1>1, <1>2, <2>1, <2>2 DEF NothingNew
    <3>2. goal'[u] > start'[u] => spent'[u] < 2 * (goal'[u] - start'[u])
      BY <1>1, <1>2, <2>1, <2>2
    <3> QED
      BY <1>1, <1>2, <2>1, <3>1, <3>2 DEF BisectInv, RunInv, Broken
  <2>3. CASE trusted[u] < tip
    <3>1. Len(<<tip>>) = 1 /\ <<tip>>[1] = tip /\ <<tip>> # <<>>
      OBVIOUS
    <3>2. Rising(<<tip>>, trusted[u], tip)
      BY <1>2, <2>3, <3>1 DEF Rising
    <3>3. Budget(u)'
      <4>1. Len(stack'[u]) = 1 /\ spent'[u] = 0 /\ goal'[u] = tip /\ trusted'[u] = trusted[u]
            /\ start'[u] = trusted[u]
        BY <1>1, <1>2, <2>1, <3>1
      <4>2. 0 + 2 * (tip - trusted[u]) - 1 <= 2 * (tip - trusted[u]) - 1
        BY <1>2
      <4> QED
        BY <4>1, <4>2 DEF Budget
    <3>4. goal'[u] > start'[u] => spent'[u] < 2 * (goal'[u] - start'[u])
      BY <1>1, <1>2, <2>1
    <3> QED
      BY <1>1, <1>2, <2>1, <3>2, <3>3, <3>4 DEF BisectInv, RunInv, Broken
  <2> QED
    BY <1>2, <2>2, <2>3
<1>6. \A v \in Updaters : goal'[v] <= tip'
  BY <1>1, <1>2 DEF BisectInv, TypeOK, Heights
<1> QED
  BY <1>1, <1>3, <1>4, <1>5, <1>6 DEF BisectInv

\* A header taken is the next to go on from, and the last is the goal.
LEMMA UpdateKeeps ==
  ASSUME BisectInv, NEW u \in Updaters, Update(u)
  PROVE  BisectInv'
<1> DEFINE s == stack[u]
           h == Attempted(u)
<1>1. /\ pc[u] = "submit" /\ UNCHANGED <<trusts, tip, start, goal, exhausted, faults>>
      /\ spent' = [spent EXCEPT ![u] = spent[u] + 1] /\ known' = known \union {h}
      /\ trusted' = [trusted EXCEPT ![u] = h] /\ stack' = [stack EXCEPT ![u] = Tail(s)]
      /\ \/ /\ Len(s) = 1
            /\ pc' = [pc EXCEPT ![u] = "idle"] /\ returned' = [returned EXCEPT ![u] = h]
         \/ Len(s) # 1 /\ UNCHANGED <<pc, returned>>
  BY DEF Update, Submits, NextFromReached, chainVars
<1>2. /\ s \in Seq(Nat) /\ s # <<>> /\ h = s[1] /\ h \in Heights /\ h \in Nat /\ Tail(s) \in Seq(Heights)
      /\ trusted[u] \in Nat /\ start[u] \in Nat /\ goal[u] \in Nat /\ spent[u] \in Nat
  BY <1>1, SubmitFacts DEF Heights
<1>3. h > trusted[u] /\ Rising(s, trusted[u], goal[u]) /\ Budget(u)
  <2>1. <<trusted[u], h>> \in trusts
    BY DEF Update, Accepts
  <2>2. h > trusted[u]
    BY <2>1 DEF BisectInv, TypeOK, Forward
  <2>3. ~NothingNew(u)
    BY <1>2, <2>2 DEF NothingNew
  <2> QED
    BY <1>1, <2>2, <2>3, SubmitFacts
<1>4. TypeOK'
  <2>1. stack' \in [Updaters -> Seq(Heights)] /\ trusted' \in [Updaters -> Nat]
    BY <1>1, <1>2 DEF BisectInv, TypeOK
  <2>2. spent' \in [Updaters -> Nat] /\ known' \in SUBSET Heights
    BY <1>1, <1>2 DEF BisectInv, TypeOK
  <2>3. pc' \in [Updaters -> {"idle", "build", "submit"}] /\ returned' \in [Updaters -> Nat]
    BY <1>1, <1>2 DEF BisectInv, TypeOK
  <2> QED
    BY <1>1, <2>1, <2>2, <2>3 DEF BisectInv, TypeOK
<1>5. \A k \in known' : k <= tip'
  <2>1. h <= goal[u] /\ goal[u] <= tip
    BY <1>2, <1>3, RisingBound DEF BisectInv
  <2> QED
    BY <1>1, <1>2, <2>1 DEF BisectInv, TypeOK, Heights
<1>6. ASSUME NEW v \in Updaters \ {u} PROVE RunInv(v)'
  BY <1>1, OthersKeep DEF BisectInv, TypeOK
<1>7. ASSUME Len(s) = 1 PROVE RunInv(u)'
  <2>1. h = goal[u]
    BY <1>2, <1>3, <1>7 DEF Rising
  <2>2. /\ pc'[u] = "idle" /\ returned'[u] = h /\ goal'[u] = goal[u] /\ start'[u] = start[u]
        /\ spent'[u] = spent[u] + 1 /\ h \in known' /\ exhausted'[u] = exhausted[u]
    BY <1>1, <1>7 DEF BisectInv, TypeOK
  <2>3. spent[u] + 1 < 2 * (goal[u] - start[u])
    BY <1>1, <1>3, WithinBudget
  <2> QED
    BY <1>1, <2>1, <2>2, <2>3 DEF BisectInv, RunInv, Broken
<1>8. ASSUME Len(s) # 1 PROVE RunInv(u)'
  <2>1. /\ pc'[u] = "submit" /\ returned'[u] = returned[u] /\ goal'[u] = goal[u] /\ start'[u] = start[u]
        /\ spent'[u] = spent[u] + 1 /\ h \in known' /\ exhausted'[u] = exhausted[u]
        /\ trusted'[u] = h /\ stack'[u] = Tail(s)
    BY <1>1, <1>8 DEF BisectInv, TypeOK
  <2>2. Rising(Tail(s), h, goal[u]) /\ Len(Tail(s)) = Len(s) - 1
    BY <1>2, <1>3, <1>8, RisingTail
  <2>3. Budget(u)'
    <3> DEFINE n == Len(s)
               m == Len(Tail(s))
    <3>1. /\ n \in Nat /\ m = n - 1
          /\ spent[u] + 2 * (goal[u] - trusted[u]) - n <= 2 * (goal[u] - start[u]) - 1
      BY <1>2, <1>3, <2>2, RisingBound DEF Budget
    <3> HIDE DEF n, m
    <3>2. spent[u] + 1 + 2 * (goal[u] - h) - m <= 2 * (goal[u] - start[u]) - 1
      BY <1>2, <1>3, <3>1, BudgetCarries
    <3> QED
      BY <2>1, <3>2 DEF Budget, m
  <2>4. spent[u] + 1 < 2 * (goal[u] - start[u])
    BY <1>1, <1>3, WithinBudget
  <2> QED
    BY <1>1, <2>1, <2>2, <2>3, <2>4 DEF BisectInv, RunInv, Broken
<1> QED
  BY <1>1, <1>4, <1>5, <1>6, <1>7, <1>8 DEF BisectInv

\* A midpoint is between the trusted height and the one attempted.
LEMMA BisectKeeps ==
  ASSUME BisectInv, NEW u \in Updaters, Bisect(u)
  PROVE  BisectInv'
<1> DEFINE s == stack[u]
           h == Attempted(u)
           m == Midpoint(u)
<1>1. /\ pc[u] = "submit" /\ h > trusted[u] /\ ~(h - trusted[u] <= 1)
      /\ UNCHANGED <<trusts, tip, known, pc, start, goal, trusted, returned, exhausted, faults>>
      /\ spent' = [spent EXCEPT ![u] = spent[u] + 1] /\ stack' = [stack EXCEPT ![u] = <<m>> \o s]
  BY DEF Bisect, Submits, Untrusted, GapClosed, PushMid, chainVars
<1>2. /\ s \in Seq(Heights) /\ s \in Seq(Nat) /\ h = s[1] /\ h \in Heights /\ h \in Nat
      /\ trusted[u] \in Nat /\ trusted[u] \in Heights
      /\ start[u] \in Nat /\ goal[u] \in Nat /\ spent[u] \in Nat
  BY <1>1, SubmitFacts DEF Heights
<1>3. Rising(s, trusted[u], goal[u]) /\ Budget(u)
  <2>1. ~NothingNew(u)
    BY <1>1, <1>2 DEF NothingNew
  <2> QED
    BY <1>1, <2>1, SubmitFacts
<1>4. m \in Nat /\ trusted[u] < m /\ m < h /\ m \in Heights
  <2>1. m = (trusted[u] + h) \div 2
    BY DEF Midpoint
  <2>2. trusted[u] \in Nat /\ h \in Nat /\ h > trusted[u] + 1 /\ 1 <= trusted[u] /\ h <= MaxHeight
    BY <1>1, <1>2 DEF Heights
  <2> HIDE DEF m, h
  <2>3. m \in Nat /\ trusted[u] < m /\ m < h
    BY <2>1, <2>2
  <2> QED
    BY <2>2, <2>3, BisectAssumption DEF Heights
<1>5. Rising(<<m>> \o s, trusted[u], goal[u]) /\ Len(<<m>> \o s) = Len(s) + 1 /\ Len(s) \in Nat
  <2>1. m < s[1]
    BY <1>2, <1>4
  <2> QED
    BY <1>2, <1>3, <1>4, <2>1, RisingPush, RisingBound
<1>6. TypeOK'
  <2>1. <<m>> \o s \in Seq(Heights)
    <3>1. <<m>> \in Seq(Heights)
      BY <1>4
    <3> QED
      BY <1>2, <3>1
  <2>2. stack' \in [Updaters -> Seq(Heights)] /\ spent' \in [Updaters -> Nat]
    BY <1>1, <1>2, <2>1 DEF BisectInv, TypeOK
  <2> QED
    BY <1>1, <2>2 DEF BisectInv, TypeOK
<1>7. ASSUME NEW v \in Updaters \ {u} PROVE RunInv(v)'
  BY <1>1, OthersKeep DEF BisectInv, TypeOK
<1>8. RunInv(u)'
  <2>1. stack'[u] = <<m>> \o s /\ spent'[u] = spent[u] + 1
    BY <1>1 DEF BisectInv, TypeOK
  <2>2. Budget(u)'
    <3> DEFINE n == Len(s)
    <3>1. /\ Len(stack'[u]) = n + 1 /\ n \in Nat
          /\ spent[u] + 2 * (goal[u] - trusted[u]) - n <= 2 * (goal[u] - start[u]) - 1
      BY <1>3, <1>5, <2>1 DEF Budget
    <3> HIDE DEF n
    <3>2. (spent[u] + 1) + 2 * (goal[u] - trusted[u]) - (n + 1) <= 2 * (goal[u] - start[u]) - 1
      BY <1>2, <3>1, BudgetBorrows
    <3> QED
      BY <1>1, <2>1, <3>1, <3>2 DEF Budget
  <2>3. spent[u] + 1 < 2 * (goal[u] - start[u])
    BY <1>1, <1>3, WithinBudget
  <2> QED
    BY <1>1, <1>5, <2>1, <2>2, <2>3 DEF BisectInv, RunInv, Broken
<1> QED
  BY <1>1, <1>6, <1>7, <1>8 DEF BisectInv

\* An update throws, for whatever reason; only at a gap of one block does it
\* do so for want of trust.
LEMMA ThrowKeeps ==
  ASSUME BisectInv, NEW u \in Updaters,
         Exhausted(u) \/ Refused(u) \/ Fails(u) \/ ReplyLost(u)
  PROVE  BisectInv'
<1>1. /\ pc[u] # "idle" /\ UNCHANGED <<trusts, tip, start, goal, trusted, returned>>
      /\ pc' = [pc EXCEPT ![u] = "idle"] /\ stack' = [stack EXCEPT ![u] = <<>>]
  BY DEF Exhausted, Refused, Fails, ReplyLost, Submits, Throw, chainVars
<1>2. CASE Fails(u)
  <2>1. UNCHANGED <<known, spent, exhausted>> /\ faults' \in Nat
    BY <1>2 DEF Fails, Fault, BisectInv, TypeOK
  <2>2. TypeOK'
    BY <1>1, <2>1 DEF BisectInv, TypeOK
  <2>3. ASSUME NEW v \in Updaters \ {u} PROVE RunInv(v)'
    BY <1>1, <2>1, OthersKeep DEF BisectInv, TypeOK
  <2>4. RunInv(u)'
    BY <1>1, <2>1 DEF BisectInv, TypeOK, RunInv, Broken
  <2> QED
    BY <1>1, <2>1, <2>2, <2>3, <2>4 DEF BisectInv
<1>3. ASSUME Exhausted(u) \/ Refused(u) \/ ReplyLost(u) PROVE BisectInv'
  <2>1. pc[u] = "submit" /\ spent' = [spent EXCEPT ![u] = spent[u] + 1] /\ faults' \in Nat
    BY <1>3 DEF Exhausted, Refused, ReplyLost, Submits, Fault, BisectInv, TypeOK
  <2>2. /\ Attempted(u) \in Heights /\ trusted[u] \in Heights /\ trusted[u] \in Nat
        /\ spent[u] \in Nat /\ goal[u] \in Nat
    BY <2>1, SubmitFacts
  <2>3. known' = known \/ (ReplyLost(u) /\ known' = known \union {Attempted(u)})
    BY <1>3 DEF Exhausted, Refused, ReplyLost
  <2>4. ASSUME ReplyLost(u) PROVE Attempted(u) <= tip
    <3>1. <<trusted[u], Attempted(u)>> \in trusts
      BY <2>4 DEF ReplyLost, Accepts
    <3>2. Attempted(u) > trusted[u]
      BY <3>1 DEF BisectInv, TypeOK, Forward
    <3>3. Rising(stack[u], trusted[u], goal[u])
      BY <2>1, <2>2, <3>2, SubmitFacts DEF NothingNew
    <3>4. Attempted(u) <= goal[u] /\ goal[u] <= tip
      BY <2>1, <2>2, <3>3, SubmitFacts, RisingBound DEF BisectInv
    <3> QED
      BY <2>2, <3>4 DEF BisectInv, TypeOK, Heights
  <2>5. known \subseteq known' /\ known' \in SUBSET Heights /\ \A k \in known' : k <= tip
    BY <2>2, <2>3, <2>4 DEF BisectInv, TypeOK
  <2>6. /\ exhausted' \in [Updaters -> BOOLEAN]
        /\ \A v \in Updaters \ {u} : exhausted'[v] = exhausted[v]
        /\ exhausted'[u] => exhausted[u] \/ Exhausted(u)
    BY <1>3 DEF Exhausted, Refused, ReplyLost, BisectInv, TypeOK
  <2>7. Exhausted(u) => Broken
    <3>1. SUFFICES ASSUME Exhausted(u) PROVE Broken
      OBVIOUS
    <3>2. /\ Attempted(u) > trusted[u] /\ <<trusted[u], Attempted(u)>> \notin trusts
          /\ Attempted(u) - trusted[u] <= 1
      BY <3>1 DEF Exhausted, Untrusted, Accepts, GapClosed
    <3>3. Attempted(u) = trusted[u] + 1 /\ trusted[u] < MaxHeight
      BY <2>2, <3>2, BisectAssumption DEF Heights
    <3> QED
      BY <2>2, <3>2, <3>3 DEF Broken
  <2>8. TypeOK'
    <3>1. /\ pc' \in [Updaters -> {"idle", "build", "submit"}]
          /\ stack' \in [Updaters -> Seq(Heights)] /\ spent' \in [Updaters -> Nat]
      <4>1. <<>> \in Seq(Heights)
        OBVIOUS
      <4> QED
        BY <1>1, <2>1, <2>2, <4>1 DEF BisectInv, TypeOK
    <3> QED
      BY <1>1, <2>1, <2>5, <2>6, <3>1 DEF BisectInv, TypeOK
  <2>9. ASSUME NEW v \in Updaters \ {u} PROVE RunInv(v)'
    BY <1>1, <2>1, <2>5, <2>6, OthersKeep DEF BisectInv, TypeOK
  <2>10. RunInv(u)'
    <3>1. /\ pc'[u] = "idle" /\ spent'[u] = spent[u] + 1
          /\ start'[u] = start[u] /\ goal'[u] = goal[u] /\ returned'[u] = returned[u]
          /\ exhausted'[u] => exhausted[u] \/ Broken
      BY <1>1, <2>1, <2>6, <2>7 DEF BisectInv, TypeOK
    <3> QED
      BY <1>1, <2>1, <2>5, <3>1, ThrownKeeps
  <2> QED
    BY <1>1, <2>5, <2>8, <2>9, <2>10 DEF BisectInv
<1> QED
  BY <1>2, <1>3

-------------------------------------------------------------------------------
\* An update starts from a height the client has.
LEMMA StartKeeps ==
  ASSUME BisectInv, NEW u \in Updaters, Start(u)
  PROVE  BisectInv'
<1>1. PICK h \in Heights :
        /\ h \in known /\ start' = [start EXCEPT ![u] = h] /\ trusted' = [trusted EXCEPT ![u] = h]
  BY DEF Start, Latest
<1>2. /\ UNCHANGED <<trusts, tip, known, stack, faults>>
      /\ pc' = [pc EXCEPT ![u] = "build"] /\ goal' = [goal EXCEPT ![u] = 0]
      /\ spent' = [spent EXCEPT ![u] = 0] /\ returned' = [returned EXCEPT ![u] = 0]
      /\ exhausted' = [exhausted EXCEPT ![u] = FALSE]
  BY DEF Start, chainVars
<1>3. h \in Nat /\ tip \in Nat
  BY DEF Heights, BisectInv, TypeOK
<1>4. TypeOK'
  BY <1>1, <1>2, <1>3 DEF BisectInv, TypeOK
<1>5. ASSUME NEW v \in Updaters \ {u} PROVE RunInv(v)'
  BY <1>1, <1>2, OthersKeep DEF BisectInv, TypeOK
<1>6. RunInv(u)'
  <2>1. /\ pc'[u] = "build" /\ goal'[u] = 0 /\ spent'[u] = 0 /\ returned'[u] = 0 /\ ~exhausted'[u]
        /\ trusted'[u] = h /\ start'[u] = h /\ h \in known'
    BY <1>1, <1>2 DEF BisectInv, TypeOK
  <2>2. ~(0 > h)
    BY <1>3
  <2> QED
    BY <2>1, <2>2 DEF RunInv
<1>7. \A v \in Updaters : goal'[v] <= tip'
  BY <1>2, <1>3 DEF BisectInv, TypeOK
<1> QED
  BY <1>2, <1>4, <1>5, <1>6, <1>7 DEF BisectInv

\* A new block is above all that any update holds.
LEMMA NewBlockKeeps ==
  ASSUME BisectInv, NewBlock
  PROVE  BisectInv'
<1>1. /\ tip < MaxHeight /\ tip' = tip + 1 /\ UNCHANGED <<trusts, known, faults>>
      /\ UNCHANGED <<pc, start, goal, stack, trusted, spent, returned, exhausted>>
  BY DEF NewBlock, runVars
<1>2. tip \in Nat /\ tip' \in Heights
  BY <1>1, BisectAssumption DEF BisectInv, TypeOK, Heights
<1>3. TypeOK'
  BY <1>1, <1>2 DEF BisectInv, TypeOK
<1>4. (\A k \in known' : k <= tip') /\ \A u \in Updaters : goal'[u] <= tip'
  BY <1>1, <1>2 DEF BisectInv, TypeOK, Heights
<1>5. ASSUME NEW u \in Updaters PROVE RunInv(u)'
  BY <1>1 DEF BisectInv, RunInv, NothingNew, Budget, Broken, Rising
<1> QED
  BY <1>3, <1>4, <1>5 DEF BisectInv

LEMMA BisectInvInit == Init => BisectInv
<1> SUFFICES ASSUME Init PROVE BisectInv
  OBVIOUS
<1>1. (\A h \in known : h <= tip) /\ \A u \in Updaters : goal[u] <= tip
  BY DEF Init
<1>2. ASSUME NEW u \in Updaters PROVE RunInv(u)
  <2>1. pc[u] = "idle" /\ goal[u] = 0 /\ start[u] = 0 /\ returned[u] = 0 /\ ~exhausted[u]
    BY DEF Init
  <2> QED
    BY <2>1 DEF RunInv
<1> QED
  BY <1>1, <1>2, TypeInit DEF BisectInv

LEMMA BisectInvStep == BisectInv /\ [Next]_vars => BisectInv'
<1> SUFFICES ASSUME BisectInv, [Next]_vars PROVE BisectInv'
  OBVIOUS
<1>1. CASE UNCHANGED vars
  BY <1>1 DEF vars, chainVars, runVars, BisectInv, TypeOK, RunInv, NothingNew, Budget, Broken, Rising
<1>2. CASE NewBlock
  BY <1>2, NewBlockKeeps
<1>3. ASSUME NEW u \in Updaters, Start(u) PROVE BisectInv'
  BY <1>3, StartKeeps
<1>4. ASSUME NEW u \in Updaters, BuildHeader(u) PROVE BisectInv'
  BY <1>4, BuildKeeps
<1>5. ASSUME NEW u \in Updaters, Update(u) PROVE BisectInv'
  BY <1>5, UpdateKeeps
<1>6. ASSUME NEW u \in Updaters, Bisect(u) PROVE BisectInv'
  BY <1>6, BisectKeeps
<1>7. ASSUME NEW u \in Updaters, Exhausted(u) \/ Refused(u) \/ Fails(u) \/ ReplyLost(u)
      PROVE  BisectInv'
  BY <1>7, ThrowKeeps
<1> QED
  BY <1>1, <1>2, <1>3, <1>4, <1>5, <1>6, <1>7 DEF Next, UpdateStep

LEMMA BisectInvAlways == Spec => []BisectInv
BY BisectInvInit, BisectInvStep, PTL DEF Spec

\* The update of a client keeps its types, whatever relation the validator sets
\* give its headers.
THEOREM BisectTypes == Spec => []TypeOK
<1>1. BisectInv => TypeOK
  BY DEF BisectInv
<1> QED
  BY <1>1, BisectInvAlways, PTL

\* updateClientBisect submits fewer than two headers per block between the
\* client and its goal, and so it ends, with no depth limit in the code.
THEOREM BisectionIsFrugal == Spec => []Frugal
<1>1. BisectInv => Frugal
  BY DEF BisectInv, RunInv, Frugal
<1> QED
  BY <1>1, BisectInvAlways, PTL

\* updateClient returns the height of the first header it built, through
\* whatever midpoints, and the light client has a consensus state for it.
THEOREM BisectionReachesGoal == Spec => []ReturnsGoal
<1>1. BisectInv => ReturnsGoal
  BY DEF BisectInv, RunInv, ReturnsGoal
<1> QED
  BY <1>1, BisectInvAlways, PTL

\* updateClientBisect gives up only where the light client cannot step from a
\* block to the next.
THEOREM HonestIsNeverExhausted == Spec => []HonestNeverExhausted
<1>1. BisectInv => HonestNeverExhausted
  BY DEF BisectInv, RunInv, HonestNeverExhausted, Broken
<1> QED
  BY <1>1, BisectInvAlways, PTL

\* Every header is verified from a consensus state the light client has.
THEOREM TrustedIsAlwaysKnown == Spec => []TrustedIsKnown
<1>1. BisectInv => TrustedIsKnown
  BY DEF BisectInv, RunInv, TrustedIsKnown
<1> QED
  BY <1>1, BisectInvAlways, PTL

==============================================================================
