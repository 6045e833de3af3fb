--------------------------- MODULE StalenessProofs ---------------------------
(***************************************************************************)
(* Proofs about Staleness, for any number of links and any periods.  What  *)
(* makes NoneExpires inductive is a budget: until a client is checked, its *)
(* age, the time this sleep or pass still has, and what the passes that    *)
(* may yet break off can take add up to less than its trusting period.     *)
(***************************************************************************)
EXTENDS Staleness, TLAPS

\* One sleep and one pass at their longest, and what is left of such.
Cycle == Cap + PassTime
Left(m) == (MaxMisses - m) * Cycle
Whole == (MaxMisses + 1) * Cycle

\* Checked in the pass under way.
Behind(k) == pc # "sleep" /\ k < at

\* The longest a client's age may be once a pass has checked it.
Young(k) == MaxAge(k) + Lag + PassTime

Budget ==
  \A k \in Clients : Reached(k) =>
    /\ Behind(k) => age[k] + wait < Young(k)
    /\ ~Behind(k) /\ pc # "sleep" => age[k] + wait + Left(misses) < Young(k) + Whole
    /\ pc = "sleep" => age[k] + wait + PassTime + Left(misses) < Young(k) + Whole

AtRightPlace ==
  /\ pc = "round" => at % 2 = 1
  /\ pc = "check" => at \in Clients

StaysLost ==
  \A j \in lost : age[j] = Oldest(j) /\ (pc # "sleep" => at <= j)

Inv == TypeOK /\ AtRightPlace /\ StaysLost

FreshOnes ==
  pc = "sleep" /\ misses = 0 =>
    \A k \in Clients : Reached(k) => age[k] + wait < Young(k) + backoff

-------------------------------------------------------------------------------
\* The numbers of the module are natural numbers.
LEMMA Numbers ==
  /\ Cycle \in Nat /\ Whole \in Nat
  /\ \A k \in Clients : trustPeriodSec(k) \in Nat
  /\ \A k \in Clients : MaxAge(k) \in Nat /\ MaxAge(k) > 0 /\ Young(k) \in Nat /\ Young(k) > Lag + PassTime
  /\ \A k \in Clients : Oldest(k) \in Nat /\ Oldest(k) >= trustPeriodSec(k)
                        /\ Oldest(k) >= MaxAge(k) + Lag
<1>1. Cycle \in Nat  BY TimesAssumption DEF Cycle
<1>2. Whole \in Nat  BY <1>1, TimesAssumption DEF Whole
<1>3. \A k \in Clients : trustPeriodSec(k) \in Nat  BY TimesAssumption DEF trustPeriodSec
<1>4. \A k \in Clients : MaxAge(k) \in Nat /\ MaxAge(k) > 0  BY TimesAssumption DEF MaxAge
<1> QED  BY <1>1, <1>2, <1>3, <1>4, TimesAssumption DEF Oldest, Young

\* What the passes that may break off can take, and one of them less.
LEMMA Room ==
  /\ \A m \in 0..MaxMisses : Left(m) \in Nat /\ Left(m) + Cycle <= Whole
  /\ Left(0) + Cycle = Whole
  /\ \A m \in 0..MaxMisses : m < MaxMisses => Left(m) = Left(m + 1) + Cycle
<1>1. Cycle \in Nat /\ MaxMisses \in Nat  BY Numbers, TimesAssumption
<1>2. ASSUME NEW m \in 0..MaxMisses
      PROVE  Left(m) \in Nat /\ Left(m) + Cycle <= Whole
  <2>1. m * Cycle \in Nat /\ (MaxMisses - m) * Cycle \in Nat  BY <1>1, <1>2
  <2>2. (MaxMisses + 1) * Cycle = (MaxMisses - m) * Cycle + m * Cycle + Cycle  BY <1>1, <1>2
  <2> QED  BY <2>1, <2>2, <1>1 DEF Left, Whole
<1>3. Left(0) + Cycle = Whole  BY <1>1 DEF Left, Whole
<1>4. ASSUME NEW m \in 0..MaxMisses, m < MaxMisses
      PROVE  Left(m) = Left(m + 1) + Cycle
  BY <1>1, <1>4 DEF Left
<1> QED  BY <1>2, <1>3, <1>4

\* Links have two clients each, and a pass goes from one to the next.
LEMMA Places ==
  ASSUME NEW k \in Clients
  PROVE  /\ k \in Nat \ {0} /\ k <= 2 * Count /\ k + 1 \in 1..2*Count + 1
         /\ FirstOfLink(k) => k + 1 \in Clients
         /\ ~FirstOfLink(k) => (k + 1) % 2 = 1
<1>1. k \in Nat \ {0} /\ k <= 2 * Count /\ Count \in Nat  BY TimesAssumption DEF Clients
<1>2. k % 2 = 1 => k # 2 * Count  BY <1>1
<1>3. k % 2 # 1 => (k + 1) % 2 = 1  BY <1>1
<1> QED  BY <1>1, <1>2, <1>3 DEF Clients, FirstOfLink

\* Every reachable state is well typed, a pass checks what there is to check,
\* and a client that had expired is never passed by.
LEMMA InvInit == Init => Inv
  BY Numbers, TimesAssumption DEF Init, Inv, TypeOK, AtRightPlace, StaysLost

LEMMA InvNext == Inv /\ [Next]_vars => Inv'
<1> SUFFICES ASSUME Inv, [Next]_vars PROVE Inv'  OBVIOUS
<1> USE Numbers, TimesAssumption
<1>0. Clients \subseteq Nat \ {0}  BY DEF Clients
<1>1. CASE Tick
  BY <1>0, <1>1 DEF Tick, Inv, TypeOK, AtRightPlace, StaysLost
<1>2. CASE Wake
  <2>1. \A j \in lost : 1 <= j  BY <1>0 DEF Inv, TypeOK
  <2>2. 1 % 2 = 1 /\ 1 \in 1..2*Count + 1  OBVIOUS
  <2> QED  BY <1>2, <2>1, <2>2 DEF Wake, Inv, TypeOK, AtRightPlace, StaysLost
<1>3. ASSUME NEW K \in SUBSET OfLink, Round(K) PROVE Inv'
  BY <1>0, <1>3 DEF Round, Updated, Inv, TypeOK, AtRightPlace, StaysLost, Expired
<1>4. CASE Fresh
  <2>1. at \notin lost  BY <1>0, <1>4 DEF Fresh, Inv, TypeOK, AtRightPlace, StaysLost
  <2>2. at \in Clients  BY <1>4 DEF Fresh, Inv, AtRightPlace
  <2>3. \A j \in lost : at + 1 <= j  BY <1>0, <1>4, <2>1, <2>2 DEF Fresh, Inv, TypeOK, StaysLost
  <2> QED  BY <1>4, <2>2, <2>3, Places DEF Fresh, Checked, Inv, TypeOK, AtRightPlace, StaysLost
<1>5. CASE Stale
  <2>1. at \notin lost  BY <1>0, <1>5 DEF Stale, Inv, TypeOK, AtRightPlace, StaysLost, Expired
  <2>2. age' \in [Clients -> Nat] /\ \A k \in Clients : age'[k] <= age[k] /\ (k \in lost => age'[k] = age[k])
    BY <1>0, <1>5, <2>1 DEF Stale, Updated, Inv, TypeOK
  <2>3. at \in Clients  BY <1>5 DEF Stale, Inv, AtRightPlace
  <2>4. \A j \in lost : at + 1 <= j  BY <1>0, <1>5, <2>1, <2>3 DEF Stale, Inv, TypeOK, StaysLost
  <2>5. \A k \in Clients : age'[k] <= Oldest(k)  BY <1>0, <2>2 DEF Inv, TypeOK
  <2>6. TypeOK'  BY <1>5, <2>2, <2>3, <2>5, Places DEF Stale, Checked, Inv, TypeOK
  <2> QED  BY <1>5, <2>2, <2>3, <2>4, <2>6, Places DEF Stale, Checked, Inv, TypeOK, AtRightPlace, StaysLost
<1>6. CASE PassEnds
  BY <1>6 DEF PassEnds, Inv, TypeOK, AtRightPlace, StaysLost
<1>7. Backoff \in Poll..Cap
  BY DEF Backoff, Smaller, Inv, TypeOK
<1>8. CASE Refused
  BY <1>7, <1>8 DEF Refused, PassFails, Inv, TypeOK, AtRightPlace, StaysLost
<1>9. CASE Interrupted
  BY <1>7, <1>9 DEF Interrupted, PassFails, Miss, Inv, TypeOK, AtRightPlace, StaysLost
<1>10. CASE Restarted
  BY <1>10 DEF Restarted, Miss, Inv, TypeOK, AtRightPlace, StaysLost
<1>11. CASE UNCHANGED vars
  BY <1>11 DEF vars, Inv, TypeOK, AtRightPlace, StaysLost
<1> QED  BY <1>1, <1>2, <1>3, <1>4, <1>5, <1>6, <1>8, <1>9, <1>10, <1>11 DEF Next

\* Types, for any number of links.
THEOREM TypeCorrect == Spec => []TypeOK
<1>1. Inv => TypeOK  BY DEF Inv
<1> QED  BY InvInit, InvNext, <1>1, PTL DEF Spec

-------------------------------------------------------------------------------
\* With a budget, a client that passes reach has not expired.
LEMMA NotExpired ==
  ASSUME Inv, Budget, ConfigFits, NEW k \in Clients, Reached(k)
  PROVE  ~Expired(k)
<1>1. age[k] \in Nat /\ wait \in Nat /\ misses \in 0..MaxMisses  BY DEF Inv, TypeOK
<1>2. MaxAge(k) \in Nat /\ Lag \in Nat /\ PassTime \in Nat /\ Cycle \in Nat /\ Whole \in Nat
  BY Numbers, TimesAssumption
<1>3. Left(misses) \in Nat  BY <1>1, Room
<1>4. Young(k) + Whole <= trustPeriodSec(k)
  BY DEF ConfigFits, Option, MaxAge, FirstOfLink, Young, Whole, Cycle
<1>5. trustPeriodSec(k) \in Nat /\ Young(k) \in Nat  BY Numbers
<1>6. \/ age[k] + wait < Young(k)
      \/ age[k] + wait + Left(misses) < Young(k) + Whole
      \/ age[k] + wait + PassTime + Left(misses) < Young(k) + Whole
  BY DEF Budget
<1>7. age[k] < Young(k) + Whole  BY <1>1, <1>2, <1>3, <1>5, <1>6
<1> QED  BY <1>1, <1>2, <1>4, <1>5, <1>7 DEF Expired

\* When a client that has expired ends the pass, those that passes reach have
\* all been checked in it.
LEMMA RefusedBehind ==
  ASSUME Inv, Budget, ConfigFits, Refused, NEW k \in Clients, Reached(k)
  PROVE  Behind(k)
<1>1. PICK e \in {at, at + 1} : e \in Clients /\ Expired(e) /\ at \in Clients
                               /\ LastOfLink(e) = LastOfLink(at)
  <2>1. CASE RefusedRound
    <3>1. FirstOfLink(at) /\ at \in Clients /\ pc = "round"
      BY <2>1 DEF RefusedRound, Inv, AtRightPlace, FirstOfLink
    <3>2. at + 1 \in Clients /\ ~FirstOfLink(at + 1)
      BY <3>1, Places DEF FirstOfLink
    <3> QED  BY <2>1, <3>1, <3>2 DEF RefusedRound, OfLink, LastOfLink
  <2>2. CASE RefusedUpdate
    BY <2>2 DEF RefusedUpdate, Inv, AtRightPlace
  <2> QED  BY <2>1, <2>2 DEF Refused
<1>2. ~Reached(e)  BY <1>1, NotExpired
<1>3. lost \subseteq Clients /\ Clients \subseteq Nat  BY DEF Inv, TypeOK, Clients
<1>4. PICK j \in lost : j <= LastOfLink(at)
  BY <1>1, <1>2, <1>3 DEF Reached, LastOfLink
<1>5. LastOfLink(k) < LastOfLink(at)
  BY <1>1, <1>3, <1>4 DEF Reached, LastOfLink
<1>6. k < at
  <2>1. k \in Nat /\ at \in Nat  BY <1>1, <1>3
  <2>2. CASE FirstOfLink(at)
    <3>1. CASE k = at  BY <1>5, <3>1, <2>1 DEF LastOfLink
    <3> QED  BY <1>5, <2>1, <2>2, <3>1 DEF LastOfLink
  <2>3. CASE ~FirstOfLink(at)
    BY <1>5, <2>1, <2>3 DEF LastOfLink
  <2> QED  BY <2>2, <2>3
<1>7. pc # "sleep"  BY DEF Refused, RefusedRound, RefusedUpdate
<1> QED  BY <1>6, <1>7 DEF Behind

LEMMA BudgetInit == Init => Budget
<1> SUFFICES ASSUME Init, NEW k \in Clients, Reached(k)
             PROVE  age[k] + wait + PassTime + Left(misses) < Young(k) + Whole
  BY DEF Budget, Init, Behind
<1>1. k \notin lost
  BY TimesAssumption DEF Reached, LastOfLink, Clients
<1>2. age[k] = 0 /\ wait = 0 /\ misses = 0  BY <1>1 DEF Init
<1>3. Left(0) <= Whole /\ Left(0) \in Nat  BY Room, Numbers, TimesAssumption
<1>4. Young(k) \in Nat /\ Young(k) > Lag + PassTime /\ Lag \in Nat /\ PassTime \in Nat /\ Whole \in Nat
  BY Numbers, TimesAssumption
<1>5. 0 + 0 + PassTime + Left(0) < Young(k) + Whole  BY <1>3, <1>4
<1> QED  BY <1>2, <1>5

\* After a pass, or what there was of it: a client it checked has a whole
\* budget again, and one it did not has a cycle less.
LEMMA BudgetAsleep ==
  ASSUME Inv, Budget, NEW k \in Clients, Reached(k), pc # "sleep",
         NEW w \in 0..Cap, NEW m \in 0..MaxMisses,
         Behind(k) \/ (misses < MaxMisses /\ m = misses + 1)
  PROVE  age[k] + w + PassTime + Left(m) < Young(k) + Whole
<1>1. age[k] \in Nat /\ wait \in Nat /\ misses \in 0..MaxMisses  BY DEF Inv, TypeOK
<1>2. Young(k) \in Nat /\ Cycle \in Nat /\ Whole \in Nat /\ PassTime \in Nat /\ Cap \in Nat
  BY Numbers, TimesAssumption
<1>3. Left(m) \in Nat /\ Left(m) + Cycle <= Whole  BY Room
<1>4. w + PassTime <= Cycle  BY <1>2 DEF Cycle
<1>5. CASE Behind(k)
  <2>1. age[k] < Young(k)  BY <1>1, <1>2, <1>5 DEF Budget
  <2> QED  BY <1>1, <1>2, <1>3, <1>4, <2>1
<1>6. CASE ~Behind(k)
  <2>1. age[k] + Left(misses) < Young(k) + Whole
    <3>1. Left(misses) \in Nat  BY <1>1, Room
    <3> QED  BY <1>1, <1>2, <1>6, <3>1 DEF Budget
  <2>2. Left(misses) = Left(m) + Cycle  BY <1>1, <1>6, Room
  <2> QED  BY <1>1, <1>2, <1>3, <1>4, <2>1, <2>2
<1> QED  BY <1>5, <1>6

\* A step of a pass that does not end it: ages have not grown.
LEMMA BudgetAwake ==
  ASSUME Inv, Budget, pc # "sleep", pc' # "sleep", UNCHANGED <<lost, wait, misses>>,
         \A k \in Clients : age'[k] \in Nat /\ age'[k] <= age[k],
         \A k \in Clients : k < at' /\ ~(k < at) => age'[k] < MaxAge(k) + Lag,
         \A k \in Clients : k < at => k < at'
  PROVE  Budget'
<1> SUFFICES ASSUME NEW k \in Clients, Reached(k)'
             PROVE  /\ k < at' => age'[k] + wait < Young(k)
                    /\ ~(k < at') => age'[k] + wait + Left(misses) < Young(k) + Whole
  BY DEF Budget, Behind
<1>1. age[k] \in Nat /\ wait \in Nat /\ wait <= PassTime /\ misses \in 0..MaxMisses
  BY DEF Inv, TypeOK
<1>2. age'[k] \in Nat /\ age'[k] <= age[k]  OBVIOUS
<1>3. MaxAge(k) \in Nat /\ Lag \in Nat /\ PassTime \in Nat /\ Whole \in Nat /\ Left(misses) \in Nat
  BY <1>1, Numbers, Room, TimesAssumption
<1>4. Reached(k)  BY DEF Reached
<1>5. k < at' => age'[k] + wait < Young(k)
  BY <1>1, <1>2, <1>3, <1>4 DEF Budget, Behind, Young
<1>6. ~(k < at') => age'[k] + wait + Left(misses) < Young(k) + Whole
  BY <1>1, <1>2, <1>3, <1>4 DEF Budget, Behind, Young
<1> QED  BY <1>5, <1>6

\* The budget is kept, and the clients a pass has checked are young after it.
LEMMA BudgetNext ==
  ASSUME Inv, Inv', Budget, FreshOnes, ConfigFits, [Next]_vars
  PROVE  Budget' /\ FreshOnes'
<1>1. /\ \A k \in Clients : age[k] \in Nat
      /\ wait \in Nat /\ misses \in 0..MaxMisses /\ backoff \in Nat
      /\ pc = "sleep" => wait <= Cap
      /\ pc # "sleep" => wait <= PassTime
  BY TimesAssumption DEF Inv, TypeOK
<1>2. /\ \A k \in Clients : MaxAge(k) \in Nat /\ MaxAge(k) > 0 /\ Young(k) \in Nat
      /\ Lag \in Nat /\ PassTime \in Nat /\ Poll \in 0..Cap /\ Cycle \in Nat /\ Whole \in Nat
      /\ \A m \in 0..MaxMisses : Left(m) \in Nat
      /\ Clients \subseteq Nat
  BY Numbers, Room, TimesAssumption DEF Clients
<1>3. \A k \in Clients : Reached(k)' /\ lost' = lost => Reached(k)  BY DEF Reached
<1>4. CASE Tick
  <2>1. ASSUME NEW k \in Clients PROVE age'[k] + wait' <= age[k] + wait /\ age'[k] \in Nat /\ wait' \in Nat
    <3>1. age'[k] \in Nat /\ age'[k] <= age[k] + 1  BY <1>1, <1>4 DEF Tick
    <3>2. wait' = wait - 1 /\ wait > 0  BY <1>4 DEF Tick
    <3> QED  BY <1>1, <3>1, <3>2
  <2>2. ASSUME NEW b \in Nat, NEW l \in Nat, NEW k \in Clients
        PROVE  /\ age[k] + wait < b => age'[k] + wait' < b
               /\ age[k] + wait + l < b => age'[k] + wait' + l < b
               /\ age[k] + wait + PassTime + l < b => age'[k] + wait' + PassTime + l < b
    BY <1>1, <1>2, <2>1
  <2>3. /\ Left(misses) \in Nat
        /\ \A k \in Clients : /\ Young(k) + Whole \in Nat /\ Young(k) + backoff \in Nat
    BY <1>1, <1>2
  <2>4. UNCHANGED <<lost, pc, at, misses, backoff>>  BY <1>4 DEF Tick
  <2>5. Budget'  BY <1>3, <2>2, <2>3, <2>4, <1>2 DEF Budget, Behind
  <2>6. FreshOnes'  BY <1>3, <2>2, <2>3, <2>4 DEF FreshOnes
  <2> QED  BY <2>5, <2>6
<1>5. CASE Wake
  <2>1. pc = "sleep" /\ wait = 0 /\ wait' = PassTime /\ pc' = "round" /\ at' = 1
        /\ UNCHANGED <<age, lost, misses>>
    BY <1>5 DEF Wake
  <2>2. ASSUME NEW k \in Clients, Reached(k)
        PROVE  age[k] + PassTime + Left(misses) < Young(k) + Whole
    BY <1>1, <1>2, <2>1, <2>2 DEF Budget
  <2>3. \A k \in Clients : ~(k < 1)  BY DEF Clients
  <2>4. Budget'  BY <1>3, <2>1, <2>2, <2>3 DEF Budget, Behind
  <2> QED  BY <2>1, <2>4 DEF FreshOnes
<1>6. ASSUME NEW K \in SUBSET OfLink, Round(K) PROVE Budget' /\ FreshOnes'
  <2>1. \A k \in Clients : age'[k] \in Nat /\ age'[k] <= age[k]
    BY <1>1, <1>2, <1>6 DEF Round, Updated
  <2>2. pc # "sleep" /\ pc' # "sleep" /\ UNCHANGED <<lost, at, wait, misses>>
    BY <1>6 DEF Round
  <2>3. Budget'  BY <2>1, <2>2, BudgetAwake
  <2> QED  BY <2>2, <2>3 DEF FreshOnes
<1>7. ASSUME Fresh \/ Stale PROVE Budget' /\ FreshOnes'
  <2>1. pc = "check" /\ pc' # "sleep" /\ at' = at + 1 /\ UNCHANGED <<lost, wait, misses>>
    BY <1>7 DEF Fresh, Stale, Checked
  <2>2. at \in Clients  BY <2>1 DEF Inv, AtRightPlace
  <2>3. \A k \in Clients : age'[k] \in Nat /\ age'[k] <= age[k]
    BY <1>1, <1>2, <1>7 DEF Fresh, Stale, Updated
  <2>4. age'[at] < MaxAge(at) + Lag
    <3>1. CASE Fresh  BY <1>1, <1>2, <2>2, <3>1 DEF Fresh
    <3>2. CASE Stale
      <4>1. age'[at] <= Lag  BY <1>1, <1>2, <2>2, <3>2 DEF Stale, Updated
      <4> QED  BY <1>2, <2>2, <2>3, <4>1
    <3> QED  BY <1>7, <3>1, <3>2
  <2>5. \A k \in Clients : (k < at' /\ ~(k < at)) => k = at  BY <1>2, <2>1, <2>2
  <2>6. \A k \in Clients : k < at => k < at'  BY <1>2, <2>1, <2>2
  <2>7. Budget'  BY <2>1, <2>3, <2>4, <2>5, <2>6, BudgetAwake
  <2> QED  BY <2>1, <2>7 DEF FreshOnes
<1>8. ASSUME pc # "sleep", pc' = "sleep", misses' = 0, wait' \in 0..Cap, wait' = backoff',
             UNCHANGED <<age, lost>>, \A k \in Clients : Reached(k) => Behind(k)
      PROVE  Budget' /\ FreshOnes'
  <2>1. 0 \in 0..MaxMisses  BY TimesAssumption
  <2>2. Budget'  BY <1>3, <1>8, <2>1, BudgetAsleep DEF Budget, Behind
  <2>3. ASSUME NEW k \in Clients, Reached(k) PROVE age[k] + wait' < Young(k) + wait'
    <3>1. age[k] + wait < Young(k)  BY <1>8, <2>3 DEF Budget
    <3> QED  BY <1>1, <1>2, <1>8, <3>1
  <2>4. FreshOnes'  BY <1>3, <1>8, <2>3 DEF FreshOnes
  <2> QED  BY <2>2, <2>4
<1>9. ASSUME pc # "sleep", pc' = "sleep", misses < MaxMisses, misses' = misses + 1,
             wait' \in 0..Cap, UNCHANGED <<age, lost>>
      PROVE  Budget' /\ FreshOnes'
  <2>1. misses' \in 0..MaxMisses /\ misses' # 0  BY <1>1, <1>9, TimesAssumption
  <2>2. Budget'  BY <1>3, <1>9, <2>1, BudgetAsleep DEF Budget, Behind
  <2> QED  BY <2>1, <2>2 DEF FreshOnes
<1>10. CASE PassEnds
  <2>1. \A k \in Clients : Behind(k)
    BY <1>10, TimesAssumption DEF PassEnds, Behind, Inv, TypeOK, Clients
  <2> QED  BY <1>2, <1>8, <1>10, <2>1 DEF PassEnds
<1>11. Backoff \in 0..Cap
  BY TimesAssumption DEF Backoff, Smaller, Inv, TypeOK
<1>12. CASE Refused
  <2>1. pc # "sleep"  BY <1>12 DEF Refused, RefusedRound, RefusedUpdate
  <2>2. \A k \in Clients : Reached(k) => Behind(k)  BY <1>12, RefusedBehind
  <2> QED  BY <1>8, <1>11, <1>12, <2>1, <2>2 DEF Refused, PassFails
<1>13. CASE Interrupted
  BY <1>9, <1>11, <1>13 DEF Interrupted, PassFails, Miss
<1>14. CASE Restarted
  BY <1>9, <1>14 DEF Restarted, Miss
<1>15. CASE UNCHANGED vars
  <2>1. UNCHANGED <<age, lost, pc, at, wait, backoff, misses>>  BY <1>15 DEF vars
  <2> QED  BY <2>1 DEF Budget, FreshOnes, Behind, Reached
<1> QED  BY <1>4, <1>5, <1>6, <1>7, <1>10, <1>12, <1>13, <1>14, <1>15 DEF Next

LEMMA FreshInit == Init => FreshOnes
<1> SUFFICES ASSUME Init, NEW k \in Clients, Reached(k)
             PROVE  age[k] + wait < Young(k) + backoff
  BY DEF FreshOnes
<1>1. k \notin lost
  BY TimesAssumption DEF Reached, LastOfLink, Clients
<1>2. age[k] = 0 /\ wait = 0 /\ backoff \in Nat  BY <1>1, TimesAssumption DEF Init
<1> QED  BY <1>2, Numbers, TimesAssumption

LEMMA BudgetAlways == Spec /\ ConfigFits => [](Inv /\ Budget /\ FreshOnes)
<1>1. Init => Inv /\ Budget /\ FreshOnes  BY InvInit, BudgetInit, FreshInit
<1>2. ConfigFits /\ (Inv /\ Budget /\ FreshOnes) /\ [Next]_vars => (Inv /\ Budget /\ FreshOnes)'
  BY InvNext, BudgetNext
<1>3. ConfigFits => []ConfigFits
  OBVIOUS
<1> QED  BY <1>1, <1>2, <1>3, PTL DEF Spec

\* If the maximal ages leave that room, no client that passes reach ever
\* expires: NoneExpires for any number of links, periods, lags and backoffs.
THEOREM ReachedClientsLive == Spec => []NoneExpires
<1>1. Inv /\ Budget /\ ConfigFits => NoneExpires  BY NotExpired DEF NoneExpires
<1>2. ~ConfigFits => NoneExpires  BY DEF NoneExpires
<1>3. ConfigFits => []ConfigFits  OBVIOUS
<1>4. ~ConfigFits => []~ConfigFits  OBVIOUS
<1> QED  BY BudgetAlways, <1>1, <1>2, <1>3, <1>4, PTL

\* The maximal ages bound what a client's age is after a pass that was not
\* broken off: FreshAfterPass.
THEOREM PassesKeepFresh == Spec => []FreshAfterPass
<1>1. Inv /\ FreshOnes => FreshAfterPass
  <2> SUFFICES ASSUME Inv, FreshOnes, pc = "sleep", misses = 0, NEW k \in Clients, Reached(k)
               PROVE  age[k] + wait < MaxAge(k) + Lag + PassTime + backoff
    BY DEF FreshAfterPass, Option, MaxAge, FirstOfLink
  <2> QED  BY DEF FreshOnes, Young
<1>2. ~ConfigFits => FreshAfterPass  BY DEF FreshAfterPass
<1>3. ~ConfigFits => []~ConfigFits  OBVIOUS
<1> QED  BY BudgetAlways, <1>1, <1>2, <1>3, PTL

\* A link behind a client that had expired is never updated again, whatever
\* the times: StarvedBehindExpired.
THEOREM ExpiredStarves == Spec => StarvedBehindExpired
<1>1. ASSUME Inv, [Next]_vars, NEW k \in Clients, NEW j \in lost, k > LastOfLink(j)
      PROVE  age'[k] >= age[k]
  <2>1. j \in Clients /\ age[k] \in Nat /\ Oldest(k) \in Nat  BY <1>1, Numbers DEF Inv, TypeOK
  <2>2. pc # "sleep" => at <= j /\ j \in Nat /\ k \in Nat /\ at \in Nat
    BY <1>1, <2>1 DEF Inv, TypeOK, StaysLost, Clients
  <2>3. CASE Tick  BY <2>1, <2>3 DEF Tick
  <2>4. ASSUME NEW K \in SUBSET OfLink, Round(K) PROVE age'[k] >= age[k]
    <3>1. FirstOfLink(at)  BY <1>1, <2>4 DEF Round, Inv, AtRightPlace, FirstOfLink
    <3>2. k # at /\ k # at + 1
      BY <1>1, <2>2, <2>4, <3>1 DEF LastOfLink, Round
    <3>3. age'[k] = age[k]  BY <2>4, <3>2 DEF Round, Updated, OfLink
    <3> QED  BY <2>1, <3>3
  <2>5. CASE Stale
    <3>1. k # at  BY <1>1, <2>2, <2>5 DEF LastOfLink, Stale
    <3>2. age'[k] = age[k]  BY <2>5, <3>1 DEF Stale, Updated
    <3> QED  BY <2>1, <3>2
  <2>6. ASSUME UNCHANGED age PROVE age'[k] >= age[k]  BY <2>1, <2>6
  <2> QED  BY <1>1, <2>3, <2>4, <2>5, <2>6
        DEF Next, vars, Wake, Fresh, PassEnds, Refused, Interrupted, Restarted, PassFails
<1>2. Inv /\ [Next]_vars => [\A k \in Clients, j \in lost : k > LastOfLink(j) => age'[k] >= age[k]]_vars
  BY <1>1
<1> QED  BY InvInit, InvNext, <1>2, PTL DEF Spec, StarvedBehindExpired

==============================================================================
