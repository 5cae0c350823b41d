-------------------------- MODULE ConsensusProofs --------------------------
(***************************************************************************)
(* Proofs about Consensus, for every registry, every policy and every      *)
(* number of calls and crashes.                                            *)
(*                                                                         *)
(* Slashing is final: the list on disk is the list in memory whenever      *)
(* there is one, so that a restart is unable to give stake back.  A slash  *)
(* makes no money: what it takes covers what it pays, burns and keeps, and *)
(* rounding leaves over less than one token for each honest validator.     *)
(*                                                                         *)
(* Two ends of the chain: stakes that are gone do not come back, and once  *)
(* the penalties outlast the stakes they drain them.                       *)
(***************************************************************************)
EXTENDS Consensus, SequenceTheorems, SumTheorems, TLAPS

\* The list in memory and the list on disk are one.
ListIsSaved ==
  /\ stake \in [Validators -> Nat]
  /\ file \in [Validators -> Nat]
  /\ registered \in BOOLEAN /\ fileHasList \in BOOLEAN
  /\ fileHasList = registered
  /\ registered => file = stake
  /\ granted \in Nat
  /\ pending \in Seq(Slashes) /\ proposer \in Validators

LEMMA MinMax ==
  \A a, b \in Nat : Min(a, b) \in Nat /\ Max(a, b) \in Nat /\ Min(a, b) <= b
BY DEF Min, Max

LEMMA FaultType ==
  ASSUME NEW v \in Validators, NEW n \in Nat, NEW r \in Reporters \cup {NoReporter}
  PROVE  Fault(v, n, r) \in Slashes
BY DEF Fault, Slashes, SlashKinds

\* The amount is a number that the stake covers.
LEMMA SlashIsCovered ==
  ASSUME NEW s \in Slashes, stake \in [Validators -> Nat]
  PROVE  SlashedAmount(s) \in Nat /\ SlashedAmount(s) <= stake[s.offender]
<1> DEFINE have == stake[s.offender]
           least == have \div 10000
           want == IF s.kind = "downtime" THEN Max(1, least) ELSE s.amount
<1>1. have \in Nat /\ s.amount \in Nat BY DEF Slashes
<1> HIDE DEF have
<1>2. least \in Nat BY <1>1
<1> HIDE DEF least
<1>3. Max(1, least) \in Nat BY <1>2, MinMax
<1>4. want \in Nat BY <1>1, <1>3
<1>5. SlashedAmount(s) = Min(want, have)
  BY DEF SlashedAmount, have, least
<1> HIDE DEF want
<1>6. Min(want, have) \in Nat /\ Min(want, have) <= have BY <1>1, <1>4, MinMax
<1> QED BY <1>5, <1>6 DEF have

LEMMA InitSaved == Init => ListIsSaved
BY StakesAssumption DEF Init, ListIsSaved

\* One ApplySlash: the stake shrinks, and the list is written.
LEMMA SlashKeepsSaved ==
  ASSUME ListIsSaved, ApplySlash
  PROVE  /\ ListIsSaved'
         /\ \A v \in Validators : stake'[v] <= stake[v]
<1> DEFINE s == Head(pending)
           actual == SlashedAmount(s)
<1>1. /\ pending \in Seq(Slashes) /\ pending # << >> /\ pending' = Tail(pending)
      /\ UNCHANGED <<registered, granted, proposer>>
  BY DEF ListIsSaved, ApplySlash, countVars, registryVars, commitVars
<1>2. s \in Slashes /\ pending' \in Seq(Slashes) BY <1>1
<1>3. actual \in Nat /\ actual <= stake[s.offender] /\ s.offender \in Validators
  BY <1>2, SlashIsCovered DEF ListIsSaved, Slashes
<1> HIDE DEF actual
<1>4. \/ UNCHANGED <<stake, file, fileHasList>>
      \/ /\ stake' = [stake EXCEPT ![s.offender] = @ - actual]
         /\ file' = stake' /\ fileHasList' = registered'
  BY DEF ApplySlash, SaveValidators, registryVars, diskVars, actual
<1> HIDE DEF s
<1>5. CASE UNCHANGED <<stake, file, fileHasList>>
  BY <1>1, <1>2, <1>5 DEF ListIsSaved
<1>6. CASE /\ stake' = [stake EXCEPT ![s.offender] = @ - actual]
           /\ file' = stake' /\ fileHasList' = registered'
  <2>1. stake[s.offender] - actual \in Nat /\ stake[s.offender] - actual <= stake[s.offender]
    BY <1>3 DEF ListIsSaved
  <2>2. stake' \in [Validators -> Nat] BY <1>6, <2>1 DEF ListIsSaved
  <2>3. \A v \in Validators : stake'[v] <= stake[v] BY <1>6, <2>1 DEF ListIsSaved
  <2> QED BY <1>1, <1>2, <1>6, <2>2, <2>3 DEF ListIsSaved
<1> QED BY <1>4, <1>5, <1>6

\* A restart loads what is on disk: the same list, or none.
LEMMA RestartKeepsSaved ==
  ASSUME ListIsSaved, NEW torn \in BOOLEAN, Restart(torn)
  PROVE  /\ ListIsSaved'
         /\ \A v \in Validators : stake'[v] <= stake[v]
<1>1. /\ fileHasList' = (fileHasList /\ ~torn) /\ registered' = fileHasList'
      /\ stake' = IF fileHasList' THEN file ELSE [v \in Validators |-> 0]
      /\ pending' = << >> /\ UNCHANGED <<file, granted, proposer>>
  BY DEF Restart
<1>2. CASE fileHasList'
  <2>1. stake' = stake /\ fileHasList /\ registered' = TRUE
    BY <1>1, <1>2 DEF ListIsSaved
  <2> QED BY <1>1, <1>2, <2>1 DEF ListIsSaved
<1>3. CASE ~fileHasList'
  <2>1. stake' = [v \in Validators |-> 0] BY <1>1, <1>3
  <2>2. registered' \in BOOLEAN /\ fileHasList' \in BOOLEAN
    BY <1>1 DEF ListIsSaved
  <2>3. \A v \in Validators : stake'[v] <= stake[v] BY <2>1 DEF ListIsSaved
  <2>4. stake' \in [Validators -> Nat] BY <2>1
  <2> QED BY <1>1, <1>3, <2>2, <2>3, <2>4 DEF ListIsSaved
<1> QED BY <1>2, <1>3

\* FixValidators is the one step that hands out stake.
LEMMA FixKeepsSaved ==
  ASSUME ListIsSaved, FixValidators
  PROVE  ListIsSaved' /\ (FixStake > 0 => granted' > granted)
<1>1. Len(Registry) \in Nat \ {0}
  BY RegistryAssumption, EmptySeq, LenProperties
<1>2. FixStake \in Nat BY StakesAssumption
<1>3. /\ registered' = TRUE /\ stake' = [v \in Validators |-> FixStake]
      /\ granted' = granted + FixStake * Len(Registry)
      /\ file' = stake' /\ fileHasList' = registered' /\ UNCHANGED <<pending, proposer>>
  BY DEF FixValidators, SaveValidators, Call, commitVars
<1> DEFINE n == Len(Registry)
<1> HIDE DEF n
<1>4. FixStake * n \in Nat /\ (FixStake > 0 => FixStake * n > 0)
  BY <1>1, <1>2 DEF n
<1>5. granted' \in Nat /\ (FixStake > 0 => granted' > granted)
  BY <1>3, <1>4 DEF ListIsSaved, n
<1>6. stake' \in [Validators -> Nat] BY <1>2, <1>3
<1> QED BY <1>3, <1>5, <1>6 DEF ListIsSaved

\* The calls that only queue slashes queue proper ones.
LEMMA ClusterType ==
  ASSUME NEW n \in Nat
  PROVE  (n * 40) \div 100 \in Nat /\ n - ((n * 40) \div 100) \in Nat
<1> DEFINE q == (n * 40) \div 100
<1>1. q \in Nat /\ q <= n OBVIOUS
<1> HIDE DEF q
<1>2. n - q \in Nat BY <1>1
<1> QED BY <1>1, <1>2 DEF q

LEMMA OperatorCases ==
  ASSUME OperatorStep
  PROVE  \/ \E v \in Validators, scope \in Scopes, d \in Durations : Suspend(v, scope, d)
         \/ \E list \in Seq(Slashes) : Slash(list)
         \/ SaveBalancesNow \/ FixValidators
<1> DEFINE R == Reporters \cup {NoReporter}
<1>0. Amounts \subseteq Nat BY StakesAssumption
<1>1. ASSUME NEW v \in Validators, NEW n \in Amounts, NEW r \in R, SlashSafetyFault(v, n, r)
      PROVE  \E list \in Seq(Slashes) : Slash(list)
  <2>1. Fault(v, n, r) \in Slashes BY <1>0, FaultType
  <2>2. <<Fault(v, n, r)>> \in Seq(Slashes) BY <2>1
  <2> QED BY <1>1, <2>2 DEF SlashSafetyFault
<1>2. ASSUME NEW v \in Validators, SlashDowntime(v)
      PROVE  \E list \in Seq(Slashes) : Slash(list)
  <2> DEFINE s == [offender |-> v, amount |-> 0, reporter |-> NoReporter, kind |-> "downtime"]
  <2>1. s \in Slashes BY DEF Slashes, SlashKinds
  <2>2. Slash(<<s>>) BY <1>2 DEF SlashDowntime
  <2> HIDE DEF s
  <2>3. <<s>> \in Seq(Slashes) BY <2>1
  <2> QED BY <2>2, <2>3
<1>3. ASSUME NEW main \in Validators, NEW sub \in Validators, NEW n \in Amounts,
             NEW r \in R, SlashCluster(main, sub, n, r)
      PROVE  \E list \in Seq(Slashes) : Slash(list)
  <2> DEFINE q == (n * 40) \div 100
             f == Fault(sub, n - q, r)
             g == Fault(main, q, r)
  <2>1. q \in Nat /\ n - q \in Nat BY <1>0, ClusterType
  <2>2. Slash(<<f, g>>) BY <1>3 DEF SlashCluster
  <2> HIDE DEF q
  <2>3. f \in Slashes /\ g \in Slashes BY <2>1, FaultType
  <2> HIDE DEF f, g
  <2>4. <<f, g>> \in Seq(Slashes) BY <2>3
  <2> QED BY <2>2, <2>4
<1> QED BY <1>1, <1>2, <1>3 DEF OperatorStep

LEMMA OperatorKeepsSaved ==
  ASSUME ListIsSaved, OperatorStep
  PROVE  ListIsSaved' /\ (UNCHANGED stake \/ FixValidators)
<1>1. ASSUME NEW v \in Validators, NEW scope \in Scopes, NEW d \in Durations,
             Suspend(v, scope, d)
      PROVE  ListIsSaved' /\ UNCHANGED stake
  <2>1. UNCHANGED <<stake, registered, file, fileHasList, pending, granted, proposer>>
    BY <1>1 DEF Suspend, Call, registryVars, diskVars, commitVars
  <2> QED BY <2>1 DEF ListIsSaved
<1>2. ASSUME NEW list \in Seq(Slashes), Slash(list)
      PROVE  ListIsSaved' /\ UNCHANGED stake
  <2>1. pending' = list /\ UNCHANGED <<stake, registered, file, fileHasList, granted, proposer>>
    BY <1>2 DEF Slash, Call, registryVars, diskVars, commitVars
  <2> QED BY <2>1 DEF ListIsSaved
<1>3. ASSUME SaveBalancesNow PROVE ListIsSaved' /\ UNCHANGED stake
  <2>1. UNCHANGED <<stake, registered, file, fileHasList, pending, granted, proposer>>
    BY <1>3 DEF SaveBalancesNow, Call, registryVars, commitVars
  <2> QED BY <2>1 DEF ListIsSaved
<1>4. ASSUME FixValidators PROVE ListIsSaved' BY <1>4, FixKeepsSaved
<1> QED BY <1>1, <1>2, <1>3, <1>4, OperatorCases

\* CommitBlock changes stakes through ApplySlash only.
LEMMA CommitBlockKeepsSaved ==
  ASSUME ListIsSaved, CommitStep
  PROVE  ListIsSaved' /\ \A v \in Validators : stake'[v] <= stake[v]
<1>0. \A v \in Validators : stake[v] \in Nat BY DEF ListIsSaved
<1>1. ASSUME UNCHANGED <<stake, registered, granted>>, pending' \in Seq(Slashes),
             proposer' \in Validators,
             \/ UNCHANGED <<file, fileHasList>>
             \/ file' = stake' /\ fileHasList' = registered'
      PROVE  ListIsSaved' /\ \A v \in Validators : stake'[v] <= stake[v]
  BY <1>0, <1>1 DEF ListIsSaved
<1>2. CASE NoProposer \/ Vote \/ CommitReward \/ SaveBalances
  <2>1. UNCHANGED <<stake, registered, file, fileHasList, pending, granted, proposer>>
    BY <1>2 DEF NoProposer, Vote, CommitReward, SaveBalances, registryVars, diskVars,
       countVars
  <2> QED BY <1>1, <2>1 DEF ListIsSaved
<1>3. CASE SelectProposer
  <2>1. UNCHANGED <<stake, registered, file, fileHasList, pending, granted>>
    BY <1>3 DEF SelectProposer, registryVars, diskVars, countVars
  <2>2. PICK pick \in Validators : proposer' \in Eligible(pick)
    BY <1>3 DEF SelectProposer
  <2>3. \A i \in DOMAIN Registry : Registry[i] \in Validators
    BY DEF Validators, Range
  <2>4. proposer' \in Validators BY <2>2, <2>3 DEF Eligible
  <2> QED BY <1>1, <2>1, <2>4 DEF ListIsSaved
<1>4. CASE RejectBlock
  <2>1. UNCHANGED <<stake, registered, file, fileHasList, granted, proposer>>
    BY <1>4 DEF RejectBlock, registryVars, diskVars, countVars
  <2>2. proposer \in Validators BY DEF ListIsSaved
  <2> DEFINE s == Fault(proposer, Penalty, NoReporter)
  <2>3. s \in Slashes BY <2>2, FaultType, StakesAssumption
  <2>4. pending' = <<s>> BY <1>4 DEF RejectBlock
  <2> HIDE DEF s
  <2>5. pending' \in Seq(Slashes) BY <2>3, <2>4
  <2> QED BY <1>1, <2>1, <2>2, <2>5
<1>5. CASE FinishSave
  <2>1. /\ UNCHANGED <<stake, registered, pending, granted, proposer>>
        /\ file' = stake' /\ fileHasList' = registered'
    BY <1>5 DEF FinishSave, SaveValidators, registryVars, countVars
  <2> QED BY <1>1, <2>1 DEF ListIsSaved
<1>6. CASE ApplySlash BY <1>6, SlashKeepsSaved
<1> QED BY <1>2, <1>3, <1>4, <1>5, <1>6 DEF CommitStep

-----------------------------------------------------------------------------
\* What FixValidators grants is counted, so that every other step only takes.
LEMMA NextSaved ==
  ASSUME ListIsSaved, [Next]_vars
  PROVE  /\ ListIsSaved'
         /\ \A v \in Validators : stake'[v] <= stake[v] \/ granted' > granted
<1>0. \A v \in Validators : stake[v] \in Nat BY DEF ListIsSaved
<1>1. CASE CommitStep BY <1>1, CommitBlockKeepsSaved
<1>2. CASE OperatorStep
  <2>1. ListIsSaved' BY <1>2, OperatorKeepsSaved
  <2>2. CASE UNCHANGED stake BY <1>0, <2>1, <2>2
  <2>3. CASE FixValidators
    <3>1. FixStake \in Nat /\ (FixStake > 0 => granted' > granted)
      BY <2>3, FixKeepsSaved, StakesAssumption
    <3>2. \A v \in Validators : stake'[v] = FixStake BY <2>3 DEF FixValidators
    <3> QED BY <1>0, <2>1, <3>1, <3>2
  <2> QED BY <1>2, <2>2, <2>3, OperatorKeepsSaved
<1>3. CASE Tick
  <2>1. UNCHANGED <<stake, registered, file, fileHasList, pending, granted, proposer>>
    BY <1>3 DEF Tick, registryVars, diskVars, countVars
  <2> QED BY <1>0, <2>1 DEF ListIsSaved
<1>4. ASSUME NEW torn \in BOOLEAN, Restart(torn)
      PROVE  ListIsSaved' /\ \A v \in Validators : stake'[v] <= stake[v]
  BY <1>4, RestartKeepsSaved
<1>5. CASE UNCHANGED vars
  <2>1. UNCHANGED <<stake, registered, file, fileHasList, pending, granted, proposer>>
    BY <1>5 DEF vars, registryVars, diskVars, countVars, commitVars
  <2> QED BY <1>0, <2>1 DEF ListIsSaved
<1> QED BY <1>1, <1>2, <1>3, <1>4, <1>5 DEF Next, AnyStepButTick

\* The list of validators on disk is the one in memory, in every reachable state.
THEOREM SavedList == Spec => []ListIsSaved
BY InitSaved, NextSaved, PTL DEF Spec

\* No crash, wherever it strikes, and no call but FixValidators gives slashed stake
\* back (ApplySlash writes validators.json before it returns).
THEOREM SlashIsFinal == Spec => StakeNeverReturns
<1>1. ListIsSaved /\ [Next]_vars
        => [\A v \in Validators : stake'[v] <= stake[v] \/ granted' > granted]_vars
  BY NextSaved
<1> QED BY <1>1, SavedList, PTL DEF Spec, StakeNeverReturns

-----------------------------------------------------------------------------
(* The shares of a slash *)

\* The registry lists every validator once.
LEMMA ValidatorsCount ==
  /\ IsFiniteSet(Validators) /\ Cardinality(Validators) = Len(Registry)
  /\ Len(Registry) \in Nat \ {0} /\ IsFiniteSet(Accounts)
<1> DEFINE n == Len(Registry)
<1>1. /\ n \in Nat \ {0} /\ DOMAIN Registry = 1..n /\ Registry \in [1..n -> Validators]
  BY RegistryAssumption, EmptySeq, LenProperties
<1>2. \A v \in Validators : \E i \in 1..n : Registry[i] = v
  BY <1>1 DEF Validators, Range
<1>3. \A i, j \in 1..n : Registry[i] = Registry[j] => i = j
  BY <1>1, RegistryAssumption DEF IsInjective
<1>4. Registry \in Surjection(1..n, Validators) /\ Registry \in Injection(1..n, Validators)
  BY <1>1, <1>2, <1>3 DEF Surjection, Injection, IsInjective
<1> HIDE DEF n
<1>5. IsFiniteSet(1..n) /\ Cardinality(1..n) = n BY <1>1, FS_Interval
<1>6. IsFiniteSet(Validators) /\ Cardinality(Validators) = n
  BY <1>4, <1>5, FS_Surjection
<1>7. IsFiniteSet(Accounts) BY <1>6, FS_Union, RegistryAssumption DEF Accounts
<1> QED BY <1>1, <1>6, <1>7 DEF n

\* The parts of a slash are numbers and add up to it.
LEMMA PartsOfSlash ==
  ASSUME NEW total \in Nat
  PROVE  /\ Burn(total) \in Nat /\ Treasury(total) \in Nat /\ Whistle(total) \in Nat
         /\ Honest(total) \in Nat
         /\ Burn(total) + Treasury(total) + Whistle(total) + Honest(total) = total
BY DEF Burn, Treasury, Whistle, Honest

\* What the others have staked.
LEMMA OthersStake ==
  ASSUME stake \in [Validators -> Nat], NEW o \in Validators
  PROVE  /\ TotalStake \in Nat /\ TotalStake - stake[o] \in Nat
         /\ TotalStake - stake[o] = SumFunction([v \in Validators \ {o} |-> stake[v]])
<1> DEFINE z == [stake EXCEPT ![o] = 0]
           w == [v \in Validators \ {o} |-> stake[v]]
<1>1. IsFiniteSet(Validators) BY ValidatorsCount
<1>2. stake \in [Validators -> Int] /\ z \in [Validators -> Int] /\ 0 \in Int OBVIOUS
<1>3. SumFunction(z) = SumFunction(stake) + (0 - stake[o]) BY <1>1, <1>2, SumUpdate
<1>4. /\ Validators \ {o} \in SUBSET Validators
      /\ \A v \in Validators \ (Validators \ {o}) : z[v] = 0
  OBVIOUS
<1>5. w \in [Validators \ {o} -> Int] /\ \A v \in Validators \ {o} : w[v] = z[v] OBVIOUS
<1> HIDE DEF z, w
<1>6. SumFunction(z) = SumFunction(w) BY <1>1, <1>2, <1>4, <1>5, SumSupport
<1>7. TotalStake \in Nat /\ stake[o] <= TotalStake /\ stake[o] \in Nat
  BY <1>1, SumNat DEF TotalStake
<1> HIDE DEF w
<1> QED BY <1>3, <1>6, <1>7 DEF TotalStake, w

SharesOf(o, total) == [v \in Validators |-> HonestShare(v, o, total)]

\* The shares of the honest validators fit into their part, and rounding leaves over less
\* than one token for each of them; the offender gets nothing.
LEMMA SharesFit ==
  ASSUME stake \in [Validators -> Nat], NEW o \in Validators, NEW total \in Nat
  PROVE  /\ SharesOf(o, total) \in [Validators -> Nat]
         /\ SumFunction(SharesOf(o, total)) \in Nat
         /\ TotalStake - stake[o] = 0 => SumFunction(SharesOf(o, total)) = 0
         /\ TotalStake - stake[o] # 0 =>
              /\ SumFunction(SharesOf(o, total)) <= Honest(total)
              /\ Len(Registry) >= 2
              /\ Honest(total) <= SumFunction(SharesOf(o, total)) + (Len(Registry) - 2)
<1> DEFINE q == SharesOf(o, total)
           R == TotalStake - stake[o]
           H == Honest(total)
           E == Validators \ {o}
           w == [v \in E |-> stake[v]]
           p == [v \in E |-> q[v]]
           n == Len(Registry)
<1>1. /\ IsFiniteSet(Validators) /\ Cardinality(Validators) = n /\ n \in Nat
  BY ValidatorsCount
<1>2. R \in Nat /\ R = SumFunction(w) BY OthersStake
<1>3. H \in Nat BY PartsOfSlash
<1>4. IsFiniteSet(E) /\ Cardinality(E) = n - 1
  BY <1>1, FS_RemoveElement
<1>5. \A v \in Validators :
        q[v] = IF v = o \/ R = 0 THEN 0 ELSE (H * stake[v]) \div R
  BY DEF SharesOf, HonestShare
<1>6. \A v \in Validators : stake[v] \in Nat OBVIOUS
<1>6a. q = [v \in Validators |-> q[v]] BY DEF SharesOf
<1> HIDE DEF q, R, H
<1>7. \A v \in Validators : q[v] \in Nat
  <2> SUFFICES ASSUME NEW v \in Validators, R # 0 PROVE (H * stake[v]) \div R \in Nat
    BY <1>5
  <2> DEFINE x == stake[v]
  <2>1. x \in Nat BY <1>6
  <2> HIDE DEF x
  <2>2. H * x \in Nat BY <1>3, <2>1, ProductType
  <2>3. (H * x) \div R \in Nat BY <1>2, <2>2, DivLaw
  <2> QED BY <2>3 DEF x
<1>8. q \in [Validators -> Nat] BY <1>6a, <1>7
<1>9. SumFunction(q) \in Nat BY <1>1, <1>8, SumNat
<1>10. q \in [Validators -> Int] BY <1>8
<1>11. ASSUME R = 0 PROVE SumFunction(q) = 0
  <2>1. \A v \in Validators : q[v] = 0 BY <1>5, <1>11
  <2> QED BY <1>1, <1>10, <2>1, SumZero
<1>12. ASSUME R # 0
       PROVE  SumFunction(q) <= H /\ n >= 2 /\ H <= SumFunction(q) + (n - 2)
  <2>1. SumFunction(q) = SumFunction(p)
    <3>1. E \in SUBSET Validators /\ \A v \in Validators \ E : q[v] = 0 BY <1>5
    <3>2. IsFiniteSet(Validators) BY <1>1
    <3>3. p \in [E -> Int] /\ \A v \in E : p[v] = q[v] BY <1>6, <1>7, <1>10
    <3> HIDE DEF E, p
    <3> QED BY <1>10, <3>1, <3>2, <3>3, SumSupport
  <2>2. w \in [E -> Nat] /\ p \in [E -> Nat] BY <1>6, <1>7
  <2>3. \A v \in E : p[v] = (H * w[v]) \div R BY <1>5, <1>12
  <2>4. R > 0 BY <1>2, <1>12
  <2> HIDE DEF E, w, p
  <2>5. /\ SumFunction(p) <= H /\ Cardinality(E) > 0
        /\ H <= SumFunction(p) + (Cardinality(E) - 1)
    <3>1. IsFiniteSet(E) /\ H \in Nat /\ R \in Nat /\ R = SumFunction(w)
      BY <1>2, <1>3, <1>4
    <3> QED BY ONLY <2>2, <2>3, <2>4, <3>1, Rounding
  <2> HIDE DEF n
  <2> QED BY <1>1, <1>4, <1>9, <2>1, <2>5
<1> QED BY <1>8, <1>9, <1>11, <1>12 DEF q, R, H

-----------------------------------------------------------------------------
(* What distributeSlashed pays out *)

\* What rounding leaves over.
Residue(o, total) ==
  IF TotalStake - stake[o] = 0 THEN 0
  ELSE Honest(total) - SumFunction(SharesOf(o, total))

Sinks == SumFunction(Balances) + TreasuryBalance + BurnedSupply

LEMMA ResidueIsSmall ==
  ASSUME stake \in [Validators -> Nat], NEW o \in Validators, NEW total \in Nat
  PROVE  Residue(o, total) \in 0..Max(0, Len(Registry) - 2)
<1> DEFINE h == Honest(total)
           n == Len(Registry)
           R == TotalStake - stake[o]
           u == SumFunction(SharesOf(o, total))
<1>1. h \in Nat /\ n \in Nat BY PartsOfSlash, ValidatorsCount
<1>2. u \in Nat /\ (R # 0 => u <= h /\ n >= 2 /\ h <= u + (n - 2)) BY SharesFit
<1>3. Residue(o, total) = IF R = 0 THEN 0 ELSE h - u BY DEF Residue
<1> HIDE DEF h, n, R, u
<1>4. Max(0, n - 2) = IF 0 >= n - 2 THEN 0 ELSE n - 2 BY DEF Max
<1>5. Residue(o, total) \in 0..Max(0, n - 2) BY <1>1, <1>2, <1>3, <1>4
<1> QED BY <1>5 DEF n

\* Everything of a slash but the residue reaches an account, the treasury or the
\* burned supply.
LEMMA DistributeSum ==
  ASSUME TypeOK, NEW s \in Slashes, NEW total \in Nat, Distribute(s, total)
  PROVE  /\ Balances' \in [Accounts -> Nat] /\ TreasuryBalance' \in Nat /\ BurnedSupply' \in Nat
         /\ Sinks \in Nat /\ Sinks' = Sinks + total - Residue(s.offender, total)
<1> DEFINE o == s.offender
           others == TotalStake - stake[o]
           q == SharesOf(o, total)
           burn == Burn(total)
           treasury == Treasury(total)
           whistle == Whistle(total)
           honest == Honest(total)
           pay == [a \in Accounts |-> IF a = s.reporter THEN whistle ELSE 0]
           share == [a \in Accounts |-> IF a \in Validators THEN q[a] ELSE 0]
           mid == [a \in Accounts |-> Balances[a] + pay[a]]
<1>1. /\ stake \in [Validators -> Nat] /\ Balances \in [Accounts -> Nat]
      /\ TreasuryBalance \in Nat /\ BurnedSupply \in Nat
      /\ o \in Validators /\ s.reporter \in Reporters \cup {NoReporter}
  BY DEF TypeOK, Slashes
<1>2. /\ burn \in Nat /\ treasury \in Nat /\ whistle \in Nat /\ honest \in Nat
      /\ burn + treasury + whistle + honest = total
  BY PartsOfSlash
<1>3. /\ q \in [Validators -> Nat] /\ SumFunction(q) \in Nat
      /\ others = 0 => SumFunction(q) = 0
  BY <1>1, SharesFit
<1>4. /\ BurnedSupply' = BurnedSupply + burn
      /\ TreasuryBalance' = TreasuryBalance + treasury
                              + (IF s.reporter # NoReporter THEN 0 ELSE whistle)
                              + (IF others = 0 THEN honest ELSE 0)
  BY DEF Distribute
<1>5. Balances' = [a \in Accounts |->
           Balances[a] + (IF a = s.reporter THEN whistle ELSE 0)
             + (IF a \in Validators THEN q[a] ELSE 0)]
  BY DEF Distribute, SharesOf
<1>6. Validators \subseteq Accounts /\ NoReporter \notin Accounts /\ IsFiniteSet(Accounts)
  BY RegistryAssumption, ValidatorsCount DEF Accounts
<1>7. s.reporter # NoReporter => s.reporter \in Accounts BY <1>1 DEF Accounts
<1>8. Residue(o, total) = IF others = 0 THEN 0 ELSE honest - SumFunction(q)
  BY DEF Residue
<1> HIDE DEF burn, treasury, whistle, honest, q, others, o
<1>9. /\ pay \in [Accounts -> Int] /\ share \in [Accounts -> Int] /\ mid \in [Accounts -> Int]
      /\ Balances \in [Accounts -> Int]
  BY <1>1, <1>2, <1>3
<1>10. Balances' \in [Accounts -> Nat] BY <1>1, <1>2, <1>3, <1>5
<1>11. \A a \in Accounts : Balances'[a] = mid[a] + share[a] BY <1>5
<1>12. SumFunction(pay) = IF s.reporter # NoReporter THEN whistle ELSE 0
  <2>1. CASE s.reporter # NoReporter BY <1>2, <1>6, <1>7, <2>1, SumSingle
  <2>2. CASE s.reporter = NoReporter
    <3>1. \A a \in Accounts : pay[a] = 0 BY <1>6, <2>2
    <3> HIDE DEF pay
    <3> QED BY <1>6, <1>9, <2>2, <3>1, SumZero
  <2> QED BY <2>1, <2>2
<1>13. SumFunction(share) = SumFunction(q)
  <2>1. Validators \in SUBSET Accounts /\ \A a \in Accounts \ Validators : share[a] = 0
    BY <1>6
  <2>2. q \in [Validators -> Int] /\ \A v \in Validators : q[v] = share[v] BY <1>3, <1>6
  <2> HIDE DEF share
  <2> QED BY <1>6, <1>9, <2>1, <2>2, SumSupport
<1>14. \A a \in Accounts : mid[a] = Balances[a] + pay[a] OBVIOUS
<1> HIDE DEF pay, share, mid
<1>15. SumFunction(mid) = SumFunction(Balances) + SumFunction(pay)
  BY <1>6, <1>9, <1>14, SumAdd
<1>16. SumFunction(Balances') = SumFunction(mid) + SumFunction(share)
  <2>1. Balances' \in [Accounts -> Int] BY <1>10
  <2> QED BY <1>6, <1>9, <1>11, <2>1, SumAdd
<1>17. SumFunction(Balances) \in Nat BY <1>1, <1>6, SumNat
<1>18. TreasuryBalance' \in Nat /\ BurnedSupply' \in Nat BY <1>1, <1>2, <1>4
<1>19. Sinks \in Nat BY <1>1, <1>17 DEF Sinks
<1>20. Sinks' = Sinks + total - Residue(o, total)
  BY <1>1, <1>2, <1>3, <1>4, <1>8, <1>12, <1>13, <1>15, <1>16, <1>17 DEF Sinks
<1> QED BY <1>10, <1>18, <1>19, <1>20 DEF o

-----------------------------------------------------------------------------
(* Types *)

LEMMA SlashKeepsTypes ==
  ASSUME TypeOK, ApplySlash
  PROVE  TypeOK'
<1> DEFINE s == Head(pending)
           actual == SlashedAmount(s)
           o == s.offender
<1> USE DEF TypeOK
<1>1. /\ pending \in Seq(Slashes) /\ pending # << >> /\ pending' = Tail(pending)
      /\ UNCHANGED <<pc, proposer, tried, height, calls, crashes, granted>>
  BY DEF ApplySlash, commitVars, countVars
<1>2. s \in Slashes /\ pending' \in Seq(Slashes) BY <1>1
<1>3. actual \in Nat /\ actual <= stake[o] /\ o \in Validators
  BY <1>2, SlashIsCovered DEF Slashes
<1>4. CASE UNCHANGED <<registryVars, statusVars, Balances, sinkVars, diskVars>>
  BY <1>1, <1>2, <1>4 DEF registryVars, statusVars, sinkVars, diskVars
<1>5. CASE /\ actual > 0
           /\ stake' = [stake EXCEPT ![o] = @ - actual]
           /\ \/ /\ s.kind = "safety"
                 /\ Distribute(s, actual)
                 /\ SuspendValidator(o, "all", SafetyPeriod)
              \/ /\ s.kind = "downtime"
                 /\ BurnedSupply' = BurnedSupply + actual
                 /\ SuspendValidator(o, "propose", DowntimePeriod)
                 /\ UNCHANGED <<Balances, TreasuryBalance>>
           /\ UNCHANGED <<registered, savedBalances>>
           /\ SaveValidators
  <2> HIDE DEF s, actual
  <2>1. stake[o] - actual \in Nat BY <1>3
  <2>2. stake' \in [Validators -> Nat] BY <1>5, <2>1
  <2>3. file' \in [Validators -> Nat] /\ fileHasList' \in BOOLEAN
    BY <1>5, <2>2 DEF SaveValidators
  <2>4. /\ suspendedFor' \in [Validators -> Nat]
        /\ SuspendScope' \in [Validators -> Scopes \cup {"none"}]
    BY <1>5, TimesAssumption DEF SuspendValidator, Scopes
  <2>5. Balances' \in [Accounts -> Nat] /\ TreasuryBalance' \in Nat /\ BurnedSupply' \in Nat
    <3>1. CASE Distribute(s, actual) BY <1>2, <1>3, <3>1, DistributeSum
    <3>2. CASE /\ BurnedSupply' = BurnedSupply + actual
               /\ UNCHANGED <<Balances, TreasuryBalance>>
      BY <1>3, <3>2
    <3> QED BY <1>5, <3>1, <3>2
  <2> QED BY <1>1, <1>2, <1>5, <2>2, <2>3, <2>4, <2>5
<1> QED BY <1>4, <1>5 DEF ApplySlash

LEMMA CommitKeepsTypes ==
  ASSUME TypeOK, CommitStep
  PROVE  TypeOK'
<1> USE DEF TypeOK, registryVars, statusVars, sinkVars, diskVars, countVars, Goto,
            CommitPlaces
<1>1. CASE SelectProposer
  <2>1. PICK pick \in Validators : proposer' \in Eligible(pick)
    BY <1>1 DEF SelectProposer
  <2>2. \A i \in DOMAIN Registry : Registry[i] \in Validators
    BY DEF Validators, Range
  <2>3. proposer' \in Validators BY <2>1, <2>2 DEF Eligible
  <2> QED BY <1>1, <2>3 DEF SelectProposer
<1>2. CASE NoProposer BY <1>2 DEF NoProposer
<1>3. CASE Vote BY <1>3 DEF Vote
<1>4. CASE RejectBlock
  <2> DEFINE s == Fault(proposer, Penalty, NoReporter)
  <2>1. s \in Slashes BY FaultType, StakesAssumption
  <2>2. pending' = <<s>> BY <1>4 DEF RejectBlock
  <2> HIDE DEF s
  <2>3. pending' \in Seq(Slashes) BY <2>1, <2>2
  <2> QED BY <1>4, <2>3 DEF RejectBlock
<1>5. CASE CommitReward
  <2>1. proposer \in Accounts BY DEF Accounts
  <2>2. Balances[proposer] + BlockReward \in Nat BY <2>1, StakesAssumption
  <2>3. Balances' \in [Accounts -> Nat] BY <1>5, <2>1, <2>2 DEF CommitReward
  <2> QED BY <1>5, <2>3 DEF CommitReward
<1>6. CASE SaveBalances BY <1>6 DEF SaveBalances
<1>7. CASE FinishSave BY <1>7 DEF FinishSave, SaveValidators
<1>8. CASE ApplySlash BY <1>8, SlashKeepsTypes
<1> QED BY <1>1, <1>2, <1>3, <1>4, <1>5, <1>6, <1>7, <1>8 DEF CommitStep

LEMMA FixGrants ==
  ASSUME granted \in Nat
  PROVE  granted + FixStake * Len(Registry) \in Nat
<1> DEFINE n == Len(Registry)
<1>1. n \in Nat /\ FixStake \in Nat BY ValidatorsCount, StakesAssumption
<1> HIDE DEF n
<1>2. FixStake * n \in Nat BY <1>1, ProductType
<1>3. granted + FixStake * n \in Nat BY <1>2
<1> QED BY <1>3 DEF n

LEMMA OperatorKeepsTypes ==
  ASSUME TypeOK, OperatorStep
  PROVE  TypeOK'
<1> USE DEF TypeOK, Call, registryVars, statusVars, sinkVars, diskVars, commitVars
<1>1. ASSUME NEW v \in Validators, NEW scope \in Scopes, NEW d \in Durations,
             Suspend(v, scope, d)
      PROVE  TypeOK'
  <2>1. d \in Nat BY TimesAssumption
  <2> QED BY <1>1, <2>1 DEF Suspend, SuspendValidator
<1>2. ASSUME NEW list \in Seq(Slashes), Slash(list) PROVE TypeOK'
  BY <1>2 DEF Slash
<1>3. CASE SaveBalancesNow BY <1>3 DEF SaveBalancesNow
<1>4. CASE FixValidators
  <2>1. granted' \in Nat BY <1>4, FixGrants DEF FixValidators
  <2>2. stake' \in [Validators -> Nat] BY <1>4, StakesAssumption DEF FixValidators
  <2> QED BY <1>4, <2>1, <2>2 DEF FixValidators, SaveValidators
<1> QED BY <1>1, <1>2, <1>3, <1>4, OperatorCases

LEMMA NextKeepsTypes == TypeOK /\ [Next]_vars => TypeOK'
<1> SUFFICES ASSUME TypeOK, [Next]_vars PROVE TypeOK' OBVIOUS
<1> USE DEF TypeOK, registryVars, statusVars, sinkVars, diskVars, commitVars, countVars
<1>1. CASE CommitStep BY <1>1, CommitKeepsTypes
<1>2. CASE OperatorStep BY <1>2, OperatorKeepsTypes
<1>3. ASSUME NEW torn \in BOOLEAN, Restart(torn) PROVE TypeOK'
  <2>1. suspendedFor' \in [Validators -> Nat] BY <1>3 DEF Restart, NoSuspension
  <2>2. SuspendScope' \in [Validators -> Scopes \cup {"none"}] BY <1>3 DEF Restart
  <2>3. stake' \in [Validators -> Nat] BY <1>3 DEF Restart
  <2>4. pending' \in Seq(Slashes) BY <1>3 DEF Restart
  <2>5. fileHasList' \in BOOLEAN /\ registered' \in BOOLEAN BY <1>3 DEF Restart
  <2>6. /\ Balances' = savedBalances /\ TreasuryBalance' = 0 /\ BurnedSupply' = 0
        /\ pc' = "idle" /\ tried' = FALSE /\ crashes' = crashes + 1
        /\ UNCHANGED <<file, savedBalances, proposer, height, calls, granted>>
    BY <1>3 DEF Restart
  <2>7. crashes' \in Nat /\ TreasuryBalance' \in Nat /\ BurnedSupply' \in Nat
    BY <2>6
  <2>8. Balances' \in [Accounts -> Nat] /\ savedBalances' \in [Accounts -> Nat]
    BY <2>6
  <2>9. file' \in [Validators -> Nat] /\ proposer' \in Validators BY <2>6
  <2>10. height' \in Nat /\ calls' \in Nat /\ granted' \in Nat BY <2>6
  <2>11. pc' \in CommitPlaces /\ tried' \in BOOLEAN BY <2>6 DEF CommitPlaces
  <2> QED
    BY <2>1, <2>2, <2>3, <2>4, <2>5, <2>7, <2>8, <2>9, <2>10, <2>11
<1>4. CASE Tick
  <2>1. \A v \in Validators : Max(0, suspendedFor[v] - 1) \in Nat BY DEF Max
  <2>2. suspendedFor' \in [Validators -> Nat] BY <1>4, <2>1 DEF Tick
  <2> QED BY <1>4, <2>2 DEF Tick
<1>5. CASE UNCHANGED vars BY <1>5 DEF vars
<1> QED BY <1>1, <1>2, <1>3, <1>4, <1>5 DEF Next, AnyStepButTick

LEMMA InitTypes == Init => TypeOK
<1> SUFFICES ASSUME Init PROVE TypeOK OBVIOUS
<1>1. stake \in [Validators -> Nat] /\ file \in [Validators -> Nat]
  BY StakesAssumption DEF Init
<1>2. Balances \in [Accounts -> Nat] /\ savedBalances \in [Accounts -> Nat] BY DEF Init
<1>3. /\ suspendedFor \in [Validators -> Nat]
      /\ SuspendScope \in [Validators -> Scopes \cup {"none"}]
  BY DEF Init, NoSuspension
<1>4. pending \in Seq(Slashes) BY DEF Init
<1> QED BY <1>1, <1>2, <1>3, <1>4 DEF Init, TypeOK, CommitPlaces

\* TypeOK for any registry: no slash takes more than there is, and no share is negative.
THEOREM TypeCorrect == Spec => []TypeOK
BY InitTypes, NextKeepsTypes, PTL DEF Spec

-----------------------------------------------------------------------------
(* Money *)

\* Without a list there is no stake.
Emptied == registered \/ \A v \in Validators : stake[v] = 0

\* The inductive form of NoInflation.
MoneyInv == TypeOK /\ ListIsSaved /\ Emptied /\ NoInflation

\* The sums are numbers; memory is the stakes and all they can be turned into.
Sums ==
  /\ TotalStake \in Nat /\ SumFunction(Balances) \in Nat
  /\ SumFunction(file) \in Nat /\ SumFunction(savedBalances) \in Nat
  /\ Sinks \in Nat /\ SumFunction(Balances) <= Sinks /\ InMemory = TotalStake + Sinks
  /\ InMemory \in Nat /\ OnDisk \in Nat /\ Budget \in Nat /\ Lost = Budget - InMemory

LEMMA SumsAreNumbers == TypeOK => Sums
<1> SUFFICES ASSUME TypeOK PROVE Sums OBVIOUS
<1>1. IsFiniteSet(Validators) /\ IsFiniteSet(Accounts) BY ValidatorsCount
<1>2. /\ TotalStake \in Nat /\ SumFunction(Balances) \in Nat
      /\ SumFunction(file) \in Nat /\ SumFunction(savedBalances) \in Nat
  BY <1>1, SumNat DEF TypeOK, TotalStake
<1>3. TreasuryBalance \in Nat /\ BurnedSupply \in Nat BY DEF TypeOK
<1>4. /\ Sinks \in Nat /\ SumFunction(Balances) <= Sinks /\ InMemory = TotalStake + Sinks
      /\ InMemory \in Nat /\ OnDisk \in Nat
  BY <1>2, <1>3 DEF Sinks, InMemory, OnDisk
<1>5. Budget \in Nat
  <2>1. SumFunction(InitStake) \in Nat BY <1>1, SumNat, StakesAssumption
  <2>2. BlockReward * height \in Nat BY ProductType, StakesAssumption DEF TypeOK
  <2>3. granted \in Nat BY DEF TypeOK
  <2> QED BY <2>1, <2>2, <2>3 DEF Budget
<1> QED BY <1>2, <1>4, <1>5 DEF Sums, Lost

LEMMA SumsStayNumbers == TypeOK' => Sums'
BY SumsAreNumbers, PTL

Small == Max(0, Len(Registry) - 2)

\* A step that loses no more than rounding does, and keeps the disk within the budget.
Careful == Lost' - Lost \in 0..Small /\ OnDisk' <= Budget'

LEMMA SmallType == Small \in Nat
BY ValidatorsCount DEF Small, Max

LEMMA CarefulKeepsMoney ==
  ASSUME MoneyInv, TypeOK', Careful
  PROVE  NoInflation' /\ Lost' <= Lost + Small
<1> DEFINE M == InMemory  M1 == InMemory'  B == Budget  B1 == Budget'
           l == Lost  l1 == Lost'
<1>1. Sums /\ Sums' BY SumsAreNumbers, SumsStayNumbers DEF MoneyInv
<1>2. M <= B /\ M \in Nat /\ B \in Nat /\ l = B - M
  BY <1>1 DEF Sums, MoneyInv, NoInflation
<1>3. M1 \in Nat /\ B1 \in Nat /\ l1 = B1 - M1 BY <1>1 DEF Sums
<1>4. l1 - l \in 0..Small BY DEF Careful
<1>5. OnDisk' <= Budget' BY DEF Careful
<1> HIDE DEF M, M1, B, B1, l, l1
<1>6. M1 <= B1 /\ l1 <= l + Small BY <1>2, <1>3, <1>4, SmallType
<1> QED BY <1>5, <1>6 DEF NoInflation, M1, B1, l, l1

\* What g mints, the step keeps up to rounding, and the disk follows.
LEMMA StepIsCareful ==
  ASSUME TypeOK, TypeOK', NoInflation, NEW g \in Nat, Budget' = Budget + g,
         InMemory + g - InMemory' \in 0..Small,
         OnDisk' <= OnDisk + g \/ OnDisk' <= InMemory
  PROVE  Careful
<1> DEFINE M == InMemory  M1 == InMemory'  B == Budget  B1 == Budget'
           D == OnDisk  D1 == OnDisk'  l == Lost  l1 == Lost'
<1>1. Sums /\ Sums' BY SumsAreNumbers, SumsStayNumbers
<1>2. /\ M \in Nat /\ B \in Nat /\ D \in Nat /\ l = B - M /\ M <= B /\ D <= B
  BY <1>1 DEF Sums, NoInflation
<1>3. M1 \in Nat /\ B1 \in Nat /\ D1 \in Nat /\ l1 = B1 - M1 BY <1>1 DEF Sums
<1>4. B1 = B + g /\ M + g - M1 \in 0..Small /\ (D1 <= D + g \/ D1 <= M) OBVIOUS
<1> HIDE DEF M, M1, B, B1, D, D1, l, l1
<1>5. l1 - l \in 0..Small /\ D1 <= B1 BY <1>2, <1>3, <1>4, SmallType
<1> QED BY <1>5 DEF Careful, D1, B1, l, l1

\* A step that leaves memory and budget alone.
LEMMA MemoryStays ==
  ASSUME TypeOK, TypeOK', NoInflation, Budget' = Budget, InMemory' = InMemory,
         OnDisk' <= OnDisk \/ OnDisk' <= InMemory
  PROVE  Careful
<1> DEFINE M == InMemory  B == Budget  D == OnDisk  D1 == OnDisk'
<1>1. Sums /\ Sums' BY SumsAreNumbers, SumsStayNumbers
<1>2. M \in Nat /\ B \in Nat /\ D \in Nat BY <1>1 DEF Sums
<1>3. D1 <= D \/ D1 <= M OBVIOUS
<1> HIDE DEF M, B, D, D1
<1>4. B = B + 0 /\ M + 0 - M \in 0..Small /\ (D1 <= D + 0 \/ D1 <= M)
  BY <1>2, <1>3, SmallType
<1>5. 0 \in Nat OBVIOUS
<1> QED BY <1>4, <1>5, StepIsCareful DEF M, B, D, D1

LEMMA NothingMoves ==
  ASSUME TypeOK, TypeOK', NoInflation,
         UNCHANGED <<stake, Balances, TreasuryBalance, BurnedSupply, file, fileHasList,
                     savedBalances, height, granted>>
  PROVE  Careful
<1> DEFINE D == OnDisk
<1>1. D \in Nat BY SumsAreNumbers DEF Sums
<1>2. InMemory' = InMemory /\ OnDisk' = OnDisk /\ Budget' = Budget
  BY DEF InMemory, TotalStake, OnDisk, Budget
<1> HIDE DEF D
<1>3. D <= D BY <1>1
<1> QED BY <1>2, <1>3, MemoryStays DEF D

LEMMA SlashIsCareful ==
  ASSUME MoneyInv, ApplySlash
  PROVE  Careful
<1> DEFINE s == Head(pending)
           actual == SlashedAmount(s)
           o == s.offender
<1>0. TypeOK /\ ListIsSaved /\ NoInflation /\ TypeOK'
  BY SlashKeepsTypes DEF MoneyInv
<1>1. Sums /\ Sums' /\ Small \in Nat
  BY <1>0, SumsAreNumbers, SumsStayNumbers, SmallType
<1>2. /\ pending \in Seq(Slashes) /\ pending # << >> /\ stake \in [Validators -> Nat]
      /\ UNCHANGED <<height, granted>>
  BY <1>0 DEF TypeOK, ApplySlash, commitVars, countVars
<1>3. s \in Slashes BY <1>2
<1>4. actual \in Nat /\ actual <= stake[o] /\ o \in Validators
  BY <1>2, <1>3, SlashIsCovered DEF Slashes
<1>5. Budget' = Budget BY <1>2 DEF Budget
<1>7. CASE UNCHANGED <<registryVars, statusVars, Balances, sinkVars, diskVars>>
  <2>1. UNCHANGED <<stake, Balances, TreasuryBalance, BurnedSupply, file, fileHasList,
                    savedBalances>>
    BY <1>7 DEF registryVars, sinkVars, diskVars
  <2>2. InMemory' = InMemory /\ OnDisk' = OnDisk BY <2>1 DEF InMemory, TotalStake, OnDisk
  <2> DEFINE D == OnDisk
  <2>3. D \in Nat BY <1>1 DEF Sums
  <2> HIDE DEF D
  <2>4. D <= D BY <2>3
  <2>5. OnDisk' <= OnDisk BY <2>2, <2>4 DEF D
  <2> QED BY <1>0, <1>5, <2>2, <2>5, MemoryStays
<1>8. CASE /\ actual > 0
           /\ stake' = [stake EXCEPT ![o] = @ - actual]
           /\ \/ /\ s.kind = "safety"
                 /\ Distribute(s, actual)
                 /\ SuspendValidator(o, "all", SafetyPeriod)
              \/ /\ s.kind = "downtime"
                 /\ BurnedSupply' = BurnedSupply + actual
                 /\ SuspendValidator(o, "propose", DowntimePeriod)
                 /\ UNCHANGED <<Balances, TreasuryBalance>>
           /\ UNCHANGED <<registered, savedBalances>>
           /\ SaveValidators
  <2> HIDE DEF s, actual
  <2> DEFINE v == stake[o] - actual
             T == TotalStake  T1 == TotalStake'  S == Sinks  S1 == Sinks'
             f == SumFunction(savedBalances)
  <2>1. v \in Int /\ v - stake[o] = 0 - actual /\ IsFiniteSet(Validators)
    BY <1>2, <1>4, ValidatorsCount
  <2>2. stake \in [Validators -> Int] /\ stake' = [stake EXCEPT ![o] = v] BY <1>2, <1>8
  <2> HIDE DEF v
  <2>3. T1 = T + (v - stake[o])
    BY <1>4, <2>1, <2>2, SumUpdate DEF TotalStake
  <2>4. T \in Nat /\ T1 \in Nat /\ S \in Nat /\ S1 \in Nat /\ f \in Nat BY <1>1 DEF Sums
  <2>5. InMemory = T + S /\ InMemory' = T1 + S1 BY <1>1 DEF Sums
  <2>6. \E r \in 0..Small : S1 = S + actual - r
    <3>1. CASE Distribute(s, actual)
      <4>1. S1 = S + actual - Residue(o, actual)
        BY <1>0, <1>3, <1>4, <3>1, DistributeSum
      <4>2. Residue(o, actual) \in 0..Small BY <1>2, <1>4, ResidueIsSmall DEF Small
      <4> QED BY <4>1, <4>2
    <3>2. CASE /\ BurnedSupply' = BurnedSupply + actual
               /\ UNCHANGED <<Balances, TreasuryBalance>>
      <4> DEFINE b == SumFunction(Balances)  t == TreasuryBalance  u == BurnedSupply
      <4>1. S1 = b + t + (u + actual) BY <3>2 DEF Sinks
      <4>2. S = b + t + u BY DEF Sinks
      <4>3. b \in Nat /\ t \in Nat /\ u \in Nat BY <1>0, <1>1 DEF TypeOK, Sums
      <4> HIDE DEF b, t, u, S, S1
      <4>4. S1 = S + actual - 0 BY <1>4, <4>1, <4>2, <4>3
      <4> QED BY <1>1, <4>4
    <3> QED BY <1>8, <3>1, <3>2
  <2>7. /\ fileHasList = registered /\ (registered => file = stake)
        /\ file' = stake' /\ fileHasList' = registered /\ savedBalances' = savedBalances
    BY <1>0, <1>8 DEF ListIsSaved, SaveValidators
  <2>8. OnDisk = (IF registered THEN T ELSE 0) + f BY <2>7 DEF OnDisk, TotalStake
  <2>9. OnDisk' = (IF registered THEN T1 ELSE 0) + f BY <2>7 DEF OnDisk, TotalStake
  <2> DEFINE M == InMemory  M1 == InMemory'  D == OnDisk  D1 == OnDisk'
  <2>10. /\ M = T + S /\ M1 = T1 + S1
         /\ D = (IF registered THEN T ELSE 0) + f
         /\ D1 = (IF registered THEN T1 ELSE 0) + f
    BY <2>5, <2>8, <2>9
  <2> HIDE DEF T, T1, S, S1, f, M, M1, D, D1
  <2>11. T1 = T - actual BY <1>4, <2>1, <2>3, <2>4
  <2>12. M + 0 - M1 \in 0..Small BY <1>1, <1>4, <2>4, <2>6, <2>10, <2>11
  <2>13. D1 <= D + 0 BY <1>4, <2>4, <2>10, <2>11
  <2>14. Budget' = Budget + 0
    <3> DEFINE B == Budget
    <3>1. B \in Nat BY <1>1 DEF Sums
    <3> HIDE DEF B
    <3>2. B = B + 0 BY <3>1
    <3> QED BY <1>5, <3>2 DEF B
  <2>15. 0 \in Nat OBVIOUS
  <2> QED BY <1>0, <2>12, <2>13, <2>14, <2>15, StepIsCareful DEF M, M1, D, D1
<1> QED BY <1>7, <1>8 DEF ApplySlash

\* Saving the balances: what is on disk then is part of what is in memory.
LEMMA SavingIsCareful ==
  ASSUME TypeOK, TypeOK', ListIsSaved, NoInflation, savedBalances' = Balances,
         UNCHANGED <<stake, Balances, TreasuryBalance, BurnedSupply, file, fileHasList,
                     height, granted>>
  PROVE  Careful
<1> DEFINE T == TotalStake  b == SumFunction(Balances)  S == Sinks
           M == InMemory  D1 == OnDisk'
<1>1. Sums BY SumsAreNumbers
<1>2. InMemory' = InMemory /\ Budget' = Budget BY DEF InMemory, TotalStake, Budget
<1>3. fileHasList => SumFunction(file) = T BY DEF ListIsSaved, TotalStake
<1>4. D1 = (IF fileHasList THEN T ELSE 0) + b BY <1>3 DEF OnDisk
<1>5. T \in Nat /\ b \in Nat /\ S \in Nat /\ b <= S /\ M = T + S BY <1>1 DEF Sums
<1> HIDE DEF T, b, S, M, D1
<1>6. D1 <= M BY <1>4, <1>5
<1> QED BY <1>2, <1>6, MemoryStays DEF M, D1

LEMMA CommitIsCareful ==
  ASSUME MoneyInv, CommitStep
  PROVE  Careful
<1>0. TypeOK /\ ListIsSaved /\ NoInflation /\ TypeOK'
  BY CommitKeepsTypes DEF MoneyInv
<1>1. Sums /\ Sums' BY <1>0, SumsAreNumbers, SumsStayNumbers
<1>2. OnDisk <= OnDisk /\ InMemory <= InMemory
  <2> DEFINE D == OnDisk  M == InMemory
  <2>1. D \in Nat /\ M \in Nat BY <1>1 DEF Sums
  <2> HIDE DEF D, M
  <2>2. D <= D /\ M <= M BY <2>1
  <2> QED BY <2>2 DEF D, M
<1>3. fileHasList = registered /\ (registered => file = stake) BY <1>0 DEF ListIsSaved
<1>4. CASE SelectProposer \/ NoProposer \/ Vote \/ RejectBlock
  <2>1. UNCHANGED <<stake, Balances, TreasuryBalance, BurnedSupply, file, fileHasList,
                    savedBalances, height, granted>>
    BY <1>4 DEF SelectProposer, NoProposer, Vote, RejectBlock, registryVars, sinkVars,
       diskVars, countVars
  <2>2. InMemory' = InMemory /\ OnDisk' = OnDisk /\ Budget' = Budget
    BY <2>1 DEF InMemory, TotalStake, OnDisk, Budget
  <2> QED BY <1>0, <1>2, <2>2, MemoryStays
<1>5. CASE CommitReward
  <2> DEFINE p == proposer
             g == BlockReward
             v == Balances[p] + g
             b == SumFunction(Balances)  t == TreasuryBalance  u == BurnedSupply
             T == TotalStake  i == SumFunction(InitStake)
  <2>1. /\ Balances' = [Balances EXCEPT ![p] = v] /\ height' = height + 1
        /\ UNCHANGED <<stake, TreasuryBalance, BurnedSupply, file, fileHasList,
                       savedBalances, granted>>
    BY <1>5 DEF CommitReward, registryVars, sinkVars, diskVars, countVars
  <2>2. /\ p \in Accounts /\ Balances \in [Accounts -> Nat] /\ g \in Nat
        /\ height \in Nat /\ IsFiniteSet(Accounts)
    BY <1>0, StakesAssumption, ValidatorsCount DEF TypeOK, Accounts
  <2>3. v \in Int /\ v - Balances[p] = g BY <2>2
  <2>4. Balances \in [Accounts -> Int] BY <2>2
  <2> HIDE DEF v
  <2>5. SumFunction(Balances') = b + (v - Balances[p])
    BY <2>1, <2>2, <2>3, <2>4, SumUpdate
  <2>6. b \in Nat /\ T \in Nat /\ t \in Nat /\ u \in Nat /\ granted \in Nat /\ i \in Nat
    BY <1>0, <1>1, ValidatorsCount, SumNat, StakesAssumption DEF TypeOK, Sums
  <2>7. InMemory = T + b + t + u BY DEF InMemory
  <2>8. InMemory' = T + (b + g) + t + u BY <2>1, <2>3, <2>5 DEF InMemory, TotalStake
  <2>9. OnDisk' = OnDisk BY <2>1 DEF OnDisk
  <2>10. g * (height + 1) = g * height + g /\ g * height \in Nat
    BY <2>2, TimesMore, ProductType
  <2>11. Budget = i + g * height + granted BY DEF Budget
  <2>12. Budget' = i + (g * height + g) + granted BY <2>1, <2>10 DEF Budget
  <2> DEFINE M == InMemory  M1 == InMemory'  B == Budget  B1 == Budget'
             D == OnDisk  D1 == OnDisk'  w == g * height
  <2>13. /\ M = T + b + t + u /\ M1 = T + (b + g) + t + u
         /\ B = i + w + granted /\ B1 = i + (w + g) + granted /\ w \in Nat
         /\ D1 = D /\ D \in Nat
    BY <1>1, <2>7, <2>8, <2>9, <2>10, <2>11, <2>12 DEF Sums
  <2> HIDE DEF M, M1, B, B1, D, D1, w, b, t, u, T, i
  <2>14. B1 = B + g /\ M + g - M1 = 0 /\ D1 <= D + g BY <2>2, <2>6, <2>13
  <2>15. M + g - M1 \in 0..Small BY <2>14, SmallType
  <2> QED BY <1>0, <2>2, <2>14, <2>15, StepIsCareful DEF M, M1, B, B1, D, D1
<1>6. CASE SaveBalances
  <2>1. /\ savedBalances' = Balances
        /\ UNCHANGED <<stake, Balances, TreasuryBalance, BurnedSupply, file, fileHasList,
                       height, granted>>
    BY <1>6 DEF SaveBalances, registryVars, sinkVars, countVars
  <2> QED BY <1>0, <1>3, <2>1, SavingIsCareful
<1>7. CASE FinishSave
  <2>1. /\ file' = stake' /\ fileHasList' = registered'
        /\ UNCHANGED <<stake, registered, Balances, TreasuryBalance, BurnedSupply,
                       savedBalances, height, granted>>
    BY <1>7 DEF FinishSave, SaveValidators, registryVars, sinkVars, countVars
  <2>2. InMemory' = InMemory /\ Budget' = Budget BY <2>1 DEF InMemory, TotalStake, Budget
  <2>3. OnDisk' = OnDisk BY <1>3, <2>1 DEF OnDisk
  <2> QED BY <1>0, <1>2, <2>2, <2>3, MemoryStays
<1>8. CASE ApplySlash BY <1>8, SlashIsCareful
<1> QED BY <1>4, <1>5, <1>6, <1>7, <1>8 DEF CommitStep

\* FixValidators: the list was lost, so no stake is given a second time.
LEMMA FixIsCareful ==
  ASSUME MoneyInv, TypeOK', FixValidators
  PROVE  Careful
<1> DEFINE n == Len(Registry)  k == FixStake  g == k * n
           S == Sinks  S1 == Sinks'  f == SumFunction(savedBalances)
           i == SumFunction(InitStake)  w == BlockReward * height
           M == InMemory  M1 == InMemory'  B == Budget  B1 == Budget'
           D == OnDisk  D1 == OnDisk'  T == TotalStake  T1 == TotalStake'
<1>1. Sums /\ Sums' /\ TypeOK /\ NoInflation
  BY SumsAreNumbers, SumsStayNumbers DEF MoneyInv
<1>2. /\ n \in Nat /\ k \in Nat /\ IsFiniteSet(Validators)
      /\ Cardinality(Validators) = n
  BY ValidatorsCount, StakesAssumption
<1>3. /\ ~registered /\ registered' = TRUE /\ stake' = [v \in Validators |-> k]
      /\ granted' = granted + g /\ file' = stake' /\ fileHasList' = TRUE
      /\ UNCHANGED <<Balances, TreasuryBalance, BurnedSupply, savedBalances, height>>
  BY DEF FixValidators, SaveValidators, Call, sinkVars, commitVars
<1>4. g \in Nat
  <2> HIDE DEF n, k
  <2> QED BY <1>2, ProductType
<1>5. T1 = g
  <2> HIDE DEF n, k
  <2>1. k \in Int BY <1>2
  <2>2. SumFunction([v \in Validators |-> k]) = k * Cardinality(Validators)
    BY <1>2, <2>1, SumConst
  <2>3. SumFunction([v \in Validators |-> k]) = k * n BY <1>2, <2>2
  <2> QED BY <1>3, <2>3 DEF TotalStake
<1>6. T = 0
  <2>1. stake \in [Validators -> Nat] /\ \A v \in Validators : stake[v] = 0
    BY <1>1, <1>3 DEF MoneyInv, Emptied, TypeOK
  <2> QED BY <1>2, <2>1, SumZero DEF TotalStake
<1>7. ~fileHasList BY <1>3 DEF MoneyInv, ListIsSaved
<1>8. S1 = S BY <1>3 DEF Sinks
<1>9. D = 0 + f BY <1>7 DEF OnDisk
<1>10. D1 = T1 + f BY <1>3 DEF OnDisk, TotalStake
<1>11. M = T + S /\ M1 = T1 + S1 BY <1>1 DEF Sums
<1>12. B = i + w + granted /\ B1 = i + w + (granted + g) BY <1>3 DEF Budget
<1>13. /\ S \in Nat /\ f \in Nat /\ i \in Nat /\ w \in Nat /\ granted \in Nat
  <2>1. S \in Nat /\ f \in Nat BY <1>1 DEF Sums
  <2>2. i \in Nat BY <1>2, SumNat, StakesAssumption
  <2>3. granted \in Nat /\ height \in Nat BY <1>1 DEF TypeOK
  <2>4. w \in Nat BY <2>3, ProductType, StakesAssumption
  <2> QED BY <2>1, <2>2, <2>3, <2>4
<1> HIDE DEF n, k, g, S, S1, f, i, w, M, M1, B, B1, D, D1, T, T1
<1>14. B1 = B + g BY <1>4, <1>12, <1>13
<1>15. M + g - M1 = 0 BY <1>4, <1>5, <1>6, <1>8, <1>11, <1>13
<1>16. D1 <= D + g
  <2>1. D = f /\ D1 = g + f BY <1>5, <1>9, <1>10, <1>13
  <2> QED BY <1>4, <1>13, <2>1
<1>17. M + g - M1 \in 0..Small BY <1>15, SmallType
<1> QED BY <1>1, <1>4, <1>14, <1>16, <1>17, StepIsCareful DEF M, M1, B, B1, D, D1

LEMMA OperatorIsCareful ==
  ASSUME MoneyInv, OperatorStep
  PROVE  Careful
<1>0. TypeOK /\ ListIsSaved /\ NoInflation /\ TypeOK'
  BY OperatorKeepsTypes DEF MoneyInv
<1>1. SaveBalancesNow => Careful
  <2> SUFFICES ASSUME SaveBalancesNow PROVE Careful OBVIOUS
  <2>1. /\ savedBalances' = Balances
        /\ UNCHANGED <<stake, Balances, TreasuryBalance, BurnedSupply, file, fileHasList,
                       height, granted>>
    BY DEF SaveBalancesNow, Call, registryVars, sinkVars, commitVars
  <2> QED BY <1>0, <2>1, SavingIsCareful, Zenon
<1>2. ASSUME UNCHANGED <<stake, Balances, TreasuryBalance, BurnedSupply, file, fileHasList,
                         savedBalances, height, granted>>
      PROVE  Careful
  BY <1>0, <1>2, NothingMoves
<1>3. ASSUME NEW v \in Validators, NEW scope \in Scopes, NEW d \in Durations,
             Suspend(v, scope, d)
      PROVE  Careful
  BY <1>2, <1>3 DEF Suspend, Call, registryVars, sinkVars, diskVars, commitVars
<1>4. ASSUME NEW list \in Seq(Slashes), Slash(list) PROVE Careful
  BY <1>2, <1>4 DEF Slash, Call, registryVars, sinkVars, diskVars, commitVars
<1>5. FixValidators => Careful BY <1>0, FixIsCareful
<1> QED BY <1>1, <1>3, <1>4, <1>5, OperatorCases

\* A restart loads the disk, which is within the budget, and forgets the sinks.
LEMMA RestartKeepsMoney ==
  ASSUME MoneyInv, TypeOK', NEW torn \in BOOLEAN, Restart(torn)
  PROVE  NoInflation'
<1> DEFINE B == Budget  D == OnDisk  M1 == InMemory'  D1 == OnDisk'
           F == SumFunction(file)  f == SumFunction(savedBalances)  T1 == TotalStake'
<1>1. Sums /\ D <= B BY SumsAreNumbers DEF MoneyInv, NoInflation
<1>2. /\ fileHasList' = (fileHasList /\ ~torn)
      /\ stake' = IF fileHasList' THEN file ELSE [v \in Validators |-> 0]
      /\ Balances' = savedBalances /\ TreasuryBalance' = 0 /\ BurnedSupply' = 0
      /\ UNCHANGED <<file, savedBalances, height, granted>>
  BY DEF Restart
<1>3. Budget' = B BY <1>2 DEF Budget
<1>4. F \in Nat /\ f \in Nat /\ B \in Nat BY <1>1 DEF Sums
<1>5. D = (IF fileHasList THEN F ELSE 0) + f BY DEF OnDisk
<1>6. D1 = (IF fileHasList' THEN F ELSE 0) + f BY <1>2 DEF OnDisk
<1>7. M1 = T1 + f + 0 + 0 BY <1>2 DEF InMemory
<1>8. T1 = IF fileHasList' THEN F ELSE 0
  <2>1. CASE fileHasList' BY <1>2, <2>1 DEF TotalStake
  <2>2. CASE ~fileHasList'
    <3> DEFINE z == [v \in Validators |-> 0]
    <3>1. z \in [Validators -> Int] /\ (\A v \in Validators : z[v] = 0) OBVIOUS
    <3>2. stake' = z BY <1>2, <2>2
    <3> HIDE DEF z
    <3>3. SumFunction(z) = 0 BY <3>1, ValidatorsCount, SumZero
    <3> QED BY <2>2, <3>2, <3>3 DEF TotalStake
  <2> QED BY <2>1, <2>2
<1>9. fileHasList' => fileHasList BY <1>2
<1> DEFINE h == fileHasList  h1 == fileHasList'
<1>10. h \in BOOLEAN /\ h1 \in BOOLEAN BY <1>2 DEF MoneyInv, TypeOK
<1>11. D1 <= B /\ M1 <= B
  <2> HIDE DEF B, D, M1, D1, F, f, T1
  <2>1. CASE fileHasList' BY <1>1, <1>4, <1>5, <1>6, <1>7, <1>8, <1>9, <2>1
  <2>2. CASE ~fileHasList'
    <3>1. D1 = f /\ M1 = f BY <1>4, <1>6, <1>7, <1>8, <2>2
    <3>2. f <= D BY <1>4, <1>5
    <3>3. D \in Nat BY <1>4, <1>5
    <3> QED BY <1>1, <1>4, <3>1, <3>2, <3>3
  <2> QED BY <2>1, <2>2
<1> QED BY <1>3, <1>11 DEF NoInflation

\* Only FixValidators fills an empty list.
LEMMA EmptiedStays ==
  ASSUME MoneyInv, TypeOK', ListIsSaved', [Next]_vars
  PROVE  Emptied'
<1>1. \A v \in Validators : stake[v] \in Nat /\ stake'[v] \in Nat BY DEF MoneyInv, TypeOK
<1>2. ASSUME registered' = registered, \A v \in Validators : stake'[v] <= stake[v]
      PROVE  Emptied'
  BY <1>1, <1>2 DEF MoneyInv, Emptied
<1>3. ASSUME UNCHANGED <<stake, registered>> PROVE Emptied' BY <1>3 DEF MoneyInv, Emptied
<1>4. CASE CommitStep
  <2>1. \A v \in Validators : stake'[v] <= stake[v]
    BY <1>4, CommitBlockKeepsSaved DEF MoneyInv
  <2>2. registered' = registered
    BY <1>4 DEF CommitStep, SelectProposer, NoProposer, Vote, RejectBlock, CommitReward,
       SaveBalances, FinishSave, ApplySlash, registryVars
  <2> QED BY <1>2, <2>1, <2>2
<1>5. CASE OperatorStep
  <2>1. ASSUME NEW v \in Validators, NEW scope \in Scopes, NEW d \in Durations,
               Suspend(v, scope, d)
        PROVE  Emptied'
    BY <1>3, <2>1 DEF Suspend, registryVars
  <2>2. ASSUME NEW list \in Seq(Slashes), Slash(list) PROVE Emptied'
    BY <1>3, <2>2 DEF Slash, registryVars
  <2>3. SaveBalancesNow => Emptied' BY <1>3 DEF SaveBalancesNow, registryVars
  <2>4. FixValidators => Emptied' BY DEF FixValidators, Emptied
  <2> QED BY <1>5, <2>1, <2>2, <2>3, <2>4, OperatorCases
<1>6. CASE Tick BY <1>3, <1>6 DEF Tick, registryVars
<1>7. ASSUME NEW torn \in BOOLEAN, Restart(torn) PROVE Emptied'
  BY <1>7 DEF Restart, Emptied
<1>8. CASE UNCHANGED vars BY <1>3, <1>8 DEF vars, registryVars
<1> QED BY <1>4, <1>5, <1>6, <1>7, <1>8 DEF Next, AnyStepButTick

LEMMA NextKeepsMoney ==
  ASSUME MoneyInv, [Next]_vars
  PROVE  MoneyInv' /\ (crashes' = crashes => Lost' <= Lost + Small)
<1>1. TypeOK' /\ ListIsSaved' /\ Emptied'
  BY NextKeepsTypes, NextSaved, EmptiedStays DEF MoneyInv
<1>2. TypeOK /\ NoInflation BY DEF MoneyInv
<1>3. Careful => NoInflation' /\ Lost' <= Lost + Small BY <1>1, CarefulKeepsMoney
<1>4. CommitStep => Careful BY CommitIsCareful
<1>5. OperatorStep => Careful BY OperatorIsCareful
<1>6. Tick => Careful
  <2> SUFFICES ASSUME Tick PROVE Careful OBVIOUS
  <2>1. UNCHANGED <<stake, Balances, TreasuryBalance, BurnedSupply, file, fileHasList,
                    savedBalances, height, granted>>
    BY DEF Tick, registryVars, sinkVars, diskVars, countVars
  <2> QED BY <1>1, <1>2, <2>1, NothingMoves
<1>7. UNCHANGED vars => Careful
  <2> SUFFICES ASSUME UNCHANGED vars PROVE Careful OBVIOUS
  <2>1. UNCHANGED <<stake, Balances, TreasuryBalance, BurnedSupply, file, fileHasList,
                    savedBalances, height, granted>>
    BY DEF vars, registryVars, sinkVars, diskVars, countVars, commitVars
  <2> QED BY <1>1, <1>2, <2>1, NothingMoves
<1>8. ASSUME NEW torn \in BOOLEAN, Restart(torn)
      PROVE  NoInflation' /\ crashes' # crashes
  <2>1. crashes \in Nat /\ crashes' = crashes + 1 BY <1>2, <1>8 DEF Restart, TypeOK
  <2>2. crashes' # crashes BY <2>1
  <2> QED BY <1>1, <1>8, <2>2, RestartKeepsMoney
<1>9. \/ Careful
      \/ NoInflation' /\ crashes' # crashes
  BY <1>4, <1>5, <1>6, <1>7, <1>8 DEF Next, AnyStepButTick
<1> QED BY <1>1, <1>3, <1>9 DEF MoneyInv

LEMMA InitMoney == Init => MoneyInv
<1> SUFFICES ASSUME Init PROVE MoneyInv OBVIOUS
<1> DEFINE i == SumFunction(InitStake)  b == SumFunction(Balances)
           M == InMemory  B == Budget  D == OnDisk
<1>1. TypeOK /\ ListIsSaved /\ Emptied BY InitTypes, InitSaved DEF Init, Emptied
<1>2. b = 0
  <2>1. Balances \in [Accounts -> Int] /\ \A a \in Accounts : Balances[a] = 0 BY DEF Init
  <2> QED BY <2>1, ValidatorsCount, SumZero
<1>3. i \in Nat BY ValidatorsCount, SumNat, StakesAssumption
<1>4. M = i + b + 0 + 0 BY DEF Init, InMemory, TotalStake
<1>5. D = i + b BY DEF Init, OnDisk
<1>6. B = i + BlockReward * 0 + 0 BY DEF Init, Budget
<1>7. BlockReward * 0 = 0 BY StakesAssumption
<1> HIDE DEF i, b, M, B, D
<1>8. M <= B /\ D <= B BY <1>2, <1>3, <1>4, <1>5, <1>6, <1>7
<1> QED BY <1>1, <1>8 DEF MoneyInv, NoInflation, M, B, D

\* Neither a slash nor a crash nor a reload makes money: memory and disk stay within what
\* was staked, minted and granted, because ApplySlash writes validators.json before
\* anybody writes the balances (validator.go:184, persistence.go:36).
THEOREM NoMoneyFromSlashes == Spec => []NoInflation
<1>1. MoneyInv /\ [Next]_vars => MoneyInv' BY NextKeepsMoney
<1>2. MoneyInv => NoInflation BY DEF MoneyInv
<1> QED BY InitMoney, <1>1, <1>2, PTL DEF Spec

\* While the process lives, a step loses at most the rest of one division for each honest
\* validator but one (distributeSlashed).
THEOREM RoundingOnly == Spec => RoundingLossBounded
<1>1. MoneyInv /\ [Next]_vars => MoneyInv' BY NextKeepsMoney
<1>2. MoneyInv /\ [Next]_vars
        => [crashes' = crashes => Lost' <= Lost + Max(0, Len(Registry) - 2)]_vars
  BY NextKeepsMoney DEF Small
<1> QED BY InitMoney, <1>1, <1>2, PTL DEF Spec, RoundingLossBounded
-----------------------------------------------------------------------------
(* Stakes that are gone *)

Broke == \A v \in Validators : stake[v] = 0

LEMMA NoStakeLeft ==
  ASSUME stake \in [Validators -> Nat]
  PROVE  TotalStake = 0 <=> Broke
<1>1. IsFiniteSet(Validators) BY ValidatorsCount
<1>2. TotalStake \in Nat /\ \A v \in Validators : stake[v] <= TotalStake
  BY <1>1, SumNat DEF TotalStake
<1>3. TotalStake = 0 => Broke BY <1>2 DEF Broke
<1>4. ASSUME Broke PROVE TotalStake = 0
  <2>1. stake \in [Validators -> Int] OBVIOUS
  <2> QED BY <1>1, <1>4, <2>1, SumZero DEF Broke, TotalStake
<1> QED BY <1>3, <1>4

\* No block since height h, and none to come.
Drained(h) == granted > 0 \/ (Resting /\ height = h /\ Broke)

\* Nothing but FixValidators changes what is granted.
LEMMA OnlyFixGrants ==
  ASSUME [Next]_vars
  PROVE  granted' = granted \/ FixValidators
<1> USE DEF countVars
<1>1. CASE CommitStep
  BY <1>1 DEF CommitStep, SelectProposer, NoProposer, Vote, RejectBlock, CommitReward,
     SaveBalances, FinishSave, ApplySlash
<1>2. CASE OperatorStep
  BY <1>2, OperatorCases DEF Suspend, Slash, SaveBalancesNow
<1>3. ASSUME NEW torn \in BOOLEAN, Restart(torn) PROVE granted' = granted
  BY <1>3 DEF Restart
<1>4. CASE Tick BY <1>4 DEF Tick
<1>5. CASE UNCHANGED vars BY <1>5 DEF vars
<1> QED BY <1>1, <1>2, <1>3, <1>4, <1>5 DEF Next, AnyStepButTick

\* Nobody is selected, nothing is slashed, and the list on disk has no stake either.
LEMMA DrainedStays ==
  ASSUME NEW h, TypeOK, ListIsSaved, Drained(h), [Next]_vars
  PROVE  Drained(h)'
<1>1. granted \in Nat BY DEF TypeOK
<1>2. CASE FixValidators
  <2>1. /\ stake' = [v \in Validators |-> FixStake]
        /\ granted' = granted + FixStake * Len(Registry)
        /\ UNCHANGED <<pc, height>>
    BY <1>2 DEF FixValidators, Call, commitVars
  <2>2. FixStake \in Nat /\ (FixStake > 0 => granted' > granted)
    BY <1>2, FixKeepsSaved, StakesAssumption
  <2>3. granted' \in Nat BY <1>1, <2>1, FixGrants
  <2>4. CASE FixStake > 0 BY <1>1, <2>2, <2>3, <2>4 DEF Drained
  <2>5. CASE FixStake = 0
    <3>1. Broke' BY <2>1, <2>5 DEF Broke
    <3>2. granted' = granted
      <4>1. Len(Registry) \in Nat BY ValidatorsCount
      <4> QED BY <1>1, <2>1, <2>5, <4>1
    <3> QED BY <2>1, <3>1, <3>2 DEF Drained, Resting
  <2> QED BY <2>2, <2>4, <2>5
<1>3. CASE granted' = granted /\ granted > 0 BY <1>3 DEF Drained
<1>4. CASE /\ granted' = granted /\ ~FixValidators
           /\ Resting /\ height = h /\ Broke
  <2>1. SUFFICES Resting' /\ height' = h /\ Broke' BY <1>4 DEF Drained
  <2>2. \A v \in Validators : stake'[v] <= stake[v]
    BY <1>1, <1>4, NextSaved
  <2>3. Broke'
    <3>1. \A v \in Validators : stake'[v] \in Nat BY NextKeepsTypes DEF TypeOK
    <3> QED BY <1>4, <2>2, <3>1 DEF Broke
  <2>4. Resting' /\ height' = height
    <3> USE DEF Resting
    <3>1. CASE CommitStep
      <4> USE DEF Goto
      <4>1. ~SelectProposer BY <1>4 DEF SelectProposer, Broke
      <4>2. ~Vote /\ ~RejectBlock /\ ~CommitReward
        BY <1>4 DEF Vote, RejectBlock, CommitReward
      <4>3. CASE NoProposer BY <1>4, <4>3 DEF NoProposer
      <4>4. CASE SaveBalances BY <1>4, <4>4 DEF SaveBalances
      <4>5. CASE FinishSave BY <1>4, <4>5 DEF FinishSave
      <4>6. CASE ApplySlash BY <1>4, <4>6 DEF ApplySlash, commitVars
      <4> QED BY <3>1, <4>1, <4>2, <4>3, <4>4, <4>5, <4>6 DEF CommitStep
    <3>2. CASE OperatorStep
      <4>1. UNCHANGED <<pc, height>>
        BY <3>2, OperatorCases
        DEF Suspend, Slash, SaveBalancesNow, FixValidators, Call, commitVars
      <4> QED BY <1>4, <4>1
    <3>3. ASSUME NEW torn \in BOOLEAN, Restart(torn) PROVE Resting' /\ height' = height
      BY <3>3 DEF Restart
    <3>4. CASE Tick BY <1>4, <3>4 DEF Tick
    <3>5. CASE UNCHANGED vars BY <1>4, <3>5 DEF vars, commitVars
    <3> QED BY <3>1, <3>2, <3>3, <3>4, <3>5 DEF Next, AnyStepButTick
  <2> QED BY <1>4, <2>3, <2>4
<1> QED BY <1>2, <1>3, <1>4, OnlyFixGrants DEF Drained

\* Once all stakes are slashed away no block follows, after a restart neither, unless
\* FixValidators hands out new ones (selectValidatorVRF, consensus.go:155).
THEOREM DrainIsFinal == Spec => DrainedIsForever
<1> SUFFICES ASSUME NEW h \in 0..MaxBlocks
             PROVE  Spec => [](Resting /\ TotalStake = 0 /\ height = h
                                 => [](height = h \/ granted > 0))
  BY DEF DrainedIsForever
<1> DEFINE P == Resting /\ TotalStake = 0 /\ height = h
           Q == height = h \/ granted > 0
<1>1. TypeOK /\ P => Drained(h) BY NoStakeLeft DEF TypeOK, Drained
<1>2. TypeOK /\ ListIsSaved /\ Drained(h) /\ [Next]_vars => Drained(h)'
  BY DrainedStays
<1>3. Drained(h) => Q BY DEF Drained
<1> HIDE DEF P, Q
<1>4. Spec => [](P => []Q)
  BY <1>1, <1>2, <1>3, TypeCorrect, SavedList, PTL DEF Spec
<1> QED BY <1>4 DEF P, Q

-----------------------------------------------------------------------------
(* Penalties that outlast the stakes *)

\* How many penalties a stake s lasts; one of them takes one off.
LEMMA PenaltiesLeft ==
  ASSUME NEW s \in Nat, NEW p \in Nat \ {0}
  PROVE  /\ (s + p - 1) \div p \in Nat
         /\ s > 0 => /\ (s + p - 1) \div p >= 1
                     /\ ((s - Min(p, s)) + p - 1) \div p = (s + p - 1) \div p - 1
<1> DEFINE q == (s + p - 1) \div p
<1>1. s + p - 1 \in Nat /\ p \in Nat /\ p > 0 /\ p - 1 \in Nat OBVIOUS
<1>2. q \in Nat /\ p * q <= s + p - 1 /\ s + p - 1 <= p * q + (p - 1)
  BY <1>1, DivLaw
<1> HIDE DEF q
<1>3. ASSUME s > 0
      PROVE  q >= 1 /\ ((s - Min(p, s)) + p - 1) \div p = q - 1
  <2>1. q >= 1
    <3>1. SUFFICES ASSUME q = 0 PROVE FALSE BY <1>2
    <3>2. p * q = 0 BY <3>1
    <3> QED BY <1>2, <1>3, <3>2
  <2>2. p * (q - 1) = p * q - p BY <1>1, <1>2
  <2>3. p * q \in Nat BY <1>1, <1>2, ProductType
  <2>4. CASE p <= s
    <3> DEFINE r == (s - p + p - 1) \div p
    <3>1. (s - Min(p, s)) + p - 1 = s - p + p - 1 BY <2>4 DEF Min
    <3>2. s - p + p - 1 \in Nat BY <1>3
    <3>3. /\ r \in Nat /\ p * r <= s - p + p - 1
          /\ s - p + p - 1 <= p * r + (p - 1)
      BY <1>1, <3>2, DivLaw
    <3> HIDE DEF r
    <3>4. p * r \in Nat BY <1>1, <3>3, ProductType
    <3>5. r <= q - 1
      <4>1. p * (r + 1) = p * r + p BY <1>1, <3>3
      <4>2. p * r <= p * q - p + (p - 1) BY <1>2, <2>3, <3>3, <3>4
      <4>3. SUFFICES ASSUME r >= q PROVE FALSE BY <1>2, <3>3
      <4>4. PICK d \in Nat : r = q + d BY <1>2, <3>3, <4>3
      <4>5. p * r = p * q + p * d BY <1>1, <1>2, <4>4
      <4>6. p * d \in Nat BY <1>1, <4>4, ProductType
      <4> QED BY <1>1, <2>3, <4>2, <4>5, <4>6
    <3>6. r >= q - 1
      <4>1. SUFFICES ASSUME r < q - 1 PROVE FALSE BY <1>2, <3>3
      <4>2. PICK d \in Nat : q = r + 2 + d
        <5>1. q - r - 2 \in Nat /\ q = r + 2 + (q - r - 2) BY <1>2, <3>3, <4>1
        <5> QED BY <5>1
      <4>3. p * q = p * r + 2 * p + p * d BY <1>1, <3>3, <4>2
      <4>4. p * d \in Nat BY <1>1, <4>2, ProductType
      <4> QED BY <1>1, <1>2, <3>3, <3>4, <4>3, <4>4
    <3>7. r = q - 1 BY <1>2, <3>3, <3>5, <3>6
    <3> QED BY <2>1, <3>1, <3>7 DEF r
  <2>5. CASE s < p
    <3> DEFINE r == (p - 1) \div p
    <3>1. (s - Min(p, s)) + p - 1 = p - 1 BY <2>5 DEF Min
    <3>2. r \in Nat /\ p * r <= p - 1 BY <1>1, DivLaw
    <3> HIDE DEF r
    <3>3. r = 0
      <4>1. SUFFICES ASSUME r > 0 PROVE FALSE BY <3>2
      <4>2. PICK d \in Nat : r = 1 + d
        <5>1. r - 1 \in Nat /\ r = 1 + (r - 1) BY <3>2, <4>1
        <5> QED BY <5>1
      <4>3. p * r = p + p * d BY <1>1, <4>2
      <4>4. p * d \in Nat BY <1>1, <4>2, ProductType
      <4> QED BY <1>1, <3>2, <4>3, <4>4
    <3>4. q = 1
      <4>1. SUFFICES ASSUME q > 1 PROVE FALSE BY <1>2, <2>1
      <4>2. PICK d \in Nat : q = 2 + d
        <5>1. q - 2 \in Nat /\ q = 2 + (q - 2) BY <1>2, <4>1
        <5> QED BY <5>1
      <4>3. p * q = 2 * p + p * d BY <1>1, <4>2
      <4>4. p * d \in Nat BY <1>1, <4>2, ProductType
      <4> QED BY <1>1, <1>2, <2>5, <4>3, <4>4
    <3> QED BY <2>1, <3>1, <3>3, <3>4 DEF r
  <2> QED BY <2>1, <2>4, <2>5
<1> QED BY <1>2, <1>3 DEF q

Lasts(v) == (stake[v] + Penalty - 1) \div Penalty

LEMMA LeftIsSum == RejectionsLeft = SumFunction([v \in Validators |-> Lasts(v)])
BY DEF RejectionsLeft, Lasts

\* A validator with a stake has a rejection left, and one penalty takes one rejection off.
LEMMA RejectionTaken ==
  ASSUME TypeOK
  PROVE  /\ RejectionsLeft \in Nat
         /\ \A o \in Validators :
              stake[o] > 0 =>
                /\ RejectionsLeft >= 1
                /\ stake' = [stake EXCEPT ![o] = @ - Min(Penalty, stake[o])]
                     => RejectionsLeft' = RejectionsLeft - 1
<1> DEFINE f == [v \in Validators |-> Lasts(v)]
<1>1. Penalty \in Nat \ {0} /\ \A v \in Validators : stake[v] \in Nat
  BY StakesAssumption DEF TypeOK
<1>2. f \in [Validators -> Nat]
  <2>1. \A v \in Validators : Lasts(v) \in Nat BY <1>1, PenaltiesLeft DEF Lasts
  <2> QED BY <2>1
<1>3. \A v \in Validators : f[v] = Lasts(v) OBVIOUS
<1>4. RejectionsLeft = SumFunction(f) BY LeftIsSum
<1>5. IsFiniteSet(Validators) BY ValidatorsCount
<1>6. SumFunction(f) \in Nat /\ \A v \in Validators : f[v] <= SumFunction(f)
  <2> HIDE DEF f
  <2> QED BY <1>2, <1>5, SumNat
<1>7. ASSUME NEW o \in Validators, stake[o] > 0 PROVE RejectionsLeft >= 1
  <2>1. Lasts(o) >= 1 BY <1>1, <1>7, PenaltiesLeft DEF Lasts
  <2> HIDE DEF f
  <2>2. f[o] \in Nat BY <1>2
  <2> QED BY <1>3, <1>4, <1>6, <2>1, <2>2
<1>8. ASSUME NEW o \in Validators, stake[o] > 0,
             stake' = [stake EXCEPT ![o] = @ - Min(Penalty, stake[o])]
      PROVE  RejectionsLeft' = RejectionsLeft - 1
  <2> DEFINE g == [v \in Validators |-> Lasts(v)']
  <2>1. RejectionsLeft' = SumFunction(g) BY DEF RejectionsLeft, Lasts
  <2>2. Lasts(o)' = Lasts(o) - 1
    <3>1. stake'[o] = stake[o] - Min(Penalty, stake[o]) BY <1>8 DEF TypeOK
    <3>2. stake[o] \in Nat /\ stake[o] > 0 BY <1>1, <1>8
    <3>3. ((stake[o] - Min(Penalty, stake[o])) + Penalty - 1) \div Penalty
             = (stake[o] + Penalty - 1) \div Penalty - 1
      BY <1>1, <3>2, PenaltiesLeft
    <3> QED BY <3>1, <3>3 DEF Lasts
  <2>3. \A v \in Validators \ {o} : Lasts(v)' = Lasts(v)
    BY <1>8 DEF Lasts, TypeOK
  <2>4. g = [f EXCEPT ![o] = f[o] - 1]
    <3>1. \A v \in Validators : g[v] = [f EXCEPT ![o] = f[o] - 1][v]
      BY <2>2, <2>3
    <3> QED BY <3>1
  <2> HIDE DEF f, g
  <2>5. f \in [Validators -> Int] /\ f[o] - 1 \in Int BY <1>2
  <2>6. SumFunction(g) = SumFunction(f) + ((f[o] - 1) - f[o])
    BY <1>5, <2>4, <2>5, SumUpdate
  <2> QED BY <1>2, <1>4, <1>6, <2>1, <2>6
<1> QED BY <1>4, <1>6, <1>7, <1>8

\* A call of CommitBlock that will end in a penalty.
Underway == pc \in {"vote", "reject"} \/ pending # << >>

\* The rejections left after it, if any.
LeftAfter == RejectionsLeft - (IF Underway THEN 1 ELSE 0)

\* Where CommitBlock is when nobody may vote: a proposer that is under way has a stake to
\* lose.
Rejecting ==
  \/ Resting /\ pending = << >>
  \/ pc \in {"vote", "reject"} /\ pending = << >> /\ stake[proposer] > 0
  \/ pc = "idle" /\ pending = <<Fault(proposer, Penalty, NoReporter)>> /\ stake[proposer] > 0

\* Every suspension outlasts the rejections that are left, also when time passes once more
\* before the next of them.
Outlasts ==
  /\ Rejecting
  /\ SafetyPeriod > LeftAfter + 1
  /\ \A v \in Validators :
       /\ SuspendScope[v] = "all"
       /\ suspendedFor[v] > LeftAfter + (IF tried THEN 1 ELSE 0)

\* Nothing is left to penalise, or MaxBlocks is reached.
Over == Resting /\ pending = << >> /\ (Broke \/ height >= MaxBlocks)

Spiralling(h, n, c) ==
  calls > n \/ crashes > c \/ (height = h /\ calls = n /\ crashes = c /\ (Over \/ Outlasts))

FairStep == AnyStepButTick \/ (tried /\ Tick)

\* The counters of the environment.
LEMMA CountersGrow ==
  ASSUME TypeOK, [FairStep]_vars
  PROVE  /\ calls' >= calls /\ crashes' >= crashes
         /\ OperatorStep => calls' > calls
         /\ \A torn \in BOOLEAN : Restart(torn) => crashes' > crashes
<1> USE DEF TypeOK, countVars
<1>1. ASSUME CommitStep PROVE UNCHANGED <<calls, crashes>>
  BY <1>1 DEF CommitStep, SelectProposer, NoProposer, Vote, RejectBlock, CommitReward,
     SaveBalances, FinishSave, ApplySlash
<1>2. ASSUME OperatorStep PROVE calls' = calls + 1 /\ UNCHANGED crashes
  BY <1>2, OperatorCases DEF Suspend, Slash, SaveBalancesNow, FixValidators, Call
<1>3. ASSUME NEW torn \in BOOLEAN, Restart(torn)
      PROVE  crashes' = crashes + 1 /\ UNCHANGED calls
  BY <1>3 DEF Restart
<1>4. ASSUME Tick PROVE UNCHANGED <<calls, crashes>> BY <1>4 DEF Tick
<1>5. ASSUME UNCHANGED vars PROVE UNCHANGED <<calls, crashes>> BY <1>5 DEF vars
<1> QED BY <1>1, <1>2, <1>3, <1>4, <1>5 DEF FairStep, AnyStepButTick

\* With everybody suspended from everything a pick stands, and nobody votes.
LEMMA NobodyIsFree ==
  ASSUME TypeOK,
         \A v \in Validators : SuspendScope[v] = "all" /\ suspendedFor[v] > 0
  PROVE  /\ \A pick \in Validators : Eligible(pick) = {pick}
         /\ Cardinality(Voters) < Threshold
<1>1. \A v \in Validators : IsSuspended(v, "propose") /\ IsSuspended(v, "vote")
  BY DEF IsSuspended
<1>2. \A i \in DOMAIN Registry : Registry[i] \in Validators BY DEF Validators, Range
<1>3. {i \in DOMAIN Registry : ~IsSuspended(Registry[i], "propose")} = {}
  BY <1>1, <1>2
<1>4. \A pick \in Validators : Eligible(pick) = {pick} BY <1>3 DEF Eligible
<1>5. Voters = {} BY <1>1 DEF Voters
<1>6. Cardinality(Voters) = 0 BY <1>5, FS_EmptySet
<1>7. Threshold >= 1
  <2> DEFINE n == Len(Registry)
  <2>1. n \in Nat BY ValidatorsCount
  <2> HIDE DEF n
  <2>2. (2 * n) \div 3 + 1 >= 1 BY <2>1
  <2> QED BY <2>2 DEF Threshold, n
<1>8. Threshold \in Nat
  <2> DEFINE n == Len(Registry)
  <2>1. n \in Nat BY ValidatorsCount
  <2> HIDE DEF n
  <2>2. (2 * n) \div 3 + 1 \in Nat BY <2>1
  <2> QED BY <2>2 DEF Threshold, n
<1> QED BY <1>4, <1>6, <1>7, <1>8

\* Nothing is left to penalise: nobody is selected.
LEMMA OverStays ==
  ASSUME TypeOK, ListIsSaved, Over, CommitStep \/ Tick \/ UNCHANGED vars
  PROVE  Over' /\ height' = height
<1> USE DEF Over, Resting, Goto
<1>1. UNCHANGED <<stake, height>> /\ pending' = << >> /\ pc' \in {"idle", "save", "file"}
  <2>1. ~SelectProposer
    <3> SUFFICES ASSUME SelectProposer PROVE FALSE OBVIOUS
    <3>1. height < MaxBlocks /\ \E pick \in Validators : stake[pick] > 0
      BY DEF SelectProposer
    <3> QED BY <3>1, CountsAssumption DEF TypeOK, Broke
  <2>2. ~Vote /\ ~RejectBlock /\ ~CommitReward /\ ~ApplySlash
    BY DEF Vote, RejectBlock, CommitReward, ApplySlash
  <2>3. CASE NoProposer BY <2>3 DEF NoProposer, registryVars
  <2>4. CASE SaveBalances BY <2>4 DEF SaveBalances, registryVars
  <2>5. CASE FinishSave BY <2>5 DEF FinishSave, registryVars
  <2>6. CASE Tick BY <2>6 DEF Tick, registryVars
  <2>7. CASE UNCHANGED vars BY <2>7 DEF vars, registryVars, commitVars
  <2> QED BY <2>1, <2>2, <2>3, <2>4, <2>5, <2>6, <2>7 DEF CommitStep
<1> QED BY <1>1 DEF Broke

LEMMA LeftType ==
  ASSUME TypeOK, Rejecting
  PROVE  LeftAfter \in Nat /\ RejectionsLeft \in Nat
<1>1. RejectionsLeft \in Nat BY RejectionTaken
<1>2. Underway => RejectionsLeft >= 1
  <2> SUFFICES ASSUME Underway PROVE RejectionsLeft >= 1 OBVIOUS
  <2>1. stake[proposer] > 0 BY DEF Underway, Rejecting, Resting
  <2>2. proposer \in Validators BY DEF TypeOK
  <2> QED BY <2>1, <2>2, RejectionTaken
<1> QED BY <1>1, <1>2 DEF LeftAfter

\* A penalty takes one rejection off and suspends the proposer anew.
LEMMA PenaltyOutlasts ==
  ASSUME TypeOK, Outlasts, ApplySlash
  PROVE  Outlasts' /\ height' = height
<1> DEFINE s == Fault(proposer, Penalty, NoReporter)
           o == proposer
           a == Min(Penalty, stake[o])
<1>1. /\ pc = "idle" /\ pending = <<s>> /\ stake[o] > 0 /\ o \in Validators
      /\ stake[o] \in Nat /\ Penalty \in Nat \ {0}
  BY StakesAssumption DEF ApplySlash, Outlasts, Rejecting, TypeOK
<1>2. s.offender = o /\ s.kind = "safety" /\ s.amount = Penalty BY DEF Fault
<1>3. Head(pending) = s /\ Tail(pending) = << >> BY <1>1
<1>4. SlashedAmount(s) = a BY <1>2 DEF SlashedAmount
<1>5. a \in Nat /\ a > 0 BY <1>1 DEF Min
<1> HIDE DEF a, s
<1>6. /\ pending' = << >> /\ UNCHANGED <<pc, proposer, tried, height>>
      /\ stake' = [stake EXCEPT ![o] = @ - a]
      /\ SuspendValidator(o, "all", SafetyPeriod)
  BY <1>2, <1>3, <1>4, <1>5 DEF ApplySlash, commitVars
<1>7. RejectionsLeft' = RejectionsLeft - 1 /\ RejectionsLeft \in Nat /\ RejectionsLeft >= 1
  BY <1>1, <1>6, RejectionTaken DEF a
<1>8. Underway /\ ~Underway' BY <1>1, <1>6 DEF Underway
<1>9. LeftAfter' = LeftAfter /\ LeftAfter \in Nat BY <1>7, <1>8 DEF LeftAfter
<1>10. Rejecting' BY <1>1, <1>6 DEF Rejecting, Resting
<1>11. \A v \in Validators :
         /\ SuspendScope'[v] = "all"
         /\ suspendedFor'[v] > LeftAfter + (IF tried THEN 1 ELSE 0)
  <2>1. SafetyPeriod > LeftAfter + (IF tried THEN 1 ELSE 0)
    BY <1>9, TimesAssumption DEF Outlasts
  <2>2. \A v \in Validators :
          /\ suspendedFor'[v] = IF v = o THEN SafetyPeriod ELSE suspendedFor[v]
          /\ SuspendScope'[v] = IF v = o THEN "all" ELSE SuspendScope[v]
    BY <1>6 DEF SuspendValidator, TypeOK
  <2> QED BY <2>1, <2>2 DEF Outlasts
<1> QED BY <1>6, <1>9, <1>10, <1>11 DEF Outlasts

\* While the suspensions last a call of CommitBlock ends in a rejection or finds nobody.
LEMMA CallOutlasts ==
  ASSUME TypeOK, Outlasts, CommitStep
  PROVE  (Over' \/ Outlasts') /\ height' = height
<1> USE DEF Goto, statusVars, registryVars
<1>0. LeftAfter \in Nat /\ RejectionsLeft \in Nat BY LeftType DEF Outlasts
<1>1. \A v \in Validators : SuspendScope[v] = "all" /\ suspendedFor[v] > 0
  <2> DEFINE m == LeftAfter + (IF tried THEN 1 ELSE 0)
  <2>1. m \in Nat BY <1>0
  <2>2. \A v \in Validators : SuspendScope[v] = "all" /\ suspendedFor[v] > m
    BY DEF Outlasts
  <2>3. \A v \in Validators : suspendedFor[v] \in Nat BY DEF TypeOK
  <2> HIDE DEF m
  <2> QED BY <2>1, <2>2, <2>3
<1>2. /\ \A pick \in Validators : Eligible(pick) = {pick}
      /\ Cardinality(Voters) < Threshold
  BY <1>1, NobodyIsFree
<1>3. UNCHANGED stake => RejectionsLeft' = RejectionsLeft BY DEF RejectionsLeft
<1>4. ASSUME UNCHANGED <<stake, suspendedFor, SuspendScope>>, Rejecting',
             \/ tried' = tried /\ Underway' = Underway
             \/ Underway' /\ ~Underway
      PROVE  Outlasts'
  <2>1. \/ tried' = tried /\ LeftAfter' = LeftAfter
        \/ LeftAfter' = LeftAfter - 1
    BY <1>0, <1>3, <1>4 DEF LeftAfter
  <2>2. /\ SafetyPeriod > LeftAfter' + 1
        /\ \A v \in Validators : suspendedFor[v] > LeftAfter' + (IF tried' THEN 1 ELSE 0)
    BY <1>0, <2>1, TimesAssumption DEF Outlasts, TypeOK
  <2> QED BY <1>4, <2>2 DEF Outlasts
<1>5. CASE SelectProposer
  <2>1. PICK pick \in Validators : stake[pick] > 0 /\ proposer' \in Eligible(pick)
    BY <1>5 DEF SelectProposer
  <2>2. proposer' = pick BY <1>2, <2>1
  <2>3. /\ UNCHANGED <<stake, suspendedFor, SuspendScope, height, pending>>
        /\ pc = "idle" /\ pc' = "vote" /\ pending = << >>
    BY <1>5 DEF SelectProposer
  <2>4. Rejecting' BY <2>1, <2>2, <2>3 DEF Rejecting
  <2>5. Underway' /\ ~Underway BY <2>3 DEF Underway
  <2> QED BY <1>4, <2>3, <2>4, <2>5
<1>6. CASE NoProposer
  <2>1. /\ pc = "idle" /\ pc' = "idle" /\ pending = << >>
        /\ UNCHANGED <<stake, height, pending>>
        /\ TotalStake = 0 \/ height >= MaxBlocks
    BY <1>6 DEF NoProposer
  <2>2. Broke \/ height >= MaxBlocks BY <2>1, NoStakeLeft DEF TypeOK
  <2> QED BY <2>1, <2>2 DEF Over, Resting, Broke
<1>7. CASE Vote
  <2>1. /\ pc = "vote" /\ pc' = "reject" /\ pending = << >>
        /\ UNCHANGED <<stake, suspendedFor, SuspendScope, proposer, tried, height, pending>>
    <3>1. Cardinality(Voters) >= Threshold => FALSE
      <4>1. Cardinality(Voters) \in Nat /\ Threshold \in Int
        <5>1. Voters \in SUBSET Validators BY DEF Voters
        <5>2. Cardinality(Voters) \in Nat
          BY <5>1, ValidatorsCount, FS_Subset, FS_CardinalityType
        <5> DEFINE n == Len(Registry)
        <5>3. n \in Nat BY ValidatorsCount
        <5> HIDE DEF n
        <5>4. (2 * n) \div 3 + 1 \in Int BY <5>3
        <5> QED BY <5>2, <5>4 DEF Threshold, n
      <4> QED BY <1>2, <4>1
    <3> QED BY <1>7, <3>1 DEF Vote
  <2>2. stake[proposer] > 0 BY <2>1 DEF Outlasts, Rejecting, Resting
  <2>3. Rejecting' BY <2>1, <2>2 DEF Rejecting
  <2>4. Underway' = Underway BY <2>1 DEF Underway
  <2> QED BY <1>4, <2>1, <2>3, <2>4
<1>8. CASE RejectBlock
  <2>1. /\ pc = "reject" /\ pc' = "idle"
        /\ pending' = <<Fault(proposer, Penalty, NoReporter)>>
        /\ UNCHANGED <<stake, suspendedFor, SuspendScope, proposer, tried, height>>
    BY <1>8 DEF RejectBlock
  <2>2. stake[proposer] > 0 BY <2>1 DEF Outlasts, Rejecting, Resting
  <2>3. Rejecting' BY <2>1, <2>2 DEF Rejecting, Fault
  <2>4. Underway' = Underway
    <3>1. pending' # << >> BY <2>1
    <3> QED BY <2>1, <3>1 DEF Underway
  <2> QED BY <1>4, <2>1, <2>3, <2>4
<1>9. CASE CommitReward BY <1>9 DEF CommitReward, Outlasts, Rejecting, Resting
<1>10. CASE SaveBalances \/ FinishSave
  <2>1. /\ pc' \in {"file", "idle"} /\ pc \in {"save", "file"} /\ pending = << >>
        /\ UNCHANGED <<stake, suspendedFor, SuspendScope, proposer, tried, height, pending>>
    BY <1>10 DEF SaveBalances, FinishSave
  <2>2. Rejecting' BY <2>1 DEF Rejecting, Resting
  <2>3. Underway' = Underway BY <2>1 DEF Underway
  <2> QED BY <1>4, <2>1, <2>2, <2>3
<1>11. CASE ApplySlash BY <1>11, PenaltyOutlasts
<1> QED BY <1>5, <1>6, <1>7, <1>8, <1>9, <1>10, <1>11 DEF CommitStep

\* Time takes one tick off every suspension, and only after a call of CommitBlock.
LEMMA TickOutlasts ==
  ASSUME TypeOK, Outlasts, (tried /\ Tick) \/ UNCHANGED vars
  PROVE  Outlasts' /\ height' = height
<1>0. LeftAfter \in Nat BY LeftType DEF Outlasts
<1>1. UNCHANGED <<stake, SuspendScope, pc, proposer, height, pending>>
  BY DEF Tick, vars, registryVars, statusVars, commitVars
<1>2. LeftAfter' = LeftAfter /\ Rejecting'
  BY <1>1 DEF LeftAfter, RejectionsLeft, Underway, Outlasts, Rejecting, Resting
<1>3. CASE tried /\ Tick
  <2>1. tried' = FALSE /\ \A v \in Validators : suspendedFor'[v] = Max(0, suspendedFor[v] - 1)
    BY <1>3 DEF Tick
  <2>2. \A v \in Validators : suspendedFor[v] > LeftAfter + 1 /\ suspendedFor[v] \in Nat
    BY <1>3 DEF Outlasts, TypeOK
  <2>3. \A v \in Validators : suspendedFor'[v] > LeftAfter
    BY <1>0, <2>1, <2>2 DEF Max
  <2> QED BY <1>0, <1>1, <1>2, <2>1, <2>3 DEF Outlasts
<1>4. CASE UNCHANGED vars
  <2>1. UNCHANGED <<suspendedFor, tried>> BY <1>4 DEF vars, statusVars, commitVars
  <2> QED BY <1>1, <1>2, <2>1 DEF Outlasts
<1> QED BY <1>3, <1>4

LEMMA SpiralGoesOn ==
  ASSUME NEW h, NEW n \in Nat, NEW c \in Nat,
         TypeOK, ListIsSaved, Spiralling(h, n, c), [FairStep]_vars
  PROVE  Spiralling(h, n, c)'
<1>0. calls \in Nat /\ crashes \in Nat /\ calls' \in Nat /\ crashes' \in Nat
  <2>1. [Next]_vars BY DEF FairStep, Next
  <2>2. TypeOK' BY <2>1, NextKeepsTypes
  <2> QED BY <2>2 DEF TypeOK
<1>1. CASE calls > n \/ crashes > c
  <2>1. calls' >= calls /\ crashes' >= crashes BY CountersGrow
  <2> QED BY <1>0, <1>1, <2>1 DEF Spiralling
<1>2. CASE height = h /\ calls = n /\ crashes = c /\ (Over \/ Outlasts)
  <2>1. CASE OperatorStep \/ \E torn \in BOOLEAN : Restart(torn)
    <3>1. calls' > calls \/ crashes' > crashes BY <2>1, CountersGrow
    <3> QED BY <1>2, <3>1 DEF Spiralling
  <2>2. CASE CommitStep \/ (tried /\ Tick) \/ UNCHANGED vars
    <3>1. UNCHANGED <<calls, crashes>>
      BY <2>2 DEF CommitStep, SelectProposer, NoProposer, Vote, RejectBlock, CommitReward,
         SaveBalances, FinishSave, ApplySlash, Tick, vars, countVars
    <3>2. (Over' \/ Outlasts') /\ height' = height
      BY <1>2, <2>2, OverStays, CallOutlasts, TickOutlasts
    <3> QED BY <1>2, <3>1, <3>2 DEF Spiralling
  <2> QED BY <2>1, <2>2 DEF FairStep, AnyStepButTick
<1> QED BY <1>1, <1>2 DEF Spiralling

LEMMA SpiralBegins ==
  ASSUME NEW h, NEW n, NEW c, TypeOK, Spiral, height = h, calls = n, crashes = c
  PROVE  Spiralling(h, n, c)
<1>1. Rejecting /\ ~Underway BY DEF Spiral, Rejecting, Underway, Resting
<1>2. RejectionsLeft \in Nat /\ LeftAfter = RejectionsLeft
  BY <1>1, RejectionTaken DEF LeftAfter
<1>3. Outlasts BY <1>1, <1>2 DEF Spiral, Outlasts, TypeOK
<1> QED BY <1>3 DEF Spiralling

\* Once everybody is suspended for longer than the stakes last, no block follows: every
\* rejection slashes a proposer that did nothing wrong and suspends it anew
\* (consensus.go:102), until nothing is left to slash.  The one thing assumed of time is that
\* the ticker calls CommitBlock between two ticks.
THEOREM SpiralNeverEnds == FairSpec => SpiralIsFinal
<1> SUFFICES ASSUME NEW h \in 0..MaxBlocks, NEW n \in 0..MaxCalls, NEW c \in 0..MaxCrashes
             PROVE  FairSpec => [](Spiral /\ height = h /\ calls = n /\ crashes = c
                                    => [](height = h \/ calls > n \/ crashes > c))
  BY DEF SpiralIsFinal
<1> DEFINE P == Spiral /\ height = h /\ calls = n /\ crashes = c
           Q == height = h \/ calls > n \/ crashes > c
           S == Spiralling(h, n, c)
<1>0. n \in Nat /\ c \in Nat BY CountsAssumption
<1>1. TypeOK /\ P => S BY SpiralBegins
<1>2. TypeOK /\ ListIsSaved /\ S /\ [FairStep]_vars => S' BY <1>0, SpiralGoesOn
<1>3. S => Q BY DEF Spiralling
<1>4. [FairStep]_vars => [Next]_vars BY DEF FairStep, Next
<1>5. FairSpec => Init /\ [][FairStep]_vars
  <2>1. FairSpec => Init /\ [][AnyStepButTick \/ (tried /\ Tick)]_vars BY PTL DEF FairSpec
  <2> QED BY <2>1 DEF FairStep
<1> HIDE DEF P, Q, S
<1>6. FairSpec => Spec BY <1>4, <1>5, PTL DEF Spec
<1>7. FairSpec => [](P => []Q)
  BY <1>1, <1>2, <1>3, <1>5, <1>6, TypeCorrect, SavedList, PTL
<1> QED BY <1>7 DEF P, Q
=============================================================================
