----------------------------- MODULE Consensus -----------------------------
(***************************************************************************)
(* Who proposes, who votes, who is punished (consensus/consensus.go) and   *)
(* what a punishment does to stakes, money and suspensions, in memory and  *)
(* on disk (ledger/validator.go).                                          *)
(*                                                                         *)
(* One goroutine runs CommitBlock; an operator calls the exported          *)
(* functions SuspendValidator, SlashDowntime, SlashSafetyFault,            *)
(* SlashCluster and FixValidators between its steps.  Slashes do not       *)
(* overlap: nothing in the code guards ledger.Validators.  Time passes     *)
(* anywhere, and the process may die anywhere and start again from what is *)
(* on disk.  The transactions of a block are those of module Ledger; here  *)
(* a commit is its reward and its saves.                                   *)
(***************************************************************************)
EXTENDS Integers, Sequences, FiniteSets, Functions

CONSTANTS
  Registry,       \* the addresses of validators.json, in its order
  Reporters,      \* addresses that report a fault
  NoReporter,     \* the empty address
  InitStake,      \* stakes in validators.json
  Penalty,        \* what a rejected proposer is slashed
  BlockReward,
  FixStake,       \* the stake FixValidators gives to a validator it imports
  SafetyPeriod,   \* suspension after a safety fault (24 h), in ticks
  DowntimePeriod, \* suspension after downtime (5 min), in ticks
  Amounts,        \* what an operator slashes
  Durations,      \* what an operator suspends for, in ticks
  MaxCalls,       \* bound: calls by an operator
  MaxCrashes,     \* bound: deaths of the process
  MaxBlocks       \* bound: blocks committed

Validators == Range(Registry)
Accounts == Validators \cup Reporters
Scopes == {"propose", "vote", "all"}

ASSUME RegistryAssumption ==
  /\ Registry \in Seq(Validators) /\ Registry # << >> /\ IsInjective(Registry)
  /\ NoReporter \notin Accounts /\ IsFiniteSet(Reporters)
ASSUME StakesAssumption ==
  /\ InitStake \in [Validators -> Nat]
  /\ Penalty \in Nat \ {0} /\ BlockReward \in Nat /\ FixStake \in Nat
  /\ Amounts \subseteq Nat
ASSUME TimesAssumption ==
  /\ SafetyPeriod \in Nat \ {0} /\ DowntimePeriod \in Nat \ {0}
  /\ Durations \subseteq Nat
ASSUME CountsAssumption ==
  MaxCalls \in Nat /\ MaxCrashes \in Nat /\ MaxBlocks \in Nat

VARIABLES
  stake,           \* stakes in ledger.Validators
  registered,      \* ledger.Validators is not empty
  suspendedFor,    \* ticks left until SuspendedUntil
  SuspendScope,    \* the scope of the last suspension
  Balances,        \* what rewards and slash shares have credited
  TreasuryBalance, BurnedSupply,
  file, fileHasList, savedBalances, \* on disk: validators.json, key "balances"
  pc, proposer,    \* CommitBlock
  pending,         \* calls of ApplySlash that the current call still makes
  tried,           \* CommitBlock has been called since the last tick
  height, calls, crashes, \* how often (for the bounds)
  granted          \* history: stake handed out by FixValidators

registryVars == <<stake, registered>>
statusVars   == <<suspendedFor, SuspendScope>>
sinkVars     == <<TreasuryBalance, BurnedSupply>>
diskVars     == <<file, fileHasList, savedBalances>>
commitVars   == <<pc, proposer, tried, height>>
countVars    == <<calls, crashes, granted>>
vars == <<registryVars, statusVars, Balances, sinkVars, diskVars, commitVars,
          pending, countVars>>

-----------------------------------------------------------------------------
IsSuspended(v, need) == suspendedFor[v] > 0 /\ SuspendScope[v] \in {"all", need}

TotalStake == SumFunction(stake)

Threshold == (2 * Len(Registry)) \div 3 + 1

\* A fault: a validator suspended from everything still votes.
VotersUnlessBarred ==
  {v \in Validators : ~(suspendedFor[v] > 0 /\ SuspendScope[v] = "vote")}

Voters == {v \in Validators : ~IsSuspended(v, "vote")}

\* selectValidatorVRFEligible, as the set of its one result: a suspended pick is
\* replaced by the first validator that is not, whatever its stake; if there is none,
\* the pick stands.
Eligible(pick) ==
  LET free == {i \in DOMAIN Registry : ~IsSuspended(Registry[i], "propose")}
  IN  IF IsSuspended(pick, "propose") /\ free # {}
        THEN {Registry[i] : i \in {j \in free : \A h \in free : j <= h}}
        ELSE {pick}

\* distributeSlashed.  float64 products are truncated: for the totals of a small
\* instance (below 90) that is what \div does; above, 0.70 may lose one token to
\* the honest share.
Burn(total)    == (70 * total) \div 100
Treasury(total) == (15 * total) \div 100
Whistle(total) == (10 * total) \div 100
Honest(total)  == total - Burn(total) - Treasury(total) - Whistle(total)

\* A fault: the offender gets a share as well.
ShareForAll(v, offender, total) ==
  LET rest == TotalStake - stake[offender]
  IN  IF rest = 0 THEN 0 ELSE (Honest(total) * stake[v]) \div rest

\* Pro rata and rounded down: what rounding leaves over goes nowhere.
HonestShare(v, offender, total) ==
  LET rest == TotalStake - stake[offender]
  IN  IF v = offender \/ rest = 0 THEN 0 ELSE (Honest(total) * stake[v]) \div rest

SlashKinds == {"safety", "downtime"}
Slashes == [offender: Validators, amount: Nat, reporter: Reporters \cup {NoReporter},
            kind: SlashKinds]

Fault(v, amount, reporter) ==
  [offender |-> v, amount |-> amount, reporter |-> reporter, kind |-> "safety"]

-----------------------------------------------------------------------------
NoSuspension == [v \in Validators |-> 0]

Init ==
  /\ stake = InitStake /\ registered = TRUE
  /\ suspendedFor = NoSuspension
  /\ SuspendScope = [v \in Validators |-> "none"]
  /\ Balances = [a \in Accounts |-> 0]
  /\ TreasuryBalance = 0 /\ BurnedSupply = 0
  /\ file = InitStake /\ fileHasList = TRUE
  /\ savedBalances = Balances
  /\ pc = "idle" /\ proposer \in Validators
  /\ pending = << >>
  /\ tried = FALSE
  /\ height = 0 /\ calls = 0 /\ crashes = 0 /\ granted = 0

-----------------------------------------------------------------------------
(* CommitBlock; the mempool is never empty *)

Goto(here, there) == pc = here /\ pending = << >> /\ pc' = there

\* A fault: the stake of the pick is not looked at.
SelectAnybody ==
  /\ Goto("idle", "vote")
  /\ height < MaxBlocks
  /\ \E pick \in Validators : proposer' \in Eligible(pick)
  /\ tried' = TRUE
  /\ UNCHANGED <<registryVars, statusVars, Balances, sinkVars, diskVars, height,
                 pending, countVars>>

SelectProposer ==
  /\ Goto("idle", "vote")
  /\ height < MaxBlocks
  /\ \E pick \in Validators : stake[pick] > 0 /\ proposer' \in Eligible(pick)
  /\ tried' = TRUE
  /\ UNCHANGED <<registryVars, statusVars, Balances, sinkVars, diskVars, height,
                 pending, countVars>>

\* No validators, or nobody with a stake: the empty pick has no wallet.  At the
\* bound MaxBlocks the mempool is empty.
NoProposer ==
  /\ Goto("idle", "idle")
  /\ TotalStake = 0 \/ height >= MaxBlocks
  /\ tried' = TRUE
  /\ UNCHANGED <<registryVars, statusVars, Balances, sinkVars, diskVars, proposer,
                 height, pending, countVars>>

\* bftVote: all that are not suspended vote yes; the threshold counts everybody.
Vote ==
  /\ \/ Cardinality(Voters) >= Threshold /\ Goto("vote", "commit")
     \/ Cardinality(Voters) < Threshold /\ Goto("vote", "reject")
  /\ UNCHANGED <<registryVars, statusVars, Balances, sinkVars, diskVars, proposer,
                 tried, height, pending, countVars>>

RejectBlock ==
  /\ Goto("reject", "idle")
  /\ pending' = <<Fault(proposer, Penalty, NoReporter)>>
  /\ UNCHANGED <<registryVars, statusVars, Balances, sinkVars, diskVars, proposer,
                 tried, height, countVars>>

CommitReward ==
  /\ Goto("commit", "save")
  /\ Balances' = [Balances EXCEPT ![proposer] = @ + BlockReward]
  /\ height' = height + 1
  /\ UNCHANGED <<registryVars, statusVars, sinkVars, diskVars, proposer, tried,
                 pending, countVars>>

\* SaveAllData: first the balances, last validators.json.
SaveBalances ==
  /\ Goto("save", "file")
  /\ savedBalances' = Balances
  /\ UNCHANGED <<registryVars, statusVars, Balances, sinkVars, file, fileHasList,
                 proposer, tried, height, pending, countVars>>

\* A fault: the list is not written.
SkipSaveValidators == UNCHANGED <<file, fileHasList>>

SaveValidators == file' = stake' /\ fileHasList' = registered'

\* A fault: CommitBlock returns without resetting its flag.
FinishSaveBusy ==
  /\ Goto("file", "file")
  /\ UNCHANGED <<registryVars, statusVars, Balances, sinkVars, savedBalances,
                 proposer, tried, height, pending, countVars>>
  /\ SaveValidators

FinishSave ==
  /\ Goto("file", "idle")
  /\ UNCHANGED <<registryVars, statusVars, Balances, sinkVars, savedBalances,
                 proposer, tried, height, pending, countVars>>
  /\ SaveValidators

-----------------------------------------------------------------------------
(* ApplySlash *)

Min(a, b) == IF a <= b THEN a ELSE b
Max(a, b) == IF a >= b THEN a ELSE b

\* A fault: more is slashed than there is.
SlashedInFull(s) ==
  IF s.kind = "downtime" THEN Max(1, stake[s.offender] \div 10000) ELSE s.amount

\* The amount to slash: given (the correlation multiplier applied), or for downtime
\* 0.01 % of the stake and at least 1; never more than the stake.
SlashedAmount(s) ==
  LET have == stake[s.offender]
      want == IF s.kind = "downtime" THEN Max(1, have \div 10000) ELSE s.amount
  IN  Min(want, have)

\* A fault: without a reporter the reward for it is lost.
DistributeNoFallback(s, total) ==
  LET others == TotalStake - stake[s.offender]
  IN  /\ BurnedSupply' = BurnedSupply + Burn(total)
      /\ TreasuryBalance' = TreasuryBalance + Treasury(total)
                              + (IF others = 0 THEN Honest(total) ELSE 0)
      /\ Balances' = [a \in Accounts |->
           Balances[a] + (IF a = s.reporter THEN Whistle(total) ELSE 0)
             + (IF a \in Validators THEN HonestShare(a, s.offender, total) ELSE 0)]

\* distributeSlashed
Distribute(s, total) ==
  LET toReporter == s.reporter # NoReporter
      others     == TotalStake - stake[s.offender]
  IN  /\ BurnedSupply' = BurnedSupply + Burn(total)
      /\ TreasuryBalance' = TreasuryBalance + Treasury(total)
                              + (IF toReporter THEN 0 ELSE Whistle(total))
                              + (IF others = 0 THEN Honest(total) ELSE 0)
      /\ Balances' = [a \in Accounts |->
           Balances[a] + (IF a = s.reporter THEN Whistle(total) ELSE 0)
             + (IF a \in Validators THEN HonestShare(a, s.offender, total) ELSE 0)]

\* SuspendValidator overwrites: the last suspension wins, even when it is shorter.
SuspendValidator(v, scope, period) ==
  /\ suspendedFor' = [suspendedFor EXCEPT ![v] = period]
  /\ SuspendScope' = [SuspendScope EXCEPT ![v] = scope]

\* The next ApplySlash of the current call, validators.json included.  Nothing
\* happens when there is nothing to slash: no suspension either.
ApplySlash ==
  /\ pending # << >>
  /\ pending' = Tail(pending)
  /\ LET s == Head(pending)
         actual == SlashedAmount(s)
     IN  \/ actual = 0 /\ UNCHANGED <<registryVars, statusVars, Balances, sinkVars, diskVars>>
         \/ /\ actual > 0
            /\ stake' = [stake EXCEPT ![s.offender] = @ - actual]
            /\ \/ /\ s.kind = "safety"
                  /\ Distribute(s, actual)
                  /\ SuspendValidator(s.offender, "all", SafetyPeriod)
               \/ /\ s.kind = "downtime"
                  /\ BurnedSupply' = BurnedSupply + actual
                  /\ SuspendValidator(s.offender, "propose", DowntimePeriod)
                  /\ UNCHANGED <<Balances, TreasuryBalance>>
            /\ UNCHANGED <<registered, savedBalances>>
            /\ SaveValidators
  /\ UNCHANGED <<commitVars, countVars>>

-----------------------------------------------------------------------------
(* The operator *)

Call ==
  /\ calls < MaxCalls /\ pending = << >>
  /\ calls' = calls + 1
  /\ UNCHANGED <<commitVars, crashes>>

Suspend(v, scope, period) ==
  /\ Call
  /\ SuspendValidator(v, scope, period)
  /\ UNCHANGED <<registryVars, Balances, sinkVars, diskVars, pending, granted>>

Slash(list) ==
  /\ Call
  /\ pending' = list
  /\ UNCHANGED <<registryVars, statusVars, Balances, sinkVars, diskVars, granted>>

SlashSafetyFault(v, amount, reporter) == Slash(<<Fault(v, amount, reporter)>>)

SlashDowntime(v) ==
  Slash(<<[offender |-> v, amount |-> 0, reporter |-> NoReporter, kind |-> "downtime"]>>)

\* 40 % of the amount from main, the rest from sub, sub first; a part of 0 is not
\* slashed.
SlashCluster(main, sub, amount, reporter) ==
  LET mainAmt == (amount * 40) \div 100
  IN  Slash(<<Fault(sub, amount - mainAmt, reporter), Fault(main, mainAmt, reporter)>>)

\* Balances are also saved on their own (Airdrop, the slash command).
SaveBalancesNow ==
  /\ Call
  /\ savedBalances' = Balances
  /\ UNCHANGED <<registryVars, statusVars, Balances, sinkVars, file, fileHasList,
                 pending, granted>>

\* FixValidators: an empty list is rebuilt from the wallets in validators/.
FixValidators ==
  /\ Call
  /\ ~registered
  /\ registered' = TRUE
  /\ stake' = [v \in Validators |-> FixStake]
  /\ granted' = granted + FixStake * Len(Registry)
  /\ SaveValidators
  /\ UNCHANGED <<statusVars, Balances, sinkVars, savedBalances, pending>>

-----------------------------------------------------------------------------
(* Time and crashes *)

Tick ==
  /\ \E v \in Validators : suspendedFor[v] > 0
  /\ suspendedFor' = [v \in Validators |-> Max(0, suspendedFor[v] - 1)]
  /\ tried' = FALSE
  /\ UNCHANGED <<registryVars, SuspendScope, Balances, sinkVars, diskVars, pc,
                 proposer, height, pending, countVars>>

\* The process ends and another one loads what is on disk.  Suspensions, treasury
\* and burned supply are nowhere on disk.  os.WriteFile truncates before it writes:
\* a death inside SaveValidators leaves no list ("torn").
Restart(torn) ==
  /\ crashes < MaxCrashes
  /\ torn => pending # << >> \/ pc = "file"
  /\ crashes' = crashes + 1
  /\ fileHasList' = (fileHasList /\ ~torn)
  /\ registered' = fileHasList'
  /\ stake' = IF fileHasList' THEN file ELSE [v \in Validators |-> 0]
  /\ Balances' = savedBalances
  /\ suspendedFor' = NoSuspension
  /\ SuspendScope' = [v \in Validators |-> "none"]
  /\ TreasuryBalance' = 0 /\ BurnedSupply' = 0
  /\ pc' = "idle" /\ pending' = << >> /\ tried' = FALSE
  /\ UNCHANGED <<file, savedBalances, proposer, height, calls, granted>>

-----------------------------------------------------------------------------
CommitStep ==
  \/ SelectProposer \/ NoProposer \/ Vote \/ RejectBlock
  \/ CommitReward \/ SaveBalances \/ FinishSave \/ ApplySlash

OperatorStep ==
  \/ \E v \in Validators, scope \in Scopes, d \in Durations : Suspend(v, scope, d)
  \/ \E v \in Validators, n \in Amounts, r \in Reporters \cup {NoReporter} :
       SlashSafetyFault(v, n, r)
  \/ \E v \in Validators : SlashDowntime(v)
  \/ \E main, sub \in Validators, n \in Amounts, r \in Reporters \cup {NoReporter} :
       SlashCluster(main, sub, n, r)
  \/ SaveBalancesNow \/ FixValidators

AnyStepButTick ==
  CommitStep \/ OperatorStep \/ \E torn \in BOOLEAN : Restart(torn)

Next == AnyStepButTick \/ Tick

Spec == Init /\ [][Next]_vars

\* The ticker calls CommitBlock again and again and time goes on; nothing is assumed
\* of the operator.  No tick passes without a call of CommitBlock: a tick is longer than
\* BlockTime.
FairSpec ==
  /\ Init /\ [][AnyStepButTick \/ (tried /\ Tick)]_vars
  /\ WF_vars(CommitStep) /\ WF_vars(tried /\ Tick)

-----------------------------------------------------------------------------
(* Types *)

CommitPlaces == {"idle", "vote", "commit", "reject", "save", "file"}

\* Every variable holds a value of the Go variable's type, and no stake, sink or
\* suspension is ever negative.
TypeOK ==
  /\ stake \in [Validators -> Nat] /\ registered \in BOOLEAN
  /\ suspendedFor \in [Validators -> Nat]
  /\ SuspendScope \in [Validators -> Scopes \cup {"none"}]
  /\ Balances \in [Accounts -> Nat]
  /\ TreasuryBalance \in Nat /\ BurnedSupply \in Nat
  /\ file \in [Validators -> Nat] /\ fileHasList \in BOOLEAN
  /\ savedBalances \in [Accounts -> Nat]
  /\ pc \in CommitPlaces /\ proposer \in Validators
  /\ pending \in Seq(Slashes)
  /\ tried \in BOOLEAN
  /\ height \in Nat /\ calls \in Nat /\ crashes \in Nat /\ granted \in Nat

-----------------------------------------------------------------------------
(* Money *)

\* What has ever been staked or minted as a reward.
Budget == SumFunction(InitStake) + BlockReward * height + granted

InMemory == TotalStake + SumFunction(Balances) + TreasuryBalance + BurnedSupply
OnDisk == (IF fileHasList THEN SumFunction(file) ELSE 0) + SumFunction(savedBalances)

\* Neither memory nor disk ever holds more money than was staked and minted: no
\* crash leaves on disk both a stake and the shares paid out of it, because
\* ApplySlash writes validators.json before anybody writes the balances.
NoInflation == InMemory <= Budget /\ OnDisk <= Budget

\* Slashing is final: no step and no restart gives stake back, except FixValidators
\* when the list on disk was lost.
StakeNeverReturns ==
  [][\A v \in Validators : stake'[v] <= stake[v] \/ granted' > granted]_vars

Lost == Budget - InMemory

\* As long as the process lives, a step loses at most what rounding the shares of the
\* honest validators down leaves over ("residu", validator.go:227): less than one token
\* for each of them.
RoundingLossBounded ==
  [][crashes' = crashes => Lost' <= Lost + Max(0, Len(Registry) - 2)]_vars

-----------------------------------------------------------------------------
(* Proposers and votes *)

\* "skip yang suspended (propose)" (consensus.go:84): a validator suspended from
\* proposing is not selected.
SuspendedNeverProposes ==
  [][pc = "idle" /\ pc' = "vote" => ~IsSuspended(proposer', "propose")]_vars

Resting == pc \in {"idle", "save", "file"}

\* When all stakes are slashed away no block is ever committed again, and a restart
\* does not help: the drained list is on disk.
DrainedIsForever ==
  \A h \in 0..MaxBlocks :
    [](Resting /\ TotalStake = 0 /\ height = h => [](height = h \/ granted > 0))

\* Calls of CommitBlock that can still fail and slash somebody.
RejectionsLeft ==
  SumFunction([v \in Validators |-> (stake[v] + Penalty - 1) \div Penalty])

\* Everybody is suspended from everything, for so long that all stakes are gone
\* before the first suspension ends; a penalty suspends for as long as that, too.
Spiral ==
  /\ Resting /\ pending = << >>
  /\ SafetyPeriod > RejectionsLeft + 1
  /\ \A v \in Validators :
       SuspendScope[v] = "all" /\ suspendedFor[v] > RejectionsLeft + 1

\* A rejected block punishes a proposer that did nothing wrong, by 10 tokens and by
\* 24 hours without a vote (consensus.go:102), suspended proposers included.  Once
\* that has reached everybody, and the ticker keeps calling CommitBlock, no
\* suspension ends in time: no block is ever committed again.
SpiralIsFinal ==
  \A h \in 0..MaxBlocks, n \in 0..MaxCalls, c \in 0..MaxCrashes :
    [](Spiral /\ height = h /\ calls = n /\ crashes = c
         => [](height = h \/ calls > n \/ crashes > c))

\* CommitBlock does not reject for ever: the bound on blocks is reached, or all stakes
\* are gone (or their list is).
CommitsOrDrains == <>(height = MaxBlocks \/ TotalStake = 0)
=============================================================================
