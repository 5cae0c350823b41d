SPECIFICATION Spec
CONSTANTS
  v1 = v1
  v2 = v2
  v3 = v3
  ann = ann
  Registry <- ThreeValidators
  Reporters = {ann}
  NoReporter = NoReporter
  InitStake <- SmallStakes
  Penalty = 10
  BlockReward = 5
  FixStake = 10
  SafetyPeriod = 2
  DowntimePeriod = 1
  Amounts = {15}
  Durations = {1}
  MaxCalls = 2
  MaxCrashes = 1
  MaxBlocks = 1
INVARIANTS
  TypeOK
  NoInflation
PROPERTIES
  StakeNeverReturns
  RoundingLossBounded
