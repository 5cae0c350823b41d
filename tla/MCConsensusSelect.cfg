SPECIFICATION Spec
CONSTANTS
  v1 = v1
  v2 = v2
  v3 = v3
  ann = ann
  Registry <- ThreeValidators
  Reporters = {}
  NoReporter = NoReporter
  InitStake <- SmallStakes
  Penalty = 10
  BlockReward = 5
  FixStake = 10
  SafetyPeriod = 2
  DowntimePeriod = 1
  Amounts = {10}
  Durations = {2}
  MaxCalls = 3
  MaxCrashes = 0
  MaxBlocks = 1
PROPERTIES
  SuspendedNeverProposes
