SPECIFICATION FairSpec
CONSTANTS
  v1 = v1
  v2 = v2
  v3 = v3
  ann = ann
  Registry <- TwoValidators
  Reporters = {}
  NoReporter = NoReporter
  InitStake <- TwoStakes
  Penalty = 10
  BlockReward = 5
  FixStake = 10
  SafetyPeriod = 5
  DowntimePeriod = 1
  Amounts = {}
  Durations = {1, 4}
  MaxCalls = 2
  MaxCrashes = 1
  MaxBlocks = 2
PROPERTIES
  SpiralIsFinal
  DrainedIsForever
  CommitsOrDrains
