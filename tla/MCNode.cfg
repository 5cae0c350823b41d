SPECIFICATION Spec
CONSTANTS
  alice = alice
  val = val
  Accounts = {alice, val}
  Proposers = {val}
  Commands <- AllCommands
  InitBalances <- AlicePays
  Amount = 1
  Fee = 1
  BlockReward = 5
  Airdrops <- SomeAirdrops
  Shares = {1}
  MaxRuns = 3
  MaxCuts = 1
  MaxFails = 1
  MaxTxs = 3
  MaxBlocks = 4
INVARIANTS
  TypeOK
  UsedNoncesAreRecorded
  ReplaysNeedCuts
  SavedMoneyAddsUp
  CommittedLeavesMempool
PROPERTIES
  SavedChainGrows
CHECK_DEADLOCK FALSE
