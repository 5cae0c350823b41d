SPECIFICATION Spec
CONSTANTS
  alice = alice
  val = val
  Accounts = {alice, val}
  Proposers = {val}
  Commands <- AllCommands
  InitBalances <- AlicePays
  Amount = 1
  Fee = 1
  BlockReward = 5
  Airdrops <- SomeAirdrops
  Shares = {1}
  MaxRuns = 2
  MaxCuts = 0
  MaxFails = 0
  MaxTxs = 2
  MaxBlocks = 3
INVARIANTS
  SentTxIsKept
CHECK_DEADLOCK FALSE
