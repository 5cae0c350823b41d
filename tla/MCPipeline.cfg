SPECIFICATION FlowSpec
CONSTANTS
  alice = alice
  val = val
  s1 = s1
  Accounts = {alice, val}
  Validators = {val}
  Wallets = {val}
  Suspendable = {}
  Clients = {s1, cli}
  Committers = {ticker}
  Amounts = {2}
  Fees = {1}
  Transfers = {2}
  GatewayTxs <- Signed
  InitBalances <- Rich
  Shares = {}
  Airdrops = {1}
  NoValidator = NoValidator
  MaxTxs = 2
  MaxBlocks = 3
  MaxCredit = 1
  Shards = {s1}
  ShardOf <- OneShard
  Stake <- OneValidator
  Callers = {1}
  feeMid = 2
  feeHigh = 3
  Rate <- Rates
  Burst <- Bursts
  Unit = 2
  Capacity = 1
  MaxCalls = 2
  MaxTime = 1
INVARIANTS
  ChainIsRateLimited
  ExecutedInQueueOrder
CHECK_DEADLOCK FALSE
