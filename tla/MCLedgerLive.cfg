SPECIFICATION FairSpec
CONSTANTS
  alice = alice
  val = val
  Accounts = {alice, val}
  Validators = {val}
  Wallets = {val}
  Suspendable = {}
  Clients = {c1, c2}
  Committers = {ticker, auto}
  Amounts <- MCAmounts
  Fees <- MCFees
  Transfers = {2}
  GatewayTxs <- MCGatewayTxs
  InitBalances <- AliceRich
  Shares = {}
  Airdrops = {}
  NoValidator = NoValidator
  MaxTxs = 3
  MaxBlocks = 3
  MaxCredit = 0
PROPERTIES
  StaleTxFreezesSender
  FreshTxCommits
