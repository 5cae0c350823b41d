SPECIFICATION Spec
CONSTANTS
  alice = alice
  val = val
  Accounts = {alice, val}
  Validators = {alice, val}
  Wallets = {val}
  Suspendable = {alice}
  Clients = {c1, c2}
  Committers = {ticker, auto}
  Amounts <- MCAmounts
  Fees <- MCFees
  Transfers = {2}
  GatewayTxs <- MCGatewayTxs
  InitBalances <- AlicePoor
  Shares = {}
  Airdrops <- MinusOne
  NoValidator = NoValidator
  MaxTxs = 3
  MaxBlocks = 4
  MaxCredit = 1
SYMMETRY Symmetry
INVARIANTS
  TypeOK
  ChainMatchesNonces
  MempoolNeverAhead
  OneTxPerSenderPerBlock
  NeverOverspent
  Conservation
  IndInv
PROPERTIES
  RefinesBank
