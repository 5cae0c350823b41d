# hyperlux-chain in TLA+

hyperlux-chain is a small account-based blockchain node in Go: a command line, a
ledger kept in memory and saved to leveldb, a commit pipeline with weighted random
proposers and a simulated vote, stakes that are slashed, and a transaction gateway.
The modules here model the parts that keep shared or durable state. `PROJECT.json`
maps every definition to the lines it stands for.

## Inventory

| Component | State | Operations | Interacts through |
|---|---|---|---|
| Mempool and execution (`ledger/transaction.go`, `state.go`) | `Balances`, `NonceTable`, `Mempool`, each under its own lock | `NewTransaction`, `ValidateAndAddToMempool`, `MempoolSnapshot`, `ProcessTxListParallel`, `RemoveCommittedFromMempool`, `Airdrop` | called by the CLI, the ingress shards and `CommitBlock` |
| Block production (`consensus/consensus.go`, `ledger/block.go`) | `Blockchain` (no lock), `committing`, PoH chain, `Delegates` (never read) | `CommitBlock`, `selectValidatorVRFEligible`, `bftVote`, `AddBlockWithTxs` | ticker of 350 ms, auto-commit loops, the `commit` command |
| Validators (`ledger/validator.go`) | `Validators` (no lock), `ValidatorStatus`, `TreasuryBalance`, `BurnedSupply`, `validators.json` | `ApplySlash` and the four `Slash*` functions, `SuspendValidator`, `FixValidators`, load and save | `CommitBlock` slashes; the `slash`, `suspend`, `fix-validators` commands |
| Storage (`ledger/storage.go`, `ledger.go`) | leveldb keys `balances`, `blockchain`, `mempool`, `nonce_table` | `LoadAllData`, `SaveAllData`, `InitLedger` | all commands |
| Command line (`cli/cli.go`, `cmd/main.go`) | one process per command | about twenty handlers | everything |
| Gateway (`network/network.go`) | three token buckets, shard queues, counters | `GatewayAcceptTx`, shard goroutines | `ValidateAndAddToMempool`; nothing in `src` calls it yet |
| Peer registry (`network/network.go`, `peer.go`) | `peers` under one lock, `peers.json` | `InitNetwork`, `RegisterPeerRemote`, `ConnectPeer`, `TouchSelfAddr`, import, export | the node's start; with build tag `p2p` the host and incoming announcements |
| Mini-blocks and gossip (`network/messages.go`, `gossip.go`) | `miniBlockBus`, a bounded channel | `SignMiniBlock`, `PublishMiniBlock`, `CollectMiniBlocks` | wallets; with build tag `p2p` received blocks go to `Blockchain` |
| Wallets, keystore (`wallet/`) | files | generate, sign, encrypt | signatures |
| VM, RPC, badger, config, crypto | none | stubs | nothing |

What makes each of them correct, and what is hard about it:

- *Mempool and execution.* Each nonce is executed once and in order, nobody
  spends what he does not own, money is conserved. Hard: every test is made on values read under a lock
  that is released before they are used, and no test looks at a sign.
- *Block production.* One commit at a time; a proposer that may propose; progress.
  Hard: a reentrancy flag with many returns, and a penalty that feeds on itself.
- *Validators.* A slash only moves money, never creates it, and is final. Hard: two
  roundings, three fallbacks, two files saved at different times.
- *Storage and command line.* What one process saved is what the next one needs. Hard:
  keys are written one after the other, goroutines are cut off when `main` returns, and
  some commands save nothing.
- *Gateway.* A lane keeps its rate, a sender's transactions are validated in order, every
  call is counted. Hard: callers of different weight refill and cap one bucket, and a
  full queue loses a transaction of a call that reports success.
- *Peer registry.* The file follows the registry and outlives the process. Hard: the
  change and the save are two sections under two locks, several savers write one
  file, and a write empties it first.
- *Mini-blocks.* None is returned twice, a collection ends, a root tells its list.
  Hard: collectors of different slots draw from one channel, a deadline races what keeps
  arriving, and an odd number of hashes.

## Modules

| Module | Models |
|---|---|
| `Ledger` | clients and committers on the shared in-memory state |
| `Bank` | what `Ledger` promises: serial transfers with the next nonce, paid from what the sender owns |
| `LedgerInv` | the inductive invariants of `Ledger`: `IndInv`, and `Books` for the money |
| `SumTheorems` | what the proofs need of induction and of sums over a finite set |
| `LedgerProofs` | solvency, refinement of `Bank`, nonces once and in order, conservation, stale transactions |
| `Consensus` | proposers, votes, slashes, suspensions, `validators.json`, restarts |
| `ConsensusProofs` | slashing is final and creates nothing, what rounding loses, the end of all stakes |
| `Node` | processes, commands, the order of saves, failed writes, deaths |
| `NodeProofs` | what is on disk after any death or failed write; the saved mempool; how often a nonce can be executed, and what the saved balances add up to |
| `Gateway` | lanes, token buckets, counters, the queue and goroutine of each shard |
| `Ingress` | what the shards promise: one queue per sender, served one by one |
| `GatewayProofs` | the rate limit, the burst and the counters; what the shards get; refinement of `Ingress` |
| `Pipeline` | a transaction's whole way: `Gateway` and `Ledger` composed |
| `PipelineProofs` | the composition implements both sides; queue order and rate limit on the chain |
| `Peers` | the peer registry, `peers.json`, starts and ends of the process |
| `PeersProofs` | the file follows the registry, registered peers are kept |
| `Merkle` | `ComputeMerkleRoot` and the tree it should be the root of |
| `MiniBlocks` | producers and collectors on the bus; extends `Merkle` |
| `MiniBlocksProofs` | one place for each mini-block; the loop computes the tree's root; what a root tells of its list |
| `MCLedger`, `MCConsensus`, `MCNode`, `MCGateway`, `MCPipeline`, `MCPeers`, `MCMiniBlocks` | instances for TLC |

`Gateway` hands transactions to the clients of `Ledger`: a shard goroutine that validates
is a `Client` there, whose `ReceiveTx` takes any transaction of `GatewayTxs`. `Pipeline` composes
the two: there a shard takes what its queue holds. `Peers` and
`MiniBlocks` share nothing with the ledger in the default build.

`Ledger`, `Consensus` and `Node` look at one commit at different grain. `Ledger` splits it into every
separate access to shared memory and leaves out the disk; `Consensus` reduces it to its
reward and its saves and adds stakes, suspensions and time; `Node` makes the execution
one step and splits the saves and the life of the process. A step that one model makes coarse is fine in another.

### Ledger

A client goroutine is at one of the places `idle`, `nonce`, `balance`, `append` of
`ValidateAndAddToMempool`, with its transaction in `ctx`; the transaction is new
(`NewTransaction`) or arrives through a shard from elsewhere (`GatewayTxs`: older nonces,
nonces ahead, a broken signature). The code reads nonce and balance and then tests both;
the model tests the nonce right after reading it, which changes nothing because the
test looks at no other state.

A committer is at a place of `CommitBlock`; its locals (`snap`, `nonceSnap`, `balSnap`,
`jobs`, `todo`, `localNonce`, `localBal`, `final`) are variables with the names of the
code. `stateLocked` stands for the two write locks of the commit loop; every reader or
writer of balances or nonces waits for it. Workers share nothing they write: they are
executed one partition at a time, in every order. The sort by nonce may leave equal
nonces in any order. `left` in an entry of `final`, `credited` and `taken` are history
variables. A rejected block credits shares of the proposer's slash (any amounts in
`Shares`); `Consensus` computes them.

Amounts, fees, airdrops and initial balances have either sign, as in the code: `ValidateAndAddToMempool`
and the workers compare a balance with amount plus fee (transaction.go:68, 188) and nothing else, the
fee of a received transaction is neither signed nor computed again (243-250), and `airdrop` adds
what it is given (cli.go:519). A negative amount pays its sender and debits its recipient, whom
nobody asks; a negative fee debits the proposer. So balances do fall below zero. `taken` records
what negative numbers have taken from each account, and `Worth` is the balance without that:
what is left to promise is that nobody *spends* what he does not own
(`NeverOverspent`), and `Bank` says the same of every single transfer. Where all numbers are
natural `taken` stays 0, and both say that no balance is ever negative. Nonces are naturals: a
negative one is refused like any other that is not the next.

### Consensus

`pc` is the place of `CommitBlock`, `pending` holds the `ApplySlash` calls that the current
call still makes, `suspendedFor` counts ticks down to `SuspendedUntil`. `Restart` may
strike between any two steps; with `torn` it strikes inside the write of
`validators.json`, which `os.WriteFile` truncates first. Suspensions, treasury and burned
supply are lost by a restart, as they are nowhere on disk. The model composes the
exported functions of the package in one process. In the shipped command line
`suspend` and `slash` run in processes of their own, which never commit, so no suspension
reaches a running committer there: what is shown here is about the package, and about
any node that calls it from a running process, as `CommitBlock` itself does.

`Spiral` is the state in which everybody is suspended for longer than the stakes last. Its
condition on `SafetyPeriod` is the same for the suspensions to come: a penalty suspends its
proposer anew, for `SafetyPeriod` from then on, be that shorter than before. With 24 hours
against the 5.8 hours computed below the code meets it.

The truncation of `float64` products is integer division for small totals: `int(t*0.70)`
first differs at 90, by one token that moves from the burn to the honest share.

### Node

`cmd` is the command of the running process (leveldb's file lock admits one), the four
variables of memory are loaded from `disk` by `Launch`, `todo` lists the keys that the
current save has still to write. `Return` is the orderly end of `main`, `Die` the other one.
`start` and the stress commands return whatever their committer is doing. `cuts` counts
the commits, airdrops, slashes and genesis saves that the end of a process cut off. Bulk, stress,
stress-and-commit and full-test commands differ in how many wallets they use and when
they wait; here they are `tx` (only submits) or `stress` (submits and commits). The save with
which `full-test` begins, like the one of `fix-validators`, writes the four keys as they were loaded. `airdrop` gives
one amount of either sign to the wallets of a folder, `slash` shares to honest validators and to the reporter;
both then save the balances (`Grant`), and `grant` and `granted` are history variables that
say what they have added in memory and on disk. The other commands change none of the four keys. A transfer
has one `Amount` and one `Fee` of any sign. No
command both suspends and commits, so votes pass. `SaveFails` is a `db.Put` whose error
the code drops: the key keeps its old value and the process goes on. `unsaved` holds the
keys that are older on disk than in memory for that reason, `lost` says that a process
ended with one.

### Gateway

Each caller of `GatewayAcceptTx` is at a place of the call (`ctx`). Time is counted in
ticks and tokens in parts of `1/Unit`: the code computes in `float64`, whose rounding is
left out. A stake is given in ten thousands, so that a weight is a whole number; the code
also knows the weights between. `allow` is one action because it runs under the lock of
the bucket; so are a send to a queue and an increment of a counter. A validator's
stake does not change during a run, and a queue that is full is a transaction lost: the
call counts it as dropped (`Overflow`) and then as accepted (`Accept`), which is what
`EveryCallIsCounted` states. Shards share nothing but the counters, so the instance has
one. `admitted`, `refused`, `before` and `validated` are history variables.

`Ingress` is the abstract specification: per sender a queue and at most one transaction
that is being validated, the next only after the last. `RefinesIngress` maps its `pending`
to the sender's part of the shard's queue, `FromSender`.

### Pipeline

`Pipeline` extends `Ledger` and instantiates `Gateway` as `G`. Both keep their state; some of the
clients of the one are the shards of the other. `Take` is the receive of a shard (network.go:243):
one step takes the head of the queue and calls `ValidateAndAddToMempool` with it. `Validate` is a
step of that call, and the one that returns ends the validation for the gateway.
The other clients are commands, which build their own transactions and pass the gateway by
(cli.go:149); every other step is one of the gateway or of the ledger alone. Nothing in `src` calls
`GatewayAcceptTx` yet, so its callers hand in any transaction of `GatewayTxs`, in any order
and as often as they like. `payload` is the transaction of each call, which
`Gateway` knows by a number, sender and fee. `log` (what a queue has taken in), `entered` (the
positions of it that reached the mempool) and `built` (what commands have built) are history variables.

### Peers

`ChangeRegistry` is the section under the write lock, `BeginSave` to `Write` the section
under the read lock in `savePeers`, which several goroutines may be in at once:
the lock is kept over `os.WriteFile`, and that is what `SavedListIsCurrent` rests on.
`Truncate` and `Write` are the two halves of `os.WriteFile`; a process that ends between
them leaves a file without a list (`Torn`), which the next one ignores. Node IDs are
random in the code and are the numbers of the starts here. A list in a file is a function
of the ID, because its order comes from the iteration over a map. `StartP2P` lists no
address (the stub) or some (the host). Nothing depends on `LastSeen`. What ends up in
`peers.json` by two savers that write at the same time is one of their lists, which are
equal because nothing changes while either holds the lock.

### MiniBlocks

Mini-blocks arrive without a bound. The first `MaxFollowed` of them carry a number and are
followed from publication to their end (`returned`, `discarded`, `overflowed`); the others
carry 0 and only take up room. That keeps the state space finite and leaves
`CollectionEnds` its point: a collector may find something on the bus at every turn. A signature is
what it signs. A hash is a term: texts that differ have different hashes, pairs that differ
too, and no text has the hash of a pair, which SHA-256 gives up to collisions. `HashTransaction` hashes a text
of From, To, Amount, Nonce and Signature; Fee and PubKey are not in it. Nothing keeps a list from
holding a transaction twice. `[a, b, c]` and `[a, b, c, c]` have the same root, as in every tree that
pairs an odd hash with itself, and so has `[a, b, c, c']` where `c'` is `c` at another fee. `RootIdentifiesTxs`
says that there is nothing else: lists with one root agree in what is hashed of their transactions,
except for copies at the end of the longer one (`CopiesFollow`). The reference tree of `Merkle` is built
from the root down, the loop of the code from the leaves up: `Trees` is the complete binary tree of the least
height that has room for all, in which a right half without leaves is a copy of the left one.
`VerifyMiniBlock` checks the signature and does not hash the transactions
again.

## Runs

| Run | Instance | Shows |
|---|---|---|
| `ledger_safety` | 2 accounts, 2 clients, 2 committers, both validators, one may be suspended, amounts of 2 and -3, fees of 1 and -6, airdrops of -1, 3 transactions, 4 blocks | `ChainMatchesNonces`, `MempoolNeverAhead`, `OneTxPerSenderPerBlock`, `NeverOverspent`, `Conservation`, `RefinesBank`, `TypeOK`, and `IndInv` of the proofs |
| `ledger_live` | 2 accounts, 3 transactions, 3 blocks, no symmetry | `StaleTxFreezesSender`, `FreshTxCommits` |
| `consensus_crash` | 3 validators (stakes 20, 10, 7), 2 calls, 1 crash, 1 block | `NoInflation`, `StakeNeverReturns`, `RoundingLossBounded`, `TypeOK` |
| `consensus_live` | 2 validators (stakes 20, 7), suspensions of 5 ticks, 2 calls, 1 crash, 2 blocks | `SpiralIsFinal`, `DrainedIsForever`, `CommitsOrDrains` |
| `node_crash` | 2 accounts, airdrops of -2, slashes of 1, 3 processes, 1 cut, 1 failed Put, 3 transactions, 3 blocks after genesis | `UsedNoncesAreRecorded`, `ReplaysNeedCuts`, `SavedMoneyAddsUp`, `CommittedLeavesMempool`, `SavedChainGrows`, `TypeOK` |
| `gateway` | a validator and another sender, 2 callers, 1 shard with room for 2, 3 calls, 1 tick | `RateIsBounded`, `FullBurstFirst`, `EveryCallIsCounted`, `RefinesIngress`, `QueuedIsValidated`, `TypeOK` |
| `pipeline` | 2 accounts, 1 caller, 1 shard with room for 1, 1 command, 1 committer, 2 calls, 2 built transactions, 3 blocks, 1 tick | `ExecutedInQueueOrder`, `ChainIsRateLimited` |
| `peers` | 2 remote peers, one of them a boot node, 2 goroutines, 3 processes, 2 calls | `SavedListIsCurrent`, `RegisteredPeersAreKept`, `CallsReturn`, `TypeOK` |
| `miniblocks` | 2 slots, 2 collectors, a bus for 2, 2 followed mini-blocks, 5 lists of 0 to 5 transactions, one with a copy at another fee | `OneCopy`, `RootIsTreeRoot`, `RootIdentifiesTxs`, `CollectionEnds`, `TypeOK` |

Why the bounds are enough. Two clients and two committers give every pairwise race; a
third client only adds transactions, which the single mempool orders. Three
transactions of two senders (one of them also a recipient) suffice for any two of a stale one, a
fresh one and one ahead beside one of another sender; the balances are chosen so that one transfer more than
an account can pay for is attempted. The negative
amount takes more than its recipient has, the negative fee more than the reward of a block. Symmetry is used for clients and committers in
safety runs only. In `Consensus` the stakes make one validator survive one penalty and
the others none, and the smallest is less than a penalty; five ticks are longer than the
two penalties that the stakes of `consensus_live` last. In `Node` one cut and one failed Put,
in any two of three processes, can be combined in every order; the third process shows
what the first two left, and grants and commits are in every order. In `Gateway` three calls fill the queue beyond its capacity and
empty a bucket of one burst; the tick gives a call of weight 2 a
whole token and one of weight 1 half a token, which is refused and takes the time of the refill with
it. The fast lane has callers of weight 2 and 1, the slow lane of weight 1; the normal lane, which no fee of
the instance reaches, differs from the slow one in its numbers only. In `Pipeline` two calls are in either order of nonces, or the same one twice, and
the commands build transactions of the same sender beside them, equal ones included; a lane has a burst of one
call, and the tick lets the second pass. The other races of the two sides are those of
the runs above. In `Peers` the second process reads what the first one left and the third what
the second one made of it, a cut file included; two calls in two goroutines are every race of
a change with a save. In `MiniBlocks` lists of 1, 2, 3 and 5 hashes have an odd number at the first, the
second and both levels, and two of the lists have one root. That the bounds do not matter for the theorems below is
what their proofs show.

Deadlock is checked except where the environment stops at a bound: in the `Node` runs
after `MaxRuns` commands, in `gateway` and `pipeline` after `MaxCalls` calls and `MaxTime` ticks, in `peers`
after `MaxStarts` processes.

Runs that are expected to fail, each on one statement of the repository:

| Run | Statement | What happens |
|---|---|---|
| `consensus_select` | `skip yang suspended` (consensus.go:84) | with everybody suspended the suspended pick proposes |
| `node_sent` | `TX berhasil dikirim` (cli.go:155) | `tx` saves nothing: the transaction ends with the process |
| `node_start` | `consensus auto-producer aktif` (cli.go:93) | `start` returns at once and takes the producer with it |

### What the runs say about the system

- A stale transaction freezes its sender for good: it is sorted first, the worker breaks
  there, and only executed transactions leave the mempool. Two transactions built before
  one commit are enough. Meanwhile every tick adds an empty block and mints five tokens.
- A batch holds at most one transaction of a sender, unless a replay is under way.
- Everybody suspended for long is a trap: each tick rejects a block and slashes an
  innocent proposer. With the defaults (6 validators, stake 100000, penalty 10, 350 ms)
  the stakes are gone after about 5.8 hours, long before 24 hours have passed.
- Blocks name nobody: `AddBlockWithTxs` passes a nil wallet to `NewBlock`, although the
  field is a "validator address" (block.go:20).
- A validator without stake may still be picked by the fallback scan, and a slash of
  nothing does not suspend.
- A commit cut off between the chain and the nonces is executed again by the next
  process; one cut off before the mempool was saved again leaves a stale transaction.
  `start` never saves the mempool after cleaning it, so that every end of such a node
  leaves one; `CommittedLeavesMempool` excludes it for this reason.
- The saved chain covers the saved nonces because `SaveAllData` writes it first. A failed
  Put of the chain breaks that until the same process saves again.
- Callers that refill a shared bucket by turns, each at its own weight, gain nothing over
  the heaviest of them, and a call of little weight, which throws away what exceeds its own cap, still
  leaves a full burst.
- From end to end, whatever the merge of partitions does, a sender's calls are executed in the order
  of the queue, and none twice: a second copy may reach the mempool, where it only freezes its
  sender.
- Every start of a node adds an entry of its own to `peers.json`, under a new ID.

## Fairness

`Ledger!FairSpec`: weak fairness of each committer, which is a goroutine that the
scheduler always runs again and that is called by a ticker or a loop for ever. Clients
have none; nobody has to submit. `FreshTxCommits` is checked where nobody is suspended
and the validator has a stake.

`Consensus!FairSpec`: weak fairness of `CommitBlock`'s steps and of time, none of the
operator or of crashes; and no tick passes without a call of `CommitBlock`, since a tick
stands for more than the 350 ms of `BlockTime`.

`Node!FairSpec`: weak fairness of a running process and of its return. `Gateway!FairSpec`:
weak fairness of each shard's goroutine, which ranges over its channel for ever; none
of the callers. `Peers!FairSpec`: weak fairness of a goroutine inside a call of the registry.
`MiniBlocks!FairSpec`: weak fairness of each collector's timer and of its return. The
second says that a `select` whose two cases stay ready does not take the same one for
ever; Go draws between them at random.

## Proofs

All theorems hold for any values of the constants that satisfy the named assumptions.
Every invariant and every action property of a passing run is stated by one.

### Induction and sums

The provers cannot instantiate a theorem that takes an operator. `SumTheorems` therefore
states induction over *sets*: a set of naturals that contains 0 and with `n` also `n + 1`
is `Nat` (`AllNaturals`), a set of sets that contains `{}` and is closed under one element
more contains every subset of a finite set (`AllSubsets`). A proof by induction defines the
set of what has the property. Both come from counting: a finite initial part of the
naturals has a last element (`LastOf`), and bounded sets of naturals are finite.

The same gives the existence of the recursive functions that the modules define by
`CHOOSE` (of `SumFunction`, of `FromSender`, of the loops of `Merkle`): functions that obey
the equation up to `n` exist for every `n`. From there on `SumTheorems` says how a sum
changes with its function and what bounds it. Money moves by an update of one or two
accounts, which changes a sum by the difference.

### Ledger

`LedgerProofs` proves

- `TypeCorrect`: `Spec => []TypeOK`;
- `Solvency`: `Spec => []NeverOverspent`;
- `SerialExecution`: `Spec => Serial!Spec`, that is `Ledger` implements `Bank`.

All three rest on `Inductive`: `Spec => []IndInv`, and hold for numbers of either sign. `NeverOverspent` is not
inductive: the commit loop debits without a test, so the invariant must say why the test of the
worker still holds. `Exclusive` says that the flag admits one committer. Hence nobody
else spends or changes a nonce between snapshot and commit. A balance may shrink meanwhile, by an
airdrop or by an entry of the same batch with a negative amount, but then `taken` grows by as much: what
an account is worth never shrinks before its own entries are committed (`LocalsOK`). `Batch` says that the
entries of a batch are signed and paid for when they were tested and that those of one sender ascend in
nonce. `Payable` says of every entry that is still to be committed that it has the next nonce and its
sender is worth its cost now (`PaidNow`), or that it follows an entry that comes before it, in nonce and in
what that one left (`Follows`). `Worker` carries both through the worker's loop. A committed entry turns
those that follow it into ones that can be paid for now. TLC checks the same `IndInv` in `ledger_safety`.

On top of `Inductive` it proves

- `PoolIsNeverAhead`: `Spec => []MempoolNeverAhead`. The nonce table only grows
  (`NoncesGrow`), so a transaction that was not ahead when a client tested it is not ahead when
  it is appended (`ClientOK`);
- `OneTxPerBlock`: `Spec => []OneTxPerSenderPerBlock`. The snapshots of a committer hold
  nothing ahead of the nonces either (`FreshBatch`), and nobody moves the nonces meanwhile: a
  worker accepts the next nonce of its sender and then nothing more of it;
- `NoncesMatchChain`: `Spec => []ChainMatchesNonces`. While a batch is being committed the
  chain lags behind the table, so `Counted` speaks of the chain and of the entries of the
  batch that the table already counts (`Pending`): together they hold every nonce from
  1 to the table's. `Ascending` says that those of the batch are higher than those of
  the chain, which is what `AppendBlock` needs;
- `MoneyIsConserved`: `Spec => []Conservation`. It speaks of the moments between two commits;
  `Books` says of every place of `CommitBlock` what is missing (`Owed`): first the fees
  of the entries that are committed, then the reward of the appended block as well;
- `StaleFreezes`: `Spec => StaleTxFreezesSender`. From the moment at which a transaction of
  a sender is stale, nothing of that sender is in a batch (`Frozen`): the committer that is
  under way has the stale one in its snapshot or has passed it, the sort puts it first in
  its partition (`Stuck`), and what a worker does not accept stays in the mempool
  (`StaleStays`).

### Consensus

All are proved for any registry, policy, amounts and number of calls and crashes.

- `SlashIsFinal`: `Spec => StakeNeverReturns`, from `ListIsSaved`: the list on disk is the
  list in memory whenever there is one.
- `TypeCorrect`: `Spec => []TypeOK`. An honest share is a quotient by the sum of the other stakes;
  a sum is not less than one of its terms, and the shares rounded down add up to at most
  what is shared, so no slash takes more than there is.
- `NoMoneyFromSlashes`: `Spec => []NoInflation`. `MoneyInv` adds that no list in memory means no
  stake in memory; a save moves to the disk what memory holds.
- `RoundingOnly`: `Spec => RoundingLossBounded`, from the remainders of the shares, each less than
  one token.
- `DrainIsFinal`: `Spec => DrainedIsForever`. `Drained` says that nobody has a stake and that no
  call of `CommitBlock` is past its choice of a proposer; only `FixValidators` on a lost
  list ends it.
- `SpiralNeverEnds`: `FairSpec => SpiralIsFinal`. This is safety, but it needs the part of the fairness
  that is an action: no tick passes without a call of `CommitBlock`. `Spiralling` compares
  each suspension with the rejections that are left (`Outlasts`). A call reduces the
  rejections by one, since a penalty costs its proposer one step of `Penalty`; a tick reduces
  the suspensions by one and comes after a call. The call in between is counted as `Underway`.
  In the end nobody has a stake (`Over`), where `Drained` takes over.

### Node

`NodeProofs` proves `ChainGrows`: `Spec => SavedChainGrows` and `NoncesAreRecorded`:
`Spec => []UsedNoncesAreRecorded`. The invariant `Safe` says that the chain in memory extends
the chain on disk (`Knows`), that a save that has still to write the nonces either has still to write the
chain before them, or has written it, or has failed to (`ChainFirstInLine`), and that the
chain in memory covers the nonces in memory (`Covered`). `BatchFacts` derives what a
batch executes from the tests of `CanExecute`.

`TypeCorrect`: `Spec => []TypeOK`.

`CommittedLeaves`: `Spec => []CommittedLeavesMempool`. During a save
the keys on disk belong to different moments, so `DiskClean` speaks of what the disk will hold
when the save is through (`Pool`, `Chain`, `Nonces`), which a Put does not change (`SaveKeepsPlan`).
A new transaction cannot be an executed one, because the nonces in memory count all
that the chain in memory executes (`MemoryClean`); what is executed and still in the mempool
is in the batch, which `RemoveCommittedFromMempool` takes out before everything is saved again.

The second half of `NodeProofs` proves, on top of that,

- `ReplaysAreRare`: `Spec => []ReplaysNeedCuts`. `Fair` compares, for each nonce, how often the
  chain has it with whether the nonce table counts it and with how often something went wrong. A
  nonce is executed again only by a process that loaded a table without it. So for a nonce
  that memory counts and the disk does not, either the cut or failure is already
  counted or the save of the table is still in line (`ReplayOf`).
- `SavedRewards`: `Spec => []SavedMoneyAddsUp`. `Funded` follows the sum of the balances from
  memory to disk, counted in rewards: a process is off by what it found on disk, by the
  block that it is adding, and by its own failed Puts of balances and chain (`Account`). The debits
  and credits of a batch cancel out but for its reward, whatever their signs; what an airdrop or a slash adds to
  memory (`grant`) reaches the disk with the balances (`granted`), unless it is cut off.

### Gateway

`GatewayProofs` proves `TypeCorrect`, `RateLimit`: `Spec => []RateIsBounded` and `BurstIsServed`:
`Spec => []FullBurstFirst`. The bound of calls since a tick is not inductive. `Within` adds what is in the bucket:
the calls since tick `t` and the tokens left never exceed the burst and what has flowed in
since `t`, both at the heaviest weight of the lane. `Served` says the same from below: before
the first refusal the calls that passed and the tokens left make up a full burst. The
refills are products of variables, which the provers do not multiply out; `ProductGrows`
and the lemmas after it state the few facts that are needed.

`CallsAreCounted`: `Spec => []EveryCallIsCounted` speaks of the moments without a call under way.
`Counted` adds the calls under way: those whose transaction has not reached a shard (`Open`),
those without an answer (`Unanswered`). That each step moves exactly one of them needs
`Distinct`: no two callers hold one transaction.

`OneQueuePerSender`: `Spec => RefinesIngress`. The initial state maps to the initial state of
`Ingress`. A send appends to the part of one sender and leaves the others
(`FromSender` of an appended queue), a shard's receive takes the first of the part of its
sender, and every other step of the gateway is a stutter. `Orderly` says that a queue holds only
what the hash of its senders sends there, and that a shard validates at most one.

`ShardsGetWhatIsAdmitted` and `ShardsAreRateLimited` say what `Pipeline` needs of the gateway:
of a lane, no more transactions are with a shard or on the way to one than calls were admitted
(`AllCarried`), so that the burst and the refill since the start limit them.

### Pipeline

`PipelineProofs` proves

- `FlowIsGateway`: `FlowSpec => GP!Spec`, and `FlowIsLedger`: `FlowSpec => Spec`. A behaviour of the composition
  is one of each side, so that all theorems about either hold of it. That a shard takes
  a transaction which `Ledger` admits needs `QueueInv`: every queue is the end of its log, and what is in the
  log has come with a call;
- `QueueOrderIsKept`: `FlowSpec => []ExecutedInQueueOrder`. `SourceInv` says that all that the mempool, a committer
  or the chain holds was built by a command or is at an entered position of a log.
  `OrderInv` says that the nonces of a sender do not fall along the entered positions: a
  transaction enters when it has had the next nonce, and the nonce table never decreases. The
  chain executes ascending nonces (`NoncesMatchChain`), hence ascending positions;
- `RateLimitHolds`: `FlowSpec => []ChainIsRateLimited`. No two places of the chain hold the same transaction
  (`PlacesDiffer`), so what the chain executes of a lane maps one to one into what the shards got on
  that lane and what commands have built (`ExecutedHasReached`); the rest is `ShardsAreRateLimited`.

### Peers

`PeersProofs` proves `TypeCorrect`, `SavedListFollows`: `Spec => []SavedListIsCurrent` and
`PeersAreKept`: `Spec => []RegisteredPeersAreKept`, for any number of goroutines, peers and
starts. A goroutine that has read the list holds the read lock until the file is written,
so that its list is the registry (`Readers`); while the file is not the registry,
somebody is on the way to write it (`Current`). `Kept` adds that what has been recorded is in
the registry and, unless a write was cut, in the file. `PeersAssumption` has node
IDs differ from those of other nodes; the code draws them at random.

### Mini-blocks

`MiniBlocksProofs` proves, for any number of slots and collectors, any capacity of the bus and
lists of any lengths,

- `TypeCorrect`: `Spec => []TypeOK`;
- `NeverTwice`: `Spec => []OneCopy`. `Placed` names the places of a followed mini-block: the bus,
  the hands of one collector, its end. A published one is in one of them, once; one that is
  not published yet is in none;
- `LoopIsTree`: `Spec => []RootIsTreeRoot`. After `k` passes of the loop the `i`-th hash is the root of
  the `i`-th tree of height `k` (`LevelIsTrees`), and there are as many hashes as trees of
  that height are needed (`Cover`). A pass pairs neighbours, which are the halves of a tree; the odd
  hash at the end is the one whose right neighbour would have no leaves. The loop is
  through when the height is enough, and hashes no more;
- `RootTellsTxs`: `Spec => []RootIdentifiesTxs`. Trees of different heights have different roots: down
  the left edge their hashes agree as long as their roots do (`FirstsAgree`), and the hash of a transaction is
  not the hash of a pair (`NotLower`). In trees of one height the levels agree from the root down to the
  leaves, except for copies at the end (`LeavesClose`): the pairs give back the hashes they are made of, and
  where one level had an odd hash with itself and the other a pair, the second of the pair is a copy
  (`NextLevelTells`).

### Only model-checked

Liveness under fairness, which is out of the prover's reach: `FreshTxCommits`, `CommitsOrDrains`,
`QueuedIsValidated`, `CallsReturn`, `CollectionEnds`.

### Assumptions

Amounts, fees, airdrops and initial balances are integers of either sign. They have no bound: an overflow of
`int` does not occur. The amounts that one slash shares out, and stakes, are not negative. Hashes do not collide.

Errors that the code drops are modelled where a `Put` fails (`SaveFails` of `Node`) and where a
process dies inside `os.WriteFile`. Two others never occur in the models, although the code drops
them just as silently: `os.WriteFile` that fails while the process goes on (validators.json, validator.go:87;
peers.json, network.go:187), and `db.Get` that fails on a key which is there (storage.go:43, 58, 75, 92). After the first,
the next process would load the older file, with slashed stake back in it or without the last peers:
`NoInflation`, `StakeNeverReturns`, `DrainedIsForever`, `SavedListIsCurrent` and `RegisteredPeersAreKept` assume that it does
not happen. After the second, a process would work from an empty value and save it: all properties of
`Node` assume that a read which finds a key returns it.

There are finitely many accounts, validators and
reporters (maps and slices of a program), and a penalty is greater than 0
(10 in consensus.go:102). The others are named in the modules: one constant each or one group of
constants.

## Not modelled

- Block headers and links; proof of history, which only seeds the choice of the proposer.
- Metrics and reports, which change nothing.
- Wallets and keystores: a signature is valid or not, a mini-block's is what it signs.
- The receiving side of gossip (build tag `p2p`). `StartGossip` passes a nil context to the
  subscription of a library that is not in the repository, so what its goroutines do
  is not determined by this source. A received block would be appended unverified, beside
  `CommitBlock` and without a lock.
- The start of the shards inside `enqueueShard` when `InitNetwork` was not called, which races
  if two callers come first: nothing in `src` calls the gateway before `InitNetwork`.
- The legacy `AddBlock`, which nothing calls; the stubs (VM, RPC, badger, configuration,
  crypto).

## Plan

Done: all modules of the table above; every safety property of a passing run is a theorem.

Left: the hazards of `PROJECT.json` that no property covers, each with a note there.
