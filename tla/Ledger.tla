------------------------------- MODULE Ledger -------------------------------
(***************************************************************************)
(* The in-memory ledger of a hyperlux node (package ledger) and the commit *)
(* pipeline that drives it (consensus.CommitBlock).                        *)
(*                                                                         *)
(* Two kinds of goroutine share Balances, NonceTable, Mempool and          *)
(* Blockchain.  A client builds or receives a transaction and runs         *)
(* ValidateAndAddToMempool, which reads the nonce table, then the          *)
(* balances, then appends, and holds no lock from one to the next.  A      *)
(* committer (the 350 ms ticker, an auto-commit loop, the commit command)  *)
(* runs CommitBlock: snapshot of the mempool, snapshot of nonces, snapshot *)
(* of balances, worker loop over the snapshot, one locked commit, block,   *)
(* reward, save, removal of the committed transactions.  Every read or     *)
(* write of shared state that the code makes separately is an action here. *)
(***************************************************************************)
EXTENDS Integers, Sequences, FiniteSets, Functions

CONSTANTS
  Accounts,     \* addresses that appear in Balances and NonceTable
  Validators,   \* addresses of ledger.Validators
  Wallets,      \* those with a stake and an entry in ledger.ValidatorWallets
  Suspendable,  \* those somebody may suspend from voting (Consensus says when)
  Clients,      \* goroutines that submit transactions
  Committers,   \* goroutines that call CommitBlock
  Amounts,      \* amounts that transactions carry; no code tests their sign
  Fees,         \* fees that they carry; that of a received one is never recomputed
  Transfers,    \* those amounts that the node's own commands send
  GatewayTxs,   \* transactions made elsewhere, handed to an ingress shard
  InitBalances, \* Balances after LoadAllData
  Shares,       \* what one slash may credit to an honest validator
  Airdrops,     \* amounts that Airdrop adds, of either sign
  NoValidator,  \* the empty address: no proposer chosen, or none named
  MaxTxs,       \* bound: transactions handed to ValidateAndAddToMempool
  MaxBlocks,    \* bound: length of the blockchain
  MaxCredit     \* bound: what airdrops and slashes add to or take from an account

BlockReward == 5

\* A transaction.  "sig" is what VerifyTransaction makes of the signature.
Tx == [from: Accounts, to: Accounts, amount: Amounts, fee: Fees,
       nonce: Nat, sig: {"valid", "invalid"}]

ASSUME ValidatorsAssumption ==
  /\ Validators \subseteq Accounts
  /\ Wallets \subseteq Validators
  /\ Suspendable \subseteq Validators
  /\ NoValidator \notin Accounts
ASSUME AccountsAssumption == IsFiniteSet(Accounts)
ASSUME MoneyAssumption ==
  /\ Amounts \subseteq Int /\ Transfers \subseteq Amounts
  /\ Fees \subseteq Int
  /\ Shares \subseteq Nat
  /\ Airdrops \subseteq Int
  /\ InitBalances \in [Accounts -> Int]
ASSUME GatewayAssumption == GatewayTxs \subseteq Tx
ASSUME BoundsAssumption ==
  MaxTxs \in Nat /\ MaxBlocks \in Nat /\ MaxCredit \in Nat

VARIABLES
  Balances, NonceTable, Mempool, Blockchain,  \* ledger/state.go
  committing,  \* consensus.committing, the reentrancy flag
  stateLocked, \* BalanceMu and NonceTableMu are held for writing
  cpc, ctx,    \* per client: place in ValidateAndAddToMempool, its argument
  kpc,         \* per committer: place in CommitBlock
  proposer, snap, nonceSnap, balSnap, jobs, todo, localNonce, localBal,
  final, next, fees, \* per committer: locals of CommitBlock and its callees
  submitted,   \* transactions submitted so far (for MaxTxs)
  credited,    \* history: what airdrops and slashes added to each account
  taken        \* history: what negative numbers have taken from each account

chainVars  == <<Balances, NonceTable, Mempool, Blockchain>>
lockVars   == <<committing, stateLocked>>
clientVars == <<cpc, ctx, submitted>>
execVars   == <<jobs, todo, localNonce, localBal, final>>
snapVars   == <<snap, nonceSnap, balSnap>>
commitVars == <<kpc, proposer, snapVars, execVars, next, fees>>
moneyVars  == <<credited, taken>>
vars == <<chainVars, lockVars, clientVars, commitVars, moneyVars>>

-----------------------------------------------------------------------------
(* Operators of the code *)

Cost(tx) == tx.amount + tx.fee

\* What adding n to an account takes from it.
Loss(n) == IF n < 0 THEN -n ELSE 0

VerifyTransaction(tx) == tx.sig = "valid"

\* HashTransaction: fee and public key are not part of the identity.
HashTransaction(tx) == <<tx.from, tx.to, tx.amount, tx.nonce, tx.sig>>

GetNextNonce(a) == NonceTable[a] + 1

Genesis == [Proposer |-> NoValidator, Transactions |-> << >>]

\* Orders of the positions I of m that sort.Slice may produce: the nonces
\* ascend, and equal nonces come in any order because the sort is unstable.
NonceOrders(m, I) ==
  {f \in Injection(1..Cardinality(I), I) :
     \A i, j \in DOMAIN f : i < j => m[f[i]].nonce <= m[f[j]].nonce}

\* The one order that keeps the positions I where they stand to each other.
KeepOrder(I) ==
  {f \in Injection(1..Cardinality(I), I) :
     \A i, j \in DOMAIN f : i < j => f[i] < f[j]}

\* Faults of the tests below, for the mutation runs: a forgotten nonce, and a
\* balance that has to exceed the cost.
ExecutableAnyNonce(tx, nonce, bal) == VerifyTransaction(tx) /\ bal >= Cost(tx)
ExecutableBelow(tx, nonce, bal) ==
  tx.nonce = nonce + 1 /\ VerifyTransaction(tx) /\ bal > Cost(tx)

\* The worker's three tests; it breaks at the first one that fails.
Executable(tx, nonce, bal) ==
  /\ tx.nonce = nonce + 1
  /\ VerifyTransaction(tx)
  /\ bal >= Cost(tx)

-----------------------------------------------------------------------------
Init ==
  /\ Balances = InitBalances
  /\ NonceTable = [a \in Accounts |-> 0]
  /\ Mempool = << >>
  /\ Blockchain \in {<< >>, <<Genesis>>}
  /\ committing = 0
  /\ stateLocked = FALSE
  /\ cpc = [c \in Clients |-> "idle"]
  /\ ctx = [c \in Clients |-> << >>]
  /\ kpc = [k \in Committers |-> "idle"]
  /\ proposer = [k \in Committers |-> NoValidator]
  /\ snap = [k \in Committers |-> << >>]
  /\ nonceSnap = [k \in Committers |-> << >>]
  /\ balSnap = [k \in Committers |-> << >>]
  /\ jobs = [k \in Committers |-> {}]
  /\ todo = [k \in Committers |-> << >>]
  /\ localNonce = [k \in Committers |-> 0]
  /\ localBal = [k \in Committers |-> 0]
  /\ final = [k \in Committers |-> << >>]
  /\ next = [k \in Committers |-> 1]
  /\ fees = [k \in Committers |-> 0]
  /\ submitted = 0
  /\ credited = [a \in Accounts |-> 0]
  /\ taken = [a \in Accounts |-> Loss(InitBalances[a])]

-----------------------------------------------------------------------------
(* Clients *)

Submit(c, tx) ==
  /\ cpc[c] = "idle"
  /\ submitted < MaxTxs
  /\ submitted' = submitted + 1
  /\ ctx' = [ctx EXCEPT ![c] = tx]
  /\ cpc' = [cpc EXCEPT ![c] = "nonce"]
  /\ UNCHANGED <<chainVars, lockVars, commitVars, moneyVars>>

\* NewTransaction reads the nonce table, never the mempool: two calls before
\* a commit build two transactions with one nonce.  Its fee is a number of bytes.
NewTransaction(c) ==
  /\ ~stateLocked
  /\ \E a, b \in Accounts, n \in Transfers, f \in Fees \cap Nat :
       Submit(c, [from |-> a, to |-> b, amount |-> n, fee |-> f,
                  nonce |-> GetNextNonce(a), sig |-> "valid"])

\* An ingress shard takes the next transaction from its queue.
ReceiveTx(c) == \E tx \in GatewayTxs : Submit(c, tx)

ClientReturn(c) ==
  /\ cpc' = [cpc EXCEPT ![c] = "idle"]
  /\ ctx' = [ctx EXCEPT ![c] = << >>]
  /\ UNCHANGED <<submitted, lockVars, commitVars, moneyVars>>

ClientGoto(c, where) ==
  /\ cpc' = [cpc EXCEPT ![c] = where]
  /\ UNCHANGED <<chainVars, ctx, submitted, lockVars, commitVars, moneyVars>>

\* A fault: any nonce that is not used yet will do.
CheckUnusedNonce(c) ==
  /\ cpc[c] = "nonce"
  /\ ~stateLocked
  /\ \/ ctx[c].nonce >= GetNextNonce(ctx[c].from) /\ ClientGoto(c, "balance")
     \/ /\ ctx[c].nonce < GetNextNonce(ctx[c].from)
        /\ ClientReturn(c) /\ UNCHANGED chainVars

CheckNonce(c) ==
  /\ cpc[c] = "nonce"
  /\ ~stateLocked
  /\ \/ ctx[c].nonce = GetNextNonce(ctx[c].from) /\ ClientGoto(c, "balance")
     \/ /\ ctx[c].nonce # GetNextNonce(ctx[c].from)
        /\ ClientReturn(c) /\ UNCHANGED chainVars

CheckBalance(c) ==
  /\ cpc[c] = "balance"
  /\ ~stateLocked
  /\ LET ok == Balances[ctx[c].from] >= Cost(ctx[c]) /\ VerifyTransaction(ctx[c])
     IN  \/ ok /\ ClientGoto(c, "append")
         \/ ~ok /\ ClientReturn(c) /\ UNCHANGED chainVars

AddToMempool(c) ==
  /\ cpc[c] = "append"
  /\ Mempool' = Append(Mempool, ctx[c])
  /\ ClientReturn(c)
  /\ UNCHANGED <<Balances, NonceTable, Blockchain>>

-----------------------------------------------------------------------------
(* Committers: CommitBlock up to the vote *)

Goto(k, here, there) ==
  /\ kpc[k] = here
  /\ kpc' = [kpc EXCEPT ![k] = there]
  /\ UNCHANGED clientVars

\* Every return of CommitBlock runs the deferred reset of the flag; its
\* locals die.
ReturnFrom(k, here) ==
  /\ Goto(k, here, "idle")
  /\ committing' = 0
  /\ proposer' = [proposer EXCEPT ![k] = NoValidator]
  /\ final' = [final EXCEPT ![k] = << >>]
  /\ next' = [next EXCEPT ![k] = 1]
  /\ fees' = [fees EXCEPT ![k] = 0]
  /\ UNCHANGED <<stateLocked, snapVars, jobs, todo, localNonce, localBal>>

\* A fault: the flag is raised without looking at it.
BeginCommitAnyway(k) ==
  /\ committing' = committing + 1
  /\ Goto(k, "idle", "begin")
  /\ UNCHANGED <<chainVars, stateLocked, proposer, snapVars, execVars, next, fees, moneyVars>>

\* CompareAndSwapInt32(&committing, 0, 1).  A failed swap returns at once and
\* changes nothing.
BeginCommit(k) ==
  /\ committing = 0
  /\ committing' = 1
  /\ Goto(k, "idle", "begin")
  /\ UNCHANGED <<chainVars, stateLocked, proposer, snapVars, execVars, next, fees, moneyVars>>

SeeMempool(k) ==
  /\ Mempool # << >>
  /\ Len(Blockchain) < MaxBlocks
  /\ Goto(k, "begin", "select")
  /\ UNCHANGED <<chainVars, lockVars, proposer, snapVars, execVars, next, fees, moneyVars>>

\* The returns before the vote: an empty mempool; no validator, nobody with a
\* stake, or a pick without a wallet.  At the bound MaxBlocks the call returns as
\* it does on an empty mempool.
NoBlock(k) ==
  /\ \/ Mempool = << >> /\ ReturnFrom(k, "begin")
     \/ Len(Blockchain) >= MaxBlocks /\ ReturnFrom(k, "begin")
     \/ ~(Wallets # {} /\ Wallets = Validators) /\ ReturnFrom(k, "select")
  /\ UNCHANGED <<chainVars, moneyVars>>

SelectProposer(k) ==
  /\ Goto(k, "select", "vote")
  /\ \E v \in Wallets : proposer' = [proposer EXCEPT ![k] = v]
  /\ UNCHANGED <<chainVars, lockVars, snapVars, execVars, next, fees, moneyVars>>

\* bftVote.  Every validator that is not suspended votes yes (validateBlock is
\* constantly true); the threshold counts the suspended ones too.
Threshold == (2 * Cardinality(Validators)) \div 3 + 1
VoteMayEnd(enough) ==
  \E absent \in SUBSET Suspendable :
    (Cardinality(Validators \ absent) >= Threshold) = enough

VotePasses(k) ==
  /\ Goto(k, "vote", "snapshot")
  /\ VoteMayEnd(TRUE)
  /\ UNCHANGED <<chainVars, lockVars, proposer, snapVars, execVars, next, fees, moneyVars>>

\* One section under BalanceMu that adds to accounts: Airdrop, and the shares that
\* distributeSlashed gives to the honest validators.
Credit(more) ==
  /\ ~stateLocked
  /\ Balances' = [a \in Accounts |-> Balances[a] + more[a]]
  /\ credited' = [a \in Accounts |-> credited[a] + more[a]]
  /\ taken' = [a \in Accounts |-> taken[a] + Loss(more[a])]
  /\ \A a \in Accounts : /\ more[a] > 0 => credited'[a] <= MaxCredit
                         /\ more[a] < 0 => taken'[a] <= MaxCredit
  /\ UNCHANGED <<NonceTable, Mempool, Blockchain>>

\* The vote fails: the proposer is slashed, and its slash shared out (Consensus
\* models the slash itself).
RejectBlock(k) ==
  /\ ReturnFrom(k, "vote")
  /\ VoteMayEnd(FALSE)
  /\ \E more \in [Accounts -> Shares \cup {0}] :
       /\ \A a \in Accounts : more[a] # 0 => a \in Validators \ {proposer[k]}
       /\ Credit(more)

-----------------------------------------------------------------------------
(* Committers: snapshots and execution (ProcessTxListParallel) *)

MempoolSnapshot(k) ==
  /\ Goto(k, "snapshot", "nonces")
  /\ snap' = [snap EXCEPT ![k] = Mempool]
  /\ jobs' = [jobs EXCEPT ![k] = {Mempool[i].from : i \in DOMAIN Mempool}]
  /\ UNCHANGED <<chainVars, lockVars, proposer, nonceSnap, balSnap, todo,
                 localNonce, localBal, final, next, fees, moneyVars>>

SnapshotNonces(k) ==
  /\ Goto(k, "nonces", "balances")
  /\ ~stateLocked
  /\ nonceSnap' = [nonceSnap EXCEPT ![k] = NonceTable]
  /\ UNCHANGED <<chainVars, lockVars, proposer, snap, balSnap, execVars, next, fees, moneyVars>>

SnapshotBalances(k) ==
  /\ Goto(k, "balances", "exec")
  /\ ~stateLocked
  /\ balSnap' = [balSnap EXCEPT ![k] = Balances]
  /\ UNCHANGED <<chainVars, lockVars, proposer, snap, nonceSnap, execVars, next, fees, moneyVars>>

\* A worker takes the next partition, sorted by nonce.  The workers share
\* nothing they write, and their interleaving decides only the order in which
\* the partitions reach the channel "out"; so one partition is executed at a
\* time, in every order.
TakePartition(k, s) ==
  /\ Goto(k, "exec", "exec")
  /\ todo[k] = << >>
  /\ s \in jobs[k]
  /\ jobs' = [jobs EXCEPT ![k] = @ \ {s}]
  /\ LET I == {i \in DOMAIN snap[k] : snap[k][i].from = s}
     IN  \E f \in NonceOrders(snap[k], I) :
           todo' = [todo EXCEPT ![k] = [i \in 1..Cardinality(I) |-> snap[k][f[i]]]]
  /\ localNonce' = [localNonce EXCEPT ![k] = nonceSnap[k][s]]
  /\ localBal' = [localBal EXCEPT ![k] = balSnap[k][s]]
  /\ UNCHANGED <<chainVars, lockVars, proposer, snapVars, final, next, fees, moneyVars>>

\* A fault: every transaction is tested on the snapshots, the local nonce and balance
\* stay where they are.
ExecuteOnSnapshot(k) ==
  /\ Goto(k, "exec", "exec")
  /\ todo[k] # << >>
  /\ LET tx == Head(todo[k])
     IN  /\ Executable(tx, localNonce[k], localBal[k])
         /\ final' = [final EXCEPT ![k] =
                        Append(@, [tx |-> tx, left |-> localBal[k] - Cost(tx)])]
  /\ todo' = [todo EXCEPT ![k] = Tail(@)]
  /\ UNCHANGED <<chainVars, lockVars, proposer, snapVars, jobs, localNonce,
                 localBal, next, fees, moneyVars>>

\* One round of the worker's loop.  "left" is localBal after the round, kept
\* for the proofs.
ExecuteTx(k) ==
  /\ Goto(k, "exec", "exec")
  /\ todo[k] # << >>
  /\ LET tx == Head(todo[k])
         left == localBal[k] - Cost(tx)
     IN  /\ Executable(tx, localNonce[k], localBal[k])
         /\ localBal' = [localBal EXCEPT ![k] = left]
         /\ localNonce' = [localNonce EXCEPT ![k] = tx.nonce]
         /\ final' = [final EXCEPT ![k] = Append(@, [tx |-> tx, left |-> left])]
  /\ todo' = [todo EXCEPT ![k] = Tail(@)]
  /\ UNCHANGED <<chainVars, lockVars, proposer, snapVars, jobs, next, fees, moneyVars>>

\* A fault: "continue", only the failing transaction is dropped.
SkipInPartition(k) ==
  /\ Goto(k, "exec", "exec")
  /\ todo[k] # << >>
  /\ ~Executable(Head(todo[k]), localNonce[k], localBal[k])
  /\ todo' = [todo EXCEPT ![k] = Tail(@)]
  /\ UNCHANGED <<chainVars, lockVars, proposer, snapVars, jobs, localNonce,
                 localBal, final, next, fees, moneyVars>>

\* "break": the rest of the partition is dropped.
BreakPartition(k) ==
  /\ Goto(k, "exec", "exec")
  /\ todo[k] # << >>
  /\ ~Executable(Head(todo[k]), localNonce[k], localBal[k])
  /\ todo' = [todo EXCEPT ![k] = << >>]
  /\ UNCHANGED <<chainVars, lockVars, proposer, snapVars, jobs, localNonce,
                 localBal, final, next, fees, moneyVars>>

\* All partitions are collected.  With nothing accepted the locks are not taken.
CollectPartitions(k) ==
  /\ todo[k] = << >> /\ jobs[k] = {}
  /\ \/ final[k] = << >> /\ Goto(k, "exec", "block")
     \/ final[k] # << >> /\ Goto(k, "exec", "lock")
  /\ snap' = [snap EXCEPT ![k] = << >>]
  /\ nonceSnap' = [nonceSnap EXCEPT ![k] = << >>]
  /\ balSnap' = [balSnap EXCEPT ![k] = << >>]
  /\ localNonce' = [localNonce EXCEPT ![k] = 0]
  /\ localBal' = [localBal EXCEPT ![k] = 0]
  /\ UNCHANGED <<chainVars, lockVars, proposer, jobs, todo, final, next, fees, moneyVars>>

LockState(k) ==
  /\ Goto(k, "lock", "commit")
  /\ ~stateLocked
  /\ stateLocked' = TRUE
  /\ UNCHANGED <<chainVars, committing, proposer, snapVars, execVars, next, fees, moneyVars>>

\* A fault: both balances are read before either is written, which mints money in a
\* transfer to oneself.
CommitTxFromCopies(k) ==
  /\ Goto(k, "commit", "commit")
  /\ next[k] <= Len(final[k])
  /\ LET tx == final[k][next[k]].tx
     IN  /\ Balances' = [Balances EXCEPT ![tx.from] = @ - Cost(tx),
                                         ![tx.to] = Balances[tx.to] + tx.amount]
         /\ NonceTable' = [NonceTable EXCEPT ![tx.from] = tx.nonce]
         /\ taken' = [taken EXCEPT ![tx.to] = @ + Loss(tx.amount)]
  /\ next' = [next EXCEPT ![k] = @ + 1]
  /\ UNCHANGED <<Mempool, Blockchain, lockVars, proposer, snapVars, execVars,
                 fees, credited>>

\* One round of the commit loop, both locks held.
CommitTx(k) ==
  /\ Goto(k, "commit", "commit")
  /\ next[k] <= Len(final[k])
  /\ LET tx == final[k][next[k]].tx
     IN  /\ Balances' = [[Balances EXCEPT ![tx.from] = @ - Cost(tx)]
                                   EXCEPT ![tx.to] = @ + tx.amount]
         /\ NonceTable' = [NonceTable EXCEPT ![tx.from] = tx.nonce]
         /\ taken' = [taken EXCEPT ![tx.to] = @ + Loss(tx.amount)]
  /\ next' = [next EXCEPT ![k] = @ + 1]
  /\ UNCHANGED <<Mempool, Blockchain, lockVars, proposer, snapVars, execVars,
                 fees, credited>>

UnlockState(k) ==
  /\ Goto(k, "commit", "block")
  /\ next[k] > Len(final[k])
  /\ stateLocked' = FALSE
  /\ next' = [next EXCEPT ![k] = 1]
  /\ UNCHANGED <<chainVars, committing, proposer, snapVars, execVars, fees, moneyVars>>

-----------------------------------------------------------------------------
(* Committers: AddBlockWithTxs and the end of CommitBlock *)

\* AddBlockWithTxs calls NewBlock with a nil wallet: the block names nobody.
AppendBlock(k) ==
  /\ Goto(k, "block", "reward")
  /\ Blockchain' =
       (IF Blockchain = << >> THEN <<Genesis>> ELSE Blockchain)
         \o <<[Proposer |-> NoValidator,
               Transactions |-> [i \in DOMAIN final[k] |-> final[k][i].tx]]>>
  /\ UNCHANGED <<Balances, NonceTable, Mempool, lockVars, proposer, snapVars,
                 execVars, next, fees, moneyVars>>

\* One round of the loop that sums the fees of the block.
AddFee(k) ==
  /\ Goto(k, "reward", "reward")
  /\ next[k] <= Len(final[k])
  /\ fees' = [fees EXCEPT ![k] = @ + final[k][next[k]].tx.fee]
  /\ next' = [next EXCEPT ![k] = @ + 1]
  /\ UNCHANGED <<chainVars, lockVars, proposer, snapVars, execVars, moneyVars>>

CreditProposer(k) ==
  /\ Goto(k, "reward", "save")
  /\ next[k] > Len(final[k])
  /\ ~stateLocked
  /\ Balances' = [Balances EXCEPT ![proposer[k]] = @ + fees[k] + BlockReward]
  /\ taken' = [taken EXCEPT ![proposer[k]] = @ + Loss(fees[k] + BlockReward)]
  /\ UNCHANGED <<NonceTable, Mempool, Blockchain, lockVars, proposer, snapVars,
                 execVars, next, fees, credited>>

\* Writes the five keys one after the other; Node models the disk.
SaveAllData(k) ==
  /\ Goto(k, "save", "remove")
  /\ UNCHANGED <<chainVars, lockVars, proposer, snapVars, execVars, next, fees, moneyVars>>

RemoveCommittedFromMempool(k) ==
  /\ ReturnFrom(k, "remove")
  /\ LET committed == {HashTransaction(final[k][i].tx) : i \in DOMAIN final[k]}
         keep == {i \in DOMAIN Mempool : HashTransaction(Mempool[i]) \notin committed}
     IN  \E f \in KeepOrder(keep) :
           Mempool' = [i \in 1..Cardinality(keep) |-> Mempool[f[i]]]
  /\ UNCHANGED <<Balances, NonceTable, Blockchain, moneyVars>>

-----------------------------------------------------------------------------
ClientStep(c) ==
  \/ NewTransaction(c) \/ ReceiveTx(c)
  \/ CheckNonce(c) \/ CheckBalance(c) \/ AddToMempool(c)

CommitStep(k) ==
  \/ BeginCommit(k) \/ SeeMempool(k) \/ NoBlock(k) \/ SelectProposer(k)
  \/ VotePasses(k) \/ RejectBlock(k)
  \/ MempoolSnapshot(k) \/ SnapshotNonces(k) \/ SnapshotBalances(k)
  \/ (\E s \in Accounts : TakePartition(k, s))
  \/ ExecuteTx(k) \/ BreakPartition(k) \/ CollectPartitions(k)
  \/ LockState(k) \/ CommitTx(k) \/ UnlockState(k)
  \/ AppendBlock(k) \/ AddFee(k) \/ CreditProposer(k) \/ SaveAllData(k)
  \/ RemoveCommittedFromMempool(k)

\* Airdrop adds to one account under the lock, from any goroutine, at any time.
Airdrop(to, amount) ==
  /\ Credit([a \in Accounts |-> IF a = to THEN amount ELSE 0])
  /\ UNCHANGED <<lockVars, clientVars, commitVars>>

Next ==
  \/ \E c \in Clients : ClientStep(c)
  \/ \E k \in Committers : CommitStep(k)
  \/ \E to \in Accounts, amount \in Airdrops : Airdrop(to, amount)

Spec == Init /\ [][Next]_vars

\* A committer that is inside CommitBlock is never stopped by the scheduler,
\* and the ticker (or the auto-commit loop) calls CommitBlock again and again.
\* Nothing is assumed of the clients.
FairSpec == Spec /\ \A k \in Committers : WF_vars(CommitStep(k))

-----------------------------------------------------------------------------
(* Types *)

Entry == [tx: Tx, left: Int]
CommitPlaces == {"idle", "begin", "select", "vote", "snapshot", "nonces",
                 "balances", "exec", "lock", "commit", "block", "reward",
                 "save", "remove"}

ChainTypes ==
  /\ Balances \in [Accounts -> Int]
  /\ NonceTable \in [Accounts -> Nat]
  /\ Mempool \in Seq(Tx)
  /\ Blockchain \in Seq([Proposer: {NoValidator}, Transactions: Seq(Tx)])
  /\ credited \in [Accounts -> Int]
  /\ taken \in [Accounts -> Nat]

ClientTypes ==
  /\ cpc \in [Clients -> {"idle", "nonce", "balance", "append"}]
  /\ ctx \in [Clients -> Tx \cup {<< >>}]
  /\ \A c \in Clients : cpc[c] # "idle" => ctx[c] \in Tx
  /\ submitted \in Nat

CommitTypes ==
  /\ committing \in {0, 1} /\ stateLocked \in BOOLEAN
  /\ kpc \in [Committers -> CommitPlaces]
  /\ proposer \in [Committers -> Validators \cup {NoValidator}]
  /\ next \in [Committers -> Nat \ {0}]
  /\ fees \in [Committers -> Int]

LocalTypes ==
  /\ snap \in [Committers -> Seq(Tx)]
  /\ nonceSnap \in [Committers -> [Accounts -> Nat] \cup {<< >>}]
  /\ balSnap \in [Committers -> [Accounts -> Int] \cup {<< >>}]
  /\ jobs \in [Committers -> SUBSET Accounts]
  /\ todo \in [Committers -> Seq(Tx)]
  /\ localNonce \in [Committers -> Nat]
  /\ localBal \in [Committers -> Int]
  /\ final \in [Committers -> Seq(Entry)]

\* Every variable holds a value of the Go variable's type.
TypeOK == ChainTypes /\ ClientTypes /\ CommitTypes /\ LocalTypes

-----------------------------------------------------------------------------
(* Safety *)

\* What an account would own if no negative number had been added to it.
Worth(a) == Balances[a] + taken[a]

\* No account ever spends what it does not own: it is below zero by no more than
\* negative numbers have taken from it, in transfers to it (transaction.go:219), fees,
\* airdrops and what was loaded.  The balance a worker tests is a snapshot
\* (transaction.go:149) and the debit is unconditional (transaction.go:218), so this
\* rests on no spending between the two.
NeverOverspent == \A a \in Accounts : Worth(a) >= 0

Quiescent(k) == kpc[k] \notin {"commit", "block", "reward"}

\* Money is neither created nor lost: when no commit is half done, the balances
\* add up to the initial ones, five tokens for every block after the genesis
\* block, and what airdrops and slashes credited.  Fees only change hands.
Conservation ==
  (\A k \in Committers : Quiescent(k)) =>
    LET blocks == {b \in DOMAIN Blockchain : b > 1}
    IN  SumFunction(Balances) =
          SumFunction(InitBalances) + SumFunction(credited)
            + BlockReward * Cardinality(blocks)

Places == UNION {{b} \X DOMAIN Blockchain[b].Transactions : b \in DOMAIN Blockchain}
At(p) == Blockchain[p[1]].Transactions[p[2]]

\* The chain executes every sender's nonces 1, 2, 3, ... each exactly once and in
\* that order, and NonceTable[a] is the last of them, whenever no commit stands
\* between the state update and the append of its block.
ChainMatchesNonces ==
  (\A k \in Committers : kpc[k] \notin {"commit", "block"}) =>
    \A a \in Accounts :
      LET mine == {p \in Places : At(p).from = a}
      IN  /\ {At(p).nonce : p \in mine} = 1..NonceTable[a]
          /\ \A p, q \in mine :
               p[1] < q[1] \/ (p[1] = q[1] /\ p[2] < q[2]) =>
                 At(p).nonce < At(q).nonce

\* A transaction in the mempool is signed and never ahead of its sender's next
\* nonce, however old the reads of ValidateAndAddToMempool have become.
MempoolNeverAhead ==
  \A i \in DOMAIN Mempool :
    /\ VerifyTransaction(Mempool[i])
    /\ Mempool[i].nonce \in 1..GetNextNonce(Mempool[i].from)

\* Sorting partitions by nonce cannot help: a block holds at most one transaction
\* of a sender, because nonces only advance when a block commits.
OneTxPerSenderPerBlock ==
  \A p, q \in Places :
    p[1] = q[1] /\ p # q => At(p).from # At(q).from

-----------------------------------------------------------------------------
(* What a stale transaction does *)

\* A transaction of s in m whose nonce has been used already.
HasStale(m, s) == \E i \in DOMAIN m : m[i].from = s /\ m[i].nonce <= NonceTable[s]

BeforeSnapshot(k) == kpc[k] \in {"idle", "begin", "select", "vote", "snapshot"}

\* Once a stale transaction of a sender is in the mempool, and no commit under way
\* took its snapshot before that, the sender's nonce never advances again: the
\* sort puts the stale transaction first, the worker breaks there
\* (transaction.go:182), and only committed transactions leave the mempool.
StaleTxFreezesSender ==
  \A s \in Accounts, n \in 0..MaxTxs :
    []( /\ HasStale(Mempool, s) /\ NonceTable[s] = n
        /\ \A k \in Committers : BeforeSnapshot(k)
        => [](NonceTable[s] = n) )

\* The sender's next transaction is in the mempool, no stale one is, and no client
\* is about to append one.
Ready(s, n) ==
  /\ NonceTable[s] = n
  /\ ~HasStale(Mempool, s)
  /\ \E i \in DOMAIN Mempool : Mempool[i].from = s /\ Mempool[i].nonce = n + 1
  /\ \A c \in Clients : cpc[c] # "idle" /\ ctx[c].from = s => ctx[c].nonce > n

\* Such a transaction is executed by the next commit that takes its snapshot (the
\* bound on blocks leaves room for it): the balance that paid for it when it was
\* accepted is still there unless a negative number has taken from it, and no other
\* transaction can get in its way.
FreshTxCommits ==
  \A s \in Accounts, n \in 0..MaxTxs :
    Ready(s, n) /\ Len(Blockchain) < MaxBlocks /\ (\A k \in Committers : BeforeSnapshot(k))
      ~> NonceTable[s] > n \/ taken[s] > 0

-----------------------------------------------------------------------------
(* Refinement *)

Serial == INSTANCE Bank

\* Seen through Balances and NonceTable, the batches of CommitBlock are transfers
\* executed one by one: the tests a worker made on snapshots still hold when its
\* transactions are committed.
RefinesBank == Serial!Spec
=============================================================================
