-------------------------------- MODULE Node --------------------------------
(***************************************************************************)
(* What survives a process.  Every command of the CLI is a process of its  *)
(* own (cli/cli.go): it loads the keys that earlier ones left in leveldb   *)
(* (ledger/storage.go), works in memory, writes some keys back, one Put    *)
(* after the other, and ends; a Put that fails goes unnoticed.  The lock   *)
(* of leveldb admits one process at a time.  A process may die anywhere;   *)
(* and when main returns, the goroutine that commits in the background is  *)
(* cut off wherever it stands.                                             *)
(*                                                                         *)
(* The execution of a batch is one step here; module Ledger takes it       *)
(* apart.  A block is the set of its transactions.  Suspensions live in    *)
(* memory and no command both suspends and commits, so every vote passes.  *)
(***************************************************************************)
EXTENDS Integers, Sequences, FiniteSets, Functions

CONSTANTS
  Accounts,
  Proposers,    \* validators that CommitBlock may select, wallets included
  Commands,     \* the commands that are run
  InitBalances, \* balances on disk before the first process
  Amount, Fee,  \* of every transfer (the bulk commands send 1)
  BlockReward,
  Airdrops,     \* amounts that "airdrop" is given; no code tests their sign
  Shares,       \* what one slash may credit to an account
  MaxRuns,      \* bound: processes
  MaxCuts,      \* bound: commits or grants cut off by the end of their process
  MaxFails,     \* bound: Puts that fail
  MaxTxs,       \* bound: transactions added to the mempool
  MaxBlocks     \* bound: length of the blockchain

AllCommands == {"init", "start", "tx", "airdrop", "slash", "commit", "auto-commit",
                "stress"}

ASSUME NodeAssumption ==
  /\ IsFiniteSet(Accounts) /\ Proposers \subseteq Accounts
  /\ Commands \subseteq AllCommands
  /\ InitBalances \in [Accounts -> Int]
  /\ Amount \in Int /\ Fee \in Int /\ BlockReward \in Nat
  /\ Airdrops \subseteq Int /\ Shares \subseteq Nat
  /\ MaxRuns \in Nat /\ MaxCuts \in Nat /\ MaxFails \in Nat /\ MaxTxs \in Nat /\ MaxBlocks \in Nat

Tx == [from: Accounts, to: Accounts, nonce: Nat \ {0}]
Genesis == {}

VARIABLES
  Balances, NonceTable, Mempool, Blockchain, \* memory of the running process
  disk,       \* the keys in leveldb
  cmd,        \* the command that runs, or "none"
  pc,         \* where the goroutine that commits stands
  todo,       \* keys that the current save has still to write
  batch,      \* the transactions of the block being added
  runs, added, \* processes started and transactions added (for the bounds)
  cuts,       \* commits and grants cut off
  fails,      \* Puts that failed
  unsaved,    \* history: keys that this process could not write and has not since
  lost,       \* history: a process has ended with such keys
  grant,      \* history: what an airdrop or a slash has added to the balances in memory
  granted,    \* history: what airdrops and slashes have added to the balances on disk
  sent,       \* history: transactions that "tx" reported as sent
  producerRan \* history: a producer of "start" has added a block

memory  == <<Balances, NonceTable, Mempool, Blockchain>>
control == <<cmd, pc, todo, batch>>
failures == <<fails, unsaved, lost>>
grants == <<grant, granted>>
history == <<runs, cuts, grants, producerRan, failures>>
vars == <<memory, disk, control, history, added, sent>>

\* Faults: another order of the keys.
NoncesFirst == <<"nonce_table", "balances", "blockchain", "mempool">>
ChainFirst  == <<"blockchain", "balances", "mempool", "nonce_table">>

\* SaveAllData; validators.json, the last of them, is in module Consensus.
AllKeys == <<"balances", "blockchain", "mempool", "nonce_table">>

InMemory(key) ==
  CASE key = "balances"    -> Balances
    [] key = "blockchain"  -> Blockchain
    [] key = "mempool"     -> Mempool
    [] key = "nonce_table" -> NonceTable

Init ==
  /\ Balances = InitBalances /\ NonceTable = [a \in Accounts |-> 0]
  /\ Mempool = << >> /\ Blockchain = << >>
  /\ disk = [balances |-> Balances, blockchain |-> Blockchain,
             mempool |-> Mempool, nonce_table |-> NonceTable]
  /\ cmd = "none" /\ pc = "idle" /\ todo = << >> /\ batch = {}
  /\ runs = 0 /\ added = 0 /\ cuts = 0 /\ grant = 0 /\ granted = 0
  /\ fails = 0 /\ unsaved = {} /\ lost = FALSE
  /\ sent = {} /\ producerRan = FALSE

-----------------------------------------------------------------------------
(* Processes *)

\* Faults: a key is not loaded.
LoadAllButNonces ==
  /\ Balances' = disk.balances /\ NonceTable' = [a \in Accounts |-> 0]
  /\ Mempool' = disk.mempool /\ Blockchain' = disk.blockchain
LoadAllButChain ==
  /\ Balances' = disk.balances /\ NonceTable' = disk.nonce_table
  /\ Mempool' = disk.mempool /\ Blockchain' = << >>

LoadAllData ==
  /\ Balances' = disk.balances /\ NonceTable' = disk.nonce_table
  /\ Mempool' = disk.mempool /\ Blockchain' = disk.blockchain

\* RunCLI: LoadAllData, then the handler of the command.
Launch(c) ==
  /\ cmd = "none" /\ runs < MaxRuns
  /\ cmd' = c /\ runs' = runs + 1
  /\ LoadAllData
  /\ pc' = "idle" /\ todo' = << >> /\ batch' = {}
  /\ UNCHANGED <<disk, added, cuts, grants, sent, producerRan, failures>>

Working == pc \notin {"idle", "done"}

\* The memory of an ended process is never read again.
End ==
  /\ cmd # "none" /\ cmd' = "none"
  /\ pc' = "idle" /\ todo' = << >> /\ batch' = {}
  /\ cuts' = IF Working THEN cuts + 1 ELSE cuts
  /\ cuts' <= MaxCuts
  /\ Balances' = InitBalances /\ NonceTable' = [a \in Accounts |-> 0]
  /\ Mempool' = << >> /\ Blockchain' = << >>
  /\ lost' = (lost \/ unsaved # {}) /\ unsaved' = {}
  /\ grant' = 0
  /\ UNCHANGED <<disk, runs, fails, granted, added, sent, producerRan>>

\* main returns.  "start" returns as soon as the ticker goroutine is started, the stress
\* commands after their rounds, whatever their committer is doing; the others when
\* their work is done; "auto-commit" never.
Return ==
  /\ \/ cmd \in {"start", "stress"}
     \/ cmd \in {"init", "tx", "airdrop", "slash"} /\ ~Working
     \/ cmd = "commit" /\ pc = "done"
  /\ End

\* The process is killed at work, or between two rounds of "auto-commit".  Any other
\* death is like a return, or like a command that was not given.
Die == (Working \/ cmd = "auto-commit") /\ End

-----------------------------------------------------------------------------
(* Saving *)

\* One db.Put of SaveAllData, SaveBalances or SaveBlockchain.
Save ==
  /\ todo # << >>
  /\ todo' = Tail(todo)
  /\ disk' = [disk EXCEPT ![Head(todo)] = InMemory(Head(todo))]
  /\ IF Head(todo) = "balances" THEN granted' = granted + grant /\ grant' = 0
                                ELSE UNCHANGED grants
  /\ unsaved' = unsaved \ {Head(todo)}
  /\ UNCHANGED <<memory, cmd, pc, batch, runs, cuts, fails, lost, added, sent, producerRan>>

\* db.Put returns an error, which is dropped: the old value stays on disk.
SaveFails ==
  /\ todo # << >> /\ fails < MaxFails
  /\ fails' = fails + 1
  /\ todo' = Tail(todo)
  /\ unsaved' = unsaved \cup {Head(todo)}
  /\ UNCHANGED <<memory, disk, cmd, pc, batch, runs, cuts, grants, lost, added, sent,
                 producerRan>>

Saved == todo = << >>

\* A command that saves last is done; a loop goes on.
FinishSave ==
  /\ pc = "saving" /\ Saved
  /\ pc' = IF cmd \in {"auto-commit", "stress"} THEN "idle" ELSE "done"
  /\ UNCHANGED <<memory, disk, cmd, todo, batch, history, added, sent>>

-----------------------------------------------------------------------------
(* Commands *)

\* InitLedger: an empty chain gets its genesis block.
InitLedger ==
  /\ cmd = "init" /\ pc = "idle"
  /\ \/ /\ Blockchain = << >>
        /\ Blockchain' = <<Genesis>>
        /\ pc' = "saving" /\ todo' = <<"blockchain">>
     \/ Blockchain # << >> /\ pc' = "done" /\ UNCHANGED <<Blockchain, todo>>
  /\ UNCHANGED <<Balances, NonceTable, Mempool, disk, cmd, batch, history, added, sent>>

\* A fault: the last nonce that was used.
LastNonce(a) == NonceTable[a]

GetNextNonce(a) == NonceTable[a] + 1

\* NewTransaction and ValidateAndAddToMempool.  Nothing is saved.
Submit(from, to) ==
  /\ cmd \in {"tx", "stress"} /\ added < MaxTxs
  /\ Balances[from] >= Amount + Fee
  /\ LET tx == [from |-> from, to |-> to, nonce |-> GetNextNonce(from)]
     IN  /\ Mempool' = Append(Mempool, tx)
         /\ sent' = IF cmd = "tx" THEN sent \cup {tx} ELSE sent
  /\ added' = added + 1
  /\ UNCHANGED <<Balances, NonceTable, Blockchain, disk, control, history>>

\* Money from nowhere: memory, then SaveBalances.
Grant(more) ==
  /\ pc = "idle"
  /\ Balances' = [a \in Accounts |-> Balances[a] + more[a]]
  /\ pc' = "saving" /\ todo' = <<"balances">>
  /\ grant' = grant + SumFunction(more)
  /\ UNCHANGED <<NonceTable, Mempool, Blockchain, disk, cmd, batch, runs, cuts, granted,
                 producerRan, failures, added, sent>>

\* The airdrop command: every wallet of a folder gets the same.
Airdrop(folder) ==
  /\ cmd = "airdrop"
  /\ \E amount \in Airdrops :
       Grant([a \in Accounts |-> IF a \in folder THEN amount ELSE 0])

\* The slash command: a tenth of what is slashed goes to the reporter, any address, and
\* the rest of what is neither burnt nor kept to the honest validators.  The stakes, and
\* how much each is credited, are in module Consensus.
Slash ==
  /\ cmd = "slash"
  /\ \E more \in [Accounts -> Shares] : Grant(more)

-----------------------------------------------------------------------------
(* CommitBlock *)

At(s, n) == {i \in DOMAIN Mempool : Mempool[i].from = s /\ Mempool[i].nonce = n}

\* The partition of s executes the next l nonces: nothing stale sorts before them, each
\* is there, each but the last is there once, and s can pay for each after the others.
CanExecute(s, l) ==
  LET first == NonceTable[s] + 1
  IN  /\ l > 0 => \A n \in 1..NonceTable[s] : At(s, n) = {}
      /\ \A n \in first..(NonceTable[s] + l) : At(s, n) # {}
      /\ \A n \in first..(NonceTable[s] + l - 1) : Cardinality(At(s, n)) = 1
      /\ \A i \in 1..l : i * (Amount + Fee) <= Balances[s]

RunLength(s) ==
  CHOOSE l \in 0..Len(Mempool) : CanExecute(s, l) /\ ~CanExecute(s, l + 1)

\* The positions that the workers may accept: of two transactions with one nonce, either.
Batches ==
  {B \in SUBSET DOMAIN Mempool :
     \A s \in Accounts :
       LET mine == {i \in B : Mempool[i].from = s}
       IN  /\ Cardinality(mine) = RunLength(s)
           /\ {Mempool[i].nonce : i \in mine}
                = (NonceTable[s] + 1)..(NonceTable[s] + RunLength(s))}

SentBy(a, b) == {tx \in b : tx.from = a}
SentTo(a, b) == {tx \in b : tx.to = a}

Committing == cmd \in {"start", "commit", "auto-commit", "stress"} /\ pc = "idle"

\* A fault: nothing is saved after CommitBlock.
AfterCommitUnsaved ==
  pc' = (IF cmd = "commit" THEN "done" ELSE "idle") /\ UNCHANGED todo

\* After CommitBlock: every command but "start" saves again.
AfterCommit ==
  IF cmd = "start" THEN pc' = "idle" /\ UNCHANGED todo
                   ELSE pc' = "saving" /\ todo' = AllKeys

\* From the snapshot of the mempool to the block and its reward; SaveAllData begins.
AddBlock ==
  /\ Committing
  /\ Mempool # << >> /\ Len(Blockchain) < MaxBlocks
  /\ \E proposer \in Proposers, B \in Batches :
       LET b == {Mempool[i] : i \in B}
       IN  /\ batch' = b
           /\ Balances' = [a \in Accounts |->
                Balances[a] - (Amount + Fee) * Cardinality(SentBy(a, b))
                  + Amount * Cardinality(SentTo(a, b))
                  + (IF a = proposer THEN Fee * Cardinality(b) + BlockReward ELSE 0)]
           /\ NonceTable' = [a \in Accounts |-> NonceTable[a] + Cardinality(SentBy(a, b))]
           /\ Blockchain' = (IF Blockchain = << >> THEN <<Genesis>> ELSE Blockchain) \o <<b>>
  /\ pc' = "adding" /\ todo' = AllKeys
  /\ producerRan' = (producerRan \/ cmd = "start")
  /\ UNCHANGED <<Mempool, disk, cmd, runs, cuts, failures, grants, added, sent>>

\* CommitBlock returns early: an empty mempool (or the bound MaxBlocks), or nobody to
\* propose.
SkipCommit ==
  /\ Committing
  /\ Mempool = << >> \/ Len(Blockchain) >= MaxBlocks \/ Proposers = {}
  /\ AfterCommit
  /\ UNCHANGED <<memory, disk, cmd, batch, history, added, sent>>

\* The one order that keeps the positions I where they stand to each other.
KeepOrder(I) ==
  {f \in Injection(1..Cardinality(I), I) :
     \A i, j \in DOMAIN f : i < j => f[i] < f[j]}

\* The mempool is cleaned after SaveAllData has written it.
RemoveCommittedFromMempool ==
  /\ pc = "adding" /\ Saved
  /\ LET keep == {i \in DOMAIN Mempool : Mempool[i] \notin batch}
     IN  \E f \in KeepOrder(keep) :
           Mempool' = [i \in 1..Cardinality(keep) |-> Mempool[f[i]]]
  /\ batch' = {}
  /\ AfterCommit
  /\ UNCHANGED <<Balances, NonceTable, Blockchain, disk, cmd, history, added, sent>>

-----------------------------------------------------------------------------
Run ==
  \/ Save \/ SaveFails \/ FinishSave
  \/ InitLedger \/ AddBlock \/ SkipCommit \/ RemoveCommittedFromMempool

Next ==
  \/ \E c \in Commands : Launch(c)
  \/ Return \/ Die
  \/ Run
  \/ \E from, to \in Accounts : Submit(from, to)
  \/ \E folder \in SUBSET Accounts : Airdrop(folder)
  \/ Slash

Spec == Init /\ [][Next]_vars

\* A process that has something to do does it, unless it ends first.
FairSpec == Spec /\ WF_vars(Run) /\ WF_vars(Return)

-----------------------------------------------------------------------------
Blocks == Seq(SUBSET Tx)

TypeOK ==
  /\ Balances \in [Accounts -> Int] /\ NonceTable \in [Accounts -> Nat]
  /\ Mempool \in Seq(Tx) /\ Blockchain \in Blocks
  /\ disk \in [balances: [Accounts -> Int], blockchain: Blocks,
               mempool: Seq(Tx), nonce_table: [Accounts -> Nat]]
  /\ cmd \in Commands \cup {"none"}
  /\ pc \in {"idle", "adding", "saving", "done"}
  /\ todo \in Seq(DOMAIN disk) /\ batch \in SUBSET Tx
  /\ {runs, added, cuts, fails} \subseteq Nat /\ {grant, granted} \subseteq Int
  /\ unsaved \subseteq DOMAIN disk /\ lost \in BOOLEAN
  /\ sent \in SUBSET Tx /\ producerRan \in BOOLEAN

-----------------------------------------------------------------------------
(* What is on disk *)

\* The blocks of chain that execute nonce n of s.
Executions(chain, s, n) ==
  {b \in DOMAIN chain : \E tx \in chain[b] : tx.from = s /\ tx.nonce = n}

\* The chain on disk only ever grows at its end: whatever is cut off or not written, no
\* saved block is lost or replaced.
SavedChainGrows ==
  [][\A b \in DOMAIN disk.blockchain :
       b \in DOMAIN disk'.blockchain /\ disk'.blockchain[b] = disk.blockchain[b]]_vars

\* A nonce that the saved table counts as used is used by a saved block: SaveAllData
\* writes the chain before the nonces.  A Put that fails breaks this only until the same
\* process saves again; if it ends before, for good.
UsedNoncesAreRecorded ==
  unsaved = {} /\ ~lost =>
  \A s \in Accounts : \A n \in 1..disk.nonce_table[s] :
    Executions(disk.blockchain, s, n) # {}

\* A nonce is executed once, and once more at most for every commit that the end of a
\* process cut off between the chain and the nonces and for every Put that failed.
ReplaysNeedCuts ==
  \A s \in Accounts, n \in 1..MaxTxs :
    Cardinality(Executions(Blockchain, s, n)) <= 1 + cuts + fails

SavedBlocks == {b \in DOMAIN disk.blockchain : b > 1}

\* Between processes the saved balances hold what the saved blocks, the airdrops and the
\* slashes minted.  Each commit cut off after SaveBalances adds the reward of a block that was
\* lost, each failed Put at most the reward of one block more or less.
SavedMoneyAddsUp ==
  cmd = "none" =>
    SumFunction(disk.balances) - SumFunction(InitBalances) - granted
        - BlockReward * Cardinality(SavedBlocks)
      \in {BlockReward * n : n \in (-fails)..(cuts + fails)}

\* A process never finds an executed transaction in the mempool it loads, as long as
\* each of the earlier ones ended after it had saved, without an error.  The producer of
\* "start" never saves what it has cleaned.
CommittedLeavesMempool ==
  cmd = "none" /\ cuts = 0 /\ fails = 0 /\ ~producerRan =>
    \A i \in DOMAIN disk.mempool, b \in DOMAIN disk.blockchain :
      disk.mempool[i] \notin disk.blockchain[b]

-----------------------------------------------------------------------------
(* What the program says of itself *)

\* "TX berhasil dikirim", the transaction was sent (cli.go:155): it is in a block or
\* waits for one, in memory or on disk.
SentTxIsKept ==
  \A tx \in sent :
    \/ cmd = "tx" /\ tx \in Range(Mempool)
    \/ tx \in Range(disk.mempool)
    \/ \E b \in DOMAIN disk.blockchain : tx \in disk.blockchain[b]

\* "consensus auto-producer aktif" (cli.go:93): a node that is started with a
\* transaction in its mempool adds a block.
StartedNodeProduces ==
  \A h \in 0..MaxBlocks :
    cmd = "start" /\ Mempool # << >> /\ Len(disk.blockchain) = h /\ h + 1 < MaxBlocks
      ~> Len(Blockchain) > h
=============================================================================
