---------------------------- MODULE LedgerProofs ----------------------------
(***************************************************************************)
(* Proofs about Ledger, for every set of accounts, clients and committers  *)
(* and every content of the mempool, in four parts.                        *)
(*                                                                         *)
(* First the inductive invariant: the batch that a committer holds can     *)
(* always be paid out of what its senders are worth, whatever the signs of *)
(* the amounts, so that no account is overspent, and every entry of a      *)
(* block is a transfer of Bank.                                            *)
(*                                                                         *)
(* Then why nonces are executed once and in order.  A client may append    *)
(* long after it has tested the nonce, but the nonce table only grows, so  *)
(* the mempool is never ahead of it; hence a batch holds one transaction   *)
(* of a sender at most, and the chain together with the batch that is      *)
(* being committed holds exactly the nonces that the table counts.         *)
(*                                                                         *)
(* Then the money: between two commits the accounts own the genesis, what  *)
(* was credited and one reward for each block; during a commit they lack   *)
(* the fees that the loop has taken and no one has got yet.                *)
(*                                                                         *)
(* Last what a stale transaction does: nothing of its sender is executed   *)
(* again.                                                                  *)
(***************************************************************************)
EXTENDS LedgerInv, SumTheorems, SequenceTheorems, TLAPS

\* Picking the elements of a sequence at the positions of I, in any order, gives a
\* sequence of the same elements: sort.Slice on a partition, and the filter of
\* RemoveCommittedFromMempool.
LEMMA ReorderedType ==
  ASSUME NEW S, NEW m \in Seq(S), NEW I \in SUBSET (DOMAIN m),
         NEW f \in Injection(1..Cardinality(I), I)
  PROVE  /\ Cardinality(I) \in Nat
         /\ \A i \in 1..Cardinality(I) : f[i] \in I
         /\ [i \in 1..Cardinality(I) |-> m[f[i]]] \in Seq(S)
<1>1. IsFiniteSet(1..Len(m)) /\ DOMAIN m = 1..Len(m)
  BY FS_Interval, LenProperties
<1>2. Cardinality(I) \in Nat
  BY <1>1, FS_Subset, FS_CardinalityType
<1>3. \A i \in 1..Cardinality(I) : f[i] \in I
  BY DEF Injection
<1>4. \A i \in 1..Cardinality(I) : m[f[i]] \in S
  BY <1>1, <1>3, ElementOfSeq
<1>5. [i \in 1..Cardinality(I) |-> m[f[i]]] \in [1..Cardinality(I) -> S]
  BY <1>4
<1> QED
  BY <1>2, <1>3, <1>5, SeqDef

LEMMA TxFacts ==
  ASSUME NEW tx \in Tx
  PROVE  /\ tx.from \in Accounts /\ tx.to \in Accounts
         /\ tx.amount \in Int /\ tx.fee \in Int /\ tx.nonce \in Nat
         /\ Cost(tx) \in Int
<1>1. tx.from \in Accounts /\ tx.to \in Accounts /\ tx.nonce \in Nat
  BY DEF Tx
<1>2. tx.amount \in Amounts /\ tx.fee \in Fees
  BY DEF Tx
<1>3. tx.amount \in Int /\ tx.fee \in Int
  BY <1>2, MoneyAssumption
<1> QED BY <1>1, <1>3 DEF Cost

\* An entry of a batch, and the transaction in it.
LEMMA EntryFacts ==
  ASSUME NEW e \in Seq(Entry), NEW i \in DOMAIN e
  PROVE  e[i].tx \in Tx /\ e[i].left \in Int
<1>1. i \in 1..Len(e) BY LenProperties
<1>2. e[i] \in Entry BY <1>1, ElementOfSeq
<1> QED BY <1>2 DEF Entry

\* The entry that the commit loop has reached.
LEMMA AtEntry ==
  ASSUME CommitTypes, LocalTypes, NEW k \in Committers, CommitTx(k)
  PROVE  /\ kpc[k] = "commit" /\ kpc'[k] = "commit"
         /\ final[k] \in Seq(Entry) /\ DOMAIN final[k] = 1..Len(final[k])
         /\ next[k] \in Nat \ {0} /\ next[k] \in DOMAIN final[k] /\ next[k] <= Len(final[k])
         /\ next'[k] = next[k] + 1 /\ final' = final
<1>1. kpc[k] = "commit" /\ kpc' = [kpc EXCEPT ![k] = "commit"] /\ next[k] <= Len(final[k])
  BY DEF CommitTx, Goto
<1>2. next' = [next EXCEPT ![k] = @ + 1] /\ final' = final BY DEF CommitTx, execVars
<1>3. final[k] \in Seq(Entry) /\ next[k] \in Nat \ {0} BY DEF CommitTypes, LocalTypes
<1>4. Len(final[k]) \in Nat /\ DOMAIN final[k] = 1..Len(final[k]) BY <1>3, LenProperties
<1>5. DOMAIN kpc = Committers /\ DOMAIN next = Committers BY DEF CommitTypes
<1>6. next[k] \in DOMAIN final[k] BY ONLY <1>1, <1>3, <1>4
<1> QED BY ONLY <1>1, <1>2, <1>3, <1>4, <1>5, <1>6, k \in Committers

-----------------------------------------------------------------------------
(* Every step preserves the types. *)

LEMMA TypeClient ==
  ASSUME TypeOK, NEW c \in Clients, ClientStep(c)
  PROVE  TypeOK'
<1> USE DEF TypeOK
<1>0. CommitTypes' /\ LocalTypes'
  <2>1. UNCHANGED <<lockVars, commitVars>>
    BY DEF ClientStep, NewTransaction, ReceiveTx, Submit, CheckNonce, CheckBalance,
           AddToMempool, ClientGoto, ClientReturn
  <2> QED BY <2>1 DEF CommitTypes, LocalTypes, lockVars, commitVars, snapVars, execVars
<1>1. ASSUME NEW tx \in Tx, Submit(c, tx) PROVE ChainTypes' /\ ClientTypes'
  <2>1. ChainTypes' BY <1>1 DEF Submit, ChainTypes, chainVars, moneyVars
  <2>2. ClientTypes' BY <1>1 DEF Submit, ClientTypes
  <2> QED BY <2>1, <2>2
<1>2. ASSUME NEW where \in {"balance", "append"}, ClientGoto(c, where), cpc[c] # "idle"
      PROVE  ChainTypes' /\ ClientTypes'
  BY <1>2 DEF ClientGoto, ChainTypes, ClientTypes, chainVars, moneyVars
<1>3. ASSUME ClientReturn(c) PROVE ClientTypes'
  BY <1>3 DEF ClientReturn, ClientTypes
<1>4. ASSUME UNCHANGED <<chainVars, moneyVars>> PROVE ChainTypes'
  BY <1>4 DEF chainVars, moneyVars, ChainTypes
<1>5. CASE NewTransaction(c)
  <2>1. PICK a \in Accounts, b \in Accounts, n \in Amounts, f \in Fees :
          Submit(c, [from |-> a, to |-> b, amount |-> n, fee |-> f,
                     nonce |-> GetNextNonce(a), sig |-> "valid"])
    BY <1>5, MoneyAssumption DEF NewTransaction
  <2>2. GetNextNonce(a) \in Nat
    BY DEF GetNextNonce, ChainTypes
  <2>3. [from |-> a, to |-> b, amount |-> n, fee |-> f,
         nonce |-> GetNextNonce(a), sig |-> "valid"] \in Tx
    BY <2>2 DEF Tx
  <2> QED BY <1>0, <1>1, <2>1, <2>3
<1>6. CASE ReceiveTx(c)
  BY <1>0, <1>1, <1>6, GatewayAssumption DEF ReceiveTx
<1>7. CASE CheckNonce(c)
  BY <1>0, <1>2, <1>3, <1>4, <1>7 DEF CheckNonce, ClientReturn
<1>8. CASE CheckBalance(c)
  BY <1>0, <1>2, <1>3, <1>4, <1>8 DEF CheckBalance, ClientReturn
<1>9. CASE AddToMempool(c)
  <2>1. ctx[c] \in Tx
    BY <1>9 DEF AddToMempool, ClientTypes
  <2>2. ChainTypes'
    BY <1>9, <2>1 DEF AddToMempool, ClientReturn, ChainTypes, moneyVars
  <2> QED BY <1>0, <1>3, <1>9, <2>2 DEF AddToMempool
<1> QED BY <1>5, <1>6, <1>7, <1>8, <1>9 DEF ClientStep

LEMMA CommitKeepsClientTypes ==
  ASSUME ClientTypes, NEW k \in Committers, CommitStep(k)
  PROVE  ClientTypes'
<1>1. UNCHANGED clientVars
  BY DEF CommitStep, BeginCommit, SeeMempool, NoBlock, SelectProposer, VotePasses,
     RejectBlock, MempoolSnapshot, SnapshotNonces, SnapshotBalances, TakePartition,
     ExecuteTx, BreakPartition, CollectPartitions, LockState, CommitTx, UnlockState,
     AppendBlock, AddFee, CreditProposer, SaveAllData, RemoveCommittedFromMempool,
     ReturnFrom, Goto
<1> QED BY <1>1 DEF clientVars, ClientTypes

LEMMA CommitKeepsCommitTypes ==
  ASSUME TypeOK, NEW k \in Committers, CommitStep(k)
  PROVE  CommitTypes'
<1> USE DEF TypeOK, CommitTypes, CommitPlaces, Goto, lockVars
<1>1. ASSUME NEW p, ReturnFrom(k, p) PROVE CommitTypes'
  BY <1>1 DEF ReturnFrom
<1>2. CASE BeginCommit(k) BY <1>2 DEF BeginCommit
<1>3. CASE SeeMempool(k) BY <1>3 DEF SeeMempool
<1>4. CASE NoBlock(k) BY <1>1, <1>4 DEF NoBlock
<1>5. CASE SelectProposer(k) BY <1>5, ValidatorsAssumption DEF SelectProposer
<1>6. CASE VotePasses(k) BY <1>6 DEF VotePasses
<1>7. CASE RejectBlock(k) BY <1>1, <1>7 DEF RejectBlock
<1>8. CASE MempoolSnapshot(k) BY <1>8 DEF MempoolSnapshot
<1>9. CASE SnapshotNonces(k) BY <1>9 DEF SnapshotNonces
<1>10. CASE SnapshotBalances(k) BY <1>10 DEF SnapshotBalances
<1>11. ASSUME NEW s \in Accounts, TakePartition(k, s) PROVE CommitTypes'
  BY <1>11 DEF TakePartition
<1>12. CASE ExecuteTx(k) BY <1>12 DEF ExecuteTx
<1>13. CASE BreakPartition(k) BY <1>13 DEF BreakPartition
<1>14. CASE CollectPartitions(k) BY <1>14 DEF CollectPartitions
<1>15. CASE LockState(k) BY <1>15 DEF LockState
<1>16. CASE CommitTx(k)
  <2>1. /\ next' = [next EXCEPT ![k] = @ + 1] /\ kpc' = [kpc EXCEPT ![k] = "commit"]
        /\ UNCHANGED <<committing, stateLocked, proposer, fees>>
    BY <1>16 DEF CommitTx
  <2>2. next' \in [Committers -> Nat \ {0}] BY <2>1
  <2>3. kpc' \in [Committers -> CommitPlaces] BY <2>1
  <2> QED BY <2>1, <2>2, <2>3
<1>17. CASE UnlockState(k)
  <2>1. /\ next' = [next EXCEPT ![k] = 1] /\ kpc' = [kpc EXCEPT ![k] = "block"]
        /\ stateLocked' = FALSE
        /\ UNCHANGED <<committing, proposer, fees>>
    BY <1>17 DEF UnlockState
  <2>2. next' \in [Committers -> Nat \ {0}] BY <2>1
  <2>3. kpc' \in [Committers -> CommitPlaces] BY <2>1
  <2> QED BY <2>1, <2>2, <2>3
<1>18. CASE AppendBlock(k) BY <1>18 DEF AppendBlock
<1>19. CASE AddFee(k)
  <2>1. next[k] \in 1..Len(final[k]) /\ final[k] \in Seq(Entry)
    BY <1>19 DEF AddFee, LocalTypes
  <2>2. final[k][next[k]].tx.fee \in Int
    BY <2>1, LenProperties, EntryFacts, TxFacts
  <2> QED BY <1>19, <2>2 DEF AddFee
<1>20. CASE CreditProposer(k) BY <1>20 DEF CreditProposer
<1>21. CASE SaveAllData(k) BY <1>21 DEF SaveAllData
<1>22. CASE RemoveCommittedFromMempool(k) BY <1>1, <1>22 DEF RemoveCommittedFromMempool
<1> QED
  BY <1>2, <1>3, <1>4, <1>5, <1>6, <1>7, <1>8, <1>9, <1>10, <1>11, <1>12, <1>13,
     <1>14, <1>15, <1>16, <1>17, <1>18, <1>19, <1>20, <1>21, <1>22 DEF CommitStep

LEMMA CommitKeepsLocalTypes ==
  ASSUME TypeOK, NEW k \in Committers, LocalsOK(k), CommitStep(k)
  PROVE  LocalTypes'
<1> USE DEF TypeOK, LocalTypes, Goto, snapVars, execVars
<1>1. ASSUME NEW p, ReturnFrom(k, p) PROVE LocalTypes'
  BY <1>1 DEF ReturnFrom
<1>2. CASE BeginCommit(k) BY <1>2 DEF BeginCommit
<1>3. CASE SeeMempool(k) BY <1>3 DEF SeeMempool
<1>4. CASE NoBlock(k) BY <1>1, <1>4 DEF NoBlock
<1>5. CASE SelectProposer(k) BY <1>5 DEF SelectProposer
<1>6. CASE VotePasses(k) BY <1>6 DEF VotePasses
<1>7. CASE RejectBlock(k) BY <1>1, <1>7 DEF RejectBlock
<1>8. CASE MempoolSnapshot(k)
  <2>1. \A i \in DOMAIN Mempool : Mempool[i].from \in Accounts
    <3>1. Mempool \in Seq(Tx) BY DEF ChainTypes
    <3>2. \A i \in DOMAIN Mempool : Mempool[i] \in Tx
      BY <3>1, ElementOfSeq, LenProperties
    <3> QED BY <3>2, TxFacts
  <2> QED BY <1>8, <2>1 DEF MempoolSnapshot, ChainTypes
<1>9. CASE SnapshotNonces(k) BY <1>9 DEF SnapshotNonces, ChainTypes
<1>10. CASE SnapshotBalances(k) BY <1>10 DEF SnapshotBalances, ChainTypes
<1>11. ASSUME NEW s \in Accounts, TakePartition(k, s) PROVE LocalTypes'
  <2> DEFINE I == {i \in DOMAIN snap[k] : snap[k][i].from = s}
  <2>1. PICK f \in Injection(1..Cardinality(I), I) :
          todo' = [todo EXCEPT ![k] = [i \in 1..Cardinality(I) |-> snap[k][f[i]]]]
    BY <1>11 DEF TakePartition, NonceOrders
  <2>2. [i \in 1..Cardinality(I) |-> snap[k][f[i]]] \in Seq(Tx)
    <3> HIDE DEF I
    <3>1. I \in SUBSET (DOMAIN snap[k]) BY DEF I
    <3>2. snap[k] \in Seq(Tx) OBVIOUS
    <3> DEFINE m == snap[k]
    <3> HIDE DEF m
    <3>3. m \in Seq(Tx) /\ I \in SUBSET (DOMAIN m) BY <3>1, <3>2 DEF m
    <3> HIDE DEF LocalTypes, TypeOK
    <3>4. /\ Cardinality(I) \in Nat
          /\ \A i \in 1..Cardinality(I) : f[i] \in I
          /\ [i \in 1..Cardinality(I) |-> m[f[i]]] \in Seq(Tx)
      BY <3>3, ReorderedType
    <3> QED BY <3>4 DEF m
  <2>3. nonceSnap[k][s] \in Nat /\ balSnap[k][s] \in Int
    BY <1>11 DEF TakePartition, LocalsOK, ChainTypes
  <2> HIDE DEF I
  <2> QED BY <1>11, <2>1, <2>2, <2>3 DEF TakePartition
<1>12. CASE ExecuteTx(k)
  <2> DEFINE tx == Head(todo[k])
  <2>1. tx \in Tx /\ Tail(todo[k]) \in Seq(Tx)
    BY <1>12, HeadTailProperties DEF ExecuteTx
  <2>2. tx.nonce \in Nat /\ Cost(tx) \in Int
    BY <2>1, TxFacts
  <2>3. [tx |-> tx, left |-> localBal[k] - Cost(tx)] \in Entry
    BY <2>1, <2>2 DEF Entry
  <2> QED BY <1>12, <2>1, <2>2, <2>3 DEF ExecuteTx
<1>13. CASE BreakPartition(k) BY <1>13 DEF BreakPartition
<1>14. CASE CollectPartitions(k) BY <1>14 DEF CollectPartitions
<1>15. CASE LockState(k) BY <1>15 DEF LockState
<1>16. CASE CommitTx(k) BY <1>16 DEF CommitTx
<1>17. CASE UnlockState(k) BY <1>17 DEF UnlockState
<1>18. CASE AppendBlock(k) BY <1>18 DEF AppendBlock
<1>19. CASE AddFee(k) BY <1>19 DEF AddFee
<1>20. CASE CreditProposer(k) BY <1>20 DEF CreditProposer
<1>21. CASE SaveAllData(k) BY <1>21 DEF SaveAllData
<1>22. CASE RemoveCommittedFromMempool(k) BY <1>1, <1>22 DEF RemoveCommittedFromMempool
<1> QED
  BY <1>2, <1>3, <1>4, <1>5, <1>6, <1>7, <1>8, <1>9, <1>10, <1>11, <1>12, <1>13,
     <1>14, <1>15, <1>16, <1>17, <1>18, <1>19, <1>20, <1>21, <1>22 DEF CommitStep

\* A worth is an integer: an integer and what is on record as taken.
LEMMA WorthType ==
  ASSUME NEW f \in [Accounts -> Int], NEW g \in [Accounts -> Nat]
  PROVE  \A a \in Accounts : f[a] + g[a] \in Int
OBVIOUS

\* What an addition of n leaves of an account's worth, whatever the sign of n.
LEMMA LossFacts ==
  ASSUME NEW n \in Int
  PROVE  Loss(n) \in Nat /\ n + Loss(n) >= 0
BY DEF Loss

\* An airdrop or the shares of a slash add to the balances, and what they take from an
\* account is on record.
Deposits ==
  /\ ChainTypes'
  /\ \A a \in Accounts : Worth(a)' >= Worth(a)
  /\ \A a \in Accounts : taken'[a] = taken[a] + Loss(Balances'[a] - Balances[a])

LEMMA CreditFacts ==
  ASSUME ChainTypes, NEW more \in [Accounts -> Int], Credit(more)
  PROVE  Deposits /\ UNCHANGED <<NonceTable, Mempool, Blockchain>>
<1> USE DEF ChainTypes
<1>1. /\ Balances' = [a \in Accounts |-> Balances[a] + more[a]]
      /\ credited' = [a \in Accounts |-> credited[a] + more[a]]
      /\ taken' = [a \in Accounts |-> taken[a] + Loss(more[a])]
      /\ UNCHANGED <<NonceTable, Mempool, Blockchain>>
  BY DEF Credit
<1>2. \A a \in Accounts : more[a] \in Int /\ Loss(more[a]) \in Nat /\ more[a] + Loss(more[a]) >= 0
  BY LossFacts
<1>3. \A a \in Accounts : /\ Balances[a] + more[a] \in Int
                          /\ (Balances[a] + more[a]) - Balances[a] = more[a]
                          /\ credited[a] + more[a] \in Int
                          /\ taken[a] + Loss(more[a]) \in Nat
  BY <1>2
<1>4. ChainTypes' BY <1>1, <1>3
<1>5. \A a \in Accounts : taken'[a] = taken[a] + Loss(Balances'[a] - Balances[a])
  BY <1>1, <1>3
<1>6. ASSUME NEW a \in Accounts PROVE Worth(a)' >= Worth(a)
  <2>1. Balances'[a] = Balances[a] + more[a] /\ taken'[a] = taken[a] + Loss(more[a])
    BY <1>1
  <2>2. Balances[a] \in Int /\ taken[a] \in Nat OBVIOUS
  <2>3. more[a] \in Int /\ Loss(more[a]) \in Nat /\ more[a] + Loss(more[a]) >= 0
    BY <1>2
  <2>4. Balances'[a] + taken'[a] >= Balances[a] + taken[a]
    BY ONLY <2>1, <2>2, <2>3
  <2> QED BY <2>4 DEF Worth
<1> QED BY <1>1, <1>4, <1>5, <1>6 DEF Deposits

LEMMA RejectCredits ==
  ASSUME NEW k \in Committers, RejectBlock(k)
  PROVE  \E more \in [Accounts -> Int] : Credit(more)
<1>1. PICK more \in [Accounts -> Shares \cup {0}] : Credit(more)
  BY DEF RejectBlock
<1>2. Shares \cup {0} \subseteq Int BY MoneyAssumption
<1>3. more \in [Accounts -> Int] BY <1>2
<1> QED BY <1>1, <1>3

LEMMA AirdropCredits ==
  ASSUME NEW to \in Accounts, NEW amount \in Airdrops, Airdrop(to, amount)
  PROVE  \E more \in [Accounts -> Int] : Credit(more)
<1> DEFINE more == [a \in Accounts |-> IF a = to THEN amount ELSE 0]
<1>1. more \in [Accounts -> Int]
  <2>1. amount \in Int BY MoneyAssumption
  <2> QED BY <2>1
<1>2. Credit(more) BY DEF Airdrop
<1> QED BY <1>1, <1>2

LEMMA CommitKeepsChainTypes ==
  ASSUME TypeOK, NEW k \in Committers, CommitStep(k)
  PROVE  ChainTypes'
<1> USE DEF TypeOK, ChainTypes
<1>1. CASE UNCHANGED <<chainVars, moneyVars>>
  BY <1>1 DEF chainVars, moneyVars
<1>2. CASE RejectBlock(k)
  BY <1>2, RejectCredits, CreditFacts DEF Deposits
<1>3. CASE CommitTx(k)
  <2> DEFINE tx == final[k][next[k]].tx
  <2>1. tx \in Tx
    <3>1. next[k] \in DOMAIN final[k] /\ final[k] \in Seq(Entry)
      BY <1>3, AtEntry
    <3> QED BY <3>1, EntryFacts
  <2>2. Cost(tx) \in Int /\ tx.amount \in Int /\ tx.nonce \in Nat
    BY <2>1, TxFacts
  <2>3. tx.from \in Accounts /\ tx.to \in Accounts BY <2>1, TxFacts
  <2> DEFINE debited == [Balances EXCEPT ![tx.from] = @ - Cost(tx)]
  <2>4. /\ Balances' = [debited EXCEPT ![tx.to] = @ + tx.amount]
        /\ NonceTable' = [NonceTable EXCEPT ![tx.from] = tx.nonce]
        /\ taken' = [taken EXCEPT ![tx.to] = @ + Loss(tx.amount)]
        /\ UNCHANGED <<Mempool, Blockchain, credited>>
    BY <1>3 DEF CommitTx
  <2> HIDE DEF tx
  <2>5. debited \in [Accounts -> Int]
    <3>1. Balances \in [Accounts -> Int] OBVIOUS
    <3>2. Balances[tx.from] - Cost(tx) \in Int BY ONLY <2>2, <2>3, <3>1
    <3> QED BY ONLY <3>1, <3>2
  <2> HIDE DEF debited
  <2>6. Balances' \in [Accounts -> Int]
    <3>1. debited[tx.to] + tx.amount \in Int BY ONLY <2>2, <2>3, <2>5
    <3> QED BY ONLY <2>4, <2>5, <3>1
  <2>7. NonceTable' \in [Accounts -> Nat] BY <2>2, <2>4
  <2>8. taken' \in [Accounts -> Nat]
    <3>1. Loss(tx.amount) \in Nat BY <2>2, LossFacts
    <3>2. taken \in [Accounts -> Nat] OBVIOUS
    <3> QED BY ONLY <2>3, <2>4, <3>1, <3>2
  <2> QED BY <2>4, <2>6, <2>7, <2>8
<1>4. CASE AppendBlock(k)
  <2> DEFINE Block == [Proposer: {NoValidator}, Transactions: Seq(Tx)]
             new == [Proposer |-> NoValidator,
                     Transactions |-> [i \in DOMAIN final[k] |-> final[k][i].tx]]
             base == IF Blockchain = << >> THEN <<Genesis>> ELSE Blockchain
  <2>1. [i \in DOMAIN final[k] |-> final[k][i].tx] \in Seq(Tx)
    <3>1. final[k] \in Seq(Entry) BY DEF LocalTypes
    <3>2. Len(final[k]) \in Nat /\ DOMAIN final[k] = 1..Len(final[k])
      BY <3>1, LenProperties
    <3>3. \A i \in 1..Len(final[k]) : final[k][i].tx \in Tx
      BY <3>1, <3>2, EntryFacts
    <3>4. [i \in 1..Len(final[k]) |-> final[k][i].tx] \in [1..Len(final[k]) -> Tx]
      BY <3>3
    <3> QED BY <3>2, <3>4, SeqDef
  <2>2. new \in Block BY <2>1
  <2>3. Genesis \in Block BY DEF Genesis
  <2>4. base \in Seq(Block)
    <3>1. Blockchain \in Seq(Block) OBVIOUS
    <3> HIDE DEF Block
    <3>2. <<Genesis>> \in Seq(Block) BY <2>3
    <3> QED BY <3>1, <3>2
  <2> HIDE DEF Block, new, base
  <2>5. base \o <<new>> \in Seq(Block)
    BY <2>2, <2>4, ConcatProperties
  <2>6. Blockchain' = base \o <<new>>
    BY <1>4 DEF AppendBlock, base, new
  <2> QED BY <1>4, <2>5, <2>6 DEF AppendBlock, Block, moneyVars
<1>5. CASE CreditProposer(k)
  <2>1. fees[k] \in Int BY DEF CommitTypes
  <2> DEFINE v == proposer[k]
  <2>2. /\ Balances' = [Balances EXCEPT ![v] = @ + fees[k] + BlockReward]
        /\ taken' = [taken EXCEPT ![v] = @ + Loss(fees[k] + BlockReward)]
        /\ UNCHANGED <<NonceTable, Mempool, Blockchain, credited>>
    BY <1>5 DEF CreditProposer
  <2> HIDE DEF v
  <2>5. Loss(fees[k] + BlockReward) \in Nat
    <3>1. fees[k] + BlockReward \in Int BY <2>1 DEF BlockReward
    <3> QED BY <3>1, LossFacts
  <2>6. taken' \in [Accounts -> Nat]
    <3>1. taken \in [Accounts -> Nat] OBVIOUS
    <3> DEFINE more == Loss(fees[k] + BlockReward)
    <3>2. more \in Nat /\ taken' = [taken EXCEPT ![v] = @ + more] BY <2>2, <2>5
    <3> HIDE DEF more
    <3>3. v \in Accounts => taken[v] + more \in Nat BY ONLY <3>1, <3>2
    <3> QED BY ONLY <3>1, <3>2, <3>3
  <2>3. v \in Accounts => Balances[v] + fees[k] + BlockReward \in Int
    BY <2>1 DEF BlockReward
  <2>4. Balances' \in [Accounts -> Int] BY <2>2, <2>3
  <2> QED BY <2>2, <2>4, <2>6
<1>6. CASE RemoveCommittedFromMempool(k)
  <2> DEFINE committed == {HashTransaction(final[k][i].tx) : i \in DOMAIN final[k]}
             keep == {i \in DOMAIN Mempool : HashTransaction(Mempool[i]) \notin committed}
  <2>1. PICK f \in Injection(1..Cardinality(keep), keep) :
          Mempool' = [i \in 1..Cardinality(keep) |-> Mempool[f[i]]]
    BY <1>6 DEF RemoveCommittedFromMempool, KeepOrder
  <2>2. keep \in SUBSET (DOMAIN Mempool) OBVIOUS
  <2> HIDE DEF keep
  <2>3. Mempool' \in Seq(Tx)
    BY <2>1, <2>2, ReorderedType
  <2> QED BY <1>6, <2>3 DEF RemoveCommittedFromMempool, moneyVars
<1>7. \/ UNCHANGED <<chainVars, moneyVars>> \/ RejectBlock(k) \/ CommitTx(k)
      \/ AppendBlock(k) \/ CreditProposer(k) \/ RemoveCommittedFromMempool(k)
  BY DEF CommitStep, BeginCommit, SeeMempool, NoBlock, SelectProposer, VotePasses,
     MempoolSnapshot, SnapshotNonces, SnapshotBalances, TakePartition, ExecuteTx,
     BreakPartition, CollectPartitions, LockState, UnlockState, AddFee, SaveAllData
<1> QED BY <1>1, <1>2, <1>3, <1>4, <1>5, <1>6, <1>7

-----------------------------------------------------------------------------
(* One committer at a time *)

\* A step inside CommitBlock that is no return and takes or leaves no lock.
LEMMA MoveKeepsExclusive ==
  ASSUME CommitTypes, Exclusive, NEW k \in Committers, NEW here, NEW there,
         Goto(k, here, there), here # "idle", there # "idle",
         here = "commit" <=> there = "commit", UNCHANGED lockVars
  PROVE  Exclusive'
BY DEF CommitTypes, Exclusive, Busy, Goto, lockVars

LEMMA CommitKeepsExclusive ==
  ASSUME CommitTypes, Exclusive, NEW k \in Committers, CommitStep(k)
  PROVE  Exclusive'
<1>1. ASSUME NEW p, p # "idle", p # "commit", ReturnFrom(k, p) PROVE Exclusive'
  BY <1>1 DEF ReturnFrom, Goto, CommitTypes, Exclusive, Busy
<1>2. CASE BeginCommit(k)
  BY <1>2 DEF BeginCommit, Goto, CommitTypes, Exclusive, Busy
<1>3. CASE NoBlock(k) BY <1>1, <1>3 DEF NoBlock
<1>4. CASE RejectBlock(k) BY <1>1, <1>4 DEF RejectBlock
<1>5. CASE RemoveCommittedFromMempool(k)
  BY <1>1, <1>5 DEF RemoveCommittedFromMempool
<1>6. CASE LockState(k)
  BY <1>6 DEF LockState, Goto, CommitTypes, Exclusive, Busy
<1>7. CASE UnlockState(k)
  <2>1. /\ kpc[k] = "commit" /\ kpc' = [kpc EXCEPT ![k] = "block"]
        /\ stateLocked' = FALSE /\ committing' = committing
    BY <1>7 DEF UnlockState, Goto
  <2> QED BY <2>1 DEF CommitTypes, Exclusive, Busy
<1>8. CASE SeeMempool(k) BY <1>8, MoveKeepsExclusive DEF SeeMempool
<1>9. CASE SelectProposer(k) BY <1>9, MoveKeepsExclusive DEF SelectProposer
<1>10. CASE VotePasses(k) BY <1>10, MoveKeepsExclusive DEF VotePasses
<1>11. CASE MempoolSnapshot(k) BY <1>11, MoveKeepsExclusive DEF MempoolSnapshot
<1>12. CASE SnapshotNonces(k) BY <1>12, MoveKeepsExclusive DEF SnapshotNonces
<1>13. CASE SnapshotBalances(k) BY <1>13, MoveKeepsExclusive DEF SnapshotBalances
<1>14. ASSUME NEW s \in Accounts, TakePartition(k, s) PROVE Exclusive'
  BY <1>14, MoveKeepsExclusive DEF TakePartition
<1>15. CASE ExecuteTx(k) BY <1>15, MoveKeepsExclusive DEF ExecuteTx
<1>16. CASE BreakPartition(k) BY <1>16, MoveKeepsExclusive DEF BreakPartition
<1>17. CASE CollectPartitions(k) BY <1>17, MoveKeepsExclusive DEF CollectPartitions
<1>18. CASE CommitTx(k) BY <1>18, MoveKeepsExclusive DEF CommitTx
<1>19. CASE AppendBlock(k) BY <1>19, MoveKeepsExclusive DEF AppendBlock
<1>20. CASE AddFee(k) BY <1>20, MoveKeepsExclusive DEF AddFee
<1>21. CASE CreditProposer(k) BY <1>21, MoveKeepsExclusive DEF CreditProposer
<1>22. CASE SaveAllData(k) BY <1>22, MoveKeepsExclusive DEF SaveAllData
<1> QED
  BY <1>2, <1>3, <1>4, <1>5, <1>6, <1>7, <1>8, <1>9, <1>10, <1>11, <1>12, <1>13,
     <1>14, <1>15, <1>16, <1>17, <1>18, <1>19, <1>20, <1>21, <1>22 DEF CommitStep

\* The committer that takes a step is inside CommitBlock, or nobody is.
LEMMA OthersAreIdle ==
  ASSUME CommitTypes, Exclusive, NEW k \in Committers, CommitStep(k),
         NEW j \in Committers, j # k
  PROVE  kpc[j] = "idle"
<1>1. kpc[k] # "idle" \/ committing = 0
  BY DEF CommitStep, BeginCommit, SeeMempool, NoBlock, SelectProposer, VotePasses,
     RejectBlock, MempoolSnapshot, SnapshotNonces, SnapshotBalances, TakePartition,
     ExecuteTx, BreakPartition, CollectPartitions, LockState, CommitTx, UnlockState,
     AppendBlock, AddFee, CreditProposer, SaveAllData, RemoveCommittedFromMempool,
     ReturnFrom, Goto
<1> QED BY <1>1 DEF Exclusive, Busy

\* A step of k leaves the locals of the others alone.
LEMMA OthersUntouched ==
  ASSUME TypeOK, NEW k \in Committers, CommitStep(k), NEW j \in Committers, j # k
  PROVE  /\ kpc'[j] = kpc[j] /\ todo'[j] = todo[j] /\ final'[j] = final[j]
         /\ next'[j] = next[j]
<1>0. /\ DOMAIN kpc = Committers /\ DOMAIN todo = Committers
      /\ DOMAIN final = Committers /\ DOMAIN next = Committers
  BY DEF TypeOK, CommitTypes, LocalTypes
<1>1. kpc'[j] = kpc[j]
  BY <1>0 DEF CommitStep, BeginCommit, SeeMempool, NoBlock, SelectProposer, VotePasses,
     RejectBlock, MempoolSnapshot, SnapshotNonces, SnapshotBalances, TakePartition,
     ExecuteTx, BreakPartition, CollectPartitions, LockState, CommitTx, UnlockState,
     AppendBlock, AddFee, CreditProposer, SaveAllData, RemoveCommittedFromMempool,
     ReturnFrom, Goto
<1>2. todo'[j] = todo[j]
  <2>1. UNCHANGED todo \/ \E q : todo' = [todo EXCEPT ![k] = q]
    BY DEF CommitStep, BeginCommit, SeeMempool, NoBlock, SelectProposer, VotePasses,
       RejectBlock, MempoolSnapshot, SnapshotNonces, SnapshotBalances, TakePartition,
       ExecuteTx, BreakPartition, CollectPartitions, LockState, CommitTx, UnlockState,
       AppendBlock, AddFee, CreditProposer, SaveAllData, RemoveCommittedFromMempool,
       ReturnFrom, execVars
  <2> QED BY <1>0, <2>1
<1>3. final'[j] = final[j]
  <2>1. UNCHANGED final \/ \E q : final' = [final EXCEPT ![k] = q]
    BY DEF CommitStep, BeginCommit, SeeMempool, NoBlock, SelectProposer, VotePasses,
       RejectBlock, MempoolSnapshot, SnapshotNonces, SnapshotBalances, TakePartition,
       ExecuteTx, BreakPartition, CollectPartitions, LockState, CommitTx, UnlockState,
       AppendBlock, AddFee, CreditProposer, SaveAllData, RemoveCommittedFromMempool,
       ReturnFrom, execVars
  <2> QED BY <1>0, <2>1
<1>4. next'[j] = next[j]
  BY <1>0 DEF CommitStep, BeginCommit, SeeMempool, NoBlock, SelectProposer, VotePasses,
     RejectBlock, MempoolSnapshot, SnapshotNonces, SnapshotBalances, TakePartition,
     ExecuteTx, BreakPartition, CollectPartitions, LockState, CommitTx, UnlockState,
     AppendBlock, AddFee, CreditProposer, SaveAllData, RemoveCommittedFromMempool,
     ReturnFrom
<1> QED BY <1>1, <1>2, <1>3, <1>4

LEMMA OthersKeepInv ==
  ASSUME TypeOK, Exclusive, NEW k \in Committers, CommitStep(k),
         NEW j \in Committers, j # k, LocalsOK(j), TypeOK'
  PROVE  LocalsOK(j)' /\ BatchOK(j)'
<1>1. kpc[j] = "idle" BY OthersAreIdle DEF TypeOK
<1>2. /\ kpc'[j] = "idle" /\ todo'[j] = todo[j] /\ final'[j] = final[j]
      /\ next'[j] = next[j]
  BY <1>1, OthersUntouched
<1>3. LocalsOK(j)' BY <1>1, <1>2 DEF LocalsOK
<1>4. BatchOK(j)' BY <1>2 DEF BatchOK
<1> QED BY <1>3, <1>4

-----------------------------------------------------------------------------
(* The locals of the committer that steps *)

LEMMA CommitKeepsLocals ==
  ASSUME TypeOK, NEW k \in Committers, CommitStep(k), LocalsOK(k)
  PROVE  LocalsOK(k)'
<1> USE DEF TypeOK, CommitTypes, LocalTypes, LocalsOK, Goto, snapVars, execVars, chainVars,
            moneyVars, Worth
<1>1. ASSUME NEW p, ReturnFrom(k, p), todo[k] = << >> PROVE LocalsOK(k)'
  BY <1>1 DEF ReturnFrom
<1>2. CASE BeginCommit(k) BY <1>2 DEF BeginCommit
<1>3. CASE SeeMempool(k) BY <1>3 DEF SeeMempool
<1>4. CASE NoBlock(k) BY <1>1, <1>4 DEF NoBlock, ReturnFrom
<1>5. CASE SelectProposer(k) BY <1>5, ValidatorsAssumption DEF SelectProposer
<1>6. CASE VotePasses(k) BY <1>6 DEF VotePasses
<1>7. CASE RejectBlock(k) BY <1>1, <1>7 DEF RejectBlock, ReturnFrom
<1>8. CASE MempoolSnapshot(k) BY <1>8 DEF MempoolSnapshot
<1>9. CASE SnapshotNonces(k) BY <1>9 DEF SnapshotNonces
<1>10. CASE SnapshotBalances(k)
  <2>1. balSnap'[k] = Balances /\ UNCHANGED <<Balances, taken>>
    BY <1>10 DEF SnapshotBalances
  <2>2. Balances \in [Accounts -> Int] /\ taken \in [Accounts -> Nat] BY DEF ChainTypes
  <2>3. \A a \in Accounts : Balances[a] <= Balances[a] + taken[a] BY <2>2
  <2>4. balSnap'[k] \in [Accounts -> Int] /\ \A a \in Accounts : balSnap'[k][a] <= Worth(a)'
    BY <2>1, <2>2, <2>3
  <2>5. /\ kpc'[k] = "exec" /\ kpc[k] = "balances"
        /\ UNCHANGED <<proposer, todo, final, next, nonceSnap, NonceTable>>
    BY <1>10 DEF SnapshotBalances
  <2> QED BY <2>4, <2>5
<1>11. ASSUME NEW s \in Accounts, TakePartition(k, s) PROVE LocalsOK(k)'
  BY <1>11 DEF TakePartition
<1>12. CASE ExecuteTx(k) BY <1>12 DEF ExecuteTx
<1>13. CASE BreakPartition(k) BY <1>13 DEF BreakPartition
<1>14. CASE CollectPartitions(k) BY <1>14 DEF CollectPartitions
<1>15. CASE LockState(k) BY <1>15 DEF LockState
<1>16. CASE CommitTx(k) BY <1>16 DEF CommitTx
<1>17. CASE UnlockState(k) BY <1>17 DEF UnlockState
<1>18. CASE AppendBlock(k) BY <1>18 DEF AppendBlock
<1>19. CASE AddFee(k) BY <1>19 DEF AddFee
<1>20. CASE CreditProposer(k) BY <1>20 DEF CreditProposer
<1>21. CASE SaveAllData(k) BY <1>21 DEF SaveAllData
<1>22. CASE RemoveCommittedFromMempool(k)
  BY <1>1, <1>22 DEF RemoveCommittedFromMempool, ReturnFrom
<1> QED
  BY <1>2, <1>3, <1>4, <1>5, <1>6, <1>7, <1>8, <1>9, <1>10, <1>11, <1>12, <1>13,
     <1>14, <1>15, <1>16, <1>17, <1>18, <1>19, <1>20, <1>21, <1>22 DEF CommitStep

-----------------------------------------------------------------------------
(* The batch *)

\* f is e and one more transaction, which comes after nonce ln of its sender and is
\* paid out of lb: e holds an entry with that nonce, and lb is at most what this left;
\* or it holds none yet.  Appending it keeps a batch that can be committed from its
\* start.
Extends(f, e, n, tx, lb, ln) ==
  /\ n \in Nat /\ tx \in Tx /\ lb \in Int /\ ln \in Nat
  /\ DOMAIN e = 1..n /\ DOMAIN f = 1..(n + 1)
  /\ \A i \in 1..n : f[i] = e[i] /\ e[i].tx \in Tx /\ e[i].left \in Int
  /\ f[n + 1].tx = tx /\ f[n + 1].left = lb - Cost(tx)
  /\ Executable(tx, ln, lb)
  /\ \A i \in 1..n : e[i].tx.from = tx.from => e[i].tx.nonce <= ln
  /\ \/ ln = NonceTable[tx.from] /\ lb <= Worth(tx.from)
     \/ \E i \in 1..n : e[i].tx.from = tx.from /\ e[i].tx.nonce = ln /\ lb <= e[i].left

LEMMA AppendToBatch ==
  ASSUME NEW f, NEW e, NEW n, NEW tx, NEW lb, NEW ln,
         Extends(f, e, n, tx, lb, ln), Batch(e), Payable(e, 1)
  PROVE  Batch(f) /\ Payable(f, 1)
<1> USE DEF Extends
<1>1. \A i \in 1..n : e[i].tx.nonce \in Nat
  BY TxFacts
<1>2. tx.from \in Accounts /\ Cost(tx) \in Int /\ tx.nonce \in Nat
  BY TxFacts
<1>3. VerifyTransaction(tx) /\ tx.nonce = ln + 1 /\ lb >= Cost(tx)
  BY DEF Executable
<1>4. Batch(f)
  <2>1. \A i \in 1..(n + 1) : VerifyTransaction(f[i].tx) /\ f[i].left >= 0
    BY <1>2, <1>3 DEF Batch
  <2>2. ASSUME NEW i \in 1..(n + 1), NEW j \in 1..(n + 1), i < j, SameSender(f, i, j)
        PROVE  f[i].tx.nonce < f[j].tx.nonce
    <3>1. i \in 1..n /\ f[i] = e[i] BY <2>2
    <3>2. CASE j = n + 1
      <4>1. e[i].tx.from = tx.from BY <2>2, <3>1, <3>2 DEF SameSender
      <4>2. f[i].tx.nonce <= ln /\ f[i].tx.nonce \in Nat
        BY <1>1, <3>1, <4>1
      <4>3. f[j].tx.nonce = ln + 1 BY <1>3, <3>2
      <4> QED BY <4>2, <4>3
    <3>3. CASE j # n + 1
      <4>1. j \in 1..n /\ f[j] = e[j] BY <2>2, <3>3
      <4> QED BY <2>2, <3>1, <4>1 DEF Batch, SameSender
    <3> QED BY <3>2, <3>3
  <2> QED BY <2>1, <2>2 DEF Batch
<1>5. Payable(f, 1)
  <2>1. ASSUME NEW i \in 1..n
        PROVE  PaidNow(f, i) \/ \E j \in 1..(i - 1) : Follows(f, i, j)
    <3>1. CASE PaidNow(e, i)
      <4>1. f[i] = e[i] OBVIOUS
      <4> QED BY <3>1, <4>1 DEF PaidNow
    <3>2. CASE \E j \in 1..(i - 1) : Follows(e, i, j)
      <4>1. PICK j \in 1..(i - 1) : Follows(e, i, j) BY <3>2
      <4>2. f[j] = e[j] /\ f[i] = e[i] BY <4>1
      <4> QED BY <4>1, <4>2 DEF Follows, SameSender
    <3> QED BY <3>1, <3>2 DEF Payable
  <2>2. f[n + 1].left + Cost(f[n + 1].tx) = lb
    BY <1>2
  <2>3. PaidNow(f, n + 1) \/ \E j \in 1..n : Follows(f, n + 1, j)
    <3>1. CASE ln = NonceTable[tx.from] /\ lb <= Worth(tx.from)
      <4>1. f[n + 1].tx = tx OBVIOUS
      <4> QED BY <1>3, <2>2, <3>1, <4>1 DEF PaidNow
    <3>2. CASE \E j \in 1..n : e[j].tx.from = tx.from /\ e[j].tx.nonce = ln /\ lb <= e[j].left
      <4>1. PICK j \in 1..n : e[j].tx.from = tx.from /\ e[j].tx.nonce = ln /\ lb <= e[j].left
        BY <3>2
      <4>2. f[j] = e[j] /\ f[n + 1].tx = tx BY <4>1
      <4>3. Follows(f, n + 1, j)
        BY <1>3, <2>2, <4>1, <4>2 DEF Follows, SameSender
      <4> QED BY <4>3
    <3> QED BY <3>1, <3>2
  <2>4. ASSUME NEW i \in 1..(n + 1)
        PROVE  PaidNow(f, i) \/ \E j \in 1..(i - 1) : Follows(f, i, j)
    <3>1. CASE i \in 1..n BY <2>1, <3>1
    <3>2. CASE i = n + 1
      <4>1. 1..(i - 1) = 1..n BY <3>2
      <4> QED BY <2>3, <3>2, <4>1
    <3> QED BY <3>1, <3>2
  <2> QED BY <2>4 DEF Payable
<1> QED BY <1>4, <1>5

\* A round of the worker's loop.
LEMMA ExecuteKeepsBatch ==
  ASSUME TypeOK, NEW k \in Committers, ExecuteTx(k), LocalsOK(k), BatchOK(k)
  PROVE  BatchOK(k)'
<1> DEFINE e == final[k]
           tx == Head(todo[k])
           f == Append(e, [tx |-> tx, left |-> localBal[k] - Cost(tx)])
           s == tx.from
           n == Len(e)
<1>1. /\ kpc[k] = "exec" /\ kpc'[k] = "exec" /\ next'[k] = 1 /\ next[k] = 1
      /\ e \in Seq(Entry) /\ todo[k] \in Seq(Tx) /\ todo[k] # << >>
      /\ localBal[k] \in Int /\ localNonce[k] \in Nat
      /\ nonceSnap[k] = NonceTable /\ balSnap[k] \in [Accounts -> Int]
      /\ \A a \in Accounts : balSnap[k][a] <= Worth(a)
  BY DEF ExecuteTx, Goto, LocalsOK, TypeOK, CommitTypes, LocalTypes
<1>2. /\ final'[k] = f /\ todo'[k] = Tail(todo[k])
      /\ localBal'[k] = localBal[k] - Cost(tx) /\ localNonce'[k] = tx.nonce
      /\ jobs'[k] = jobs[k]
      /\ UNCHANGED <<Balances, NonceTable, taken, nonceSnap, balSnap>>
      /\ Executable(tx, localNonce[k], localBal[k])
  BY DEF ExecuteTx, TypeOK, LocalTypes, chainVars, snapVars, moneyVars
<1>3. tx \in Tx /\ tx = todo[k][1] /\ 1 \in DOMAIN todo[k]
  BY <1>1, HeadTailProperties, LenProperties
<1>4. s \in Accounts /\ Cost(tx) \in Int /\ tx.nonce \in Nat
  BY <1>3, TxFacts
<1>5. Batch(e) /\ Payable(e, 1) /\ Worker(k)
  BY <1>1 DEF BatchOK
<1>6. /\ s \notin jobs[k]
      /\ \A i \in DOMAIN e : e[i].tx.from = s => e[i].tx.nonce <= localNonce[k]
      /\ \/ localNonce[k] = NonceTable[s] /\ localBal[k] <= Worth(s)
         \/ \E i \in DOMAIN e : /\ e[i].tx.from = s /\ e[i].tx.nonce = localNonce[k]
                                /\ localBal[k] <= e[i].left
  <2>1. /\ s \notin jobs[k]
        /\ \A i \in DOMAIN e : e[i].tx.from = s => e[i].tx.nonce <= localNonce[k]
        /\ \/ localNonce[k] = NonceTable[s] /\ localBal[k] <= balSnap[k][s]
           \/ \E i \in DOMAIN e : /\ e[i].tx.from = s /\ e[i].tx.nonce = localNonce[k]
                                  /\ localBal[k] <= e[i].left
    BY <1>1, <1>3, <1>5 DEF Worker
  <2>2. balSnap[k][s] <= Worth(s) /\ balSnap[k][s] \in Int /\ Worth(s) \in Int
    <3>1. Balances \in [Accounts -> Int] /\ taken \in [Accounts -> Nat]
      BY <1>1 DEF TypeOK, ChainTypes
    <3> QED BY <1>1, <1>4, <3>1, WorthType DEF Worth
  <2>3. localBal[k] <= balSnap[k][s] => localBal[k] <= Worth(s)
    BY <1>1, <2>2
  <2> QED BY <2>1, <2>3
<1>8. /\ n \in Nat /\ DOMAIN e = 1..n /\ DOMAIN f = 1..(n + 1)
      /\ \A i \in 1..n : f[i] = e[i]
      /\ f[n + 1].tx = tx /\ f[n + 1].left = localBal[k] - Cost(tx)
  BY <1>1, LenProperties
<1>9. \A i \in 1..n : e[i].tx \in Tx /\ e[i].left \in Int /\ e[i].tx.nonce \in Nat
  BY <1>1, <1>8, EntryFacts, TxFacts
<1> HIDE DEF e, f, n, tx
<1>10. Batch(f) /\ Payable(f, 1)
  <2>1. \A i \in 1..n : f[i] = e[i] /\ e[i].tx \in Tx /\ e[i].left \in Int
    BY <1>8, <1>9
  <2>2. \A i \in 1..n : e[i].tx.from = tx.from => e[i].tx.nonce <= localNonce[k]
    BY <1>6, <1>8 DEF s
  <2>3. \/ localNonce[k] = NonceTable[tx.from] /\ localBal[k] <= Worth(tx.from)
        \/ \E i \in 1..n : /\ e[i].tx.from = tx.from /\ e[i].tx.nonce = localNonce[k]
                           /\ localBal[k] <= e[i].left
    BY <1>6, <1>8 DEF s
  <2>4. localBal[k] \in Int /\ localNonce[k] \in Nat
        /\ Executable(tx, localNonce[k], localBal[k]) /\ tx \in Tx
    BY <1>1, <1>2, <1>3
  <2>5. Extends(f, e, n, tx, localBal[k], localNonce[k])
    BY <1>8, <2>1, <2>2, <2>3, <2>4 DEF Extends
  <2> QED BY <1>5, <2>5, AppendToBatch
<1>11. Worker(k)'
  <2>1. /\ DOMAIN todo'[k] = 1..(Len(todo[k]) - 1)
        /\ \A i \in DOMAIN todo'[k] : todo'[k][i] = todo[k][i + 1] /\ i + 1 \in DOMAIN todo[k]
    BY <1>1, <1>2, HeadTailProperties, LenProperties
  <2>2. \A i \in DOMAIN todo[k] : todo[k][i].from = s
    BY <1>3, <1>5 DEF Worker
  <2>3. \A i \in DOMAIN todo'[k] : todo'[k][i].from = s /\ 1 \in DOMAIN todo'[k]
    BY <2>1, <2>2
  <2>4. tx.nonce = localNonce[k] + 1
    BY <1>2 DEF Executable
  <2>5. \A i \in DOMAIN f : f[i].tx.from \notin jobs[k]
    <3>1. \A i \in 1..n : e[i].tx.from \notin jobs[k] BY <1>5, <1>8 DEF Worker, e
    <3> QED BY <1>6, <1>8, <3>1
  <2>6. ASSUME NEW i \in DOMAIN f, f[i].tx.from = s PROVE f[i].tx.nonce <= tx.nonce
    <3>1. CASE i = n + 1 BY <1>4, <1>8, <3>1
    <3>2. CASE i \in 1..n
      <4>1. f[i] = e[i] BY <1>8, <3>2
      <4>2. e[i].tx.from = s BY <2>6, <4>1
      <4>3. e[i].tx.nonce <= localNonce[k]
        BY <1>6, <1>8, <3>2, <4>2
      <4>4. e[i].tx.nonce \in Nat /\ localNonce[k] \in Nat BY <1>1, <1>9, <3>2
      <4>5. e[i].tx.nonce <= tx.nonce
        BY ONLY <2>4, <4>3, <4>4
      <4> QED BY <4>1, <4>5
    <3> QED BY <1>8, <3>1, <3>2
  <2>7. /\ n + 1 \in DOMAIN f /\ f[n + 1].tx.from = s /\ f[n + 1].tx.nonce = tx.nonce
        /\ localBal[k] - Cost(tx) <= f[n + 1].left
    BY <1>1, <1>4, <1>8
  <2> HIDE DEF s
  <2>8. final'[k] = f /\ localBal'[k] = localBal[k] - Cost(tx) /\ localNonce'[k] = tx.nonce
        /\ jobs'[k] = jobs[k] /\ balSnap'[k] = balSnap[k] /\ nonceSnap'[k] = NonceTable
    BY <1>1, <1>2
  <2>9. Worker(k)' <=>
          /\ \A i \in DOMAIN f : f[i].tx.from \notin jobs[k]
          /\ \A i \in DOMAIN todo'[k] :
               LET r == todo'[k][i].from
               IN  /\ r = todo'[k][1].from
                   /\ r \notin jobs[k]
                   /\ \A m \in DOMAIN f : f[m].tx.from = r => f[m].tx.nonce <= tx.nonce
                   /\ \/ tx.nonce = NonceTable[r] /\ localBal[k] - Cost(tx) <= balSnap[k][r]
                      \/ \E m \in DOMAIN f :
                           /\ f[m].tx.from = r /\ f[m].tx.nonce = tx.nonce
                           /\ localBal[k] - Cost(tx) <= f[m].left
    BY ONLY <2>8 DEF Worker
  <2> QED BY <1>6, <2>3, <2>5, <2>6, <2>7, <2>9
<1>12. Batch(final[k])'
  BY <1>2, <1>10 DEF Batch, SameSender
<1>13. Payable(final[k], next[k])'
  BY <1>1, <1>2, <1>10 DEF Payable, PaidNow, Follows, SameSender, Worth
<1> QED BY <1>11, <1>12, <1>13 DEF BatchOK

\* A worker that starts a partition finds no entry of that sender in the batch.
LEMMA TakeKeepsBatch ==
  ASSUME TypeOK, NEW k \in Committers, NEW s \in Accounts, TakePartition(k, s),
         LocalsOK(k), BatchOK(k)
  PROVE  BatchOK(k)'
<1> DEFINE I == {i \in DOMAIN snap[k] : snap[k][i].from = s}
<1>1. /\ kpc[k] = "exec" /\ kpc'[k] = "exec" /\ s \in jobs[k]
      /\ jobs'[k] = jobs[k] \ {s} /\ localNonce'[k] = nonceSnap[k][s]
      /\ localBal'[k] = balSnap[k][s]
      /\ UNCHANGED <<final, next, Balances, NonceTable, taken, nonceSnap, balSnap>>
      /\ balSnap[k] \in [Accounts -> Int]
  BY DEF TakePartition, Goto, LocalsOK, TypeOK, CommitTypes, LocalTypes, chainVars, snapVars,
         moneyVars
<1>2. PICK f \in Injection(1..Cardinality(I), I) :
        todo' = [todo EXCEPT ![k] = [i \in 1..Cardinality(I) |-> snap[k][f[i]]]]
  BY DEF TakePartition, NonceOrders
<1>3. \A i \in DOMAIN todo'[k] : todo'[k][i].from = s /\ 1 \in DOMAIN todo'[k]
  <2>1. todo'[k] = [i \in 1..Cardinality(I) |-> snap[k][f[i]]]
    BY <1>2 DEF TypeOK, LocalTypes
  <2>2. \A i \in 1..Cardinality(I) : f[i] \in I
    BY DEF Injection
  <2>3. Cardinality(I) \in Nat
    <3>1. IsFiniteSet(DOMAIN snap[k])
      BY FS_Interval, LenProperties DEF TypeOK, LocalTypes
    <3> QED BY <3>1, FS_Subset, FS_CardinalityType
  <2> QED BY <2>1, <2>2, <2>3
<1>4. balSnap[k][s] \in Int BY <1>1
<1>5. Worker(k)
  BY <1>1 DEF BatchOK
<1>6. Worker(k)'
  BY <1>1, <1>3, <1>4, <1>5 DEF Worker
<1>7. UNCHANGED <<final, next, NonceTable, Balances, taken>> /\ Payable(final[k], next[k])
      /\ Batch(final[k])
  BY <1>1 DEF BatchOK
<1>8. Payable(final[k], next[k])'
  BY <1>7 DEF Payable, PaidNow, Worth
<1> QED BY <1>1, <1>6, <1>7, <1>8 DEF BatchOK

\* The entries of a batch stay payable when every account keeps its worth: snapshots,
\* airdrops, slashes and rewards only get in between.
LEMMA PayableStays ==
  ASSUME NEW k \in Committers, LocalTypes, Payable(final[k], next[k]),
         UNCHANGED <<final, next, NonceTable>>,
         ChainTypes, ChainTypes', \A a \in Accounts : Worth(a)' >= Worth(a)
  PROVE  Payable(final[k], next[k])'
<1> DEFINE e == final[k]
<1>1. ASSUME NEW i \in DOMAIN e, PaidNow(e, i) PROVE PaidNow(e, i)'
  <2> DEFINE need == e[i].left + Cost(e[i].tx)
             a == e[i].tx.from
  <2>1. e \in Seq(Entry) /\ e' = e BY DEF LocalTypes
  <2>2. e[i].tx \in Tx /\ e[i].left \in Int BY <2>1, EntryFacts
  <2>3. a \in Accounts /\ need \in Int BY <2>2, TxFacts
  <2>4. need <= Worth(a) /\ e[i].tx.nonce = NonceTable[a] + 1 BY <1>1 DEF PaidNow
  <2>5. Balances[a] + taken[a] \in Int /\ Balances'[a] + taken'[a] \in Int
    <3>1. /\ Balances \in [Accounts -> Int] /\ taken \in [Accounts -> Nat]
          /\ Balances' \in [Accounts -> Int] /\ taken' \in [Accounts -> Nat]
      BY DEF ChainTypes
    <3> QED BY <2>3, <3>1, WorthType
  <2>6. Balances'[a] + taken'[a] >= Balances[a] + taken[a] BY <2>3 DEF Worth
  <2> HIDE DEF need, a, e
  <2>7. need <= Balances'[a] + taken'[a] BY <2>3, <2>4, <2>5, <2>6 DEF Worth
  <2> QED BY <2>1, <2>4, <2>7 DEF PaidNow, Worth, need, a
<1> QED BY <1>1 DEF Payable, Follows, SameSender

\* One round of the commit loop: the debit is covered, and what is left to commit
\* stays payable.  Balances may also grow, but only this step spends.
LEMMA CommitTxKeepsBatch ==
  ASSUME TypeOK, TypeOK', NEW k \in Committers, CommitTx(k), LocalsOK(k), BatchOK(k),
         NeverOverspent
  PROVE  BatchOK(k)' /\ NeverOverspent'
<1> DEFINE e == final[k]
           n == next[k]
           tx == e[n].tx
           s == tx.from
<1>1. /\ kpc[k] = "commit" /\ kpc'[k] = "commit" /\ n \in DOMAIN e /\ n \in Nat \ {0}
      /\ next'[k] = n + 1 /\ final'[k] = e /\ e \in Seq(Entry)
  BY AtEntry DEF TypeOK
<1>2. /\ \A i \in DOMAIN e : e[i].tx \in Tx /\ e[i].left \in Int /\ i \in Nat
      /\ \A i \in DOMAIN e : e[i].tx.nonce \in Nat /\ Cost(e[i].tx) \in Int
                             /\ e[i].tx.from \in Accounts
  BY <1>1, EntryFacts, TxFacts, LenProperties
<1>3. /\ s \in Accounts /\ tx.to \in Accounts /\ tx.amount \in Int /\ Cost(tx) \in Int
      /\ tx.nonce \in Nat
  BY <1>1, <1>2, TxFacts
<1>4. Batch(e) /\ Payable(e, n)
  BY <1>1 DEF BatchOK
<1>5. /\ Balances \in [Accounts -> Int] /\ NonceTable \in [Accounts -> Nat]
      /\ taken \in [Accounts -> Nat]
  BY DEF TypeOK, ChainTypes
<1>6. /\ Balances' = [[Balances EXCEPT ![s] = @ - Cost(tx)] EXCEPT ![tx.to] = @ + tx.amount]
      /\ NonceTable' = [NonceTable EXCEPT ![s] = tx.nonce]
      /\ taken' = [taken EXCEPT ![tx.to] = @ + Loss(tx.amount)]
  BY DEF CommitTx
<1> DEFINE W(a) == Balances[a] + taken[a]
           V(a) == Balances'[a] + taken'[a]
<1> HIDE DEF e, n, tx, s
<1>7. /\ \A a \in Accounts : a # s => V(a) >= W(a)
      /\ V(s) >= W(s) - Cost(tx)
      /\ \A a \in Accounts : V(a) \in Int /\ W(a) \in Int
  <2>1. Loss(tx.amount) \in Nat /\ tx.amount + Loss(tx.amount) >= 0
    BY <1>3, LossFacts
  <2> QED BY <1>3, <1>5, <1>6, <2>1
<1> HIDE DEF V, W
<1>8. PaidNow(e, n)
  BY <1>1, <1>4 DEF Payable
<1>9. /\ W(s) >= e[n].left + Cost(tx) /\ e[n].left >= 0 /\ e[n].left \in Int
      /\ tx.nonce = NonceTable[s] + 1
  BY <1>1, <1>2, <1>4, <1>8 DEF PaidNow, Batch, Worth, W, s, tx
<1>10. V(s) >= e[n].left
  BY <1>3, <1>7, <1>9
<1>11. NeverOverspent'
  <2>1. \A a \in Accounts : W(a) >= 0 BY DEF NeverOverspent, Worth, W
  <2>2. \A a \in Accounts : V(a) >= 0 BY <1>7, <1>9, <1>10, <2>1
  <2> QED BY <2>2 DEF NeverOverspent, Worth, V
<1>12. ASSUME NEW i \in DOMAIN e, i >= n + 1
       PROVE  \/ /\ e[i].tx.nonce = NonceTable'[e[i].tx.from] + 1
                 /\ e[i].left + Cost(e[i].tx) <= V(e[i].tx.from)
              \/ \E j \in (n + 1)..(i - 1) : Follows(e, i, j)
  <2> DEFINE a == e[i].tx.from
             need == e[i].left + Cost(e[i].tx)
  <2>1. i \in Nat /\ n < i /\ a \in Accounts /\ need \in Int
    BY <1>1, <1>2, <1>12
  <2>2. CASE PaidNow(e, i)
    <3>1. need <= W(a) /\ e[i].tx.nonce = NonceTable[a] + 1
      BY <2>2 DEF PaidNow, Worth, W
    <3>2. a # s
      <4>1. a = s => e[n].tx.nonce < e[i].tx.nonce
        BY <1>1, <1>4, <2>1 DEF Batch, SameSender, s, tx
      <4> QED BY <1>3, <1>9, <3>1, <4>1 DEF tx
    <3> HIDE DEF need, a
    <3>3. need <= V(a)
      BY <1>7, <2>1, <3>1, <3>2
    <3>4. e[i].tx.nonce = NonceTable'[a] + 1
      BY <1>5, <1>6, <2>1, <3>1, <3>2
    <3> QED BY <3>3, <3>4 DEF need, a
  <2>3. CASE \E j \in n..(i - 1) : Follows(e, i, j)
    <3>1. PICK j \in n..(i - 1) : Follows(e, i, j)
      BY <2>3
    <3>2. CASE j = n
      <4>1. a = s /\ e[i].tx.nonce = tx.nonce + 1 /\ need <= e[n].left
        BY <3>1, <3>2 DEF Follows, SameSender, s, tx
      <4> HIDE DEF need, a
      <4>2. e[i].tx.nonce = NonceTable'[a] + 1
        BY <1>3, <1>5, <1>6, <4>1
      <4>3. need <= V(a)
        BY <1>3, <1>7, <1>9, <1>10, <2>1, <4>1
      <4> QED BY <4>2, <4>3 DEF need, a
    <3>3. CASE j # n
      BY <1>1, <2>1, <3>1, <3>3
    <3> QED BY <3>2, <3>3
  <2> QED BY <1>1, <1>4, <2>1, <2>2, <2>3 DEF Payable
<1>13. Payable(final[k], next[k])'
  BY <1>1, <1>12 DEF Payable, PaidNow, Follows, SameSender, Worth, V
<1>14. Batch(final[k])'
  BY <1>1, <1>4 DEF Batch, SameSender
<1> QED BY <1>1, <1>11, <1>13, <1>14 DEF BatchOK

LEMMA EmptyBatch == Batch(<< >>) /\ \A n : Payable(<< >>, n)
BY DEF Batch, Payable

LEMMA CommitKeepsBatch ==
  ASSUME TypeOK, TypeOK', NEW k \in Committers, CommitStep(k), LocalsOK(k), BatchOK(k),
         NeverOverspent
  PROVE  BatchOK(k)' /\ NeverOverspent'
<1> USE DEF Goto, lockVars
<1>k. kpc \in [Committers -> CommitPlaces] BY DEF TypeOK, CommitTypes
<1>0. ASSUME UNCHANGED <<Balances, taken>> PROVE NeverOverspent'
  BY <1>0 DEF NeverOverspent, Worth
<1>p. ASSUME UNCHANGED <<final, next, NonceTable, Balances, taken>>,
             kpc[k] \in {"exec", "lock", "commit"}, kpc'[k] = "exec" => Worker(k)'
      PROVE  BatchOK(k)'
  <2>1. Batch(final[k]) /\ Payable(final[k], next[k]) BY <1>p DEF BatchOK
  <2>2. Batch(final[k])' /\ Payable(final[k], next[k])'
    BY <1>p, <2>1 DEF Batch, Payable, PaidNow, Follows, SameSender, Worth
  <2> QED BY <1>p, <2>2 DEF BatchOK
<1>1. ASSUME kpc'[k] \notin {"exec", "lock", "commit"} PROVE BatchOK(k)'
  BY <1>1 DEF BatchOK
<1>2. ASSUME NEW p, ReturnFrom(k, p) PROVE BatchOK(k)'
  BY <1>1, <1>2, <1>k DEF ReturnFrom
<1>3. CASE BeginCommit(k) BY <1>0, <1>1, <1>3, <1>k DEF BeginCommit, chainVars, moneyVars
<1>4. CASE SeeMempool(k) BY <1>0, <1>1, <1>4, <1>k DEF SeeMempool, chainVars, moneyVars
<1>5. CASE NoBlock(k) BY <1>0, <1>2, <1>5 DEF NoBlock, chainVars, moneyVars
<1>6. CASE SelectProposer(k) BY <1>0, <1>1, <1>6, <1>k DEF SelectProposer, chainVars, moneyVars
<1>7. CASE VotePasses(k) BY <1>0, <1>1, <1>7, <1>k DEF VotePasses, chainVars, moneyVars
<1>8. CASE RejectBlock(k)
  <2>1. Deposits BY <1>8, RejectCredits, CreditFacts DEF TypeOK
  <2>2. \A a \in Accounts : Worth(a) \in Int /\ Worth(a)' \in Int
    BY DEF TypeOK, ChainTypes, Worth
  <2>3. \A a \in Accounts : Worth(a)' >= Worth(a) BY <2>1 DEF Deposits
  <2>4. NeverOverspent' BY <2>2, <2>3 DEF NeverOverspent
  <2> QED BY <1>2, <1>8, <2>4 DEF RejectBlock
<1>9. CASE MempoolSnapshot(k) BY <1>0, <1>1, <1>9, <1>k DEF MempoolSnapshot, chainVars, moneyVars
<1>10. CASE SnapshotNonces(k) BY <1>0, <1>1, <1>10, <1>k DEF SnapshotNonces, chainVars, moneyVars
<1>11. CASE SnapshotBalances(k)
  <2>1. /\ kpc'[k] = "exec" /\ final'[k] = << >> /\ todo'[k] = << >>
        /\ UNCHANGED <<Balances, taken>>
    BY <1>11, <1>k DEF SnapshotBalances, LocalsOK, chainVars, moneyVars, execVars
  <2>2. Worker(k)' BY <2>1 DEF Worker
  <2> QED BY <1>0, <2>1, <2>2, EmptyBatch DEF BatchOK, Batch, Payable
<1>12. ASSUME NEW s \in Accounts, TakePartition(k, s)
       PROVE  BatchOK(k)' /\ NeverOverspent'
  BY <1>0, <1>12, TakeKeepsBatch DEF TakePartition, chainVars, moneyVars
<1>13. CASE ExecuteTx(k) BY <1>0, <1>13, ExecuteKeepsBatch DEF ExecuteTx, chainVars, moneyVars
<1>14. CASE BreakPartition(k)
  <2>1. /\ kpc[k] = "exec" /\ kpc'[k] = "exec" /\ todo'[k] = << >>
        /\ UNCHANGED <<final, next, jobs, Balances, NonceTable, taken>>
    BY <1>14, <1>k DEF BreakPartition, TypeOK, LocalTypes, chainVars, moneyVars
  <2>2. Worker(k)' BY <2>1 DEF Worker, BatchOK
  <2> QED BY <1>0, <1>p, <2>1, <2>2
<1>15. CASE CollectPartitions(k)
  <2>1. /\ kpc[k] = "exec" /\ kpc'[k] # "exec"
        /\ UNCHANGED <<final, next, Balances, NonceTable, taken>>
    BY <1>15, <1>k DEF CollectPartitions, chainVars, moneyVars
  <2> QED BY <1>0, <1>p, <2>1
<1>16. CASE LockState(k)
  <2>1. /\ kpc[k] = "lock" /\ kpc'[k] = "commit"
        /\ UNCHANGED <<final, next, Balances, NonceTable, taken>>
    BY <1>16, <1>k DEF LockState, chainVars, moneyVars, execVars
  <2> QED BY <1>0, <1>p, <2>1
<1>17. CASE CommitTx(k) BY <1>17, CommitTxKeepsBatch
<1>18. CASE UnlockState(k) BY <1>0, <1>1, <1>18, <1>k DEF UnlockState, chainVars, moneyVars
<1>19. CASE AppendBlock(k) BY <1>0, <1>1, <1>19, <1>k DEF AppendBlock, moneyVars
<1>20. CASE AddFee(k) BY <1>0, <1>1, <1>20, <1>k DEF AddFee, chainVars, moneyVars
<1>21. CASE CreditProposer(k)
  <2>1. /\ proposer[k] \in Accounts /\ fees[k] \in Int
        /\ Balances \in [Accounts -> Int] /\ taken \in [Accounts -> Nat]
    BY <1>21, ValidatorsAssumption
    DEF CreditProposer, LocalsOK, TypeOK, ChainTypes, CommitTypes
  <2> DEFINE more == fees[k] + BlockReward
             v == proposer[k]
  <2>2. /\ Balances' = [Balances EXCEPT ![v] = @ + fees[k] + BlockReward]
        /\ taken' = [taken EXCEPT ![v] = @ + Loss(more)]
        /\ kpc'[k] = "save"
    BY <1>21, <1>k DEF CreditProposer
  <2>4. more \in Int BY <2>1 DEF BlockReward
  <2>5. Loss(more) \in Nat /\ more + Loss(more) >= 0 BY <2>4, LossFacts
  <2>6. Balances' = [Balances EXCEPT ![v] = @ + more]
    <3>1. Balances[v] + fees[k] + BlockReward = Balances[v] + more
      BY <2>1 DEF BlockReward
    <3> QED BY <2>2, <3>1
  <2>3. NeverOverspent'
    <3>1. v \in Accounts BY <2>1
    <3> HIDE DEF more, v
    <3>2. \A a \in Accounts : Balances'[a] + taken'[a] >= Balances[a] + taken[a]
      BY <2>1, <2>2, <2>4, <2>5, <2>6, <3>1
    <3>3. \A a \in Accounts : Balances[a] + taken[a] \in Int /\ Balances'[a] + taken'[a] \in Int
      <4>1. /\ Balances \in [Accounts -> Int] /\ taken \in [Accounts -> Nat]
            /\ Balances' \in [Accounts -> Int] /\ taken' \in [Accounts -> Nat]
        BY <2>1 DEF TypeOK, ChainTypes
      <4> QED BY <4>1, WorthType
    <3> QED BY <3>2, <3>3 DEF NeverOverspent, Worth
  <2> QED BY <1>1, <2>2, <2>3
<1>22. CASE SaveAllData(k) BY <1>0, <1>1, <1>22, <1>k DEF SaveAllData, chainVars, moneyVars
<1>23. CASE RemoveCommittedFromMempool(k)
  BY <1>0, <1>2, <1>23 DEF RemoveCommittedFromMempool, moneyVars
<1> QED
  BY <1>3, <1>4, <1>5, <1>6, <1>7, <1>8, <1>9, <1>10, <1>11, <1>12, <1>13, <1>14,
     <1>15, <1>16, <1>17, <1>18, <1>19, <1>20, <1>21, <1>22, <1>23 DEF CommitStep

-----------------------------------------------------------------------------
(* The inductive invariant *)

LEMMA InitIndInv == Init => IndInv
<1> SUFFICES ASSUME Init PROVE IndInv OBVIOUS
<1> USE DEF Init
<1>1. ChainTypes
  <2> DEFINE Block == [Proposer: {NoValidator}, Transactions: Seq(Tx)]
  <2>1. Genesis \in Block
    BY DEF Genesis
  <2> HIDE DEF Block
  <2>2. << >> \in Seq(Block) /\ <<Genesis>> \in Seq(Block)
    BY <2>1
  <2>3. Blockchain \in Seq(Block) BY <2>2
  <2> USE DEF Block
  <2>4. Balances \in [Accounts -> Int] BY MoneyAssumption
  <2>5. NonceTable \in [Accounts -> Nat] /\ Mempool \in Seq(Tx) /\ credited \in [Accounts -> Int]
    OBVIOUS
  <2>6. taken \in [Accounts -> Nat] BY MoneyAssumption, LossFacts
  <2> QED BY <2>3, <2>4, <2>5, <2>6 DEF ChainTypes
<1>2. ClientTypes
  <2>1. cpc \in [Clients -> {"idle", "nonce", "balance", "append"}]
    OBVIOUS
  <2>2. ctx \in [Clients -> Tx \cup {<< >>}]
    OBVIOUS
  <2>3. \A c \in Clients : cpc[c] = "idle"
    OBVIOUS
  <2>4. submitted \in Nat
    OBVIOUS
  <2> HIDE DEF Init
  <2>5. \A c \in Clients : cpc[c] # "idle" => ctx[c] \in Tx BY <2>3
  <2> QED BY <2>1, <2>2, <2>4, <2>5 DEF ClientTypes
<1>3. CommitTypes
  <2>1. kpc \in [Committers -> CommitPlaces] BY DEF CommitPlaces
  <2>2. proposer \in [Committers -> Validators \cup {NoValidator}]
    OBVIOUS
  <2>3. next \in [Committers -> Nat \ {0}] /\ fees \in [Committers -> Int]
    OBVIOUS
  <2>4. committing \in {0, 1} /\ stateLocked \in BOOLEAN
    OBVIOUS
  <2> HIDE DEF Init
  <2> QED BY <2>1, <2>2, <2>3, <2>4 DEF CommitTypes
<1>4. LocalTypes BY DEF LocalTypes
<1>5. Exclusive BY DEF Exclusive, Busy
<1>6. NeverOverspent
  <2>1. \A a \in Accounts : InitBalances[a] \in Int BY MoneyAssumption
  <2>2. \A a \in Accounts : InitBalances[a] + Loss(InitBalances[a]) >= 0 BY <2>1, LossFacts
  <2> QED BY <2>2 DEF NeverOverspent, Worth
<1>7. \A k \in Committers : LocalsOK(k) /\ BatchOK(k)
  BY DEF LocalsOK, BatchOK
<1> QED BY <1>1, <1>2, <1>3, <1>4, <1>5, <1>6, <1>7 DEF IndInv, TypeOK

\* An airdrop between the snapshot and the commit leaves a batch payable: a negative one
\* takes money from the account and not from its worth.
LEMMA AirdropKeepsInv ==
  ASSUME IndInv, NEW to \in Accounts, NEW amount \in Airdrops, Airdrop(to, amount)
  PROVE  IndInv'
<1>1. TypeOK /\ Exclusive /\ NeverOverspent
      /\ \A k \in Committers : LocalsOK(k) /\ BatchOK(k)
  BY DEF IndInv
<1>2. /\ ChainTypes' /\ ChainTypes
      /\ \A a \in Accounts : Worth(a)' >= Worth(a)
      /\ UNCHANGED <<NonceTable, Mempool, Blockchain>>
  BY <1>1, AirdropCredits, CreditFacts DEF TypeOK, Deposits
<1>3. \A a \in Accounts : Worth(a) \in Int /\ Worth(a)' \in Int
  <2>1. /\ Balances \in [Accounts -> Int] /\ taken \in [Accounts -> Nat]
        /\ Balances' \in [Accounts -> Int] /\ taken' \in [Accounts -> Nat]
    BY <1>2 DEF ChainTypes
  <2> QED BY <2>1, WorthType DEF Worth
<1>4. UNCHANGED <<lockVars, clientVars, commitVars>>
  BY DEF Airdrop
<1>5. TypeOK'
  BY <1>1, <1>2, <1>4
  DEF TypeOK, ClientTypes, CommitTypes, LocalTypes, lockVars, clientVars, commitVars,
      snapVars, execVars
<1>6. Exclusive' BY <1>1, <1>4 DEF Exclusive, Busy, lockVars, commitVars
<1>7. NeverOverspent' BY <1>1, <1>2, <1>3 DEF NeverOverspent
<1>8. ASSUME NEW k \in Committers PROVE LocalsOK(k)' /\ BatchOK(k)'
  <2>1. UNCHANGED <<kpc, proposer, snap, nonceSnap, balSnap, jobs, todo, localNonce,
                    localBal, final, next, NonceTable>>
    BY <1>2, <1>4 DEF commitVars, snapVars, execVars
  <2>2. LocalsOK(k)'
    <3>1. LocalsOK(k) BY <1>1
    <3>2. kpc[k] = "exec" => \A a \in Accounts : balSnap[k][a] <= Worth(a)'
      BY <1>2, <1>3, <3>1 DEF LocalsOK
    <3> QED BY <2>1, <3>1, <3>2 DEF LocalsOK
  <2>3. ASSUME kpc[k] \in {"exec", "lock", "commit"} PROVE Payable(final[k], next[k])'
    <3>1. Payable(final[k], next[k]) BY <1>1, <2>3 DEF BatchOK
    <3> QED BY <1>1, <1>2, <2>1, <3>1, PayableStays DEF TypeOK
  <2>4. kpc[k] \in {"exec", "lock", "commit"} => Batch(final[k])'
    BY <1>1, <2>1 DEF BatchOK, Batch, SameSender
  <2>5. kpc[k] = "exec" => Worker(k)'
    BY <1>1, <2>1 DEF BatchOK, Worker
  <2> QED BY <2>1, <2>2, <2>3, <2>4, <2>5 DEF BatchOK
<1> QED BY <1>5, <1>6, <1>7, <1>8 DEF IndInv

LEMMA NextIndInv == IndInv /\ [Next]_vars => IndInv'
<1> SUFFICES ASSUME IndInv, [Next]_vars PROVE IndInv' OBVIOUS
<1>1. TypeOK /\ Exclusive /\ NeverOverspent
      /\ \A k \in Committers : LocalsOK(k) /\ BatchOK(k)
  BY DEF IndInv
<1>2. ASSUME UNCHANGED <<Balances, NonceTable, taken, lockVars, commitVars>>, TypeOK'
      PROVE  IndInv'
  <2>1. Exclusive' BY <1>1, <1>2 DEF Exclusive, Busy, lockVars, commitVars
  <2>2. NeverOverspent' BY <1>1, <1>2 DEF NeverOverspent, Worth
  <2>3. ASSUME NEW k \in Committers PROVE LocalsOK(k)' /\ BatchOK(k)'
    <3>1. UNCHANGED <<kpc, proposer, snap, nonceSnap, balSnap, jobs, todo, localNonce,
                      localBal, final, next, Balances, NonceTable, taken>>
      BY <1>2 DEF commitVars, snapVars, execVars
    <3>2. LocalsOK(k)' BY <1>1, <3>1 DEF LocalsOK, Worth
    <3>3. kpc[k] \in {"exec", "lock", "commit"} =>
            Batch(final[k])' /\ Payable(final[k], next[k])'
      BY <1>1, <3>1 DEF BatchOK, Batch, Payable, PaidNow, Follows, SameSender, Worth
    <3>4. kpc[k] = "exec" => Worker(k)' BY <1>1, <3>1 DEF BatchOK, Worker
    <3> QED BY <3>1, <3>2, <3>3, <3>4 DEF BatchOK
  <2> QED BY <1>2, <2>1, <2>2, <2>3 DEF IndInv
<1>3. ASSUME NEW c \in Clients, ClientStep(c) PROVE IndInv'
  <2>1. TypeOK' BY <1>1, <1>3, TypeClient
  <2>2. UNCHANGED <<Balances, NonceTable, taken, lockVars, commitVars>>
    BY <1>3 DEF ClientStep, NewTransaction, ReceiveTx, Submit, CheckNonce, CheckBalance,
       AddToMempool, ClientGoto, ClientReturn, chainVars, moneyVars
  <2> QED BY <1>2, <2>1, <2>2
<1>4. ASSUME NEW k \in Committers, CommitStep(k) PROVE IndInv'
  <2>1. TypeOK'
    BY <1>1, <1>4, CommitKeepsChainTypes, CommitKeepsClientTypes,
       CommitKeepsCommitTypes, CommitKeepsLocalTypes DEF TypeOK
  <2>2. Exclusive' BY <1>1, <1>4, CommitKeepsExclusive DEF TypeOK
  <2>3. LocalsOK(k)' BY <1>1, <1>4, CommitKeepsLocals
  <2>4. BatchOK(k)' /\ NeverOverspent' BY <1>1, <1>4, <2>1, CommitKeepsBatch
  <2>5. \A j \in Committers : j # k => LocalsOK(j)' /\ BatchOK(j)'
    BY <1>1, <1>4, <2>1, OthersKeepInv
  <2> QED BY <2>1, <2>2, <2>3, <2>4, <2>5 DEF IndInv
<1>6. ASSUME NEW to \in Accounts, NEW amount \in Airdrops, Airdrop(to, amount) PROVE IndInv'
  BY <1>6, AirdropKeepsInv
<1>5. CASE UNCHANGED vars
  <2>1. UNCHANGED <<Balances, NonceTable, taken, lockVars, commitVars>>
    BY <1>5 DEF vars, chainVars, moneyVars
  <2>2. TypeOK'
    BY <1>1, <1>5 DEF TypeOK, ChainTypes, ClientTypes, CommitTypes, LocalTypes, vars,
       chainVars, lockVars, clientVars, commitVars, moneyVars, snapVars, execVars
  <2> QED BY <1>2, <2>1, <2>2
<1> QED BY <1>3, <1>4, <1>5, <1>6 DEF Next

\* The invariant that makes batches safe holds in every reachable state.
THEOREM Inductive == Spec => []IndInv
BY InitIndInv, NextIndInv, PTL DEF Spec

\* Every variable keeps its type, for every set of accounts, clients, committers and
\* gateway transactions.
THEOREM TypeCorrect == Spec => []TypeOK
<1>1. IndInv => TypeOK BY DEF IndInv
<1> QED BY <1>1, Inductive, PTL

\* No account spends what it does not own, whatever the mempool holds, whatever the
\* signs of amounts, fees and airdrops, and however the clients and committers
\* interleave (ProcessTxListParallel debits without a test): a balance is below zero by
\* no more than negative numbers have taken from it.
THEOREM Solvency == Spec => []NeverOverspent
<1>1. IndInv => NeverOverspent BY DEF IndInv
<1> QED BY <1>1, Inductive, PTL

-----------------------------------------------------------------------------
(* Refinement *)

\* The next transfer of the batch is one the bank would execute now.
LEMMA CommitTxIsSerial ==
  ASSUME IndInv, NEW k \in Committers, CommitTx(k)
  PROVE  \E from, to \in Accounts, amount \in Amounts, fee \in Fees :
           Serial!Execute(from, to, amount, fee)
<1> DEFINE e == final[k]
           n == next[k]
           tx == e[n].tx
<1>1. /\ kpc[k] = "commit" /\ n \in DOMAIN e /\ n \in Nat /\ e \in Seq(Entry)
  BY AtEntry DEF IndInv, TypeOK
<1>2. Batch(e) /\ Payable(e, n)
  BY <1>1 DEF IndInv, BatchOK
<1>3. /\ Balances' = [[Balances EXCEPT ![tx.from] = @ - Cost(tx)]
                                 EXCEPT ![tx.to] = @ + tx.amount]
      /\ NonceTable' = [NonceTable EXCEPT ![tx.from] = tx.nonce]
      /\ taken' = [taken EXCEPT ![tx.to] = @ + Loss(tx.amount)]
  BY DEF CommitTx
<1>4. tx \in Tx /\ e[n].left \in Int BY <1>1, EntryFacts
<1>5. /\ tx.from \in Accounts /\ tx.to \in Accounts
      /\ tx.amount \in Amounts /\ tx.fee \in Fees
  BY <1>4 DEF Tx
<1>6. /\ Cost(tx) \in Int /\ NonceTable \in [Accounts -> Nat]
      /\ Balances[tx.from] + taken[tx.from] \in Int
  <2>1. /\ NonceTable \in [Accounts -> Nat] /\ Balances \in [Accounts -> Int]
        /\ taken \in [Accounts -> Nat]
    BY DEF IndInv, TypeOK, ChainTypes
  <2>2. Cost(tx) \in Int BY <1>4, TxFacts
  <2> HIDE DEF tx
  <2> QED BY <1>5, <2>1, <2>2
<1> HIDE DEF e, n
<1>7. PaidNow(e, n) /\ e[n].left >= 0
  BY <1>1, <1>2 DEF Payable, Batch
<1>8. /\ tx.nonce = NonceTable[tx.from] + 1
      /\ e[n].left + Cost(tx) <= Balances[tx.from] + taken[tx.from]
  BY <1>7 DEF PaidNow, Worth
<1> HIDE DEF tx
<1>9. Balances[tx.from] + taken[tx.from] >= Cost(tx)
  BY <1>4, <1>6, <1>7, <1>8
<1>10. Serial!Execute(tx.from, tx.to, tx.amount, tx.fee)
  <2>1. Balances[tx.from] + taken[tx.from] >= tx.amount + tx.fee BY <1>9 DEF Cost
  <2>2. NonceTable' = [NonceTable EXCEPT ![tx.from] = @ + 1] BY <1>3, <1>8
  <2>3. Balances' = [[Balances EXCEPT ![tx.from] = @ - (tx.amount + tx.fee)]
                                EXCEPT ![tx.to] = @ + tx.amount]
    BY <1>3 DEF Cost
  <2>4. taken' = [taken EXCEPT ![tx.to] = @ + Serial!Loss(tx.amount)]
    BY <1>3 DEF Serial!Loss, Loss
  <2> QED BY <2>1, <2>2, <2>3, <2>4 DEF Serial!Execute
<1> QED BY <1>5, <1>10

LEMMA DepositsRefine ==
  ASSUME Deposits, UNCHANGED NonceTable
  PROVE  Serial!Deposit
BY DEF Deposits, ChainTypes, Serial!Deposit, Serial!Loss, Loss

\* Every other step deposits or does not touch the bank's state.
LEMMA OtherStepsDeposit ==
  ASSUME IndInv, NEW k \in Committers, CommitStep(k), ~CommitTx(k)
  PROVE  UNCHANGED <<Balances, NonceTable, taken>> \/ Serial!Deposit
<1>1. CASE RejectBlock(k)
  BY <1>1, RejectCredits, CreditFacts, DepositsRefine DEF IndInv, TypeOK
<1>2. CASE CreditProposer(k)
  <2> DEFINE v == proposer[k]
             more == fees[k] + BlockReward
  <2>1. /\ v \in Accounts /\ fees[k] \in Int /\ Balances \in [Accounts -> Int]
        /\ taken \in [Accounts -> Nat]
    BY <1>2, ValidatorsAssumption
    DEF CreditProposer, Goto, IndInv, LocalsOK, TypeOK, ChainTypes, CommitTypes
  <2>2. /\ Balances' = [Balances EXCEPT ![v] = @ + fees[k] + BlockReward]
        /\ taken' = [taken EXCEPT ![v] = @ + Loss(more)]
        /\ UNCHANGED NonceTable
    BY <1>2 DEF CreditProposer
  <2>3. more \in Int /\ Balances[v] + fees[k] + BlockReward = Balances[v] + more
    BY <2>1 DEF BlockReward
  <2>4. ChainTypes' BY CommitKeepsChainTypes DEF IndInv
  <2> HIDE DEF v, more
  <2>5. Balances' = [Balances EXCEPT ![v] = @ + more] BY <2>2, <2>3
  <2>6. ASSUME NEW a \in Accounts
        PROVE  taken'[a] = taken[a] + Loss(Balances'[a] - Balances[a])
    <3>1. CASE a = v
      <4>1. Balances'[a] - Balances[a] = more BY <2>1, <2>3, <2>5, <3>1
      <4> QED BY <2>1, <2>2, <3>1, <4>1
    <3>2. CASE a # v
      <4>1. Balances'[a] - Balances[a] = 0 BY <2>1, <2>5, <3>2
      <4>2. taken'[a] = taken[a] /\ taken[a] \in Nat BY <2>1, <2>2, <3>2
      <4> QED BY <4>1, <4>2 DEF Loss
    <3> QED BY <3>1, <3>2
  <2> QED BY <2>2, <2>4, <2>6 DEF ChainTypes, Serial!Deposit, Serial!Loss, Loss
<1>3. \/ RejectBlock(k) \/ CreditProposer(k) \/ UNCHANGED <<Balances, NonceTable, taken>>
  BY DEF CommitStep, BeginCommit, SeeMempool, NoBlock, SelectProposer, VotePasses,
     MempoolSnapshot, SnapshotNonces, SnapshotBalances, TakePartition, ExecuteTx,
     BreakPartition, CollectPartitions, LockState, UnlockState, AppendBlock, AddFee,
     SaveAllData, RemoveCommittedFromMempool, chainVars, moneyVars
<1> QED BY <1>1, <1>2, <1>3

\* CommitBlock, with its snapshots, its workers and its batch, implements the bank
\* that executes one transfer at a time, each paid for by its sender.
THEOREM SerialExecution == Spec => RefinesBank
<1>1. Init => Serial!Init
  BY DEF Init, Serial!Init, Serial!Loss, Loss
<1>2. ASSUME IndInv, [Next]_vars PROVE [Serial!Next]_(Serial!vars)
  <2>1. ASSUME NEW c \in Clients, ClientStep(c)
        PROVE  UNCHANGED <<Balances, NonceTable, taken>>
    BY <2>1 DEF ClientStep, NewTransaction, ReceiveTx, Submit, CheckNonce, CheckBalance,
       AddToMempool, ClientGoto, ClientReturn, chainVars, moneyVars
  <2>2. ASSUME NEW k \in Committers, CommitStep(k)
        PROVE  Serial!Next \/ UNCHANGED <<Balances, NonceTable, taken>>
    BY <1>2, <2>2, CommitTxIsSerial, OtherStepsDeposit DEF Serial!Next
  <2>3. CASE UNCHANGED vars
    BY <2>3 DEF vars, chainVars, moneyVars, Serial!vars
  <2>4. ASSUME NEW to \in Accounts, NEW amount \in Airdrops, Airdrop(to, amount)
        PROVE  Serial!Next
    <3>1. Deposits /\ UNCHANGED NonceTable
      BY <1>2, <2>4, AirdropCredits, CreditFacts DEF IndInv, TypeOK
    <3> QED BY <3>1, DepositsRefine DEF Serial!Next
  <2> QED BY <1>2, <2>1, <2>2, <2>3, <2>4 DEF Next, Serial!vars
<1> QED BY <1>1, <1>2, Inductive, PTL DEF Spec, RefinesBank, Serial!Spec

-----------------------------------------------------------------------------
(* The nonce table only grows *)

\* The next transaction of a batch has the next nonce of its sender.
LEMMA NextNonce ==
  ASSUME IndInv, NEW k \in Committers, CommitTx(k)
  PROVE  LET tx == final[k][next[k]].tx
         IN  /\ next[k] \in DOMAIN final[k] /\ tx \in Tx
             /\ tx.nonce = NonceTable[tx.from] + 1
             /\ NonceTable' = [NonceTable EXCEPT ![tx.from] = tx.nonce]
<1> DEFINE e == final[k]
           n == next[k]
<1>1. /\ kpc[k] = "commit" /\ n \in DOMAIN e /\ n \in Nat /\ e \in Seq(Entry)
  BY AtEntry DEF IndInv, TypeOK
<1>2. Payable(e, n) BY <1>1 DEF IndInv, BatchOK
<1>3. e[n].tx \in Tx BY <1>1, EntryFacts
<1>4. NonceTable' = [NonceTable EXCEPT ![e[n].tx.from] = e[n].tx.nonce] BY DEF CommitTx
<1> HIDE DEF e, n
<1>5. e[n].tx.nonce = NonceTable[e[n].tx.from] + 1 BY <1>1, <1>2 DEF Payable, PaidNow
<1> QED BY <1>1, <1>3, <1>4, <1>5 DEF e, n

\* Nothing but the commit loop changes a nonce.
LEMMA NonceChanges ==
  ASSUME [Next]_vars
  PROVE  (\E k \in Committers : CommitTx(k)) \/ UNCHANGED NonceTable
<1>1. ASSUME NEW c \in Clients, ClientStep(c) PROVE UNCHANGED NonceTable
  BY <1>1 DEF ClientStep, NewTransaction, ReceiveTx, Submit, CheckNonce, CheckBalance,
       AddToMempool, ClientGoto, ClientReturn, chainVars
<1>2. ASSUME NEW k \in Committers, CommitStep(k) PROVE CommitTx(k) \/ UNCHANGED NonceTable
  BY <1>2 DEF CommitStep, BeginCommit, SeeMempool, NoBlock, SelectProposer, VotePasses,
     RejectBlock, MempoolSnapshot, SnapshotNonces, SnapshotBalances, TakePartition,
     ExecuteTx, BreakPartition, CollectPartitions, LockState, UnlockState,
     AppendBlock, AddFee, CreditProposer, SaveAllData, RemoveCommittedFromMempool,
     Credit, chainVars
<1> QED BY <1>1, <1>2 DEF Next, Airdrop, Credit, vars, chainVars

LEMMA NoncesGrow ==
  ASSUME IndInv, [Next]_vars
  PROVE  \A a \in Accounts :
           NonceTable[a] \in Nat /\ NonceTable'[a] \in Nat /\ NonceTable[a] <= NonceTable'[a]
<1>1. NonceTable \in [Accounts -> Nat] BY DEF IndInv, TypeOK, ChainTypes
<1>2. ASSUME NEW k \in Committers, CommitTx(k), NEW a \in Accounts
      PROVE  NonceTable'[a] \in Nat /\ NonceTable[a] <= NonceTable'[a]
  <2> DEFINE tx == final[k][next[k]].tx
  <2>1. /\ tx \in Tx /\ tx.nonce = NonceTable[tx.from] + 1
        /\ NonceTable' = [NonceTable EXCEPT ![tx.from] = tx.nonce]
    BY <1>2, NextNonce
  <2>2. tx.nonce \in Nat BY <2>1, TxFacts
  <2> HIDE DEF tx
  <2> QED BY <1>1, <2>1, <2>2
<1>3. (\E k \in Committers : CommitTx(k)) \/ UNCHANGED NonceTable BY NonceChanges
<1> QED BY <1>1, <1>2, <1>3

-----------------------------------------------------------------------------
(* The mempool *)

NotAhead(tx) == tx.nonce \in 1..GetNextNonce(tx.from)

\* What a client has tested stays true while it waits.
ClientOK(c) ==
  /\ cpc[c] \in {"balance", "append"} => NotAhead(ctx[c])
  /\ cpc[c] = "append" => VerifyTransaction(ctx[c])

PoolInv == MempoolNeverAhead /\ \A c \in Clients : ClientOK(c)

LEMMA NotAheadStays ==
  ASSUME IndInv, [Next]_vars, NEW tx \in Tx, NotAhead(tx)
  PROVE  tx.nonce \in 1..(NonceTable'[tx.from] + 1)
<1>1. tx.from \in Accounts /\ tx.nonce \in Nat BY TxFacts
<1> QED BY <1>1, NoncesGrow DEF NotAhead, GetNextNonce

LEMMA MempoolTx ==
  ASSUME IndInv, NEW i \in DOMAIN Mempool
  PROVE  Mempool[i] \in Tx
BY ElementOfSeq, LenProperties DEF IndInv, TypeOK, ChainTypes

\* What changes the mempool.
LEMMA PoolChanges ==
  ASSUME [Next]_vars
  PROVE  \/ \E c \in Clients : AddToMempool(c)
         \/ \E k \in Committers : RemoveCommittedFromMempool(k)
         \/ UNCHANGED Mempool
<1>1. ASSUME NEW c \in Clients, ClientStep(c) PROVE AddToMempool(c) \/ UNCHANGED Mempool
  BY <1>1 DEF ClientStep, NewTransaction, ReceiveTx, Submit, CheckNonce, CheckBalance,
       ClientGoto, ClientReturn, chainVars
<1>2. ASSUME NEW k \in Committers, CommitStep(k)
      PROVE  RemoveCommittedFromMempool(k) \/ UNCHANGED Mempool
  BY <1>2 DEF CommitStep, BeginCommit, SeeMempool, NoBlock, SelectProposer, VotePasses,
     RejectBlock, MempoolSnapshot, SnapshotNonces, SnapshotBalances, TakePartition,
     ExecuteTx, BreakPartition, CollectPartitions, LockState, CommitTx, UnlockState,
     AppendBlock, AddFee, CreditProposer, SaveAllData, Credit, chainVars
<1> QED BY <1>1, <1>2 DEF Next, Airdrop, Credit, vars, chainVars

\* Every transaction in the mempool was in it before, or comes from a client.
LEMMA PoolOrigin ==
  ASSUME IndInv, [Next]_vars, NEW i \in DOMAIN Mempool'
  PROVE  \/ \E j \in DOMAIN Mempool : Mempool'[i] = Mempool[j]
         \/ \E c \in Clients : cpc[c] = "append" /\ Mempool'[i] = ctx[c]
<1>1. Mempool \in Seq(Tx) /\ DOMAIN Mempool = 1..Len(Mempool)
  BY LenProperties DEF IndInv, TypeOK, ChainTypes
<1>2. ASSUME NEW c \in Clients, AddToMempool(c)
      PROVE  \/ \E j \in DOMAIN Mempool : Mempool'[i] = Mempool[j]
             \/ cpc[c] = "append" /\ Mempool'[i] = ctx[c]
  BY <1>1, <1>2 DEF AddToMempool
<1>3. ASSUME NEW k \in Committers, RemoveCommittedFromMempool(k)
      PROVE  \E j \in DOMAIN Mempool : Mempool'[i] = Mempool[j]
  <2> DEFINE committed == {HashTransaction(final[k][n].tx) : n \in DOMAIN final[k]}
             keep == {n \in DOMAIN Mempool : HashTransaction(Mempool[n]) \notin committed}
  <2>1. PICK f \in Injection(1..Cardinality(keep), keep) :
          Mempool' = [n \in 1..Cardinality(keep) |-> Mempool[f[n]]]
    BY <1>3 DEF RemoveCommittedFromMempool, KeepOrder
  <2>2. keep \subseteq DOMAIN Mempool OBVIOUS
  <2> HIDE DEF keep
  <2>3. f[i] \in keep BY <2>1 DEF Injection
  <2> QED BY <2>1, <2>2, <2>3
<1>4. \/ \E c \in Clients : AddToMempool(c)
      \/ \E k \in Committers : RemoveCommittedFromMempool(k)
      \/ UNCHANGED Mempool
  BY PoolChanges
<1> QED BY <1>2, <1>3, <1>4

LEMMA ClientStays ==
  ASSUME IndInv, PoolInv, [Next]_vars, NEW d \in Clients
  PROVE  ClientOK(d)'
<1>1. TypeOK /\ cpc \in [Clients -> {"idle", "nonce", "balance", "append"}]
  BY DEF IndInv, TypeOK, ClientTypes
<1>2. ctx \in [Clients -> Tx \cup {<< >>}] /\ (cpc[d] # "idle" => ctx[d] \in Tx)
  BY DEF IndInv, TypeOK, ClientTypes
<1>3. CASE cpc'[d] = cpc[d] /\ ctx'[d] = ctx[d]
  <2>1. cpc[d] \in {"balance", "append"} => NotAhead(ctx[d])' 
    BY <1>2, <1>3, NotAheadStays DEF PoolInv, ClientOK, NotAhead, GetNextNonce
  <2> QED BY <1>3, <2>1 DEF PoolInv, ClientOK, VerifyTransaction
<1>4. ASSUME NEW c \in Clients, ClientStep(c) PROVE ClientOK(d)'
  <2>1. CASE c # d
    <3>1. cpc'[d] = cpc[d] /\ ctx'[d] = ctx[d]
      BY <1>1, <1>2, <1>4, <2>1 DEF ClientStep, NewTransaction, ReceiveTx, Submit,
         CheckNonce, CheckBalance, AddToMempool, ClientGoto, ClientReturn
    <3> QED BY <1>3, <3>1
  <2>2. CASE c = d
    <3>1. CASE NewTransaction(d) \/ ReceiveTx(d) \/ AddToMempool(d)
      <4>1. cpc'[d] \in {"idle", "nonce"}
        BY <1>1, <3>1 DEF NewTransaction, ReceiveTx, Submit, AddToMempool, ClientReturn
      <4> QED BY <4>1 DEF ClientOK
    <3>2. CASE CheckNonce(d)
      <4>1. CASE /\ ctx[d].nonce = GetNextNonce(ctx[d].from) /\ ClientGoto(d, "balance")
        <5>1. cpc'[d] = "balance" /\ UNCHANGED <<ctx, NonceTable>>
          BY <1>1, <4>1 DEF ClientGoto, chainVars
        <5>2. ctx[d] \in Tx BY <1>2, <3>2 DEF CheckNonce
        <5>3. NonceTable[ctx[d].from] \in Nat BY <5>2, TxFacts, NoncesGrow
        <5>4. NotAhead(ctx[d])
          BY <4>1, <5>3 DEF NotAhead, GetNextNonce
        <5> QED BY <5>1, <5>4 DEF ClientOK, NotAhead, GetNextNonce
      <4>2. CASE ClientReturn(d)
        BY <1>1, <4>2 DEF ClientReturn, ClientOK
      <4> QED BY <3>2, <4>1, <4>2 DEF CheckNonce
    <3>3. CASE CheckBalance(d)
      <4>1. CASE VerifyTransaction(ctx[d]) /\ ClientGoto(d, "append")
        <5>1. cpc'[d] = "append" /\ UNCHANGED <<ctx, NonceTable>>
          BY <1>1, <4>1 DEF ClientGoto, chainVars
        <5>2. NotAhead(ctx[d]) BY <3>3 DEF CheckBalance, PoolInv, ClientOK
        <5> QED BY <4>1, <5>1, <5>2 DEF ClientOK, NotAhead, GetNextNonce, VerifyTransaction
      <4>2. CASE ClientReturn(d)
        BY <1>1, <4>2 DEF ClientReturn, ClientOK
      <4> QED BY <3>3, <4>1, <4>2 DEF CheckBalance
    <3> QED BY <1>4, <2>2, <3>1, <3>2, <3>3 DEF ClientStep
  <2> QED BY <2>1, <2>2
<1>5. ASSUME NEW k \in Committers, CommitStep(k) PROVE UNCHANGED <<cpc, ctx>>
  BY <1>5
  DEF CommitStep, BeginCommit, SeeMempool, NoBlock, SelectProposer, VotePasses,
     RejectBlock, MempoolSnapshot, SnapshotNonces, SnapshotBalances, TakePartition,
     ExecuteTx, BreakPartition, CollectPartitions, LockState, CommitTx, UnlockState,
     AppendBlock, AddFee, CreditProposer, SaveAllData, RemoveCommittedFromMempool,
     ReturnFrom, Goto, clientVars
<1> QED BY <1>3, <1>4, <1>5 DEF Next, Airdrop, vars, clientVars

LEMMA StepPool == IndInv /\ PoolInv /\ [Next]_vars => PoolInv'
<1> SUFFICES ASSUME IndInv, PoolInv, [Next]_vars PROVE PoolInv' OBVIOUS
<1>1. ASSUME NEW i \in DOMAIN Mempool'
      PROVE  /\ VerifyTransaction(Mempool'[i])
             /\ Mempool'[i].nonce \in 1..(NonceTable'[Mempool'[i].from] + 1)
  <2>1. CASE \E j \in DOMAIN Mempool : Mempool'[i] = Mempool[j]
    <3>1. PICK j \in DOMAIN Mempool : Mempool'[i] = Mempool[j] BY <2>1
    <3>2. Mempool[j] \in Tx /\ VerifyTransaction(Mempool[j]) /\ NotAhead(Mempool[j])
      BY MempoolTx DEF PoolInv, MempoolNeverAhead, NotAhead
    <3> QED BY <3>1, <3>2, NotAheadStays
  <2>2. CASE \E c \in Clients : cpc[c] = "append" /\ Mempool'[i] = ctx[c]
    <3>1. PICK c \in Clients : cpc[c] = "append" /\ Mempool'[i] = ctx[c] BY <2>2
    <3>2. ctx[c] \in Tx BY <3>1 DEF IndInv, TypeOK, ClientTypes
    <3>3. VerifyTransaction(ctx[c]) /\ NotAhead(ctx[c]) BY <3>1 DEF PoolInv, ClientOK
    <3> QED BY <3>1, <3>2, <3>3, NotAheadStays
  <2> QED BY <2>1, <2>2, PoolOrigin
<1>2. MempoolNeverAhead' BY <1>1 DEF MempoolNeverAhead, GetNextNonce, VerifyTransaction
<1> QED BY <1>2, ClientStays DEF PoolInv

LEMMA InitPool == Init => PoolInv
BY DEF Init, PoolInv, MempoolNeverAhead, ClientOK

\* MempoolNeverAhead for any instance: the test of ValidateAndAddToMempool is stale when
\* the transaction is appended, but only in one direction.
THEOREM PoolIsNeverAhead == Spec => []MempoolNeverAhead
<1>1. PoolInv => MempoolNeverAhead BY DEF PoolInv
<1> QED BY <1>1, Inductive, InitPool, StepPool, PTL DEF Spec

-----------------------------------------------------------------------------
(* One transaction of a sender in a batch *)

OncePerSender(e) == \A i, j \in DOMAIN e : SameSender(e, i, j) => i = j

\* Nothing that a committer has read is ahead of the nonces, so whatever a worker accepts
\* has the next nonce of its sender.
FreshBatch(k) ==
  /\ kpc[k] \in {"nonces", "balances", "exec"} =>
       \A i \in DOMAIN snap[k] : NotAhead(snap[k][i])
  /\ \A i \in DOMAIN todo[k] : NotAhead(todo[k][i])
  /\ kpc[k] = "exec" =>
       \A i \in DOMAIN final[k] :
         final[k][i].tx.nonce = GetNextNonce(final[k][i].tx.from)
  /\ OncePerSender(final[k])

Fresh == \A k \in Committers : FreshBatch(k)

LEMMA LocalSeqs ==
  ASSUME IndInv, NEW k \in Committers
  PROVE  /\ snap[k] \in Seq(Tx) /\ todo[k] \in Seq(Tx) /\ final[k] \in Seq(Entry)
         /\ \A i \in DOMAIN snap[k] : snap[k][i] \in Tx
         /\ \A i \in DOMAIN todo[k] : todo[k][i] \in Tx
         /\ \A i \in DOMAIN final[k] : final[k][i].tx \in Tx
<1>1. snap[k] \in Seq(Tx) /\ todo[k] \in Seq(Tx) /\ final[k] \in Seq(Entry)
  BY DEF IndInv, TypeOK, LocalTypes
<1> QED BY <1>1, EntryFacts, ElementOfSeq, LenProperties

LEMMA ExecuteKeepsFresh ==
  ASSUME IndInv, NEW k \in Committers, FreshBatch(k), ExecuteTx(k)
  PROVE  FreshBatch(k)'
<1> DEFINE tx == Head(todo[k])
           s == tx.from
           new == [tx |-> tx, left |-> localBal[k] - Cost(tx)]
<1>1. /\ kpc[k] = "exec" /\ kpc' = kpc /\ UNCHANGED <<NonceTable, snap>>
      /\ todo[k] # << >> /\ tx.nonce = localNonce[k] + 1
      /\ final' = [final EXCEPT ![k] = Append(@, new)]
      /\ todo' = [todo EXCEPT ![k] = Tail(@)]
  BY DEF ExecuteTx, Goto, Executable, chainVars, snapVars, IndInv, TypeOK, CommitTypes
<1>2. /\ final \in [Committers -> Seq(Entry)] /\ todo \in [Committers -> Seq(Tx)]
      /\ localNonce[k] \in Nat
  BY DEF IndInv, TypeOK, LocalTypes
<1>3. /\ todo[k] \in Seq(Tx) /\ 1 \in DOMAIN todo[k] /\ tx = todo[k][1] /\ tx \in Tx
      /\ Tail(todo[k]) \in Seq(Tx)
  BY <1>1, <1>2
<1>4. NotAhead(tx) /\ \A i \in DOMAIN todo[k] : NotAhead(todo[k][i])
  BY <1>3 DEF FreshBatch
<1>5. s \in Accounts /\ tx.nonce \in Nat /\ NonceTable[s] \in Nat
  BY <1>3, TxFacts DEF IndInv, TypeOK, ChainTypes
<1>6. nonceSnap[k] = NonceTable BY <1>1 DEF IndInv, LocalsOK
<1>7. Worker(k) BY <1>1 DEF IndInv, BatchOK
<1>8. \A i \in DOMAIN final[k] : final[k][i].tx.nonce = GetNextNonce(final[k][i].tx.from)
  BY <1>1 DEF FreshBatch
<1> HIDE DEF tx
<1>9. /\ \A i \in DOMAIN final[k] : final[k][i].tx.from = s => final[k][i].tx.nonce <= localNonce[k]
      /\ \/ localNonce[k] = NonceTable[s]
         \/ \E i \in DOMAIN final[k] :
              final[k][i].tx.from = s /\ final[k][i].tx.nonce = localNonce[k]
  BY <1>3, <1>6, <1>7 DEF Worker
<1>10. localNonce[k] = NonceTable[s]
  BY <1>1, <1>2, <1>4, <1>5, <1>8, <1>9 DEF NotAhead, GetNextNonce
<1>11. \A i \in DOMAIN final[k] : final[k][i].tx.from # s
  BY <1>5, <1>8, <1>9, <1>10 DEF GetNextNonce
<1>12. tx.nonce = GetNextNonce(s) BY <1>1, <1>10 DEF GetNextNonce
<1> DEFINE e == final[k]
<1>13. /\ e \in Seq(Entry) /\ Len(e) \in Nat /\ DOMAIN e = 1..Len(e)
       /\ final'[k] = Append(e, new) /\ DOMAIN final'[k] = 1..(Len(e) + 1)
       /\ \A i \in DOMAIN e : final'[k][i] = e[i]
       /\ final'[k][Len(e) + 1] = new
  BY <1>1, <1>2
<1> HIDE DEF e, new
<1>14. new.tx = tx BY DEF new
<1>15. \A i \in DOMAIN final'[k] :
         \/ i \in DOMAIN e /\ final'[k][i] = e[i]
         \/ i = Len(e) + 1 /\ final'[k][i].tx = tx
  BY <1>13, <1>14
<1>16. \A i \in DOMAIN final'[k] : final'[k][i].tx.nonce = GetNextNonce(final'[k][i].tx.from)
  BY <1>8, <1>12, <1>15 DEF e
<1>17. OncePerSender(final'[k])
  <2>1. \A i \in DOMAIN e : e[i].tx.from # tx.from BY <1>11 DEF e
  <2>2. \A i, j \in DOMAIN e : e[i].tx.from = e[j].tx.from => i = j
    BY DEF FreshBatch, OncePerSender, SameSender, e
  <2> QED BY <1>15, <2>1, <2>2 DEF OncePerSender, SameSender
<1>18. \A i \in DOMAIN todo'[k] : NotAhead(todo'[k][i])
  <2>1. todo'[k] = Tail(todo[k]) BY <1>1, <1>2
  <2>2. \A i \in DOMAIN Tail(todo[k]) : i + 1 \in DOMAIN todo[k] /\ Tail(todo[k])[i] = todo[k][i + 1]
    BY <1>1, <1>3
  <2> QED BY <1>4, <2>1, <2>2
<1> QED
  BY <1>1, <1>16, <1>17, <1>18 DEF FreshBatch, NotAhead, GetNextNonce

LEMMA TakeKeepsFresh ==
  ASSUME IndInv, NEW k \in Committers, FreshBatch(k), NEW s, TakePartition(k, s)
  PROVE  FreshBatch(k)'
<1> DEFINE I == {i \in DOMAIN snap[k] : snap[k][i].from = s}
<1>1. PICK f \in NonceOrders(snap[k], I) :
        todo' = [todo EXCEPT ![k] = [i \in 1..Cardinality(I) |-> snap[k][f[i]]]]
  BY DEF TakePartition
<1>2. kpc[k] = "exec" /\ kpc' = kpc /\ UNCHANGED <<NonceTable, snap, final>>
  BY DEF TakePartition, Goto, chainVars, snapVars, IndInv, TypeOK, CommitTypes
<1>3. todo'[k] = [i \in 1..Cardinality(I) |-> snap[k][f[i]]]
  BY <1>1 DEF IndInv, TypeOK, LocalTypes
<1>4. \A i \in 1..Cardinality(I) : f[i] \in I BY <1>1 DEF NonceOrders, Injection
<1>5. \A i \in DOMAIN todo'[k] : NotAhead(todo'[k][i])
  BY <1>2, <1>3, <1>4 DEF FreshBatch
<1> HIDE DEF I
<1> QED BY <1>2, <1>5 DEF FreshBatch, NotAhead, GetNextNonce

\* A step of CommitBlock away from the worker's loop: what it knew still holds.
LEMMA ElsewhereKeepsFresh ==
  ASSUME IndInv, MempoolNeverAhead, NEW k \in Committers, FreshBatch(k), CommitStep(k),
         ~ExecuteTx(k), \A s : ~TakePartition(k, s)
  PROVE  FreshBatch(k)'
<1> USE DEF IndInv, TypeOK, CommitTypes, LocalTypes
<1>1. LocalsOK(k) OBVIOUS
<1>2. CASE MempoolSnapshot(k)
  <2>1. /\ kpc[k] = "snapshot" /\ kpc'[k] = "nonces" /\ snap'[k] = Mempool
        /\ UNCHANGED <<NonceTable, todo, final>>
    BY <1>2 DEF MempoolSnapshot, Goto, chainVars
  <2> QED BY <1>1, <2>1
    DEF LocalsOK, MempoolNeverAhead, NotAhead, GetNextNonce, FreshBatch
<1>3. CASE SnapshotNonces(k) \/ SnapshotBalances(k)
  <2>1. /\ kpc[k] \in {"nonces", "balances"} /\ UNCHANGED <<NonceTable, snap, todo, final>>
    BY <1>3 DEF SnapshotNonces, SnapshotBalances, Goto, chainVars, execVars
  <2>2. final[k] = << >> BY <1>1, <2>1 DEF LocalsOK
  <2> QED BY <2>1, <2>2 DEF FreshBatch, NotAhead, GetNextNonce
<1>4. CASE BreakPartition(k)
  <2>1. kpc[k] = "exec" /\ todo'[k] = << >> /\ UNCHANGED <<NonceTable, snap, final>>
    BY <1>4 DEF BreakPartition, Goto, chainVars, snapVars
  <2> QED BY <2>1 DEF FreshBatch, NotAhead, GetNextNonce
<1>5. CASE CollectPartitions(k)
  <2>1. /\ todo[k] = << >> /\ kpc'[k] \in {"block", "lock"} /\ UNCHANGED <<todo, final>>
    BY <1>5 DEF CollectPartitions, Goto
  <2> QED BY <2>1 DEF FreshBatch
<1>6. CASE \/ \E here \in {"begin", "select", "vote", "remove"} : ReturnFrom(k, here)
  <2>1. PICK here \in {"begin", "select", "vote", "remove"} : ReturnFrom(k, here) BY <1>6
  <2>2. kpc[k] = here /\ kpc'[k] = "idle" /\ UNCHANGED todo /\ final'[k] = << >>
    BY <2>1 DEF ReturnFrom, Goto
  <2>3. todo[k] = << >> BY <1>1, <2>2 DEF LocalsOK
  <2> QED BY <2>2, <2>3 DEF FreshBatch, OncePerSender
<1>7. CASE \/ BeginCommit(k) \/ SeeMempool(k) \/ SelectProposer(k) \/ VotePasses(k)
           \/ LockState(k) \/ CommitTx(k) \/ UnlockState(k) \/ AppendBlock(k) \/ AddFee(k)
           \/ CreditProposer(k) \/ SaveAllData(k)
  <2>1. /\ kpc[k] # "exec" /\ kpc'[k] \notin {"nonces", "balances", "exec"}
        /\ UNCHANGED <<todo, final>>
    BY <1>7 DEF BeginCommit, SeeMempool, SelectProposer, VotePasses, LockState, CommitTx,
       UnlockState, AppendBlock, AddFee, CreditProposer, SaveAllData, Goto, execVars
  <2>2. todo[k] = << >> BY <1>1, <2>1 DEF LocalsOK
  <2> QED BY <2>1, <2>2 DEF FreshBatch
<1> QED BY <1>2, <1>3, <1>4, <1>5, <1>6, <1>7
    DEF CommitStep, NoBlock, RejectBlock, RemoveCommittedFromMempool

LEMMA StepFresh == IndInv /\ MempoolNeverAhead /\ Fresh /\ [Next]_vars => Fresh'
<1> SUFFICES ASSUME IndInv, MempoolNeverAhead, Fresh, [Next]_vars, NEW k \in Committers
             PROVE  FreshBatch(k)'
  BY DEF Fresh
<1>1. CASE UNCHANGED <<commitVars, NonceTable>>
  BY <1>1 DEF Fresh, FreshBatch, NotAhead, GetNextNonce, commitVars, snapVars, execVars
<1>2. ASSUME NEW j \in Committers, CommitStep(j) PROVE FreshBatch(k)'
  <2>1. CASE j = k
    BY <1>2, <2>1, ExecuteKeepsFresh, TakeKeepsFresh, ElsewhereKeepsFresh DEF Fresh
  <2>2. CASE j # k
    <3>1. kpc[k] = "idle" BY <1>2, <2>2, OthersAreIdle DEF IndInv, TypeOK
    <3>2. kpc'[k] = "idle" /\ todo'[k] = todo[k] /\ final'[k] = final[k]
      BY <1>2, <2>2, <3>1, OthersUntouched DEF IndInv
    <3>3. todo[k] = << >> BY <3>1 DEF IndInv, LocalsOK
    <3> QED BY <3>2, <3>3 DEF Fresh, FreshBatch
  <2> QED BY <2>1, <2>2
<1>3. ASSUME NEW c \in Clients, ClientStep(c) PROVE UNCHANGED <<commitVars, NonceTable>>
  BY <1>3 DEF ClientStep, NewTransaction, ReceiveTx, Submit, CheckNonce, CheckBalance,
     AddToMempool, ClientGoto, ClientReturn, chainVars
<1> QED BY <1>1, <1>2, <1>3 DEF Next, Airdrop, Credit, vars, chainVars

LEMMA InitFresh == Init => Fresh
BY DEF Init, Fresh, FreshBatch, OncePerSender

-----------------------------------------------------------------------------
(* The chain *)

\* The transactions of k whose nonces the table counts and the chain does not hold yet.
Done(k) ==
  {i \in DOMAIN final[k] : kpc[k] = "block" \/ (kpc[k] = "commit" /\ i < next[k])}
DoneTxs(k) == {final[k][i].tx : i \in Done(k)}

Pending == UNION {DoneTxs(k) : k \in Committers}
Committed == {At(p) : p \in Places}

\* Chain and batch under way together hold every nonce up to the table's, and a nonce of
\* a later block, or of the batch, is higher.
Counted ==
  \A a \in Accounts : \A n \in Nat :
    n \in 1..NonceTable[a] <=> \E tx \in Committed \cup Pending : tx.from = a /\ tx.nonce = n
Ascending ==
  /\ \A p, q \in Places :
       p[1] < q[1] /\ At(p).from = At(q).from => At(p).nonce < At(q).nonce
  /\ \A old \in Committed, tx \in Pending : old.from = tx.from => old.nonce < tx.nonce

ChainInv == OneTxPerSenderPerBlock /\ Counted /\ Ascending

LEMMA PlacesFacts ==
  ASSUME IndInv, NEW p \in Places
  PROVE  /\ p = <<p[1], p[2]>> /\ p[1] \in DOMAIN Blockchain /\ p[1] \in Nat
         /\ p[2] \in DOMAIN Blockchain[p[1]].Transactions /\ p[2] \in Nat
         /\ At(p) \in Tx
<1>1. PICK b \in DOMAIN Blockchain : p \in {b} \X DOMAIN Blockchain[b].Transactions
  BY DEF Places
<1>2. p = <<p[1], p[2]>> /\ p[1] = b /\ p[2] \in DOMAIN Blockchain[b].Transactions
  BY <1>1
<1>3. Blockchain \in Seq([Proposer: {NoValidator}, Transactions: Seq(Tx)])
  BY DEF IndInv, TypeOK, ChainTypes
<1>4. b \in 1..Len(Blockchain) /\ Len(Blockchain) \in Nat BY <1>3, LenProperties
<1>5. Blockchain[b] \in [Proposer: {NoValidator}, Transactions: Seq(Tx)]
  BY <1>3, <1>4, ElementOfSeq
<1>6. Blockchain[b].Transactions \in Seq(Tx) BY <1>5
<1>7. Blockchain[b].Transactions[p[2]] \in Tx /\ p[2] \in Nat
  BY <1>2, <1>6, ElementOfSeq, LenProperties
<1> QED BY <1>2, <1>4, <1>7 DEF At

LEMMA PlaceIntro ==
  ASSUME NEW b \in DOMAIN Blockchain, NEW i \in DOMAIN Blockchain[b].Transactions
  PROVE  <<b, i>> \in Places
BY DEF Places

LEMMA PendingTx ==
  ASSUME IndInv, NEW tx \in Committed \cup Pending
  PROVE  tx \in Tx /\ tx.from \in Accounts /\ tx.nonce \in Nat
<1>1. \A k \in Committers : \A i \in Done(k) : final[k][i].tx \in Tx
  BY LocalSeqs DEF Done
<1>2. tx \in Tx BY <1>1, PlacesFacts DEF Committed, Pending, DoneTxs
<1> QED BY <1>2, TxFacts

\* While one committer is inside CommitBlock, the batch under way is its own.
LEMMA OnePending ==
  ASSUME IndInv, NEW k \in Committers, CommitStep(k)
  PROVE  Pending = DoneTxs(k) /\ Pending' = DoneTxs(k)'
<1>1. \A j \in Committers : j # k => DoneTxs(j) = {} /\ DoneTxs(j)' = {}
  <2> SUFFICES ASSUME NEW j \in Committers, j # k PROVE Done(j) = {} /\ Done(j)' = {}
    BY DEF DoneTxs
  <2>1. kpc[j] = "idle" BY OthersAreIdle DEF IndInv, TypeOK
  <2>2. kpc'[j] = "idle" BY <2>1, OthersUntouched DEF IndInv
  <2> QED BY <2>1, <2>2 DEF Done
<1> QED BY <1>1 DEF Pending

LEMMA CommitTxKeepsChain ==
  ASSUME IndInv, ChainInv, NEW k \in Committers, CommitTx(k)
  PROVE  ChainInv'
<1> DEFINE n == next[k]
           tx == final[k][n].tx
<1>1. /\ n \in DOMAIN final[k] /\ tx \in Tx /\ tx.nonce = NonceTable[tx.from] + 1
      /\ NonceTable' = [NonceTable EXCEPT ![tx.from] = tx.nonce]
  BY NextNonce
<1>2. /\ kpc[k] = "commit" /\ kpc'[k] = "commit" /\ next'[k] = n + 1
      /\ UNCHANGED <<Blockchain, final>>
  <2>1. UNCHANGED Blockchain BY DEF CommitTx
  <2> QED BY <2>1, AtEntry DEF IndInv, TypeOK
<1>3. n \in Nat /\ \A i \in DOMAIN final[k] : i \in Nat
  <2>1. n \in Nat /\ DOMAIN final[k] = 1..Len(final[k]) BY AtEntry DEF IndInv, TypeOK
  <2> QED BY <2>1
<1>4. Done(k)' = Done(k) \cup {n} BY <1>1, <1>2, <1>3 DEF Done
<1>5. DoneTxs(k)' = DoneTxs(k) \cup {tx} BY <1>2, <1>4 DEF DoneTxs
<1>6. CommitStep(k) BY DEF CommitStep
<1>7. Pending' = Pending \cup {tx} BY <1>5, <1>6, OnePending
<1>8. Places' = Places /\ Committed' = Committed /\ \A p : At(p)' = At(p)
  BY <1>2 DEF Places, Committed, At
<1> HIDE DEF n, tx
<1>9. tx.from \in Accounts /\ tx.nonce \in Nat /\ NonceTable \in [Accounts -> Nat]
  BY <1>1, TxFacts DEF IndInv, TypeOK, ChainTypes
<1>10. Counted'
  <2> SUFFICES ASSUME NEW a \in Accounts, NEW m \in Nat
               PROVE  m \in 1..NonceTable'[a] <=>
                        \E u \in Committed \cup Pending \cup {tx} : u.from = a /\ u.nonce = m
    BY <1>7, <1>8 DEF Counted
  <2>1. m \in 1..NonceTable[a] <=> \E u \in Committed \cup Pending : u.from = a /\ u.nonce = m
    BY DEF ChainInv, Counted
  <2>2. m \in 1..NonceTable'[a] <=> m \in 1..NonceTable[a] \/ (a = tx.from /\ m = tx.nonce)
    BY <1>1, <1>9
  <2> QED BY <2>1, <2>2
<1>11. \A old \in Committed : old.from = tx.from => old.nonce < tx.nonce
  <2> SUFFICES ASSUME NEW old \in Committed, old.from = tx.from PROVE old.nonce < tx.nonce
    OBVIOUS
  <2>1. old.nonce \in Nat BY PendingTx
  <2>2. old.nonce \in 1..NonceTable[tx.from] BY <1>9, <2>1 DEF ChainInv, Counted
  <2> QED BY <1>1, <1>9, <2>2
<1>12. Ascending' BY <1>7, <1>8, <1>11 DEF ChainInv, Ascending
<1>13. OneTxPerSenderPerBlock' BY <1>8 DEF ChainInv, OneTxPerSenderPerBlock
<1> QED BY <1>10, <1>12, <1>13 DEF ChainInv

\* AddBlockWithTxs adds one block, after all others, and at most a genesis block before it.
LEMMA AppendedBlock ==
  ASSUME IndInv, NEW k \in Committers, AppendBlock(k)
  PROVE  \E last \in Nat :
           /\ \A p \in Places : p \in Places' /\ p[1] < last /\ At(p)' = At(p)
           /\ \A p \in Places' :
                p \in Places \/ (/\ p[1] = last /\ p[2] \in DOMAIN final[k]
                                 /\ At(p)' = final[k][p[2]].tx /\ p = <<p[1], p[2]>>)
           /\ \A i \in DOMAIN final[k] : <<last, i>> \in Places' /\ At(<<last, i>>)' = final[k][i].tx
<1> DEFINE txs == [i \in DOMAIN final[k] |-> final[k][i].tx]
           new == [Proposer |-> NoValidator, Transactions |-> txs]
           base == IF Blockchain = << >> THEN <<Genesis>> ELSE Blockchain
<1>1. Blockchain' = base \o <<new>> BY DEF AppendBlock
<1> DEFINE BlockType == [Proposer: {NoValidator}, Transactions: Seq(Tx)]
<1>2. Blockchain \in Seq(BlockType) /\ Genesis \in BlockType
  <2>1. << >> \in Seq(Tx) OBVIOUS
  <2> QED BY <2>1 DEF IndInv, TypeOK, ChainTypes, Genesis
<1>3. /\ base \in Seq(BlockType) /\ Len(base) \in Nat /\ DOMAIN base = 1..Len(base)
      /\ \A b \in DOMAIN Blockchain : b \in 1..Len(base) /\ base[b] = Blockchain[b]
      /\ \A b \in DOMAIN base : b \in DOMAIN Blockchain \/ base[b].Transactions = << >>
  <2> HIDE DEF BlockType
  <2>1. CASE Blockchain = << >>
    <3>1. base = <<Genesis>> BY <2>1
    <3> QED BY <1>2, <2>1, <3>1 DEF Genesis
  <2>2. CASE Blockchain # << >>
    <3>1. base = Blockchain BY <2>2
    <3> QED BY <1>2, <3>1, LenProperties
  <2> QED BY <2>1, <2>2
<1> HIDE DEF base, new, BlockType
<1>0. PICK last \in Nat : last = Len(base) + 1 BY <1>3
<1>4. /\ DOMAIN Blockchain' = 1..last /\ Blockchain'[last] = new
      /\ \A b \in 1..Len(base) : Blockchain'[b] = base[b]
  BY <1>0, <1>1, <1>3
<1>5. new.Transactions = txs BY DEF new
<1> HIDE DEF txs
<1>6. DOMAIN txs = DOMAIN final[k] /\ \A i \in DOMAIN final[k] : txs[i] = final[k][i].tx
  BY DEF txs
<1>7. ASSUME NEW p \in Places PROVE p \in Places' /\ p[1] < last /\ At(p)' = At(p)
  <2>1. /\ p = <<p[1], p[2]>> /\ p[1] \in DOMAIN Blockchain
        /\ p[2] \in DOMAIN Blockchain[p[1]].Transactions
    BY PlacesFacts
  <2>2. p[1] \in 1..Len(base) /\ Blockchain'[p[1]] = Blockchain[p[1]] BY <1>3, <1>4, <2>1
  <2>3. p[1] \in DOMAIN Blockchain' BY <1>0, <1>3, <1>4, <2>2
  <2> QED BY <1>0, <1>3, <2>1, <2>2, <2>3 DEF Places, At
<1>8. ASSUME NEW p \in Places', p \notin Places
      PROVE  /\ p[1] = last /\ p[2] \in DOMAIN final[k]
             /\ At(p)' = final[k][p[2]].tx /\ p = <<p[1], p[2]>>
  <2>1. PICK b \in DOMAIN Blockchain' : p \in {b} \X DOMAIN Blockchain'[b].Transactions
    BY DEF Places
  <2>2. p = <<p[1], p[2]>> /\ p[1] = b /\ p[2] \in DOMAIN Blockchain'[b].Transactions
    BY <2>1
  <2>3. CASE b \in DOMAIN Blockchain
    <3>1. Blockchain'[b] = Blockchain[b] BY <1>3, <1>4, <2>3
    <3> QED BY <1>8, <2>2, <2>3, <3>1 DEF Places
  <2>4. CASE b \in 1..Len(base) /\ b \notin DOMAIN Blockchain
    <3>1. Blockchain'[b].Transactions = << >> BY <1>3, <1>4, <2>4
    <3> QED BY <2>2, <3>1
  <2>5. CASE b = last
    BY <1>4, <1>5, <1>6, <2>2, <2>5 DEF At
  <2> QED BY <1>0, <1>3, <1>4, <2>3, <2>4, <2>5
<1>9. ASSUME NEW i \in DOMAIN final[k]
      PROVE  <<last, i>> \in Places' /\ At(<<last, i>>)' = final[k][i].tx
  <2>1. last \in DOMAIN Blockchain' /\ i \in DOMAIN Blockchain'[last].Transactions
    BY <1>0, <1>3, <1>4, <1>5, <1>6
  <2>2. <<last, i>> \in Places' BY <2>1 DEF Places
  <2> QED BY <1>4, <1>5, <1>6, <2>2 DEF At
<1> QED BY <1>7, <1>8, <1>9

LEMMA AppendKeepsChain ==
  ASSUME IndInv, ChainInv, NEW k \in Committers, OncePerSender(final[k]), AppendBlock(k)
  PROVE  ChainInv'
<1>1. PICK last \in Nat :
        /\ \A p \in Places : p \in Places' /\ p[1] < last /\ At(p)' = At(p)
        /\ \A p \in Places' :
             p \in Places \/ (/\ p[1] = last /\ p[2] \in DOMAIN final[k]
                              /\ At(p)' = final[k][p[2]].tx /\ p = <<p[1], p[2]>>)
        /\ \A i \in DOMAIN final[k] : <<last, i>> \in Places' /\ At(<<last, i>>)' = final[k][i].tx
  BY AppendedBlock
<1>2. kpc[k] = "block" /\ kpc'[k] = "reward" /\ UNCHANGED <<NonceTable, final>>
  BY DEF AppendBlock, Goto, execVars, IndInv, TypeOK, CommitTypes
<1>3. CommitStep(k) BY DEF CommitStep
<1>4. Done(k) = DOMAIN final[k] /\ Done(k)' = {} BY <1>2 DEF Done
<1>5. Pending = {final[k][i].tx : i \in DOMAIN final[k]} /\ Pending' = {}
  BY <1>3, <1>4, OnePending DEF DoneTxs
<1>6. Committed' = Committed \cup Pending
  <2>1. \A u \in Committed' : u \in Committed \cup Pending
    <3> SUFFICES ASSUME NEW p \in Places' PROVE At(p)' \in Committed \cup Pending
      BY DEF Committed
    <3> QED BY <1>1, <1>5 DEF Committed
  <2>2. \A u \in Committed : u \in Committed' BY <1>1 DEF Committed
  <2>3. \A u \in Pending : u \in Committed'
    <3> SUFFICES ASSUME NEW i \in DOMAIN final[k] PROVE final[k][i].tx \in Committed'
      BY <1>5
    <3>1. <<last, i>> \in Places' /\ At(<<last, i>>)' = final[k][i].tx BY <1>1
    <3> QED BY <3>1 DEF Committed
  <2> QED BY <2>1, <2>2, <2>3
<1>7. Counted' BY <1>2, <1>5, <1>6 DEF ChainInv, Counted
<1>8. ASSUME NEW p \in Places', NEW q \in Places', p[1] < q[1], At(p)'.from = At(q)'.from
      PROVE  At(p)'.nonce < At(q)'.nonce
  <2>1. CASE p \in Places /\ q \in Places
    BY <1>1, <1>8, <2>1 DEF ChainInv, Ascending
  <2>2. CASE p \in Places /\ q \notin Places
    <3>1. At(p)' = At(p) /\ At(p) \in Committed BY <1>1, <2>2 DEF Committed
    <3>2. At(q)' \in Pending BY <1>1, <1>5, <2>2
    <3> QED BY <1>8, <3>1, <3>2 DEF ChainInv, Ascending
  <2>3. CASE p \notin Places
    <3>1. p[1] = last /\ (q[1] = last \/ (q \in Places /\ q[1] < last)) BY <1>1, <2>3
    <3>2. q \in Places => q[1] \in Nat BY PlacesFacts
    <3> QED BY <1>8, <3>1, <3>2
  <2> QED BY <2>1, <2>2, <2>3
<1>9. Ascending' BY <1>5, <1>8 DEF Ascending
<1>10. ASSUME NEW p \in Places', NEW q \in Places', p[1] = q[1], At(p)'.from = At(q)'.from
       PROVE  p = q
  <2>1. CASE p \in Places /\ q \in Places
    BY <1>1, <1>10, <2>1 DEF ChainInv, OneTxPerSenderPerBlock
  <2>2. CASE p \notin Places /\ q \notin Places
    <3>1. /\ p[2] \in DOMAIN final[k] /\ q[2] \in DOMAIN final[k]
          /\ final[k][p[2]].tx.from = final[k][q[2]].tx.from
          /\ p = <<p[1], p[2]>> /\ q = <<q[1], q[2]>>
      BY <1>1, <1>10, <2>2
    <3>2. p[2] = q[2] BY <3>1 DEF OncePerSender, SameSender
    <3> QED BY <1>10, <3>1, <3>2
  <2>3. ASSUME NEW u \in Places, NEW v \in Places', v \notin Places PROVE u[1] # v[1]
    <3>1. u[1] \in Nat /\ u[1] < last /\ v[1] = last BY <1>1, <2>3, PlacesFacts
    <3> QED BY <3>1
  <2> QED BY <1>10, <2>1, <2>2, <2>3
<1>11. OneTxPerSenderPerBlock' BY <1>10 DEF OneTxPerSenderPerBlock
<1> QED BY <1>7, <1>9, <1>11 DEF ChainInv

\* No other step touches the chain, the table or the batch that is being committed.
LEMMA OtherStepsKeepPending ==
  ASSUME IndInv, NEW k \in Committers, CommitStep(k), ~CommitTx(k), ~AppendBlock(k)
  PROVE  UNCHANGED <<Blockchain, NonceTable>> /\ Pending' = Pending
<1>1. UNCHANGED <<Blockchain, NonceTable>>
  BY DEF CommitStep, BeginCommit, SeeMempool, NoBlock, SelectProposer, VotePasses,
     RejectBlock, MempoolSnapshot, SnapshotNonces, SnapshotBalances, TakePartition,
     ExecuteTx, BreakPartition, CollectPartitions, LockState, UnlockState,
     AddFee, CreditProposer, SaveAllData, RemoveCommittedFromMempool, Credit, chainVars
<1> USE DEF IndInv, TypeOK, CommitTypes, LocalTypes, Goto
<1>2. LocalsOK(k) OBVIOUS
<1>3. final[k] \in Seq(Entry) /\ next[k] \in Nat /\ \A i \in DOMAIN final[k] : i \in 1..Len(final[k])
  BY LenProperties
<1>4. CASE LockState(k)
  <2>1. kpc[k] = "lock" /\ kpc'[k] = "commit" /\ UNCHANGED <<final, next>>
    BY <1>4 DEF LockState, execVars
  <2>2. next[k] = 1 BY <1>2, <2>1 DEF LocalsOK
  <2>3. Done(k) = {} /\ Done(k)' = {} BY <1>3, <2>1, <2>2 DEF Done
  <2> QED BY <1>1, <2>3, OnePending DEF DoneTxs
<1>5. CASE UnlockState(k)
  <2>1. /\ kpc[k] = "commit" /\ kpc'[k] = "block" /\ UNCHANGED final
        /\ next[k] > Len(final[k])
    BY <1>5 DEF UnlockState, execVars
  <2>2. Len(final[k]) \in Nat BY <1>3, LenProperties
  <2>3. Done(k) = DOMAIN final[k] /\ Done(k)' = DOMAIN final[k] BY <1>3, <2>1, <2>2 DEF Done
  <2>4. DoneTxs(k)' = DoneTxs(k) BY <2>1, <2>3 DEF DoneTxs
  <2> QED BY <1>1, <2>4, OnePending
<1>6. CASE CollectPartitions(k)
  <2>1. /\ kpc[k] = "exec" /\ UNCHANGED final
        /\ kpc'[k] = "lock" \/ (kpc'[k] = "block" /\ final[k] = << >>)
    BY <1>6 DEF CollectPartitions
  <2>2. Done(k) = {} /\ Done(k)' = {} BY <2>1 DEF Done
  <2> QED BY <1>1, <2>2, OnePending DEF DoneTxs
<1>7. CASE \E here \in {"begin", "select", "vote", "remove"} : ReturnFrom(k, here)
  <2>1. kpc[k] \notin {"commit", "block"} /\ kpc'[k] \notin {"commit", "block"}
    BY <1>7 DEF ReturnFrom
  <2>2. Done(k) = {} /\ Done(k)' = {} BY <2>1 DEF Done
  <2> QED BY <1>1, <2>2, OnePending DEF DoneTxs
<1>8. CASE \/ BeginCommit(k) \/ SeeMempool(k) \/ SelectProposer(k) \/ VotePasses(k)
           \/ MempoolSnapshot(k) \/ SnapshotNonces(k) \/ SnapshotBalances(k)
           \/ (\E s \in Accounts : TakePartition(k, s)) \/ ExecuteTx(k) \/ BreakPartition(k)
           \/ AddFee(k) \/ CreditProposer(k) \/ SaveAllData(k)
  <2>1. kpc[k] \notin {"commit", "block"} /\ kpc'[k] \notin {"commit", "block"}
    BY <1>8 DEF BeginCommit, SeeMempool, SelectProposer, VotePasses, MempoolSnapshot,
       SnapshotNonces, SnapshotBalances, TakePartition, ExecuteTx, BreakPartition, AddFee,
       CreditProposer, SaveAllData
  <2>2. Done(k) = {} /\ Done(k)' = {} BY <2>1 DEF Done
  <2> QED BY <1>1, <2>2, OnePending DEF DoneTxs
<1> QED BY <1>4, <1>5, <1>6, <1>7, <1>8
    DEF CommitStep, NoBlock, RejectBlock, RemoveCommittedFromMempool

LEMMA StepChain == IndInv /\ Fresh /\ ChainInv /\ [Next]_vars => ChainInv'
<1> SUFFICES ASSUME IndInv, Fresh, ChainInv, [Next]_vars PROVE ChainInv' OBVIOUS
<1>1. ASSUME UNCHANGED <<Blockchain, NonceTable>>, Pending' = Pending PROVE ChainInv'
  <2>1. Places' = Places /\ Committed' = Committed /\ \A p : At(p)' = At(p)
    BY <1>1 DEF Places, Committed, At
  <2> QED BY <1>1, <2>1 DEF ChainInv, OneTxPerSenderPerBlock, Counted, Ascending
<1>2. ASSUME UNCHANGED <<Blockchain, NonceTable, commitVars>> PROVE ChainInv'
  <2>1. Pending' = Pending
    BY <1>2 DEF Pending, DoneTxs, Done, commitVars, execVars
  <2> QED BY <1>1, <1>2, <2>1
<1>3. ASSUME NEW k \in Committers, CommitStep(k) PROVE ChainInv'
  BY <1>1, <1>3, CommitTxKeepsChain, AppendKeepsChain, OtherStepsKeepPending
  DEF Fresh, FreshBatch
<1>4. ASSUME NEW c \in Clients, ClientStep(c)
      PROVE  UNCHANGED <<Blockchain, NonceTable, commitVars>>
  BY <1>4 DEF ClientStep, NewTransaction, ReceiveTx, Submit, CheckNonce, CheckBalance,
     AddToMempool, ClientGoto, ClientReturn, chainVars
<1> QED BY <1>2, <1>3, <1>4 DEF Next, Airdrop, Credit, vars, chainVars

LEMMA InitChain == Init => ChainInv
<1> SUFFICES ASSUME Init PROVE ChainInv OBVIOUS
<1>1. \A b \in DOMAIN Blockchain : Blockchain[b].Transactions = << >> BY DEF Init, Genesis
<1>2. Places = {} BY <1>1 DEF Places
<1>3. Pending = {} /\ Committed = {}
  BY <1>2 DEF Init, Pending, DoneTxs, Done, Committed
<1> QED BY <1>2, <1>3 DEF Init, ChainInv, OneTxPerSenderPerBlock, Counted, Ascending

LEMMA ChainIsCounted == Spec => []ChainInv
BY Inductive, PoolIsNeverAhead, InitFresh, StepFresh, InitChain, StepChain, PTL DEF Spec

\* OneTxPerSenderPerBlock for any instance: the sort by nonce that precedes the
\* execution of a partition can never put two transactions into one block.
THEOREM OneTxPerBlock == Spec => []OneTxPerSenderPerBlock
<1>1. ChainInv => OneTxPerSenderPerBlock BY DEF ChainInv
<1> QED BY <1>1, ChainIsCounted, PTL

\* ChainMatchesNonces for any instance: the chain holds every sender's nonces from 1 to
\* NonceTable, each once and in ascending order.
THEOREM NoncesMatchChain == Spec => []ChainMatchesNonces
<1>1. IndInv /\ ChainInv => ChainMatchesNonces
  <2> SUFFICES ASSUME IndInv, ChainInv,
                      \A k \in Committers : kpc[k] \notin {"commit", "block"},
                      NEW a \in Accounts
               PROVE  LET mine == {p \in Places : At(p).from = a}
                      IN  /\ {At(p).nonce : p \in mine} = 1..NonceTable[a]
                          /\ \A p, q \in mine :
                               p[1] < q[1] \/ (p[1] = q[1] /\ p[2] < q[2]) =>
                                 At(p).nonce < At(q).nonce
    BY DEF ChainMatchesNonces
  <2> DEFINE mine == {p \in Places : At(p).from = a}
             used == {At(p).nonce : p \in mine}
  <2>1. Pending = {} BY DEF Pending, DoneTxs, Done
  <2>2. \A n \in Nat : n \in 1..NonceTable[a] <=> \E tx \in Committed : tx.from = a /\ tx.nonce = n
    BY <2>1 DEF ChainInv, Counted
  <2>3. \A p \in Places : At(p).nonce \in Nat BY PlacesFacts, TxFacts
  <2>4. \A n \in Nat : n \in used <=> n \in 1..NonceTable[a] BY <2>2 DEF Committed
  <2>5. NonceTable[a] \in Nat BY DEF IndInv, TypeOK, ChainTypes
  <2>6. used = 1..NonceTable[a]
    <3>1. \A n \in used : n \in Nat BY <2>3
    <3>2. \A n \in 1..NonceTable[a] : n \in Nat OBVIOUS
    <3> HIDE DEF used
    <3> QED BY <2>4, <3>1, <3>2
  <2>7. ASSUME NEW p \in mine, NEW q \in mine,
               p[1] < q[1] \/ (p[1] = q[1] /\ p[2] < q[2])
        PROVE  At(p).nonce < At(q).nonce
    <3>1. CASE p[1] < q[1] BY <3>1 DEF ChainInv, Ascending
    <3>2. CASE p[1] = q[1] /\ p[2] < q[2]
      <4>1. p = q BY <3>2 DEF ChainInv, OneTxPerSenderPerBlock
      <4>2. p[2] \in Nat BY PlacesFacts
      <4> QED BY <3>2, <4>1, <4>2
    <3> QED BY <2>7, <3>1, <3>2
  <2> QED BY <2>6, <2>7
<1> QED BY <1>1, Inductive, ChainIsCounted, PTL

-----------------------------------------------------------------------------
(* Money *)

LEMMA BalancesSum ==
  ASSUME IndInv
  PROVE  SumFunction(Balances) \in Int
<1>1. Balances \in [Accounts -> Int] BY DEF IndInv, TypeOK, ChainTypes
<1> QED BY <1>1, SumType, AccountsAssumption

LEMMA BlocksCounted ==
  ASSUME NEW s, NEW c \in Seq(s)
  PROVE  Cardinality({b \in DOMAIN c : b > 1}) = IF Len(c) > 1 THEN Len(c) - 1 ELSE 0
<1>1. Len(c) \in Nat /\ DOMAIN c = 1..Len(c) BY LenProperties
<1> DEFINE n == Len(c)
<1>2. {b \in DOMAIN c : b > 1} = 2..n BY <1>1
<1>3. n \in Int /\ 2 \in Int BY <1>1
<1> HIDE DEF n
<1>4. Cardinality(2..n) = IF 2 > n THEN 0 ELSE n - 2 + 1 BY <1>3, FS_Interval
<1>5. Cardinality(2..n) = IF n > 1 THEN n - 1 ELSE 0 BY <1>3, <1>4
<1> QED BY <1>2, <1>5 DEF n

LEMMA MintedType ==
  ASSUME IndInv
  PROVE  /\ Minted \in Int
         /\ BlockReward * Cardinality({b \in DOMAIN Blockchain : b > 1}) \in Int
<1>1. InitBalances \in [Accounts -> Int] BY MoneyAssumption
<1>2. credited \in [Accounts -> Int] BY DEF IndInv, TypeOK, ChainTypes
<1>3. SumFunction(InitBalances) \in Int /\ SumFunction(credited) \in Int
  BY <1>1, <1>2, SumType, AccountsAssumption
<1> DEFINE n == Cardinality({b \in DOMAIN Blockchain : b > 1})
<1>4. n \in Int
  <2>1. PICK s : Blockchain \in Seq(s) BY DEF IndInv, TypeOK, ChainTypes
  <2>2. Len(Blockchain) \in Nat BY <2>1, LenProperties
  <2> HIDE DEF n
  <2>3. n = IF Len(Blockchain) > 1 THEN Len(Blockchain) - 1 ELSE 0
    BY ONLY <2>1, BlocksCounted DEF n
  <2> QED BY ONLY <2>2, <2>3
<1>5. Minted = SumFunction(InitBalances) + SumFunction(credited) + BlockReward * n
  BY DEF Minted
<1> HIDE DEF n
<1>6. BlockReward * n \in Int BY <1>4 DEF BlockReward
<1> QED BY <1>3, <1>5, <1>6 DEF n

\* The fees of a batch are numbers, and one entry more adds its fee.
LEMMA FeesOfBatch ==
  ASSUME NEW e \in Seq(Entry), NEW n \in Nat, n <= Len(e)
  PROVE  /\ FeesUpTo(e, n) \in Int
         /\ n > 0 => FeesUpTo(e, n) = FeesUpTo(e, n - 1) + e[n].tx.fee
         /\ FeesUpTo(e, 0) = 0
<1>1. Len(e) \in Nat /\ DOMAIN e = 1..Len(e) BY LenProperties
<1>2. \A i \in 1..n : e[i].tx.fee \in Int
  <2>1. \A i \in 1..n : i \in DOMAIN e BY <1>1
  <2> QED BY <2>1, EntryFacts, TxFacts
<1> DEFINE f == [i \in 1..n |-> e[i].tx.fee]
<1>3. f \in [1..n -> Int] BY <1>2
<1>4. IsFiniteSet(1..n) BY FS_Interval
<1>5. FeesUpTo(e, n) = SumFunction(f) BY DEF FeesUpTo
<1>6. FeesUpTo(e, n) \in Int
  <2> HIDE DEF f
  <2> QED BY <1>3, <1>4, <1>5, SumType
<1>7. ASSUME n > 0 PROVE FeesUpTo(e, n) = FeesUpTo(e, n - 1) + e[n].tx.fee
  <2> DEFINE g == [f EXCEPT ![n] = 0]
             h == [i \in 1..(n - 1) |-> g[i]]
  <2>1. n \in 1..n /\ g \in [1..n -> Int] /\ g[n] = 0 BY <1>3, <1>7
  <2>2. 1..(n - 1) \in SUBSET (1..n) /\ \A i \in (1..n) \ (1..(n - 1)) : g[i] = 0
    BY <1>3, <1>7
  <2>3. h = [i \in 1..(n - 1) |-> e[i].tx.fee] BY <1>3, <1>7
  <2>4. f[n] = e[n].tx.fee BY <2>1
  <2> HIDE DEF f
  <2>5. SumFunction(g) = SumFunction(f) + (0 - f[n])
    <3> DEFINE all == 1..n
    <3>1. IsFiniteSet(all) /\ f \in [all -> Int] /\ n \in all /\ 0 \in Int
      BY <1>3, <1>4, <2>1
    <3> HIDE DEF all
    <3>2. SumFunction([f EXCEPT ![n] = 0]) = SumFunction(f) + (0 - f[n])
      BY ONLY <3>1, SumUpdate
    <3> QED BY <3>2
  <2> HIDE DEF g
  <2>6. SumFunction(g) = SumFunction(h)
    <3> DEFINE all == 1..n  front == 1..(n - 1)
    <3>1. IsFiniteSet(all) /\ front \in SUBSET all /\ g \in [all -> Int]
          /\ \A i \in all \ front : g[i] = 0
      BY <1>4, <2>1, <2>2
    <3>2. h \in [front -> Int] /\ \A i \in front : h[i] = g[i] BY <3>1
    <3> HIDE DEF all, front, h
    <3> QED BY ONLY <3>1, <3>2, SumSupport
  <2>7. FeesUpTo(e, n - 1) = SumFunction(h) BY <2>3 DEF FeesUpTo
  <2> HIDE DEF h
  <2>8. SumFunction(f) \in Int /\ f[n] \in Int BY <1>3, <1>4, <2>1, SumType
  <2> QED BY <1>5, <2>4, <2>5, <2>6, <2>7, <2>8
<1>8. FeesUpTo(e, 0) = 0
  <2> DEFINE z == [i \in 1..0 |-> e[i].tx.fee]
  <2>1. z \in [1..0 -> Int] /\ (\A i \in 1..0 : z[i] = 0) /\ IsFiniteSet(1..0)
    BY FS_Interval
  <2> HIDE DEF z
  <2>2. SumFunction(z) = 0 BY <2>1, SumZero
  <2> QED BY <2>2 DEF FeesUpTo, z
<1> QED BY <1>6, <1>7, <1>8

\* A transfer costs its sender what it does not give to its recipient: the fee.
LEMMA TransferSum ==
  ASSUME NEW bal \in [Accounts -> Int], NEW tx \in Tx
  PROVE  SumFunction([[bal EXCEPT ![tx.from] = @ - Cost(tx)]
                             EXCEPT ![tx.to] = @ + tx.amount])
           = SumFunction(bal) - tx.fee
<1> DEFINE s == tx.from
           r == tx.to
           c == Cost(tx)
           b == [bal EXCEPT ![s] = bal[s] - c]
           d == [b EXCEPT ![r] = b[r] + tx.amount]
<1>1. /\ s \in Accounts /\ r \in Accounts /\ tx.amount \in Int /\ tx.fee \in Int
      /\ c = tx.amount + tx.fee
  BY TxFacts DEF Cost
<1> HIDE DEF s, r, c
<1>2. bal[s] - c \in Int BY <1>1
<1>3. b \in [Accounts -> Int] BY <1>2
<1>4. SumFunction(b) = SumFunction(bal) + ((bal[s] - c) - bal[s])
  BY <1>1, <1>2, SumUpdate, AccountsAssumption
<1> HIDE DEF b
<1>5. b[r] \in Int /\ b[r] + tx.amount \in Int BY <1>1, <1>3
<1>6. SumFunction(d) = SumFunction(b) + ((b[r] + tx.amount) - b[r])
  BY <1>1, <1>3, <1>5, SumUpdate, AccountsAssumption
<1>7. SumFunction(bal) \in Int /\ bal[s] \in Int BY <1>1, SumType, AccountsAssumption
<1>8. SumFunction(d) = SumFunction(bal) - tx.fee BY <1>1, <1>4, <1>5, <1>6, <1>7
<1> QED BY <1>8 DEF b, s, r, c

\* Airdrops and slash shares appear in "credited".
LEMMA CreditKeepsBooks ==
  ASSUME IndInv, NEW more \in [Accounts -> Int], Credit(more)
  PROVE  /\ SumFunction(Balances') \in Int /\ Minted' \in Int
         /\ SumFunction(Balances') - SumFunction(Balances) = Minted' - Minted
<1>1. /\ Balances \in [Accounts -> Int] /\ credited \in [Accounts -> Int]
      /\ more \in [Accounts -> Int] /\ InitBalances \in [Accounts -> Int]
  BY MoneyAssumption DEF IndInv, TypeOK, ChainTypes
<1>2. /\ Balances' = [a \in Accounts |-> Balances[a] + more[a]]
      /\ credited' = [a \in Accounts |-> credited[a] + more[a]]
      /\ Blockchain' = Blockchain
  BY DEF Credit
<1>3. Balances' \in [Accounts -> Int] /\ credited' \in [Accounts -> Int]
  BY <1>1, <1>2
<1>4. SumFunction(Balances') = SumFunction(Balances) + SumFunction(more)
  <2>1. \A a \in Accounts : Balances'[a] = Balances[a] + more[a] BY <1>2
  <2> QED BY <1>1, <1>3, <2>1, SumAdd, AccountsAssumption
<1>5. SumFunction(credited') = SumFunction(credited) + SumFunction(more)
  <2>1. \A a \in Accounts : credited'[a] = credited[a] + more[a] BY <1>2
  <2> QED BY <1>1, <1>3, <2>1, SumAdd, AccountsAssumption
<1> DEFINE i == SumFunction(InitBalances)
           c == SumFunction(credited)
           m == SumFunction(more)
           b == SumFunction(Balances)
           n == BlockReward * Cardinality({x \in DOMAIN Blockchain : x > 1})
<1>6. i \in Int /\ c \in Int /\ m \in Int /\ b \in Int
  BY <1>1, SumType, AccountsAssumption
<1>7. Minted = (i + c) + n /\ Minted \in Int BY MintedType DEF Minted
<1>8. Minted' = (i + (c + m)) + n BY <1>2, <1>5 DEF Minted
<1>9. n \in Int BY MintedType
<1>10. SumFunction(Balances') = b + m BY <1>4
<1> HIDE DEF i, c, m, b, n
<1>11. (b + m) - b = ((i + (c + m)) + n) - ((i + c) + n) BY <1>6, <1>9
<1>12. b + m \in Int /\ (i + (c + m)) + n \in Int BY <1>6, <1>9
<1> QED BY <1>7, <1>8, <1>10, <1>11, <1>12 DEF b

\* The block that a commit appends brings its reward; on an empty chain the genesis
\* block comes first and brings none.
LEMMA AppendKeepsBooks ==
  ASSUME IndInv, NEW k \in Committers, AppendBlock(k)
  PROVE  Minted' = Minted + BlockReward
<1> DEFINE B == [Proposer: {NoValidator}, Transactions: Seq(Tx)]
           old == IF Blockchain = << >> THEN <<Genesis>> ELSE Blockchain
           new == [Proposer |-> NoValidator,
                   Transactions |-> [i \in DOMAIN final[k] |-> final[k][i].tx]]
           i == SumFunction(InitBalances)
           c == SumFunction(credited)
<1>1. /\ Blockchain' = old \o <<new>> /\ credited' = credited
  BY DEF AppendBlock, moneyVars
<1>2. Blockchain \in Seq(B) BY DEF IndInv, TypeOK, ChainTypes
<1> HIDE DEF B, new
<1>3. Len(Blockchain) \in Nat /\ (Blockchain = << >> <=> Len(Blockchain) = 0)
  BY <1>2, LenProperties, EmptySeq
<1>4. \E t : old \in Seq(t) /\ Blockchain' \in Seq(t) /\ Blockchain \in Seq(t)
  <2> DEFINE t == B \cup {Genesis, new}
  <2>1. Blockchain \in Seq(t) /\ <<Genesis>> \in Seq(t) /\ <<new>> \in Seq(t) BY <1>2
  <2>2. old \in Seq(t) BY <2>1
  <2> HIDE DEF old, t
  <2>3. old \o <<new>> \in Seq(t) BY <2>1, <2>2
  <2> QED BY <1>1, <2>1, <2>2, <2>3
<1>5. Len(old) = IF Len(Blockchain) = 0 THEN 1 ELSE Len(Blockchain) BY <1>3
<1> HIDE DEF old
<1>6. Len(Blockchain') = Len(old) + 1 BY <1>1, <1>4
<1> DEFINE n == Cardinality({x \in DOMAIN Blockchain : x > 1})
           m == Cardinality({x \in DOMAIN Blockchain' : x > 1})
<1>7. n = IF Len(Blockchain) > 1 THEN Len(Blockchain) - 1 ELSE 0
  BY <1>2, BlocksCounted
<1>8. m = IF Len(Blockchain') > 1 THEN Len(Blockchain') - 1 ELSE 0
  BY <1>4, BlocksCounted
<1>9. Minted = (i + c) + 5 * n /\ Minted' = (i + c) + 5 * m
  BY <1>1 DEF Minted, BlockReward
<1>10. i \in Int /\ c \in Int
  <2>1. InitBalances \in [Accounts -> Int] /\ credited \in [Accounts -> Int]
    BY MoneyAssumption DEF IndInv, TypeOK, ChainTypes
  <2> QED BY <2>1, SumType, AccountsAssumption
<1> HIDE DEF n, m, i, c
<1>11. n \in Int /\ m = n + 1 BY <1>3, <1>5, <1>6, <1>7, <1>8
<1> QED BY <1>9, <1>10, <1>11 DEF BlockReward

\* While k takes a step, its books are the only ones that are open.
LEMMA OpenBooks ==
  ASSUME IndInv, Books, NEW k \in Committers, CommitStep(k)
  PROVE  SumFunction(Balances) + Owed(k) = Minted
<1>1. CASE Busy(k) BY <1>1 DEF Books
<1>2. CASE ~Busy(k)
  <2>1. \A j \in Committers : ~Busy(j)
    BY <1>2, OthersAreIdle DEF Busy, IndInv, TypeOK
  <2>2. Owed(k) = 0 BY <1>2 DEF Busy, Owed
  <2> QED BY <2>1, <2>2, BalancesSum DEF Books
<1> QED BY <1>1, <1>2

\* One step of CommitBlock: what moves between the accounts, the fees it holds and the
\* reward it still owes adds up, and its loops stay in step.
LEMMA CommitKeepsOwed ==
  ASSUME IndInv, Books, NEW k \in Committers, CommitStep(k)
  PROVE  SumFunction(Balances') + Owed(k)' = Minted' /\ LoopOK(k)'
<1> DEFINE e == final[k]
           n == next[k]
           B == SumFunction(Balances)
<1>1. B + Owed(k) = Minted /\ LoopOK(k) /\ LocalsOK(k)
  BY OpenBooks DEF Books, IndInv
<1>2. /\ kpc \in [Committers -> CommitPlaces] /\ final \in [Committers -> Seq(Entry)]
      /\ next \in [Committers -> Nat \ {0}] /\ fees \in [Committers -> Int]
      /\ B \in Int /\ Minted \in Int
  BY BalancesSum, MintedType DEF IndInv, TypeOK, CommitTypes, LocalTypes
<1>3. e \in Seq(Entry) /\ Len(e) \in Nat /\ n \in Nat /\ n >= 1 /\ fees[k] \in Int
      /\ DOMAIN e = 1..Len(e)
  BY <1>2, LenProperties
<1>4. \A m \in 0..Len(e) : FeesUpTo(e, m) \in Int /\ FeesUpTo(e, 0) = 0
  BY <1>3, FeesOfBatch
<1>5. ASSUME UNCHANGED <<Balances, Blockchain, credited>>, Quiescent(k), Quiescent(k)',
             \/ fees'[k] = 0
             \/ kpc[k] \in {"save", "remove"} /\ kpc'[k] = "remove"
             \/ fees'[k] = fees[k] /\ kpc[k] \notin {"save", "remove"}
      PROVE  SumFunction(Balances') + Owed(k)' = Minted' /\ LoopOK(k)'
  <2>1. Owed(k) = 0 /\ Owed(k)' = 0 BY <1>5 DEF Quiescent, Owed
  <2>2. Minted' = Minted BY <1>5 DEF Minted
  <2>3. LoopOK(k)' BY <1>1, <1>5 DEF LoopOK, Quiescent
  <2> QED BY <1>1, <1>5, <2>1, <2>2, <2>3
<1>6. CASE \/ BeginCommit(k) \/ SeeMempool(k) \/ SelectProposer(k) \/ VotePasses(k)
           \/ MempoolSnapshot(k) \/ SnapshotNonces(k) \/ SnapshotBalances(k)
           \/ (\E s \in Accounts : TakePartition(k, s))
           \/ ExecuteTx(k) \/ BreakPartition(k) \/ SaveAllData(k)
  <2>1. /\ UNCHANGED <<Balances, Blockchain, credited, fees>>
        /\ kpc[k] \in CommitPlaces \ {"commit", "block", "reward", "remove"}
        /\ kpc'[k] \in CommitPlaces \ {"commit", "block", "reward"}
        /\ kpc[k] = "save" => kpc'[k] = "remove"
    BY <1>2, <1>6 DEF BeginCommit, SeeMempool, SelectProposer, VotePasses,
       MempoolSnapshot, SnapshotNonces, SnapshotBalances, TakePartition, ExecuteTx,
       BreakPartition, SaveAllData, Goto, chainVars, moneyVars, CommitPlaces
  <2> QED BY <1>5, <2>1 DEF Quiescent
<1>7. CASE NoBlock(k) \/ RemoveCommittedFromMempool(k)
  <2>1. /\ UNCHANGED <<Balances, Blockchain, credited>>
        /\ kpc[k] \in {"begin", "select", "remove"} /\ kpc'[k] = "idle" /\ fees'[k] = 0
    BY <1>2, <1>7 DEF NoBlock, RemoveCommittedFromMempool, ReturnFrom, Goto, chainVars, moneyVars
  <2> QED BY <1>5, <2>1 DEF Quiescent
<1>8. CASE RejectBlock(k)
  <2>1. kpc[k] = "vote" /\ kpc'[k] = "idle" /\ fees'[k] = 0
    BY <1>2, <1>8 DEF RejectBlock, ReturnFrom, Goto
  <2>2. PICK more \in [Accounts -> Int] : Credit(more) BY <1>8, RejectCredits
  <2>3. SumFunction(Balances') - B = Minted' - Minted BY <2>2, CreditKeepsBooks
  <2>4. SumFunction(Balances') \in Int /\ Minted' \in Int BY <2>2, CreditKeepsBooks
  <2>5. Owed(k) = 0 /\ Owed(k)' = 0 BY <2>1 DEF Owed
  <2> HIDE DEF B
  <2>6. SumFunction(Balances') + Owed(k)' = Minted' BY <1>1, <1>2, <2>3, <2>4, <2>5
  <2> QED BY <2>1, <2>6 DEF LoopOK
<1>9. CASE CollectPartitions(k)
  <2>1. /\ UNCHANGED <<Balances, Blockchain, credited, final, fees>> /\ kpc[k] = "exec"
        /\ kpc'[k] = "lock" \/ (e = << >> /\ kpc'[k] = "block")
    BY <1>2, <1>9 DEF CollectPartitions, Goto, chainVars, moneyVars
  <2>2. Minted' = Minted BY <2>1 DEF Minted
  <2>3. Owed(k) = 0 BY <2>1 DEF Owed
  <2>4. Owed(k)' = 0 BY <1>3, <1>4, <2>1 DEF Owed
  <2> QED BY <1>1, <2>1, <2>2, <2>3, <2>4 DEF LoopOK
<1>10. CASE LockState(k)
  <2>1. /\ UNCHANGED <<Balances, Blockchain, credited, final, fees, next>>
        /\ kpc[k] = "lock" /\ kpc'[k] = "commit" /\ n = 1
    BY <1>1, <1>2, <1>10 DEF LockState, Goto, chainVars, moneyVars, execVars, LocalsOK
  <2>2. Minted' = Minted BY <2>1 DEF Minted
  <2>3. Owed(k) = 0 BY <2>1 DEF Owed
  <2>4. Owed(k)' = FeesUpTo(e, 0) BY <2>1 DEF Owed
  <2> QED BY <1>1, <1>3, <1>4, <2>1, <2>2, <2>3, <2>4 DEF LoopOK
<1>11. CASE CommitTx(k)
  <2> DEFINE tx == e[n].tx
  <2>1. /\ UNCHANGED <<Blockchain, credited, final, fees>> /\ next'[k] = n + 1
        /\ kpc[k] = "commit" /\ kpc'[k] = "commit" /\ n <= Len(e)
        /\ Balances' = [[Balances EXCEPT ![tx.from] = @ - Cost(tx)]
                                   EXCEPT ![tx.to] = @ + tx.amount]
    <3>1. UNCHANGED <<Blockchain, credited, fees>>
          /\ Balances' = [[Balances EXCEPT ![tx.from] = @ - Cost(tx)]
                                     EXCEPT ![tx.to] = @ + tx.amount]
      BY <1>11 DEF CommitTx
    <3> QED BY <1>11, <3>1, AtEntry DEF IndInv, TypeOK
  <2>2. n \in DOMAIN e /\ tx \in Tx BY <1>3, <2>1, EntryFacts
  <2>3. SumFunction(Balances') = B - tx.fee
    <3>1. Balances \in [Accounts -> Int] BY DEF IndInv, TypeOK, ChainTypes
    <3> HIDE DEF tx
    <3>2. SumFunction([[Balances EXCEPT ![tx.from] = @ - Cost(tx)]
                                EXCEPT ![tx.to] = @ + tx.amount])
            = SumFunction(Balances) - tx.fee
      BY ONLY <2>2, <3>1, TransferSum
    <3> QED BY <2>1, <3>2
  <2>4. /\ FeesUpTo(e, n) = FeesUpTo(e, n - 1) + tx.fee
        /\ FeesUpTo(e, n - 1) \in Int /\ tx.fee \in Int
    <3>1. tx.fee \in Int BY <2>2, TxFacts
    <3>2. e \in Seq(Entry) /\ n \in Nat /\ n <= Len(e) /\ n > 0 /\ n - 1 \in 0..Len(e)
      BY <1>3, <2>1
    <3>3. FeesUpTo(e, n - 1) \in Int BY <1>4, <3>2
    <3> HIDE DEF e, n
    <3>4. FeesUpTo(e, n) = FeesUpTo(e, n - 1) + e[n].tx.fee BY ONLY <3>2, FeesOfBatch
    <3> QED BY <3>1, <3>3, <3>4
  <2>5. Owed(k) = FeesUpTo(e, n - 1) BY <2>1 DEF Owed
  <2>6. Owed(k)' = FeesUpTo(e, n)
    <3>1. next'[k] - 1 = n BY <1>3, <2>1
    <3>2. Owed(k)' = FeesUpTo(final[k], next'[k] - 1) BY <2>1 DEF Owed
    <3> QED BY <3>1, <3>2
  <2>7. Minted' = Minted BY <2>1 DEF Minted
  <2>8. LoopOK(k)' BY <1>1, <1>3, <2>1 DEF LoopOK
  <2> HIDE DEF B, tx
  <2> QED BY <1>1, <1>2, <2>3, <2>4, <2>5, <2>6, <2>7, <2>8
<1>12. CASE UnlockState(k)
  <2>1. /\ UNCHANGED <<Balances, Blockchain, credited, final, fees>>
        /\ kpc[k] = "commit" /\ kpc'[k] = "block" /\ n > Len(e)
    BY <1>2, <1>12 DEF UnlockState, Goto, chainVars, moneyVars, execVars
  <2>2. Minted' = Minted BY <2>1 DEF Minted
  <2>3. n - 1 = Len(e) BY <1>1, <1>3, <2>1 DEF LoopOK
  <2>4. Owed(k) = FeesUpTo(e, n - 1) /\ Owed(k)' = FeesUpTo(e, Len(e))
    BY <2>1 DEF Owed
  <2> QED BY <1>1, <2>1, <2>2, <2>3, <2>4 DEF LoopOK
<1>13. CASE AppendBlock(k)
  <2>1. /\ UNCHANGED <<Balances, final, fees, next>> /\ kpc[k] = "block"
        /\ kpc'[k] = "reward" /\ n = 1 /\ fees[k] = 0
    BY <1>1, <1>2, <1>13 DEF AppendBlock, Goto, execVars, LocalsOK, LoopOK
  <2>2. Minted' = Minted + BlockReward BY <1>13, AppendKeepsBooks
  <2>3. Owed(k) = FeesUpTo(e, Len(e)) /\ Owed(k)' = FeesUpTo(e, Len(e)) + BlockReward
    BY <2>1 DEF Owed
  <2>4. FeesUpTo(e, Len(e)) \in Int BY <1>3, <1>4
  <2>5. LoopOK(k)' BY <1>3, <1>4, <2>1 DEF LoopOK
  <2> HIDE DEF B
  <2>6. B + (FeesUpTo(e, Len(e)) + BlockReward) = Minted + BlockReward
    BY <1>1, <1>2, <2>3, <2>4 DEF BlockReward
  <2> QED BY <2>1, <2>2, <2>3, <2>5, <2>6 DEF B
<1>14. CASE AddFee(k)
  <2>1. /\ UNCHANGED <<Balances, Blockchain, credited, final>>
        /\ kpc[k] = "reward" /\ kpc'[k] = "reward" /\ n <= Len(e) /\ next'[k] = n + 1
        /\ fees'[k] = fees[k] + e[n].tx.fee
    BY <1>2, <1>14 DEF AddFee, Goto, chainVars, moneyVars, execVars
  <2>2. Minted' = Minted BY <2>1 DEF Minted
  <2>3. Owed(k)' = Owed(k) BY <2>1 DEF Owed
  <2>4. FeesUpTo(e, n) = FeesUpTo(e, n - 1) + e[n].tx.fee
    BY <1>3, <2>1, FeesOfBatch
  <2>5. n + 1 - 1 = n /\ fees[k] = FeesUpTo(e, n - 1) BY <1>1, <1>3, <2>1 DEF LoopOK
  <2>6. LoopOK(k)' BY <1>3, <2>1, <2>4, <2>5 DEF LoopOK
  <2> QED BY <1>1, <2>1, <2>2, <2>3, <2>6
<1>15. CASE CreditProposer(k)
  <2> DEFINE p == proposer[k]
             v == Balances[p] + fees[k] + BlockReward
  <2>1. /\ UNCHANGED <<Blockchain, credited, final>>
        /\ kpc[k] = "reward" /\ kpc'[k] = "save" /\ n > Len(e)
        /\ Balances' = [Balances EXCEPT ![p] = v]
    BY <1>2, <1>15 DEF CreditProposer, Goto, execVars
  <2>2. p \in Accounts BY <1>1, <2>1, ValidatorsAssumption DEF LocalsOK
  <2>3. Minted' = Minted BY <2>1 DEF Minted
  <2>4. n - 1 = Len(e) /\ fees[k] = FeesUpTo(e, Len(e))
    BY <1>1, <1>3, <2>1 DEF LoopOK
  <2>5. Owed(k) = fees[k] + 5 /\ Owed(k)' = 0 BY <2>1, <2>4 DEF Owed, BlockReward
  <2>6. Balances \in [Accounts -> Int] /\ Balances[p] \in Int
    BY <2>2 DEF IndInv, TypeOK, ChainTypes
  <2>7. v \in Int /\ v - Balances[p] = fees[k] + 5 BY <1>3, <2>6 DEF BlockReward
  <2> HIDE DEF v, p
  <2>8. SumFunction(Balances') = B + (v - Balances[p])
    BY <2>1, <2>2, <2>6, <2>7, SumUpdate, AccountsAssumption
  <2>9. LoopOK(k)' BY <2>1 DEF LoopOK
  <2> HIDE DEF B
  <2> QED BY <1>1, <1>2, <1>3, <2>3, <2>5, <2>7, <2>8, <2>9
<1> QED
  BY <1>6, <1>7, <1>8, <1>9, <1>10, <1>11, <1>12, <1>13, <1>14, <1>15 DEF CommitStep

LEMMA StepBooks == IndInv /\ Books /\ [Next]_vars => Books'
<1> SUFFICES ASSUME IndInv, Books, [Next]_vars PROVE Books' OBVIOUS
<1>0. IndInv' BY NextIndInv
<1>1. ASSUME NEW k \in Committers, CommitStep(k) PROVE Books'
  <2>1. SumFunction(Balances') + Owed(k)' = Minted' /\ LoopOK(k)'
    BY <1>1, CommitKeepsOwed
  <2>2. ASSUME NEW j \in Committers, j # k PROVE ~Busy(j)' /\ LoopOK(j)'
    <3>1. kpc[j] = "idle" BY <1>1, <2>2, OthersAreIdle DEF IndInv, TypeOK
    <3>2. kpc'[j] = "idle" BY <1>1, <2>2, <3>1, OthersUntouched DEF IndInv
    <3>3. fees'[j] = fees[j]
      BY <1>1, <2>2 DEF CommitStep, BeginCommit, SeeMempool, NoBlock, SelectProposer,
     VotePasses, RejectBlock, MempoolSnapshot, SnapshotNonces, SnapshotBalances,
     TakePartition, ExecuteTx, BreakPartition, CollectPartitions, LockState, CommitTx,
     UnlockState, AppendBlock, AddFee, CreditProposer, SaveAllData,
     RemoveCommittedFromMempool, ReturnFrom, IndInv, TypeOK, CommitTypes
    <3>4. LoopOK(j) BY DEF Books
    <3> QED BY <3>1, <3>2, <3>3, <3>4 DEF Busy, LoopOK
  <2>3. SumFunction(Balances') \in Int
    <3>1. Balances' \in [Accounts -> Int] BY <1>0 DEF IndInv, TypeOK, ChainTypes
    <3> QED BY <3>1, SumType, AccountsAssumption
  <2>4. ~Busy(k)' => Owed(k)' = 0 BY DEF Busy, Owed
  <2> QED BY <2>1, <2>2, <2>3, <2>4 DEF Books
<1>2. ASSUME UNCHANGED <<Balances, Blockchain, credited, kpc, final, next, fees>>
      PROVE  Books'
  BY <1>2 DEF Books, Busy, Minted, Owed, LoopOK
<1>3. ASSUME NEW c \in Clients, ClientStep(c) PROVE Books'
  <2>1. UNCHANGED <<Balances, Blockchain, credited, kpc, final, next, fees>>
    BY <1>3 DEF ClientStep, NewTransaction, ReceiveTx, Submit, CheckNonce, CheckBalance,
       AddToMempool, ClientGoto, ClientReturn, chainVars, moneyVars, commitVars,
       execVars
  <2> QED BY <1>2, <2>1
<1>4. ASSUME NEW to \in Accounts, NEW amount \in Airdrops, Airdrop(to, amount)
      PROVE  Books'
  <2>1. PICK more \in [Accounts -> Int] : Credit(more) BY <1>4, AirdropCredits
  <2>2. SumFunction(Balances') - SumFunction(Balances) = Minted' - Minted
    BY <2>1, CreditKeepsBooks
  <2>3. /\ SumFunction(Balances) \in Int /\ Minted \in Int
        /\ SumFunction(Balances') \in Int /\ Minted' \in Int
    BY <2>1, BalancesSum, MintedType, CreditKeepsBooks
  <2>4. UNCHANGED <<kpc, final, next, fees>> BY <1>4 DEF Airdrop, commitVars, execVars
  <2>5. \A k \in Committers : /\ Owed(k)' = Owed(k) /\ Busy(k)' = Busy(k)
                              /\ LoopOK(k)' = LoopOK(k)
    BY <2>4 DEF Owed, Busy, LoopOK
  <2>6. ASSUME NEW k \in Committers, Busy(k)
        PROVE  SumFunction(Balances') + Owed(k) = Minted'
    <3>1. SumFunction(Balances) + Owed(k) = Minted BY <2>6 DEF Books
    <3>2. Owed(k) \in Int
      <4>1. final[k] \in Seq(Entry) /\ next[k] \in Nat \ {0} /\ LoopOK(k)
        BY DEF IndInv, TypeOK, LocalTypes, CommitTypes, Books
      <4>2. Len(final[k]) \in Nat BY <4>1, LenProperties
      <4>3. \A n \in Nat : n <= Len(final[k]) => FeesUpTo(final[k], n) \in Int
        BY <4>1, FeesOfBatch
      <4> QED BY <4>1, <4>2, <4>3 DEF Owed, LoopOK, BlockReward
    <3> QED BY <2>2, <2>3, <3>1, <3>2
  <2>7. (\A k \in Committers : ~Busy(k)) => SumFunction(Balances') = Minted'
    BY <2>2, <2>3 DEF Books
  <2> QED BY <2>5, <2>6, <2>7 DEF Books
<1>5. CASE UNCHANGED vars
  BY <1>2, <1>5 DEF vars, chainVars, moneyVars, commitVars, execVars
<1> QED BY <1>1, <1>3, <1>4, <1>5 DEF Next

LEMMA InitBooks == Init => Books
<1> SUFFICES ASSUME Init PROVE Books OBVIOUS
<1>1. SumFunction(credited) = 0
  <2>1. credited \in [Accounts -> Int] /\ \A a \in Accounts : credited[a] = 0 BY DEF Init
  <2> QED BY <2>1, SumZero, AccountsAssumption
<1>2. Cardinality({b \in DOMAIN Blockchain : b > 1}) = 0
  <2>1. {b \in DOMAIN Blockchain : b > 1} = {} BY DEF Init
  <2> QED BY <2>1, FS_EmptySet
<1>3. SumFunction(InitBalances) \in Int
  <2>1. InitBalances \in [Accounts -> Int] BY MoneyAssumption
  <2> QED BY <2>1, SumType, AccountsAssumption
<1>4. SumFunction(Balances) = Minted
  BY <1>1, <1>2, <1>3 DEF Init, Minted, BlockReward
<1> QED BY <1>4 DEF Init, Books, Busy, LoopOK

\* Conservation for any instance: a commit that is under way holds exactly the fees it
\* has taken and the reward of the block it has appended, and gives both to the
\* proposer before it returns.
THEOREM MoneyIsConserved == Spec => []Conservation
<1>1. IndInv /\ Books => Conservation
  <2> SUFFICES ASSUME IndInv, Books, \A k \in Committers : Quiescent(k)
               PROVE  SumFunction(Balances) = Minted
    BY DEF Conservation, Minted
  <2>1. \A k \in Committers : Owed(k) = 0 BY DEF Quiescent, Owed
  <2> QED BY <2>1, BalancesSum DEF Books
<1> QED BY <1>1, Inductive, InitBooks, StepBooks, PTL DEF Spec

-----------------------------------------------------------------------------
(* What a stale transaction does *)

\* A reordering leaves nothing out.
LEMMA ReorderedHasAll ==
  ASSUME NEW S, NEW m \in Seq(S), NEW I \in SUBSET (DOMAIN m),
         NEW f \in Injection(1..Cardinality(I), I)
  PROVE  \A i \in I : \E n \in 1..Cardinality(I) : f[n] = i
<1> DEFINE c == Cardinality(I)
<1>1. IsFiniteSet(1..Len(m)) /\ DOMAIN m = 1..Len(m)
  BY FS_Interval, LenProperties
<1>2. IsFiniteSet(I) /\ c \in Nat BY <1>1, FS_Subset, FS_CardinalityType
<1>3. Cardinality(1..c) = c
  <2>1. 1 \in Int /\ c \in Int BY <1>2
  <2> QED BY <1>2, <2>1, FS_Interval
<1>4. f \in Surjection(1..c, I) BY <1>2, <1>3, FS_Injection
<1> HIDE DEF c
<1> QED BY <1>4 DEF Surjection, c

\* A transaction of s in m whose nonce is at most n.
StaleIn(m, s, n) == \E i \in DOMAIN m : m[i].from = s /\ m[i].nonce <= n

\* The worker reaches nothing of s: a stale transaction is the first of its partition,
\* and nothing of s is in a batch.
Stuck(k, s, n) ==
  /\ \A i \in DOMAIN final[k] : final[k][i].tx.from # s
  /\ kpc[k] \in {"nonces", "balances", "exec"} => StaleIn(snap[k], s, n)
  /\ 1 \in DOMAIN todo[k] /\ todo[k][1].from = s => todo[k][1].nonce <= n

Frozen(s, n) ==
  /\ NonceTable[s] = n
  /\ StaleIn(Mempool, s, n)
  /\ \A k \in Committers : Stuck(k, s, n)

\* Only committed transactions leave the mempool, and none of s is committed.
LEMMA StaleStays ==
  ASSUME IndInv, [Next]_vars, NEW s \in Accounts, NEW n \in Nat, Frozen(s, n)
  PROVE  StaleIn(Mempool', s, n)
<1>0. PICK i \in DOMAIN Mempool : Mempool[i].from = s /\ Mempool[i].nonce <= n
  BY DEF Frozen, StaleIn
<1>1. Mempool \in Seq(Tx) /\ DOMAIN Mempool = 1..Len(Mempool) /\ Mempool[i] \in Tx
  BY LenProperties, MempoolTx DEF IndInv, TypeOK, ChainTypes
<1>2. ASSUME NEW c \in Clients, AddToMempool(c) PROVE StaleIn(Mempool', s, n)
  <2>1. Mempool' = Append(Mempool, ctx[c]) BY <1>2 DEF AddToMempool
  <2>2. i \in DOMAIN Mempool' /\ Mempool'[i] = Mempool[i]
    BY <1>1, <2>1
  <2> QED BY <1>0, <2>2 DEF StaleIn
<1>3. ASSUME NEW k \in Committers, RemoveCommittedFromMempool(k)
      PROVE  StaleIn(Mempool', s, n)
  <2> DEFINE committed == {HashTransaction(final[k][j].tx) : j \in DOMAIN final[k]}
             keep == {j \in DOMAIN Mempool : HashTransaction(Mempool[j]) \notin committed}
  <2>1. PICK f \in Injection(1..Cardinality(keep), keep) :
          Mempool' = [j \in 1..Cardinality(keep) |-> Mempool[f[j]]]
    BY <1>3 DEF RemoveCommittedFromMempool, KeepOrder
  <2>2. i \in keep
    <3>1. \A j \in DOMAIN final[k] : final[k][j].tx.from # s BY DEF Frozen, Stuck
    <3>2. \A j \in DOMAIN final[k] : HashTransaction(final[k][j].tx) # HashTransaction(Mempool[i])
      BY <1>0, <3>1 DEF HashTransaction
    <3> QED BY <3>2
  <2>3. keep \in SUBSET (DOMAIN Mempool) OBVIOUS
  <2> HIDE DEF keep
  <2>4. PICK j \in 1..Cardinality(keep) : f[j] = i
    BY <1>1, <2>1, <2>2, <2>3, ReorderedHasAll
  <2>5. j \in DOMAIN Mempool' /\ Mempool'[j] = Mempool[i] BY <2>1, <2>4
  <2> QED BY <1>0, <2>5 DEF StaleIn
<1>4. \/ \E c \in Clients : AddToMempool(c)
      \/ \E k \in Committers : RemoveCommittedFromMempool(k)
      \/ UNCHANGED Mempool
  BY PoolChanges
<1> QED BY <1>2, <1>3, <1>4 DEF Frozen

\* Sorted by nonce, a stale transaction comes first or after an older one.
LEMMA TakeKeepsStuck ==
  ASSUME IndInv, NEW k \in Committers, NEW s \in Accounts, NEW n \in Nat, Stuck(k, s, n),
         NEW a \in Accounts, TakePartition(k, a)
  PROVE  Stuck(k, s, n)'
<1> DEFINE m == snap[k]
           I == {i \in DOMAIN m : m[i].from = a}
           c == Cardinality(I)
<1>1. PICK f \in NonceOrders(m, I) : todo' = [todo EXCEPT ![k] = [i \in 1..c |-> m[f[i]]]]
  BY DEF TakePartition
<1>2. kpc[k] = "exec" /\ kpc' = kpc /\ UNCHANGED <<snap, final>>
  BY DEF TakePartition, Goto, chainVars, snapVars, IndInv, TypeOK, CommitTypes
<1>3. todo'[k] = [i \in 1..c |-> m[f[i]]]
  BY <1>1 DEF IndInv, TypeOK, LocalTypes
<1>4. /\ m \in Seq(Tx) /\ \A i \in DOMAIN m : m[i] \in Tx BY LocalSeqs
<1>5. f \in Injection(1..c, I) /\ \A i, j \in 1..c : i < j => m[f[i]].nonce <= m[f[j]].nonce
  BY <1>1 DEF NonceOrders, Injection
<1>6. I \in SUBSET (DOMAIN m) OBVIOUS
<1>7. c \in Nat /\ \A i \in 1..c : f[i] \in I BY <1>4, <1>5, <1>6, ReorderedType
<1>8. ASSUME 1 \in 1..c, m[f[1]].from = s PROVE m[f[1]].nonce <= n
  <2>1. a = s BY <1>7, <1>8
  <2>2. PICK i \in DOMAIN m : m[i].from = s /\ m[i].nonce <= n
    BY <1>2 DEF Stuck, StaleIn
  <2>3. i \in I BY <2>1, <2>2
  <2> HIDE DEF m, I, c
  <2>4. PICK j \in 1..c : f[j] = i
    BY <1>4, <1>5, <1>6, <2>3, ReorderedHasAll DEF c
  <2>5. m[f[1]].nonce <= m[f[j]].nonce
    <3>1. m[f[1]].nonce \in Nat BY <1>4, <1>6, <1>7, <1>8, TxFacts
    <3>2. j = 1 \/ 1 < j BY <1>7, <2>4
    <3> QED BY <1>5, <1>8, <2>4, <3>1, <3>2
  <2>6. m[f[1]].nonce \in Nat /\ m[i].nonce \in Nat
    BY <1>4, <1>6, <1>7, <1>8, TxFacts
  <2> QED BY <2>2, <2>4, <2>5, <2>6
<1>9. 1 \in DOMAIN todo'[k] /\ todo'[k][1].from = s => todo'[k][1].nonce <= n
  <2>1. DOMAIN todo'[k] = 1..c BY <1>3
  <2>2. 1 \in 1..c => todo'[k][1] = m[f[1]] BY <1>3
  <2> QED BY <1>8, <2>1, <2>2
<1> HIDE DEF I, c
<1> QED BY <1>2, <1>9 DEF Stuck

\* The worker breaks at a stale transaction, so that it executes nothing of s.
LEMMA ExecuteKeepsStuck ==
  ASSUME IndInv, NEW k \in Committers, NEW s \in Accounts, NEW n \in Nat,
         NonceTable[s] = n, Stuck(k, s, n), ExecuteTx(k)
  PROVE  Stuck(k, s, n)'
<1> DEFINE tx == Head(todo[k])
           new == [tx |-> tx, left |-> localBal[k] - Cost(tx)]
           e == final[k]
<1>1. /\ kpc[k] = "exec" /\ kpc' = kpc /\ UNCHANGED snap
      /\ todo[k] # << >> /\ tx.nonce = localNonce[k] + 1
      /\ final' = [final EXCEPT ![k] = Append(@, new)]
      /\ todo' = [todo EXCEPT ![k] = Tail(@)]
  BY DEF ExecuteTx, Goto, Executable, snapVars, IndInv, TypeOK, CommitTypes
<1>2. /\ final \in [Committers -> Seq(Entry)] /\ todo \in [Committers -> Seq(Tx)]
      /\ localNonce[k] \in Nat
  BY DEF IndInv, TypeOK, LocalTypes
<1>3. /\ todo[k] \in Seq(Tx) /\ 1 \in DOMAIN todo[k] /\ tx = todo[k][1] /\ tx \in Tx
  BY <1>1, <1>2
<1>4. tx.nonce \in Nat BY <1>3, TxFacts
<1>5. nonceSnap[k] = NonceTable /\ Worker(k) BY <1>1 DEF IndInv, LocalsOK, BatchOK
<1>6. /\ \A i \in DOMAIN e : e[i].tx.from # s
      /\ tx.from = s => tx.nonce <= n
  BY <1>3 DEF Stuck
<1>7. \/ localNonce[k] = NonceTable[tx.from]
      \/ \E i \in DOMAIN e : e[i].tx.from = tx.from
  BY <1>3, <1>5 DEF Worker
<1>8. tx.from # s
  <2> SUFFICES ASSUME tx.from = s PROVE FALSE OBVIOUS
  <2> HIDE DEF tx, e
  <2>1. localNonce[k] = n BY <1>6, <1>7
  <2> QED BY <1>1, <1>2, <1>4, <1>6, <2>1
<1>9. \A i \in DOMAIN todo[k] : todo[k][i].from = tx.from
  <2>1. \A i \in DOMAIN todo[k] : todo[k][i].from = todo[k][1].from
    BY <1>5 DEF Worker
  <2> QED BY <1>3, <2>1
<1>10. \A i \in DOMAIN final'[k] : final'[k][i].tx.from # s
  <2>1. /\ e \in Seq(Entry) /\ Len(e) \in Nat /\ DOMAIN e = 1..Len(e)
        /\ final'[k] = Append(e, new) /\ DOMAIN final'[k] = 1..(Len(e) + 1)
        /\ \A i \in DOMAIN e : final'[k][i] = e[i]
        /\ final'[k][Len(e) + 1] = new
    BY <1>1, <1>2
  <2> HIDE DEF e, new
  <2>2. new.tx = tx BY DEF new
  <2>3. \A i \in DOMAIN final'[k] : i \in DOMAIN e \/ i = Len(e) + 1 BY <2>1
  <2> QED BY <1>6, <1>8, <2>1, <2>2, <2>3
<1>11. 1 \in DOMAIN todo'[k] => todo'[k][1].from # s
  <2>1. todo'[k] = Tail(todo[k]) BY <1>1, <1>2
  <2>2. \A i \in DOMAIN Tail(todo[k]) : i + 1 \in DOMAIN todo[k] /\ Tail(todo[k])[i] = todo[k][i + 1]
    BY <1>1, <1>3
  <2> QED BY <1>8, <1>9, <2>1, <2>2
<1> HIDE DEF e, new, tx
<1> QED BY <1>1, <1>10, <1>11 DEF Stuck

LEMMA ElsewhereKeepsStuck ==
  ASSUME IndInv, NEW k \in Committers, NEW s \in Accounts, NEW n \in Nat,
         Frozen(s, n), CommitStep(k), ~ExecuteTx(k), \A a \in Accounts : ~TakePartition(k, a)
  PROVE  Stuck(k, s, n)'
<1> USE DEF IndInv, TypeOK, CommitTypes, LocalTypes
<1>0. Stuck(k, s, n) BY DEF Frozen
<1>1. LocalsOK(k) OBVIOUS
<1>2. CASE MempoolSnapshot(k)
  <2>1. /\ kpc[k] = "snapshot" /\ snap'[k] = Mempool /\ UNCHANGED <<todo, final>>
    BY <1>2 DEF MempoolSnapshot, Goto
  <2>2. StaleIn(snap'[k], s, n) BY <2>1 DEF Frozen
  <2> QED BY <1>0, <2>1, <2>2 DEF Stuck
<1>3. CASE SnapshotNonces(k) \/ SnapshotBalances(k)
  <2>1. /\ kpc[k] \in {"nonces", "balances"} /\ UNCHANGED <<snap, todo, final>>
    BY <1>3 DEF SnapshotNonces, SnapshotBalances, Goto, execVars
  <2> QED BY <1>0, <2>1 DEF Stuck
<1>4. CASE BreakPartition(k)
  <2>1. kpc[k] = "exec" /\ todo'[k] = << >> /\ UNCHANGED <<snap, final>>
    BY <1>4 DEF BreakPartition, Goto, snapVars
  <2> QED BY <1>0, <2>1 DEF Stuck
<1>5. CASE CollectPartitions(k)
  <2>1. kpc'[k] \in {"block", "lock"} /\ UNCHANGED <<todo, final>>
    BY <1>5 DEF CollectPartitions, Goto
  <2> QED BY <1>0, <2>1 DEF Stuck
<1>6. CASE \E here \in {"begin", "select", "vote", "remove"} : ReturnFrom(k, here)
  <2>1. kpc'[k] = "idle" /\ UNCHANGED todo /\ final'[k] = << >>
    BY <1>6 DEF ReturnFrom, Goto
  <2> QED BY <1>0, <2>1 DEF Stuck
<1>7. CASE \/ BeginCommit(k) \/ SeeMempool(k) \/ SelectProposer(k) \/ VotePasses(k)
           \/ LockState(k) \/ CommitTx(k) \/ UnlockState(k) \/ AppendBlock(k) \/ AddFee(k)
           \/ CreditProposer(k) \/ SaveAllData(k)
  <2>1. /\ kpc'[k] \notin {"nonces", "balances", "exec"} /\ UNCHANGED <<todo, final>>
    BY <1>7 DEF BeginCommit, SeeMempool, SelectProposer, VotePasses, LockState, CommitTx,
       UnlockState, AppendBlock, AddFee, CreditProposer, SaveAllData, Goto, execVars
  <2> QED BY <1>0, <2>1 DEF Stuck
<1> QED BY <1>2, <1>3, <1>4, <1>5, <1>6, <1>7
    DEF CommitStep, NoBlock, RejectBlock, RemoveCommittedFromMempool

LEMMA FrozenStays ==
  ASSUME IndInv, [Next]_vars, NEW s \in Accounts, NEW n \in Nat, Frozen(s, n)
  PROVE  Frozen(s, n)'
<1>1. StaleIn(Mempool', s, n) BY StaleStays
<1>2. NonceTable'[s] = n
  <2>1. ASSUME NEW k \in Committers, CommitTx(k) PROVE NonceTable'[s] = n
    <3> DEFINE tx == final[k][next[k]].tx
    <3>1. /\ next[k] \in DOMAIN final[k] /\ tx \in Tx
          /\ NonceTable' = [NonceTable EXCEPT ![tx.from] = tx.nonce]
      BY <2>1, NextNonce
    <3>2. tx.from # s BY <3>1 DEF Frozen, Stuck
    <3> HIDE DEF tx
    <3> QED BY <3>1, <3>2 DEF Frozen, IndInv, TypeOK, ChainTypes
  <2> QED BY <2>1, NonceChanges DEF Frozen
<1>3. ASSUME NEW k \in Committers PROVE Stuck(k, s, n)'
  <2>0. Stuck(k, s, n) /\ NonceTable[s] = n BY DEF Frozen
  <2>1. CASE UNCHANGED commitVars
    BY <2>0, <2>1 DEF Stuck, commitVars, snapVars, execVars
  <2>2. ASSUME NEW j \in Committers, CommitStep(j) PROVE Stuck(k, s, n)'
    <3>1. CASE j = k
      BY <2>0, <2>2, <3>1, ExecuteKeepsStuck, TakeKeepsStuck, ElsewhereKeepsStuck
    <3>2. CASE j # k
      <4>1. kpc[k] = "idle" BY <2>2, <3>2, OthersAreIdle DEF IndInv, TypeOK
      <4>2. kpc'[k] = "idle" /\ todo'[k] = todo[k] /\ final'[k] = final[k]
        BY <2>2, <3>2, <4>1, OthersUntouched DEF IndInv
      <4> QED BY <2>0, <4>2 DEF Stuck
    <3> QED BY <3>1, <3>2
  <2>3. ASSUME NEW c \in Clients, ClientStep(c) PROVE UNCHANGED commitVars
    BY <2>3 DEF ClientStep, NewTransaction, ReceiveTx, Submit, CheckNonce, CheckBalance,
       AddToMempool, ClientGoto, ClientReturn
  <2> QED BY <2>1, <2>2, <2>3 DEF Next, Airdrop, vars
<1> QED BY <1>1, <1>2, <1>3 DEF Frozen

LEMMA FreezeBegins ==
  ASSUME IndInv, NEW s \in Accounts, NEW n \in Nat, HasStale(Mempool, s), NonceTable[s] = n,
         \A k \in Committers : BeforeSnapshot(k)
  PROVE  Frozen(s, n)
<1>1. StaleIn(Mempool, s, n) BY DEF HasStale, StaleIn
<1>2. ASSUME NEW k \in Committers PROVE Stuck(k, s, n)
  <2>1. kpc[k] \in {"idle", "begin", "select", "vote", "snapshot"} BY DEF BeforeSnapshot
  <2>2. final[k] = << >> /\ todo[k] = << >> BY <2>1 DEF IndInv, LocalsOK
  <2> QED BY <2>1, <2>2 DEF Stuck
<1> QED BY <1>1, <1>2 DEF Frozen

\* A stale transaction in the mempool ends its sender's transactions for good: the sort puts
\* it first, the worker breaks there (transaction.go:182), and only committed transactions
\* leave the mempool (RemoveCommittedFromMempool).
THEOREM StaleFreezes == Spec => StaleTxFreezesSender
<1> SUFFICES ASSUME NEW s \in Accounts, NEW n \in 0..MaxTxs
             PROVE  Spec => []( /\ HasStale(Mempool, s) /\ NonceTable[s] = n
                                /\ \A k \in Committers : BeforeSnapshot(k)
                                => [](NonceTable[s] = n) )
  BY DEF StaleTxFreezesSender
<1> DEFINE P == /\ HasStale(Mempool, s) /\ NonceTable[s] = n
                /\ \A k \in Committers : BeforeSnapshot(k)
           Q == NonceTable[s] = n
           F == Frozen(s, n)
<1>0. n \in Nat OBVIOUS
<1>1. IndInv /\ P => F BY <1>0, FreezeBegins
<1>2. IndInv /\ F /\ [Next]_vars => F' BY <1>0, FrozenStays
<1>3. F => Q BY DEF Frozen
<1> HIDE DEF P, Q, F
<1>4. Spec => [](P => []Q) BY <1>1, <1>2, <1>3, Inductive, PTL DEF Spec
<1> QED BY <1>4 DEF P, Q
=============================================================================
