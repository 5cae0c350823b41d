----------------------------- MODULE LedgerInv -----------------------------
(***************************************************************************)
(* The inductive invariant of Ledger: why a batch that was executed        *)
(* against snapshots may be committed later, one transfer at a time,       *)
(* without testing anything again.                                         *)
(***************************************************************************)
EXTENDS Ledger

Busy(k) == kpc[k] # "idle"

\* The flag admits one committer, and the write locks are held exactly while one
\* runs the commit loop.
Exclusive ==
  /\ \A j, k \in Committers : Busy(j) /\ Busy(k) => j = k
  /\ committing = 0 => \A k \in Committers : ~Busy(k)
  /\ stateLocked <=> \E k \in Committers : kpc[k] = "commit"

\* What the locals of CommitBlock hold at each place.
LocalsOK(k) ==
  /\ kpc[k] \notin {"idle", "begin", "select"} => proposer[k] \in Validators
  /\ kpc[k] # "exec" => todo[k] = << >>
  /\ kpc[k] \in {"idle", "begin", "select", "vote", "snapshot", "nonces", "balances"}
       => final[k] = << >>
  /\ kpc[k] \notin {"commit", "reward", "save", "remove"} => next[k] = 1
  /\ kpc[k] \in {"balances", "exec"} => nonceSnap[k] = NonceTable
  /\ kpc[k] = "exec" => /\ balSnap[k] \in [Accounts -> Int]
                        /\ \A a \in Accounts : balSnap[k][a] <= Worth(a)

SameSender(e, i, j) == e[i].tx.from = e[j].tx.from

\* The entries of a batch are signed and paid for, and those of one sender ascend in
\* nonce.
Batch(e) ==
  /\ \A i \in DOMAIN e : VerifyTransaction(e[i].tx) /\ e[i].left >= 0
  /\ \A i, j \in DOMAIN e : i < j /\ SameSender(e, i, j) => e[i].tx.nonce < e[j].tx.nonce

\* Entry i has its sender's next nonce and can be paid out of what the sender is worth;
\* or it follows the entry j in nonce and is paid out of what that one left.
PaidNow(e, i) ==
  /\ e[i].tx.nonce = NonceTable[e[i].tx.from] + 1
  /\ e[i].left + Cost(e[i].tx) <= Worth(e[i].tx.from)
Follows(e, i, j) ==
  /\ SameSender(e, i, j)
  /\ e[i].tx.nonce = e[j].tx.nonce + 1
  /\ e[i].left + Cost(e[i].tx) <= e[j].left

\* The entries from position lo on can be committed now, one after the other.
Payable(e, lo) ==
  \A i \in DOMAIN e : i >= lo => PaidNow(e, i) \/ \E j \in lo..(i - 1) : Follows(e, i, j)

\* The worker's loop over the partition of one sender.
Worker(k) ==
  /\ \A i \in DOMAIN final[k] : final[k][i].tx.from \notin jobs[k]
  /\ \A n \in DOMAIN todo[k] :
       LET s == todo[k][n].from
       IN  /\ s = todo[k][1].from
           /\ s \notin jobs[k]
           /\ \A i \in DOMAIN final[k] :
                final[k][i].tx.from = s => final[k][i].tx.nonce <= localNonce[k]
           /\ \/ localNonce[k] = nonceSnap[k][s] /\ localBal[k] <= balSnap[k][s]
              \/ \E i \in DOMAIN final[k] :
                   /\ final[k][i].tx.from = s /\ final[k][i].tx.nonce = localNonce[k]
                   /\ localBal[k] <= final[k][i].left

BatchOK(k) ==
  /\ kpc[k] \in {"exec", "lock", "commit"} =>
       /\ Batch(final[k])
       /\ Payable(final[k], next[k])
  /\ kpc[k] = "exec" => Worker(k)

IndInv ==
  /\ TypeOK
  /\ Exclusive
  /\ NeverOverspent
  /\ \A k \in Committers : LocalsOK(k) /\ BatchOK(k)

-----------------------------------------------------------------------------
(* Where the money is while a commit is half done *)

\* The fees of the first n entries of a batch.
FeesUpTo(e, n) == SumFunction([i \in 1..n |-> e[i].tx.fee])

\* What the accounts own when nothing is under way.
Minted ==
  SumFunction(InitBalances) + SumFunction(credited)
    + BlockReward * Cardinality({b \in DOMAIN Blockchain : b > 1})

\* What the accounts lack while k commits: the fees that the commit loop has taken,
\* and from the append of the block on its reward too.
Owed(k) ==
  CASE kpc[k] = "commit" -> FeesUpTo(final[k], next[k] - 1)
    [] kpc[k] = "block"  -> FeesUpTo(final[k], Len(final[k]))
    [] kpc[k] = "reward" -> FeesUpTo(final[k], Len(final[k])) + BlockReward
    [] OTHER -> 0

\* The loops of CommitBlock do not run past the batch, and "fees" adds up the fees of
\* the entries that the last of them has passed.
LoopOK(k) ==
  /\ kpc[k] \in {"commit", "reward"} => next[k] - 1 <= Len(final[k])
  /\ kpc[k] = "reward" => fees[k] = FeesUpTo(final[k], next[k] - 1)
  /\ kpc[k] \notin {"reward", "save", "remove"} => fees[k] = 0

\* The inductive form of Conservation: it says of every place of CommitBlock what is
\* missing.
Books ==
  /\ (\A k \in Committers : ~Busy(k)) => SumFunction(Balances) = Minted
  /\ \A k \in Committers :
       /\ LoopOK(k)
       /\ Busy(k) => SumFunction(Balances) + Owed(k) = Minted
=============================================================================
