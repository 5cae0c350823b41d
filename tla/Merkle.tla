------------------------------- MODULE Merkle -------------------------------
(***************************************************************************)
(* ComputeMerkleRoot (ledger/block.go), and the tree whose root it should  *)
(* be.  A hash is a term: <<t>> for a transaction that prints as t, and    *)
(* <<l, r>> for a pair, so that different inputs have different hashes.    *)
(***************************************************************************)
EXTENDS Integers, Sequences

\* Hashed is tx.text, which stands for From, To, Amount, Nonce and Signature; the rest of
\* the transaction, Fee and PubKey, is not.
HashTransaction(tx) == <<tx.text>>
Hash(l, r) == <<l, r>>
NoRoot == << >>

\* A fault: an odd element at the end is forgotten.
NextLevelOfPairs(hashes) ==
  [i \in 1..(Len(hashes) \div 2) |-> Hash(hashes[2 * i - 1], hashes[2 * i])]

\* One pass over the hashes: neighbours in pairs, an odd one at the end with itself.
NextLevel(hashes) ==
  [i \in 1..((Len(hashes) + 1) \div 2) |->
     Hash(hashes[2 * i - 1],
          IF 2 * i <= Len(hashes) THEN hashes[2 * i] ELSE hashes[2 * i - 1])]

\* The hashes after n passes; a single hash stays.
Passes(txs) ==
  LET Pass[n \in 0..Len(txs)] ==
        IF n = 0 THEN [i \in 1..Len(txs) |-> HashTransaction(txs[i])]
        ELSE IF Len(Pass[n - 1]) > 1 THEN NextLevel(Pass[n - 1]) ELSE Pass[n - 1]
  IN  Pass

\* As many passes as it takes to leave one hash.
ComputeMerkleRoot(txs) ==
  IF txs = << >> THEN NoRoot ELSE Passes(txs)[Len(txs)][1]

-----------------------------------------------------------------------------
(* The reference: a complete binary tree over the transactions, from the   *)
(* root down.                                                              *)

\* The powers of two up to the n-th.
PowersOfTwo(n) ==
  LET Two[k \in 0..n] == IF k = 0 THEN 1 ELSE 2 * Two[k - 1]
  IN  Two

\* The least height at which a tree has room for n leaves.
Height(n) ==
  CHOOSE k \in 0..n :
    n <= PowersOfTwo(n)[k] /\ \A j \in 0..(k - 1) : PowersOfTwo(n)[j] < n

\* Tree[k][lo] is the tree of height k whose leaves begin with transaction lo; when
\* there are no leaves for its right half, that is a copy of the left one.
Trees(txs) ==
  LET n == Len(txs)
      Tree[k \in 0..n] ==
        [lo \in 1..n |->
           IF k = 0 THEN HashTransaction(txs[lo])
           ELSE LET mid == lo + PowersOfTwo(n)[k - 1]
                IN  Hash(Tree[k - 1][lo], Tree[k - 1][IF mid <= n THEN mid ELSE lo])]
  IN  Tree

TreeRoot(txs) == Trees(txs)[Height(Len(txs))][1]
=============================================================================
