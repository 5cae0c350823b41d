------------------------------ MODULE MCLedger ------------------------------
(* Small instances of Ledger for TLC. *)
EXTENDS LedgerInv, TLC

CONSTANTS alice, val

\* alice owns the price of two transfers exactly.
AliceRich == (alice :> 6) @@ (val :> 0)
\* One transfer, not two.
AlicePoor == (alice :> 5) @@ (val :> 0)

Foreign(a, b, n, s) ==
  [from |-> a, to |-> b, amount |-> 2, fee |-> 1, nonce |-> n, sig |-> s]

\* Transactions made by other processes: signed against an older nonce table,
\* ahead of it, resubmitted, or damaged on the way.
Copies == {Foreign(alice, val, n, "valid") : n \in 1..2}
            \cup {Foreign(alice, val, 1, "invalid")}

\* A negative amount, which debits its recipient, with a negative fee, which debits
\* the proposer of its block by more than the reward.
Negative ==
  [from |-> val, to |-> alice, amount |-> -3, fee |-> -6, nonce |-> 1, sig |-> "valid"]

MCGatewayTxs == Copies \cup {Negative}

\* What transactions carry, and an airdrop that takes.
MCAmounts == {2, -3}
MCFees == {1, -6}
MinusOne == {-1}

Symmetry == Permutations(Clients) \cup Permutations(Committers)
=============================================================================
