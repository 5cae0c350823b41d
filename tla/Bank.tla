-------------------------------- MODULE Bank --------------------------------
(***************************************************************************)
(* What the commit pipeline promises of Balances and NonceTable, and       *)
(* nothing of how it gets there: a bank that executes one signed transfer  *)
(* at a time, each with its sender's next nonce and paid for in full by    *)
(* what the sender owns at that moment, and that adds fees and rewards to  *)
(* accounts.  No mempool, no snapshot, no batch, no lock.  No sign is      *)
(* tested either: a negative amount debits the recipient, and the bank     *)
(* keeps a record of what negative numbers have taken from each account.   *)
(* That is the only thing that a transfer may lack: where nothing was      *)
(* taken, no balance falls below zero.                                     *)
(***************************************************************************)
EXTENDS Integers

CONSTANTS Accounts, Amounts, Fees, InitBalances

VARIABLES
  Balances, NonceTable,
  taken \* what negative numbers have taken from each account

vars == <<Balances, NonceTable, taken>>

Loss(n) == IF n < 0 THEN -n ELSE 0

Init ==
  /\ Balances = InitBalances
  /\ NonceTable = [a \in Accounts |-> 0]
  /\ taken = [a \in Accounts |-> Loss(InitBalances[a])]

\* The sender pays amount and fee, the recipient gets the amount; a transfer to
\* oneself costs the fee.
Execute(from, to, amount, fee) ==
  /\ Balances[from] + taken[from] >= amount + fee
  /\ Balances' = [[Balances EXCEPT ![from] = @ - (amount + fee)]
                            EXCEPT ![to] = @ + amount]
  /\ NonceTable' = [NonceTable EXCEPT ![from] = @ + 1]
  /\ taken' = [taken EXCEPT ![to] = @ + Loss(amount)]

\* A reward, the fees of a block, an airdrop, the shares of a slash: each adds its
\* amount to the account, and a negative one to the record.
Deposit ==
  /\ DOMAIN Balances' = Accounts /\ DOMAIN taken' = Accounts
  /\ \A a \in Accounts :
       taken'[a] = taken[a] + Loss(Balances'[a] - Balances[a])
  /\ UNCHANGED NonceTable

Next ==
  \/ \E from, to \in Accounts, amount \in Amounts, fee \in Fees :
       Execute(from, to, amount, fee)
  \/ Deposit

Spec == Init /\ [][Next]_vars
=============================================================================
