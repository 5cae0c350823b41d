----------------------------- MODULE MCPipeline -----------------------------
(* A small instance of Pipeline for TLC. *)
EXTENDS Pipeline, TLC

CONSTANTS alice, val, s1

Rich == (alice :> 6) @@ (val :> 0)
OneShard == (alice :> s1) @@ (val :> s1)
OneValidator == val :> 1
Rates == [fast |-> 1, normal |-> 1, slow |-> 2]
Bursts == [fast |-> 2, normal |-> 2, slow |-> 2]

\* Transactions that reach the gateway in any order and any number of times.
Signed == {[from |-> alice, to |-> val, amount |-> 2, fee |-> 1, nonce |-> n,
            sig |-> "valid"] : n \in 1..2}
=============================================================================
