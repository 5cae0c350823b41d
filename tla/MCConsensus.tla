---------------------------- MODULE MCConsensus ----------------------------
(* Small instances of Consensus for TLC. *)
EXTENDS Consensus, TLC

CONSTANTS v1, v2, v3, ann

ThreeValidators == <<v1, v2, v3>>

\* Two rejections drain v1, one drains each of the others.
SmallStakes == (v1 :> 20) @@ (v2 :> 10) @@ (v3 :> 7)

TwoValidators == <<v1, v2>>
TwoStakes == (v1 :> 20) @@ (v2 :> 7)
=============================================================================
