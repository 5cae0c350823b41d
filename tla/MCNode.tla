------------------------------- MODULE MCNode -------------------------------
(* Small instances of Node for TLC. *)
EXTENDS Node, TLC

CONSTANTS alice, val

\* alice can pay for two transfers.
AlicePays == (alice :> 4) @@ (val :> 0)

\* An airdrop that takes; the slashes give.
SomeAirdrops == {-2}
=============================================================================
