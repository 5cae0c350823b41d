------------------------------ MODULE MCPeers -------------------------------
(* A small instance of Peers for TLC. *)
EXTENDS Peers

CONSTANTS r, q, t1, t2
=============================================================================
