----------------------------- MODULE MCGateway ------------------------------
(* A small instance of Gateway for TLC. *)
EXTENDS Gateway, TLC

CONSTANTS v, a, s1

OneShard == (v :> s1) @@ (a :> s1)
OneValidator == v :> 1

Rates == [fast |-> 1, normal |-> 2, slow |-> 1]
Bursts == [fast |-> 4, normal |-> 2, slow |-> 2]
=============================================================================
