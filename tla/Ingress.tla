------------------------------ MODULE Ingress -------------------------------
(***************************************************************************)
(* What the sharded ingress promises for each sender: transactions wait in *)
(* one queue, are taken from it in order, and the next one is not touched  *)
(* before the validation of the last one has ended.  Nothing relates two   *)
(* senders, and nothing says which transactions get into the queue.        *)
(***************************************************************************)
EXTENDS Sequences

CONSTANTS Senders, Tx

VARIABLES
  pending, \* what waits, per sender
  current  \* what is being validated, per sender

Init ==
  /\ pending = [s \in Senders |-> << >>]
  /\ current = [s \in Senders |-> {}]

Offer(s) ==
  /\ \E tx \in Tx : pending' = [pending EXCEPT ![s] = Append(@, tx)]
  /\ UNCHANGED current

Begin(s) ==
  /\ pending[s] # << >> /\ current[s] = {}
  /\ current' = [current EXCEPT ![s] = {Head(pending[s])}]
  /\ pending' = [pending EXCEPT ![s] = Tail(@)]

End(s) ==
  /\ current[s] # {}
  /\ current' = [current EXCEPT ![s] = {}]
  /\ UNCHANGED pending

Next == \E s \in Senders : Offer(s) \/ Begin(s) \/ End(s)

Spec == Init /\ [][Next]_<<pending, current>>
=============================================================================
