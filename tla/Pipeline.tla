------------------------------ MODULE Pipeline -------------------------------
(***************************************************************************)
(* A transaction's whole way through a node: Gateway and Ledger composed.  *)
(* Some of the ledger's clients are the goroutines of the ingress shards.  *)
(* Such a client submits what it takes from its queue and nothing else     *)
(* (network.go:244), and its validation ends for the gateway when          *)
(* ValidateAndAddToMempool returns.  The other clients are commands of the *)
(* node itself, which build transactions and pass the gateway by           *)
(* (cli.go:149).  Every other step is a step of one side alone.            *)
(***************************************************************************)
EXTENDS Ledger

CONSTANTS
  Shards,     \* those of Clients that are ingress shards
  ShardOf, Stake, Callers, feeMid, feeHigh, Rate, Burst, Unit, Capacity,
  MaxCalls, MaxTime  \* as in Gateway

VARIABLES
  role, now, tokens, lastRef, shardCh, validating, caller, ingressAccepted,
  ingressDropped, calls, admitted, refused, before, validated, \* as in Gateway
  payload,  \* the transaction that each call carries
  log,      \* history: what each shard's queue has taken in, in order
  entered,  \* history: the positions of log that reached the mempool
  built     \* history: transactions built by the node's own commands

G == INSTANCE Gateway WITH Senders <- Accounts, ctx <- caller

ASSUME PipelineAssumption ==
  /\ Shards \subseteq Clients
  /\ DOMAIN Stake = Validators
  /\ G!GatewayAssumption

gateVars == <<role, now, tokens, lastRef, admitted, refused, before, shardCh,
              validating, validated, caller, ingressAccepted, ingressDropped, calls>>
history == <<payload, log, entered, built>>
flowVars == <<vars, gateVars, history>>

FlowInit ==
  /\ Init /\ G!Init
  /\ payload = << >>
  /\ log = [sh \in Shards |-> << >>]
  /\ entered = [sh \in Shards |-> {}]
  /\ built = {}

-----------------------------------------------------------------------------
(* Callers *)

Call(c, tx) ==
  /\ G!GatewayAcceptTx(c, tx.from, tx.fee)
  /\ payload' = Append(payload, tx)
  /\ UNCHANGED <<vars, log, entered, built>>

Enqueue(c) ==
  /\ G!enqueueShard(c)
  /\ LET tx == caller[c].tx
         sh == ShardOf[tx.from]
     IN  log' = IF caller'[c].at = "accept" THEN [log EXCEPT ![sh] = Append(@, tx)]
                ELSE log
  /\ UNCHANGED <<vars, payload, entered, built>>

CallerStep(c) ==
  \/ \E tx \in GatewayTxs : Call(c, tx)
  \/ Enqueue(c)
  \/ /\ G!allow(c) \/ G!Refuse(c) \/ G!Overflow(c) \/ G!Accept(c)
     /\ UNCHANGED <<vars, history>>

-----------------------------------------------------------------------------
(* Shards, and the commands of the node *)

\* How much of its queue a shard has taken.
Taken(sh) == Len(log[sh]) - Len(shardCh[sh])

\* The transaction at a position of a shard's log.
Logged(sh, i) == payload[log[sh][i].id]

Take(sh) ==
  /\ G!TakeTx(sh)
  /\ Submit(sh, payload[Head(shardCh[sh]).id])
  /\ UNCHANGED history

Validation(c) == CheckNonce(c) \/ CheckBalance(c) \/ AddToMempool(c)

Validate(sh) ==
  /\ Validation(sh)
  /\ \/ cpc'[sh] = "idle" /\ G!EndValidation(sh)
     \/ cpc'[sh] # "idle" /\ UNCHANGED gateVars
  /\ entered' = IF cpc[sh] = "append" THEN [entered EXCEPT ![sh] = @ \cup {Taken(sh)}]
                ELSE entered
  /\ UNCHANGED <<payload, log, built>>

Command(c) ==
  /\ \/ NewTransaction(c) /\ built' = built \cup {ctx'[c]}
     \/ Validation(c) /\ UNCHANGED built
  /\ UNCHANGED <<gateVars, payload, log, entered>>

-----------------------------------------------------------------------------
FlowNext ==
  \/ \E c \in Callers : CallerStep(c)
  \/ \E sh \in Shards : Take(sh) \/ Validate(sh)
  \/ \E c \in Clients \ Shards : Command(c)
  \/ /\ \/ \E k \in Committers : CommitStep(k)
        \/ \E to \in Accounts, amount \in Airdrops : Airdrop(to, amount)
     /\ UNCHANGED <<gateVars, history>>
  \/ G!Tick /\ UNCHANGED <<vars, history>>

FlowSpec == FlowInit /\ [][FlowNext]_flowVars

-----------------------------------------------------------------------------
(* From one end to the other *)

\* Every execution costs a call of its own: what the chain has executed of a lane is
\* limited by the rate of the lane's bucket, but for transactions that the node's own
\* commands have built.  A call is never executed twice, and a transaction that was
\* handed in twice, replayed or lost on the way never counts for another.
ChainIsRateLimited ==
  role = "public" =>
    \A l \in G!Lanes :
      Cardinality({p \in Places : G!laneFor(At(p)) = l}) * Unit
        <= (Burst[l] + now * Rate[l]) * G!LaneWeight(l)
             + Cardinality({tx \in built : G!laneFor(tx) = l}) * Unit

\* Of two transactions of one sender that came through the gateway, the one that the
\* chain executes first was queued first, whatever the order in which partitions are
\* sorted and merged.
ExecutedInQueueOrder ==
  \A p, q \in Places :
    LET sh == ShardOf[At(p).from]
    IN  /\ At(p).from = At(q).from /\ At(p) \notin built /\ At(q) \notin built
        /\ p[1] < q[1] \/ (p[1] = q[1] /\ p[2] < q[2])
        => \E i, j \in entered[sh] :
             i < j /\ Logged(sh, i) = At(p) /\ Logged(sh, j) = At(q)
=============================================================================
