------------------------------ MODULE Gateway -------------------------------
(***************************************************************************)
(* How transactions enter a node (network/network.go).  Any number of      *)
(* goroutines call GatewayAcceptTx.  On a public node a call first takes a *)
(* token from the bucket of its lane, which callers of different weight    *)
(* share.  The transaction then goes to the queue of its sender's shard,   *)
(* unless that is full, and the one goroutine of the shard validates it.   *)
(*                                                                         *)
(* Time counts in ticks and tokens in parts.  Of a transaction only the    *)
(* sender, the fee and the number of the call matter here; what validation *)
(* makes of it is in module Ledger, and the shard ignores its result.      *)
(***************************************************************************)
EXTENDS Integers, Sequences, FiniteSets, SequencesExt

CONSTANTS
  Senders,
  Shards,
  ShardOf,         \* the shard of each sender (an FNV hash)
  Stake,           \* of the senders that are validators, in ten thousands
  Callers,         \* goroutines that call GatewayAcceptTx
  Fees,
  feeMid, feeHigh,
  Rate, Burst,     \* of each lane, in parts of a token
  Unit,            \* parts that make a token
  Capacity,        \* of a shard's queue
  MaxCalls,        \* bound: calls of GatewayAcceptTx
  MaxTime          \* bound: ticks

Lanes == {"fast", "normal", "slow"}
MaxWeight == 4

ASSUME GatewayAssumption ==
  /\ ShardOf \in [Senders -> Shards]
  /\ DOMAIN Stake \subseteq Senders /\ \A s \in DOMAIN Stake : Stake[s] \in Nat
  /\ Fees \subseteq Int /\ feeMid \in Nat /\ feeHigh \in Nat
  /\ Rate \in [Lanes -> Nat] /\ Burst \in [Lanes -> Nat]
  /\ Unit \in Nat \ {0} /\ Capacity \in Nat
  /\ MaxCalls \in Nat /\ MaxTime \in Nat

VARIABLES
  role,            \* currentRole: "public", or one that knows no lanes
  now,
  tokens, lastRef, \* the bucket of each lane
  shardCh,         \* the queue of each shard
  validating,      \* the transaction each shard is validating, if any
  ctx,             \* where each caller stands, and its transaction
  ingressAccepted, ingressDropped,
  calls,           \* calls so far
  admitted, refused, \* history: calls that each bucket let pass or turned away
  before,          \* history: calls that each bucket let pass before each tick
  validated        \* history: transactions whose validation has ended

bucket  == <<tokens, lastRef, admitted, refused, before>>
ingress == <<shardCh, validating, validated>>
stats   == <<ingressAccepted, ingressDropped>>
vars == <<role, now, bucket, ingress, ctx, stats, calls>>

Tx == [id: 1..MaxCalls, from: Senders, fee: Fees]
Places == {"idle", "allow", "refuse", "enqueue", "overflow", "accept"}
Idle == [at |-> "idle"]
Busy == [at: Places \ {"idle"}, tx: Tx]

Init ==
  /\ role \in {"public", "main"}
  /\ now = 0
  /\ tokens = Burst /\ lastRef = [l \in Lanes |-> 0]
  /\ shardCh = [sh \in Shards |-> << >>] /\ validating = [sh \in Shards |-> {}]
  /\ ctx = [c \in Callers |-> Idle]
  /\ ingressAccepted = 0 /\ ingressDropped = 0 /\ calls = 0
  /\ admitted = [l \in Lanes |-> 0] /\ refused = [l \in Lanes |-> 0]
  /\ before = [l \in Lanes |-> [t \in 0..0 |-> 0]]
  /\ validated = {}

-----------------------------------------------------------------------------
(* Lanes and buckets *)

Lesser(m, n) == IF m < n THEN m ELSE n

isValidator(s) == s \in DOMAIN Stake

laneFor(tx) ==
  IF isValidator(tx.from) \/ tx.fee >= feeHigh THEN "fast"
  ELSE IF tx.fee >= feeMid THEN "normal" ELSE "slow"

Weight(s) == IF isValidator(s) THEN Lesser(1 + Stake[s], MaxWeight) ELSE 1

\* The bucket as a call of weight w finds it: the call's weight scales both what has
\* flowed in since the last call and the cap.
Filled(l, w) == Lesser(tokens[l] + (now - lastRef[l]) * Rate[l] * w, Burst[l] * w)

Goto(c, place) == ctx' = [ctx EXCEPT ![c].at = place]
Return(c) == ctx' = [ctx EXCEPT ![c] = Idle]

\* GatewayAcceptTx: only a public node has lanes.
GatewayAcceptTx(c, s, fee) ==
  /\ ctx[c].at = "idle" /\ calls < MaxCalls
  /\ calls' = calls + 1
  /\ ctx' = [ctx EXCEPT ![c] =
       [at |-> IF role = "public" THEN "allow" ELSE "enqueue",
        tx |-> [id |-> calls + 1, from |-> s, fee |-> fee]]]
  /\ UNCHANGED <<role, now, bucket, ingress, stats>>

\* Faults: a call pays its weight, or only for what it weighs more than the lightest.
PriceByWeight(w) == Unit * w
PriceOfExtraWeight(w) == Unit * (w - 1)

\* Every call pays one token, whatever its weight.
Price(w) == Unit

\* A fault: a refused call leaves the time of the last refill as it was.
RefillTimeIfPassed(l, passes) == IF passes THEN now ELSE lastRef[l]

RefillTime(l, passes) == now

\* tokenBucket.allow, under the lock of the bucket.
allow(c) ==
  /\ ctx[c].at = "allow"
  /\ LET tx == ctx[c].tx
         l == laneFor(tx)
         w == Weight(tx.from)
         filled == Filled(l, w)
         passes == filled >= Unit
     IN  /\ lastRef' = [lastRef EXCEPT ![l] = RefillTime(l, passes)]
         /\ \/ /\ passes
               /\ tokens' = [tokens EXCEPT ![l] = filled - Price(w)]
               /\ admitted' = [admitted EXCEPT ![l] = @ + 1]
               /\ Goto(c, "enqueue") /\ UNCHANGED refused
            \/ /\ ~passes
               /\ tokens' = [tokens EXCEPT ![l] = filled]
               /\ refused' = [refused EXCEPT ![l] = @ + 1]
               /\ Goto(c, "refuse") /\ UNCHANGED admitted
  /\ UNCHANGED <<role, now, before, ingress, stats, calls>>

\* "rate limited" is counted and returned.
Refuse(c) ==
  /\ ctx[c].at = "refuse"
  /\ ingressDropped' = ingressDropped + 1
  /\ Return(c)
  /\ UNCHANGED <<role, now, bucket, ingress, ingressAccepted, calls>>

-----------------------------------------------------------------------------
(* Shards *)

\* A send that does not wait: a full queue loses the transaction.
enqueueShard(c) ==
  /\ ctx[c].at = "enqueue"
  /\ LET tx == ctx[c].tx
         sh == ShardOf[tx.from]
     IN  \/ /\ Len(shardCh[sh]) < Capacity
            /\ shardCh' = [shardCh EXCEPT ![sh] = Append(@, tx)]
            /\ Goto(c, "accept")
         \/ /\ Len(shardCh[sh]) >= Capacity
            /\ Goto(c, "overflow") /\ UNCHANGED shardCh
  /\ UNCHANGED <<role, now, bucket, validating, validated, stats, calls>>

\* A fault: a lost transaction is not counted.
OverflowUncounted(c) ==
  /\ ctx[c].at = "overflow"
  /\ Goto(c, "accept")
  /\ UNCHANGED <<role, now, bucket, ingress, stats, calls>>

Overflow(c) ==
  /\ ctx[c].at = "overflow"
  /\ ingressDropped' = ingressDropped + 1
  /\ Goto(c, "accept")
  /\ UNCHANGED <<role, now, bucket, ingress, ingressAccepted, calls>>

\* The call has succeeded, whether or not the queue was full.
Accept(c) ==
  /\ ctx[c].at = "accept"
  /\ ingressAccepted' = ingressAccepted + 1
  /\ Return(c)
  /\ UNCHANGED <<role, now, bucket, ingress, ingressDropped, calls>>

\* Faults: the shard starts a goroutine for each transaction, or takes them in pairs.
TakeTxSpawning(sh) ==
  /\ shardCh[sh] # << >>
  /\ shardCh' = [shardCh EXCEPT ![sh] = Tail(@)]
  /\ validating' = [validating EXCEPT ![sh] = @ \cup {Head(shardCh[sh])}]
  /\ UNCHANGED <<role, now, bucket, validated, ctx, stats, calls>>
TakeTxInPairs(sh) ==
  /\ validating[sh] = {} /\ Len(shardCh[sh]) > 1
  /\ shardCh' = [shardCh EXCEPT ![sh] = Tail(@)]
  /\ validating' = [validating EXCEPT ![sh] = {Head(shardCh[sh])}]
  /\ UNCHANGED <<role, now, bucket, validated, ctx, stats, calls>>

\* The goroutine of a shard: for tx := range in ...
TakeTx(sh) ==
  /\ validating[sh] = {} /\ shardCh[sh] # << >>
  /\ shardCh' = [shardCh EXCEPT ![sh] = Tail(@)]
  /\ validating' = [validating EXCEPT ![sh] = {Head(shardCh[sh])}]
  /\ UNCHANGED <<role, now, bucket, validated, ctx, stats, calls>>

\* ... ValidateAndAddToMempool(tx) returns.
EndValidation(sh) ==
  /\ \E tx \in validating[sh] :
       /\ validating' = [validating EXCEPT ![sh] = @ \ {tx}]
       /\ validated' = validated \cup {tx}
  /\ UNCHANGED <<role, now, bucket, shardCh, ctx, stats, calls>>

-----------------------------------------------------------------------------
Tick ==
  /\ now < MaxTime
  /\ now' = now + 1
  /\ before' = [l \in Lanes |->
       [t \in 0..(now + 1) |-> IF t <= now THEN before[l][t] ELSE admitted[l]]]
  /\ UNCHANGED <<role, tokens, lastRef, admitted, refused, ingress, ctx, stats, calls>>

CallerStep(c) ==
  \/ \E s \in Senders, fee \in Fees : GatewayAcceptTx(c, s, fee)
  \/ allow(c) \/ Refuse(c) \/ enqueueShard(c) \/ Overflow(c) \/ Accept(c)

ShardStep(sh) == TakeTx(sh) \/ EndValidation(sh)

Next ==
  \/ Tick
  \/ \E c \in Callers : CallerStep(c)
  \/ \E sh \in Shards : ShardStep(sh)

Spec == Init /\ [][Next]_vars

\* The goroutines of the shards range over their channels for ever.
FairSpec == Spec /\ \A sh \in Shards : WF_vars(ShardStep(sh))

-----------------------------------------------------------------------------
TypeOK ==
  /\ role \in {"public", "main"} /\ now \in Nat
  /\ tokens \in [Lanes -> Nat] /\ lastRef \in [Lanes -> Nat]
  /\ shardCh \in [Shards -> Seq(Tx)] /\ validating \in [Shards -> SUBSET Tx]
  /\ ctx \in [Callers -> {Idle} \cup Busy]
  /\ ingressAccepted \in Nat /\ ingressDropped \in Nat /\ calls \in Nat
  /\ admitted \in [Lanes -> Nat] /\ refused \in [Lanes -> Nat]
  /\ before \in [Lanes -> [0..now -> Nat]]
  /\ validated \in SUBSET Tx

-----------------------------------------------------------------------------
(* Rate limits *)

\* Only validators weigh more than one, and all of them are in the fast lane.
LaneWeight(l) == IF l = "fast" THEN MaxWeight ELSE 1

\* From any tick on, a lane lets no more calls pass than a full burst and what flows in
\* afterwards for the heaviest caller of the lane.  Callers that refill the shared bucket
\* by turns, each at its own weight, gain nothing, nor does a quiet time before.
RateIsBounded ==
  \A l \in Lanes : \A t \in 0..now :
    (admitted[l] - before[l][t]) * Unit
      <= (Burst[l] + (now - t) * Rate[l]) * LaneWeight(l)

\* A lane turns no call away before it has let a full burst pass, although every light
\* call cuts the shared bucket down to its own cap.
FullBurstFirst ==
  \A l \in Lanes : refused[l] > 0 => (admitted[l] + 1) * Unit > Burst[l]

-----------------------------------------------------------------------------
(* What becomes of a call *)

Queued == UNION {ToSet(shardCh[sh]) : sh \in Shards}
InValidation == UNION {validating[sh] : sh \in Shards}
HandedOver == Queued \cup InValidation \cup validated

Refusals == refused["fast"] + refused["normal"] + refused["slow"]

\* When nobody is inside GatewayAcceptTx, its two counters tell what became of every
\* call: "dropped" counts those that reached no shard; "accepted" counts all but the
\* refused ones, those that a full queue lost included.
EveryCallIsCounted ==
  (\A c \in Callers : ctx[c] = Idle) =>
    /\ ingressDropped = calls - Cardinality(HandedOver)
    /\ ingressAccepted = calls - Refusals

\* The transactions of s in the queue q, in their order.
FromSender(q, s) ==
  LET Of[n \in 0..Len(q)] ==
        IF n = 0 THEN << >>
        ELSE IF q[n].from = s THEN Append(Of[n - 1], q[n]) ELSE Of[n - 1]
  IN  Of[Len(q)]

\* "single-threaded per shard" (network.go:242): the shards are, for each sender, one
\* first-in first-out queue whose elements are validated one after the other.
PerSender == INSTANCE Ingress WITH
  pending <- [s \in Senders |-> FromSender(shardCh[ShardOf[s]], s)],
  current <- [s \in Senders |-> {tx \in InValidation : tx.from = s}]
RefinesIngress == PerSender!Spec

\* What is queued is validated in the end, however many calls follow it.
QueuedIsValidated ==
  \A i \in 1..MaxCalls :
    (\E tx \in Queued : tx.id = i) ~> (\E tx \in validated : tx.id = i)
=============================================================================
