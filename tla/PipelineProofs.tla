--------------------------- MODULE PipelineProofs ---------------------------
(***************************************************************************)
(* Proofs about a transaction's whole way through a node.  Every behaviour *)
(* of Pipeline is one of Gateway and one of Ledger, so that what is proved *)
(* about either holds here; the invariants of this module say how the two  *)
(* sides hang together.                                                    *)
(***************************************************************************)
EXTENDS Pipeline, LedgerProofs

GP == INSTANCE GatewayProofs WITH Senders <- Accounts, ctx <- caller

-----------------------------------------------------------------------------
(* The gateway's part *)

LEMMA GatewayTx ==
  ASSUME NEW tx \in GatewayTxs
  PROVE  tx \in Tx /\ tx.from \in Accounts /\ tx.fee \in Fees
BY GatewayAssumption DEF Tx

LEMMA InitIsGateway == FlowInit => GP!Init
BY DEF FlowInit, G!Init, GP!Init, G!Lanes, GP!Lanes, G!Idle, GP!Idle

LEMMA CallIsGateway ==
  ASSUME NEW c \in Callers, CallerStep(c)
  PROVE  GP!CallerStep(c)
<1>1. ASSUME NEW tx \in GatewayTxs, Call(c, tx) PROVE GP!CallerStep(c)
  <2>1. GP!GatewayAcceptTx(c, tx.from, tx.fee)
    BY <1>1 DEF Call, G!GatewayAcceptTx, GP!GatewayAcceptTx, G!bucket, GP!bucket,
       G!ingress, GP!ingress, G!stats, GP!stats
  <2> QED BY <2>1, GatewayTx DEF GP!CallerStep
<1>2. CASE Enqueue(c)
  <2>1. GP!enqueueShard(c)
    BY <1>2 DEF Enqueue, G!enqueueShard, GP!enqueueShard, G!bucket, GP!bucket,
       G!stats, GP!stats, G!Goto, GP!Goto
  <2> QED BY <2>1 DEF GP!CallerStep
<1>3. CASE G!allow(c)
  <2>1. GP!allow(c)
    BY <1>3 DEF G!allow, GP!allow, G!laneFor, GP!laneFor, G!Weight, GP!Weight,
       G!Filled, GP!Filled, G!RefillTime, GP!RefillTime, G!Price, GP!Price,
       G!Goto, GP!Goto, G!ingress, GP!ingress, G!stats, GP!stats,
       G!isValidator, GP!isValidator, G!Lesser, GP!Lesser, G!MaxWeight, GP!MaxWeight
  <2> QED BY <2>1 DEF GP!CallerStep
<1>4. CASE G!Refuse(c) \/ G!Overflow(c) \/ G!Accept(c)
  <2>1. GP!Refuse(c) \/ GP!Overflow(c) \/ GP!Accept(c)
    BY <1>4 DEF G!Refuse, GP!Refuse, G!Overflow, GP!Overflow, G!Accept, GP!Accept,
       G!Return, GP!Return, G!Goto, GP!Goto, G!Idle, GP!Idle,
       G!bucket, GP!bucket, G!ingress, GP!ingress
  <2> QED BY <2>1 DEF GP!CallerStep
<1> QED BY <1>1, <1>2, <1>3, <1>4 DEF CallerStep

LEMMA SameGateway == UNCHANGED gateVars => UNCHANGED GP!vars
BY DEF gateVars, GP!vars, GP!bucket, GP!ingress, GP!stats

LEMMA ShardIsGateway ==
  ASSUME NEW sh \in Shards, Take(sh) \/ Validate(sh)
  PROVE  GP!ShardStep(sh) \/ UNCHANGED gateVars
<1>1. CASE Take(sh)
  BY <1>1 DEF Take, GP!ShardStep, G!TakeTx, GP!TakeTx, G!bucket, GP!bucket, G!stats, GP!stats
<1>2. CASE Validate(sh)
  BY <1>2 DEF Validate, GP!ShardStep, G!EndValidation, GP!EndValidation, G!bucket,
     GP!bucket, G!stats, GP!stats
<1> QED BY <1>1, <1>2

LEMMA StepIsGateway == [FlowNext]_flowVars => [GP!Next]_(GP!vars)
<1> SUFFICES ASSUME [FlowNext]_flowVars PROVE [GP!Next]_(GP!vars)
  OBVIOUS
<1>1. ASSUME NEW c \in Callers, CallerStep(c) PROVE GP!Next
  BY <1>1, CallIsGateway DEF GP!Next
<1>2. ASSUME NEW sh \in Shards, Take(sh) \/ Validate(sh)
      PROVE  GP!Next \/ UNCHANGED gateVars
  BY <1>2, ShardIsGateway DEF GP!Next
<1>3. ASSUME G!Tick PROVE GP!Next
  <2>1. GP!Tick
    BY <1>3 DEF G!Tick, GP!Tick, G!ingress, GP!ingress, G!stats, GP!stats, G!Lanes, GP!Lanes
  <2> QED BY <2>1 DEF GP!Next
<1>4. ASSUME NEW c \in Clients \ Shards, Command(c) PROVE UNCHANGED gateVars
  BY <1>4 DEF Command
<1>5. ASSUME UNCHANGED flowVars PROVE UNCHANGED gateVars BY <1>5 DEF flowVars, gateVars
<1>6. GP!Next \/ UNCHANGED gateVars BY <1>1, <1>2, <1>3, <1>4, <1>5 DEF FlowNext
<1> QED BY <1>6, SameGateway

\* Every behaviour of the composition is one of the gateway alone.
THEOREM FlowIsGateway == FlowSpec => GP!Spec
BY InitIsGateway, StepIsGateway, PTL DEF FlowSpec, GP!Spec

-----------------------------------------------------------------------------
(* The queues *)

GTx == [id: 1..MaxCalls, from: Accounts, fee: Fees]

LEMMA GatewayTypes ==
  ASSUME GP!Typed
  PROVE  /\ shardCh \in [Shards -> Seq(GTx)] /\ validating \in [Shards -> SUBSET GTx]
         /\ validated \in SUBSET GTx /\ calls \in Nat /\ DOMAIN caller = Callers
         /\ \A c \in Callers : caller[c].at # "idle" =>
              caller[c].tx \in GTx /\ DOMAIN caller[c] = {"at", "tx"}
<1>1. /\ shardCh \in [Shards -> Seq(GTx)] /\ validating \in [Shards -> SUBSET GTx]
      /\ validated \in SUBSET GTx /\ calls \in Nat
  BY DEF GP!Typed, GP!TypeOK, GP!Tx, GTx
<1>2. caller \in [Callers -> {GP!Idle} \cup GP!Busy] BY DEF GP!Typed, GP!TypeOK
<1>3. ASSUME NEW c \in Callers, caller[c].at # "idle"
      PROVE  caller[c].tx \in GTx /\ DOMAIN caller[c] = {"at", "tx"}
  <2>1. caller[c] \in GP!Busy BY <1>2, <1>3 DEF GP!Idle
  <2> QED BY <2>1 DEF GP!Busy, GP!Tx, GTx
<1> QED BY <1>1, <1>2, <1>3

\* A transaction that the gateway handles is the one that its call carries.
Carries(p, g) ==
  g.id \in 1..Len(p) /\ p[g.id].from = g.from /\ p[g.id].fee = g.fee

\* What a shard still has to take is the end of what its queue has taken in.
Suffix(sh) ==
  /\ Len(shardCh[sh]) <= Len(log[sh])
  /\ \A i \in 1..Len(shardCh[sh]) : shardCh[sh][i] = log[sh][Taken(sh) + i]

LogInv(sh) ==
  \A i \in 1..Len(log[sh]) : Carries(payload, log[sh][i]) /\ ShardOf[log[sh][i].from] = sh

QueueInv ==
  /\ payload \in Seq(GatewayTxs) /\ Len(payload) = calls
  /\ \A c \in Callers : caller[c].at # "idle" => Carries(payload, caller[c].tx)
  /\ log \in [Shards -> Seq(GTx)]
  /\ \A sh \in Shards : LogInv(sh) /\ Suffix(sh)

LEMMA InitQueue == FlowInit => QueueInv
<1> SUFFICES ASSUME FlowInit PROVE QueueInv OBVIOUS
<1>1. /\ payload = << >> /\ calls = 0 /\ \A c \in Callers : caller[c].at = "idle"
      /\ \A sh \in Shards : shardCh[sh] = << >> /\ log[sh] = << >>
      /\ log = [sh \in Shards |-> << >>]
  BY DEF FlowInit, G!Init, G!Idle
<1> QED BY <1>1 DEF QueueInv, LogInv, Suffix

\* Callers go from place to place with what they carry.
LEMMA CallerMoves ==
  ASSUME GP!Typed, NEW c \in Callers, caller[c].at # "idle", NEW place,
         G!Goto(c, place) \/ G!Return(c)
  PROVE  \A d \in Callers : caller'[d].at # "idle" =>
           caller[d].at # "idle" /\ caller'[d].tx = caller[d].tx
<1>1. DOMAIN caller = Callers /\ DOMAIN caller[c] = {"at", "tx"} BY GatewayTypes
<1>2. CASE G!Goto(c, place) BY <1>1, <1>2 DEF G!Goto
<1>3. CASE G!Return(c) BY <1>1, <1>3 DEF G!Return, G!Idle
<1> QED BY <1>2, <1>3

\* A step that leaves the queues alone.
LEMMA QueuesStay ==
  ASSUME QueueInv, UNCHANGED <<payload, calls, log, shardCh>>,
         \A d \in Callers : caller'[d].at # "idle" =>
           caller[d].at # "idle" /\ caller'[d].tx = caller[d].tx
  PROVE  QueueInv'
<1>1. payload' = payload /\ calls' = calls /\ log' = log /\ shardCh' = shardCh OBVIOUS
<1>2. \A d \in Callers : caller'[d].at # "idle" => Carries(payload', caller'[d].tx)
  BY <1>1 DEF QueueInv
<1>3. ASSUME NEW sh \in Shards PROVE LogInv(sh)' /\ Suffix(sh)'
  <2>1. LogInv(sh) /\ Suffix(sh) BY DEF QueueInv
  <2>2. LogInv(sh)' BY <1>1, <2>1 DEF LogInv, Carries
  <2>3. Suffix(sh)' BY <1>1, <2>1 DEF Suffix, Taken
  <2> QED BY <2>2, <2>3
<1> QED BY <1>1, <1>2, <1>3 DEF QueueInv

LEMMA CallKeepsQueue ==
  ASSUME GP!Typed, QueueInv, NEW c \in Callers, NEW tx \in GatewayTxs, Call(c, tx)
  PROVE  QueueInv'
<1> DEFINE g == [id |-> calls + 1, from |-> tx.from, fee |-> tx.fee]
           v == [at |-> IF role = "public" THEN "allow" ELSE "enqueue", tx |-> g]
<1>1. /\ caller' = [caller EXCEPT ![c] = v] /\ calls' = calls + 1
      /\ payload' = Append(payload, tx) /\ UNCHANGED <<log, shardCh>>
  BY DEF Call, G!GatewayAcceptTx, G!ingress
<1>2. /\ payload \in Seq(GatewayTxs) /\ Len(payload) = calls /\ calls \in Nat
      /\ DOMAIN caller = Callers
  BY GatewayTypes DEF QueueInv
<1>3. /\ payload' \in Seq(GatewayTxs) /\ Len(payload') = calls + 1
      /\ payload'[calls + 1] = tx /\ \A i \in 1..calls : payload'[i] = payload[i]
  BY <1>1, <1>2
<1>4. \A h : Carries(payload, h) => Carries(payload', h) BY <1>2, <1>3 DEF Carries
<1>5. v.tx = g /\ g.id = calls + 1 /\ g.from = tx.from /\ g.fee = tx.fee OBVIOUS
<1> HIDE DEF v, g
<1>6. Carries(payload', g) BY <1>2, <1>3, <1>5 DEF Carries
<1>7. \A d \in Callers : caller'[d] = IF d = c THEN v ELSE caller[d] BY <1>1, <1>2
<1>8. \A d \in Callers : caller'[d].at # "idle" => Carries(payload', caller'[d].tx)
  BY <1>4, <1>5, <1>6, <1>7 DEF QueueInv
<1>9. ASSUME NEW sh \in Shards PROVE LogInv(sh)' /\ Suffix(sh)'
  <2>1. LogInv(sh) /\ Suffix(sh) BY DEF QueueInv
  <2>2. log' = log BY <1>1
  <2>3. \A i \in 1..Len(log[sh]) :
          Carries(payload', log[sh][i]) /\ ShardOf[log[sh][i].from] = sh
    BY <1>4, <2>1 DEF LogInv
  <2>4. LogInv(sh)' BY <2>2, <2>3 DEF LogInv
  <2>5. Suffix(sh)' BY <1>1, <2>1 DEF Suffix, Taken
  <2> QED BY <2>4, <2>5
<1> QED BY <1>1, <1>3, <1>8, <1>9 DEF QueueInv

\* What a queue takes in, its log takes in.
LEMMA EnqueueKeepsQueue ==
  ASSUME GP!Typed, QueueInv, NEW c \in Callers, Enqueue(c)
  PROVE  QueueInv'
<1> DEFINE g == caller[c].tx  sh == ShardOf[g.from]
<1>1. /\ caller[c].at = "enqueue" /\ UNCHANGED <<payload, calls>>
      /\ \/ G!Goto(c, "accept") /\ shardCh' = [shardCh EXCEPT ![sh] = Append(@, g)]
         \/ G!Goto(c, "overflow") /\ UNCHANGED shardCh
      /\ log' = IF caller'[c].at = "accept" THEN [log EXCEPT ![sh] = Append(@, g)] ELSE log
  BY DEF Enqueue, G!enqueueShard
<1>2. g \in GTx /\ Carries(payload, g) /\ DOMAIN caller = Callers /\ DOMAIN caller[c] = {"at", "tx"}
  BY <1>1, GatewayTypes DEF QueueInv
<1>3. sh \in Shards BY <1>2, PipelineAssumption DEF G!GatewayAssumption, GTx
<1>4. \A d \in Callers : caller'[d].at # "idle" =>
        caller[d].at # "idle" /\ caller'[d].tx = caller[d].tx
  <2>1. caller[c].at # "idle" BY <1>1
  <2> HIDE DEF g, sh
  <2> QED BY <1>1, <2>1, CallerMoves
<1>5. CASE G!Goto(c, "overflow") /\ UNCHANGED shardCh
  <2>1. caller'[c].at = "overflow" BY <1>2, <1>5 DEF G!Goto
  <2> HIDE DEF g, sh
  <2>2. log' = log BY <1>1, <2>1
  <2> QED BY <1>1, <1>4, <1>5, <2>2, QueuesStay
<1>6. CASE G!Goto(c, "accept") /\ shardCh' = [shardCh EXCEPT ![sh] = Append(@, g)]
  <2>1. caller'[c].at = "accept" BY <1>2, <1>6 DEF G!Goto
  <2> HIDE DEF g, sh
  <2>2. log' = [log EXCEPT ![sh] = Append(@, g)] BY <1>1, <2>1
  <2>3. log \in [Shards -> Seq(GTx)] /\ shardCh \in [Shards -> Seq(GTx)]
    BY GatewayTypes DEF QueueInv
  <2>4. log' \in [Shards -> Seq(GTx)] BY <1>2, <1>3, <2>2, <2>3
  <2>5. ASSUME NEW r \in Shards PROVE LogInv(r)' /\ Suffix(r)'
    <3>1. LogInv(r) /\ Suffix(r) BY DEF QueueInv
    <3>2. CASE r # sh
      <4>1. log'[r] = log[r] /\ shardCh'[r] = shardCh[r] BY <1>3, <1>6, <2>2, <2>3, <3>2
      <4> QED BY <1>1, <3>1, <4>1 DEF LogInv, Suffix, Taken
    <3>3. CASE r = sh
      <4> DEFINE q == shardCh[sh]  m == log[sh]  q1 == shardCh'[sh]  m1 == log'[sh]
      <4>1. q1 = Append(q, g) /\ m1 = Append(m, g) /\ q \in Seq(GTx) /\ m \in Seq(GTx)
        BY <1>3, <1>6, <2>2, <2>3
      <4>2. /\ Len(q) \in Nat /\ Len(m) \in Nat
            /\ Len(q1) = Len(q) + 1 /\ q1[Len(q) + 1] = g
            /\ \A i \in 1..Len(q) : q1[i] = q[i]
            /\ Len(m1) = Len(m) + 1 /\ m1[Len(m) + 1] = g
            /\ \A i \in 1..Len(m) : m1[i] = m[i]
        BY <4>1
      <4>3. /\ Len(q) <= Len(m)
            /\ \A i \in 1..Len(q) : q[i] = m[Len(m) - Len(q) + i]
            /\ \A i \in 1..Len(m) : Carries(payload, m[i]) /\ ShardOf[m[i].from] = sh
        BY <3>1, <3>3 DEF LogInv, Suffix, Taken
      <4> HIDE DEF q, m, q1, m1
      <4>4. /\ Len(q1) <= Len(m1)
            /\ \A i \in 1..Len(q1) : q1[i] = m1[Len(m1) - Len(q1) + i]
        <5> DEFINE d == Len(m) - Len(q)
        <5>1. d \in Nat /\ Len(m1) - Len(q1) = d /\ Len(q1) <= Len(m1) BY <4>2, <4>3
        <5>2. d + (Len(q) + 1) = Len(m) + 1 BY <4>2
        <5>3. \A i \in 1..Len(q) : d + i \in 1..Len(m) /\ q[i] = m[d + i] BY <4>2, <4>3, <5>1
        <5> HIDE DEF d
        <5>4. ASSUME NEW i \in 1..Len(q1) PROVE q1[i] = m1[d + i]
          <6>1. CASE i \in 1..Len(q) BY <4>2, <5>3, <6>1
          <6>2. CASE i = Len(q) + 1 BY <4>2, <5>2, <6>2
          <6> QED BY <4>2, <6>1, <6>2
        <5> QED BY <5>1, <5>4
      <4>5. \A i \in 1..Len(m1) : Carries(payload, m1[i]) /\ ShardOf[m1[i].from] = sh
        BY <1>2, <4>2, <4>3 DEF sh
      <4> QED BY <1>1, <3>3, <4>4, <4>5 DEF LogInv, Suffix, Taken, q1, m1
    <3> QED BY <3>2, <3>3
  <2>6. \A d \in Callers : caller'[d].at # "idle" => Carries(payload', caller'[d].tx)
    BY <1>1, <1>4 DEF QueueInv
  <2> QED BY <1>1, <2>4, <2>5, <2>6 DEF QueueInv
<1> QED BY <1>1, <1>5, <1>6

LEMMA TakeKeepsQueue ==
  ASSUME GP!Typed, QueueInv, NEW sh \in Shards, Take(sh)
  PROVE  /\ QueueInv'
         /\ Taken(sh) \in Nat /\ Taken(sh)' = Taken(sh) + 1
         /\ Taken(sh)' <= Len(log[sh]) /\ Head(shardCh[sh]) = log[sh][Taken(sh)']
         /\ \A r \in Shards \ {sh} : Taken(r)' = Taken(r)
<1>1. /\ shardCh[sh] # << >> /\ shardCh' = [shardCh EXCEPT ![sh] = Tail(shardCh[sh])]
      /\ UNCHANGED <<payload, calls, log, caller>>
  BY DEF Take, G!TakeTx, history
<1>2. log \in [Shards -> Seq(GTx)] /\ shardCh \in [Shards -> Seq(GTx)]
  BY GatewayTypes DEF QueueInv
<1>3. \A r \in Shards \ {sh} : shardCh'[r] = shardCh[r] BY <1>1, <1>2
<1>4. \A r \in Shards \ {sh} : Taken(r)' = Taken(r) BY <1>1, <1>3 DEF Taken
<1> DEFINE q == shardCh[sh]  m == log[sh]  q1 == shardCh'[sh]
<1>5. q1 = Tail(q) /\ q \in Seq(GTx) /\ m \in Seq(GTx) /\ q # << >> BY <1>1, <1>2
<1>6. /\ Len(q) \in Nat /\ Len(q) > 0 /\ Len(m) \in Nat /\ Len(q1) = Len(q) - 1
      /\ \A i \in 1..Len(q1) : q1[i] = q[i + 1]
      /\ Head(q) = q[1]
  BY <1>5
<1>7. Len(q) <= Len(m) /\ \A i \in 1..Len(q) : q[i] = m[Len(m) - Len(q) + i]
  BY DEF QueueInv, Suffix, Taken
<1>8. /\ Taken(sh) = Len(m) - Len(q)
      /\ Taken(sh)' = Len(m) - Len(q1)
  BY <1>1 DEF Taken
<1> HIDE DEF q, m, q1
<1>9. /\ Len(q1) <= Len(m)
      /\ \A i \in 1..Len(q1) : q1[i] = m[Len(m) - Len(q1) + i]
  BY <1>6, <1>7
<1>10. /\ Taken(sh) \in Nat /\ Taken(sh)' = Taken(sh) + 1
       /\ Taken(sh)' <= Len(m) /\ Head(q) = m[Taken(sh)']
  BY <1>6, <1>7, <1>8
<1>11. ASSUME NEW r \in Shards PROVE LogInv(r)' /\ Suffix(r)'
  <2>1. LogInv(r) /\ Suffix(r) BY DEF QueueInv
  <2>2. LogInv(r)' BY <1>1, <2>1 DEF LogInv
  <2>3. CASE r # sh BY <1>1, <1>3, <2>1, <2>2, <2>3 DEF Suffix, Taken
  <2>4. CASE r = sh
    BY <1>1, <1>8, <1>9, <2>2, <2>4 DEF Suffix, q1, m
  <2> QED BY <2>3, <2>4
<1>12. QueueInv' BY <1>1, <1>11 DEF QueueInv
<1> QED BY <1>4, <1>10, <1>12 DEF q, m

\* The steps that neither a caller nor a queue takes part in.
LEMMA OtherFlowSteps ==
  ASSUME [FlowNext]_flowVars
  PROVE  \/ \E c \in Callers : CallerStep(c)
         \/ \E sh \in Shards : Take(sh)
         \/ UNCHANGED <<payload, calls, log, shardCh, caller>>
<1>1. ASSUME NEW sh \in Shards, Validate(sh)
      PROVE  UNCHANGED <<payload, calls, log, shardCh, caller>>
  BY <1>1 DEF Validate, G!EndValidation, gateVars
<1>2. ASSUME NEW c \in Clients \ Shards, Command(c)
      PROVE  UNCHANGED <<payload, calls, log, shardCh, caller>>
  BY <1>2 DEF Command, gateVars
<1>3. ASSUME G!Tick /\ UNCHANGED <<vars, history>>
      PROVE  UNCHANGED <<payload, calls, log, shardCh, caller>>
  BY <1>3 DEF G!Tick, G!ingress, history
<1>4. ASSUME UNCHANGED <<gateVars, history>>
      PROVE  UNCHANGED <<payload, calls, log, shardCh, caller>>
  BY <1>4 DEF gateVars, history
<1>5. ASSUME UNCHANGED flowVars PROVE UNCHANGED <<gateVars, history>>
  BY <1>5 DEF flowVars
<1> QED BY <1>1, <1>2, <1>3, <1>4, <1>5 DEF FlowNext

LEMMA StepQueue == GP!Typed /\ QueueInv /\ [FlowNext]_flowVars => QueueInv'
<1> SUFFICES ASSUME GP!Typed, QueueInv, [FlowNext]_flowVars PROVE QueueInv'
  OBVIOUS
<1>1. ASSUME NEW c \in Callers, CallerStep(c) PROVE QueueInv'
  <2>1. CASE \E tx \in GatewayTxs : Call(c, tx) BY <2>1, CallKeepsQueue
  <2>2. CASE Enqueue(c) BY <2>2, EnqueueKeepsQueue
  <2>3. ASSUME G!allow(c) \/ G!Refuse(c) \/ G!Overflow(c) \/ G!Accept(c),
               UNCHANGED <<vars, history>>
        PROVE  QueueInv'
    <3>1. /\ caller[c].at # "idle" /\ UNCHANGED <<payload, calls, log, shardCh>>
          /\ (\E place : G!Goto(c, place)) \/ G!Return(c)
      BY <2>3 DEF G!allow, G!Refuse, G!Overflow, G!Accept, G!ingress, history
    <3> QED BY <3>1, CallerMoves, QueuesStay
  <2> QED BY <1>1, <2>1, <2>2, <2>3 DEF CallerStep
<1>2. ASSUME NEW sh \in Shards, Take(sh) PROVE QueueInv'
  BY <1>2, TakeKeepsQueue
<1>3. CASE UNCHANGED <<payload, calls, log, shardCh, caller>> BY <1>3, QueuesStay
<1> QED BY <1>1, <1>2, <1>3, OtherFlowSteps

\* The queues hold transactions that a gateway call has carried.
LEMMA TakenTx ==
  ASSUME QueueInv, NEW sh \in Shards, NEW i \in 1..Len(log[sh])
  PROVE  /\ Logged(sh, i) \in GatewayTxs /\ Logged(sh, i) \in Tx
         /\ ShardOf[Logged(sh, i).from] = sh
         /\ Logged(sh, i).from = log[sh][i].from /\ Logged(sh, i).fee = log[sh][i].fee
<1> DEFINE g == log[sh][i]
<1>1. Carries(payload, g) /\ ShardOf[g.from] = sh BY DEF QueueInv, LogInv
<1>2. payload \in Seq(GatewayTxs) BY DEF QueueInv
<1>3. Logged(sh, i) = payload[g.id] BY DEF Logged
<1> HIDE DEF g
<1>4. payload[g.id] \in GatewayTxs BY <1>1, <1>2 DEF Carries
<1>5. Logged(sh, i) \in Tx BY <1>3, <1>4, GatewayTx
<1> QED BY <1>1, <1>3, <1>4, <1>5 DEF Carries, g

LEMMA StepIsLedger == GP!Typed /\ QueueInv /\ [FlowNext]_flowVars => [Next]_vars
<1> SUFFICES ASSUME GP!Typed, QueueInv, [FlowNext]_flowVars PROVE [Next]_vars
  OBVIOUS
<1>1. ASSUME NEW sh \in Shards, Take(sh) PROVE Next
  <2> DEFINE tx == payload[Head(shardCh[sh]).id]  i == Taken(sh) + 1
  <2>1. i \in 1..Len(log[sh]) /\ Head(shardCh[sh]) = log[sh][i]
    <3>1. /\ Taken(sh) \in Nat /\ Taken(sh)' = i /\ Taken(sh)' <= Len(log[sh])
          /\ Head(shardCh[sh]) = log[sh][Taken(sh)']
      BY <1>1, TakeKeepsQueue
    <3>2. Len(log[sh]) \in Nat
      <4>1. log[sh] \in Seq(GTx) BY DEF QueueInv
      <4> QED BY <4>1
    <3> QED BY <3>1, <3>2
  <2>2. tx = Logged(sh, i) BY <2>1 DEF Logged
  <2> HIDE DEF i
  <2>3. tx \in GatewayTxs BY <2>1, <2>2, TakenTx
  <2>4. Submit(sh, tx) /\ sh \in Clients BY <1>1, PipelineAssumption DEF Take
  <2> HIDE DEF tx
  <2> QED BY <2>3, <2>4 DEF Next, ClientStep, ReceiveTx
<1>2. ASSUME NEW c \in Clients, Validation(c) \/ NewTransaction(c) PROVE Next
  BY <1>2 DEF Validation, Next, ClientStep
<1>3. ASSUME NEW c \in Callers, CallerStep(c) PROVE UNCHANGED vars
  BY <1>3 DEF CallerStep, Call, Enqueue
<1>4. ASSUME UNCHANGED flowVars PROVE UNCHANGED vars BY <1>4 DEF flowVars
<1>5. Shards \subseteq Clients BY PipelineAssumption
<1>6. ASSUME NEW sh \in Shards, Validate(sh) PROVE Next BY <1>2, <1>5, <1>6 DEF Validate
<1>7. ASSUME NEW c \in Clients \ Shards, Command(c) PROVE Next BY <1>2, <1>7 DEF Command
<1> QED BY <1>1, <1>3, <1>4, <1>6, <1>7 DEF FlowNext, Next

LEMMA GatewayGiven == GP!GatewayAssumption
BY PipelineAssumption DEF G!GatewayAssumption, GP!GatewayAssumption, G!Lanes, GP!Lanes

LEMMA GatewayIsTyped == FlowSpec => []GP!Typed
<1>1. GP!Spec => []GP!Typed
  <2> HIDE DEF GP!Lanes
  <2> QED BY ONLY GP!AlwaysTyped, GatewayGiven DEF GP!GatewayAssumption
<1> QED BY <1>1, FlowIsGateway, PTL

LEMMA QueuesHold == FlowSpec => []QueueInv
BY GatewayIsTyped, InitQueue, StepQueue, PTL DEF FlowSpec

\* Every behaviour of the composition is one of the ledger alone.
THEOREM FlowIsLedger == FlowSpec => Spec
<1>1. FlowInit => Init BY DEF FlowInit
<1> QED BY <1>1, GatewayIsTyped, QueuesHold, StepIsLedger, PTL DEF FlowSpec, Spec

-----------------------------------------------------------------------------
(* What a shard is doing, and what it has put into the mempool *)

TakenInv(sh) ==
  /\ cpc[sh] = "idle" => validating[sh] = {}
  /\ cpc[sh] # "idle" => /\ Taken(sh) # 0 /\ ctx[sh] = Logged(sh, Taken(sh))
                         /\ validating[sh] = {log[sh][Taken(sh)]}
  /\ \A i \in entered[sh] : /\ i \in 1..Taken(sh) /\ log[sh][i] \in validated
                            /\ cpc[sh] # "idle" => i # Taken(sh)

\* The nonces of a sender ascend along the positions that reached the mempool, because
\* each of them has been the next nonce when the shard has tested it.
OrderInv(sh) ==
  /\ \A i \in entered[sh] : Logged(sh, i).nonce <= NonceTable[Logged(sh, i).from] + 1
  /\ cpc[sh] \in {"balance", "append"} =>
       \A i \in entered[sh] : Logged(sh, i).from = ctx[sh].from =>
         Logged(sh, i).nonce <= ctx[sh].nonce
  /\ \A i, j \in entered[sh] : i < j /\ Logged(sh, i).from = Logged(sh, j).from =>
       Logged(sh, i).nonce <= Logged(sh, j).nonce

ShardInv ==
  /\ entered \in [Shards -> SUBSET Nat]
  /\ \A sh \in Shards : TakenInv(sh) /\ OrderInv(sh)

LEMMA TakenType ==
  ASSUME QueueInv, GP!Typed, NEW sh \in Shards
  PROVE  /\ Taken(sh) \in Nat /\ Len(log[sh]) \in Nat /\ Len(shardCh[sh]) \in Nat
         /\ Taken(sh) <= Len(log[sh])
<1>1. log[sh] \in Seq(GTx) /\ shardCh[sh] \in Seq(GTx) BY GatewayTypes DEF QueueInv
<1>2. Len(shardCh[sh]) <= Len(log[sh]) BY DEF QueueInv, Suffix
<1>3. Len(log[sh]) \in Nat /\ Len(shardCh[sh]) \in Nat BY <1>1
<1> DEFINE m == Len(log[sh])  n == Len(shardCh[sh])
<1>4. Taken(sh) = m - n BY DEF Taken
<1>5. m \in Nat /\ n \in Nat /\ n <= m BY <1>2, <1>3
<1> HIDE DEF m, n
<1>6. m - n \in Nat /\ m - n <= m BY <1>5
<1> QED BY <1>4, <1>5, <1>6 DEF m, n

\* Logs and calls only grow.
LEMMA HistoryGrows ==
  ASSUME GP!Typed, QueueInv, [FlowNext]_flowVars, NEW sh \in Shards,
         NEW i \in 1..Len(log[sh])
  PROVE  i \in 1..Len(log'[sh]) /\ log'[sh][i] = log[sh][i] /\ Logged(sh, i)' = Logged(sh, i)
<1>1. /\ log \in [Shards -> Seq(GTx)] /\ payload \in Seq(GatewayTxs)
      /\ Carries(payload, log[sh][i])
  BY DEF QueueInv, LogInv
<1>2. ASSUME UNCHANGED <<payload, log>>
      PROVE  i \in 1..Len(log'[sh]) /\ log'[sh][i] = log[sh][i] /\ Logged(sh, i)' = Logged(sh, i)
  BY <1>2 DEF Logged
<1>3. ASSUME NEW c \in Callers, NEW tx \in GatewayTxs, Call(c, tx)
      PROVE  i \in 1..Len(log'[sh]) /\ log'[sh][i] = log[sh][i] /\ Logged(sh, i)' = Logged(sh, i)
  <2> DEFINE n == log[sh][i].id
  <2>1. log' = log /\ payload' = Append(payload, tx) BY <1>3 DEF Call
  <2>2. n \in 1..Len(payload) BY <1>1 DEF Carries
  <2> HIDE DEF n
  <2>3. payload'[n] = payload[n] BY <1>1, <2>1, <2>2
  <2> QED BY <2>1, <2>3 DEF Logged, n
<1>4. ASSUME NEW c \in Callers, Enqueue(c)
      PROVE  i \in 1..Len(log'[sh]) /\ log'[sh][i] = log[sh][i] /\ Logged(sh, i)' = Logged(sh, i)
  <2> DEFINE g == caller[c].tx  r == ShardOf[g.from]
  <2>1. /\ caller[c].at = "enqueue" /\ payload' = payload
        /\ log' = [log EXCEPT ![r] = Append(@, g)] \/ log' = log
    BY <1>4 DEF Enqueue, G!enqueueShard
  <2>2. g \in GTx BY <2>1, GatewayTypes
  <2> HIDE DEF g, r
  <2>3. log'[sh] = log[sh] \/ log'[sh] = Append(log[sh], g) BY <1>1, <2>1
  <2>4. log[sh] \in Seq(GTx) BY <1>1
  <2>5. i \in 1..Len(log'[sh]) /\ log'[sh][i] = log[sh][i] BY <2>2, <2>3, <2>4
  <2> QED BY <2>1, <2>5 DEF Logged
<1>5. ASSUME NEW c \in Callers, CallerStep(c)
      PROVE  \/ \E tx \in GatewayTxs : Call(c, tx)
             \/ Enqueue(c)
             \/ UNCHANGED <<payload, log>>
  BY <1>5 DEF CallerStep, history
<1>6. ASSUME NEW r \in Shards, Take(r) PROVE UNCHANGED <<payload, log>>
  BY <1>6 DEF Take, history
<1> QED BY <1>2, <1>3, <1>4, <1>5, <1>6, OtherFlowSteps

\* A step of one client of the ledger.
LEMMA OneClientMoves ==
  ASSUME IndInv, NEW c \in Clients,
         Validation(c) \/ NewTransaction(c) \/ \E tx \in GatewayTxs : Submit(c, tx)
  PROVE  \A d \in Clients \ {c} : cpc'[d] = cpc[d] /\ ctx'[d] = ctx[d]
<1>1. DOMAIN cpc = Clients /\ DOMAIN ctx = Clients BY DEF IndInv, TypeOK, ClientTypes
<1>2. \/ \E v, w : cpc' = [cpc EXCEPT ![c] = v] /\ ctx' = [ctx EXCEPT ![c] = w]
      \/ \E v : cpc' = [cpc EXCEPT ![c] = v] /\ ctx' = ctx
  BY DEF Validation, NewTransaction, Submit, CheckNonce, CheckBalance, AddToMempool,
     ClientGoto, ClientReturn
<1> QED BY <1>1, <1>2

\* What a shard does is its own.
LEMMA ShardStays ==
  ASSUME IndInv, GP!Typed, QueueInv, ShardInv, [FlowNext]_flowVars, NEW sh \in Shards,
         ~Take(sh), ~Validate(sh)
  PROVE  /\ cpc'[sh] = cpc[sh] /\ ctx'[sh] = ctx[sh] /\ Taken(sh)' = Taken(sh)
         /\ validating'[sh] = validating[sh] /\ entered'[sh] = entered[sh]
<1>1. /\ shardCh \in [Shards -> Seq(GTx)] /\ validating \in [Shards -> SUBSET GTx]
      /\ entered \in [Shards -> SUBSET Nat] /\ log \in [Shards -> Seq(GTx)]
      /\ sh \in Clients /\ Shards \subseteq Clients
  BY GatewayTypes, PipelineAssumption DEF ShardInv, QueueInv
<1>2. ASSUME UNCHANGED <<cpc, ctx, log, shardCh, validating, entered>>
      PROVE  /\ cpc'[sh] = cpc[sh] /\ ctx'[sh] = ctx[sh] /\ Taken(sh)' = Taken(sh)
             /\ validating'[sh] = validating[sh] /\ entered'[sh] = entered[sh]
  BY <1>2 DEF Taken
<1>3. ASSUME NEW c \in Callers, CallerStep(c)
      PROVE  /\ cpc'[sh] = cpc[sh] /\ ctx'[sh] = ctx[sh] /\ Taken(sh)' = Taken(sh)
             /\ validating'[sh] = validating[sh] /\ entered'[sh] = entered[sh]
  <2>1. UNCHANGED <<cpc, ctx, validating, entered>>
    BY <1>3 DEF CallerStep, Call, Enqueue, G!GatewayAcceptTx, G!enqueueShard, G!allow, G!Refuse,
       G!Overflow, G!Accept, G!ingress, vars, clientVars, history
  <2>2. CASE Enqueue(c)
    <3> DEFINE g == caller[c].tx  r == ShardOf[g.from]
    <3>1. /\ caller[c].at = "enqueue"
          /\ \/ G!Goto(c, "accept") /\ shardCh' = [shardCh EXCEPT ![r] = Append(@, g)]
             \/ G!Goto(c, "overflow") /\ UNCHANGED shardCh
          /\ log' = IF caller'[c].at = "accept" THEN [log EXCEPT ![r] = Append(@, g)] ELSE log
      BY <2>2 DEF Enqueue, G!enqueueShard
    <3>2. g \in GTx /\ DOMAIN caller = Callers /\ DOMAIN caller[c] = {"at", "tx"}
      BY <3>1, GatewayTypes
    <3> HIDE DEF g, r
    <3>3. CASE G!Goto(c, "overflow") /\ UNCHANGED shardCh
      <4>1. caller'[c].at = "overflow" BY <3>2, <3>3 DEF G!Goto
      <4>2. log' = log BY <3>1, <4>1
      <4> QED BY <2>1, <3>3, <4>2 DEF Taken
    <3>4. CASE G!Goto(c, "accept") /\ shardCh' = [shardCh EXCEPT ![r] = Append(@, g)]
      <4>1. caller'[c].at = "accept" BY <3>2, <3>4 DEF G!Goto
      <4>2. log' = [log EXCEPT ![r] = Append(@, g)] BY <3>1, <4>1
      <4>3. \/ log'[sh] = log[sh] /\ shardCh'[sh] = shardCh[sh]
            \/ log'[sh] = Append(log[sh], g) /\ shardCh'[sh] = Append(shardCh[sh], g)
        BY <1>1, <3>4, <4>2
      <4>4. log[sh] \in Seq(GTx) /\ shardCh[sh] \in Seq(GTx) BY <1>1
      <4>5. Len(log'[sh]) - Len(shardCh'[sh]) = Len(log[sh]) - Len(shardCh[sh])
        <5> DEFINE m == log[sh]  q == shardCh[sh]
        <5>1. /\ Len(m) \in Nat /\ Len(q) \in Nat
              /\ Len(Append(m, g)) = Len(m) + 1 /\ Len(Append(q, g)) = Len(q) + 1
          BY <3>2, <4>4
        <5> HIDE DEF m, q
        <5>2. (Len(m) + 1) - (Len(q) + 1) = Len(m) - Len(q) BY <5>1
        <5> QED BY <4>3, <5>1, <5>2 DEF m, q
      <4> QED BY <2>1, <4>5 DEF Taken
    <3> QED BY <3>1, <3>3, <3>4
  <2>3. CASE ~Enqueue(c)
    <3>1. UNCHANGED <<log, shardCh>>
      BY <1>3, <2>3 DEF CallerStep, Call, G!GatewayAcceptTx, G!allow, G!Refuse,
         G!Overflow, G!Accept, G!ingress, history
    <3> QED BY <1>2, <2>1, <3>1
  <2> QED BY <2>2, <2>3
<1>4. ASSUME NEW r \in Shards, Take(r)
      PROVE  /\ cpc'[sh] = cpc[sh] /\ ctx'[sh] = ctx[sh] /\ Taken(sh)' = Taken(sh)
             /\ validating'[sh] = validating[sh] /\ entered'[sh] = entered[sh]
  <2>1. r # sh BY <1>4
  <2>2. Taken(sh)' = Taken(sh) BY <1>4, <2>1, TakeKeepsQueue
  <2>3. validating'[sh] = validating[sh] /\ entered'[sh] = entered[sh]
    BY <1>1, <1>4, <2>1 DEF Take, G!TakeTx, history
  <2>4. \E tx : Submit(r, tx) BY <1>4 DEF Take
  <2>5. cpc'[sh] = cpc[sh] /\ ctx'[sh] = ctx[sh]
    BY <1>1, <2>1, <2>4 DEF Submit, IndInv, TypeOK, ClientTypes
  <2> QED BY <2>2, <2>3, <2>5
<1>5. ASSUME NEW r \in Shards, Validate(r)
      PROVE  /\ cpc'[sh] = cpc[sh] /\ ctx'[sh] = ctx[sh] /\ Taken(sh)' = Taken(sh)
             /\ validating'[sh] = validating[sh] /\ entered'[sh] = entered[sh]
  <2>1. r # sh BY <1>5
  <2>2. cpc'[sh] = cpc[sh] /\ ctx'[sh] = ctx[sh]
    BY <1>1, <1>5, <2>1, OneClientMoves DEF Validate
  <2>3. validating'[sh] = validating[sh] /\ entered'[sh] = entered[sh]
    BY <1>1, <1>5, <2>1 DEF Validate, G!EndValidation, gateVars
  <2>4. UNCHANGED <<log, shardCh>> BY <1>5 DEF Validate, G!EndValidation, gateVars
  <2> QED BY <2>2, <2>3, <2>4 DEF Taken
<1>6. ASSUME NEW c \in Clients \ Shards, Command(c)
      PROVE  /\ cpc'[sh] = cpc[sh] /\ ctx'[sh] = ctx[sh] /\ Taken(sh)' = Taken(sh)
             /\ validating'[sh] = validating[sh] /\ entered'[sh] = entered[sh]
  <2>1. cpc'[sh] = cpc[sh] /\ ctx'[sh] = ctx[sh]
    BY <1>1, <1>6, OneClientMoves DEF Command
  <2>2. UNCHANGED <<log, shardCh, validating, entered>> BY <1>6 DEF Command, gateVars
  <2> QED BY <2>1, <2>2 DEF Taken
<1>7. ASSUME NEW k \in Committers, CommitStep(k) PROVE UNCHANGED <<cpc, ctx>>
  BY <1>7
  DEF CommitStep, BeginCommit, SeeMempool, NoBlock, SelectProposer, VotePasses,
     RejectBlock, MempoolSnapshot, SnapshotNonces, SnapshotBalances, TakePartition,
     ExecuteTx, BreakPartition, CollectPartitions, LockState, CommitTx, UnlockState,
     AppendBlock, AddFee, CreditProposer, SaveAllData, RemoveCommittedFromMempool,
     ReturnFrom, Goto, clientVars
<1>8. ASSUME NEW to, NEW amount, Airdrop(to, amount) PROVE UNCHANGED <<cpc, ctx>>
  BY <1>8 DEF Airdrop, clientVars
<1>9. ASSUME UNCHANGED <<gateVars, history>>
      PROVE  UNCHANGED <<log, shardCh, validating, entered>>
  BY <1>9 DEF gateVars, history
<1>10. ASSUME G!Tick, UNCHANGED <<vars, history>>
       PROVE  UNCHANGED <<cpc, ctx, log, shardCh, validating, entered>>
  BY <1>10 DEF G!Tick, G!ingress, vars, clientVars, history
<1>11. ASSUME UNCHANGED flowVars
       PROVE  UNCHANGED <<cpc, ctx, log, shardCh, validating, entered>>
  BY <1>11 DEF flowVars, vars, clientVars, gateVars, history
<1> QED BY <1>2, <1>3, <1>4, <1>5, <1>6, <1>7, <1>8, <1>9, <1>10, <1>11 DEF FlowNext

\* What is validated stays so.
LEMMA ValidatedGrows == [FlowNext]_flowVars => validated \subseteq validated'
<1> SUFFICES ASSUME [FlowNext]_flowVars PROVE validated \subseteq validated'
  OBVIOUS
<1>1. ASSUME NEW c \in Callers, CallerStep(c) PROVE UNCHANGED validated
  BY <1>1 DEF CallerStep, Call, Enqueue, G!GatewayAcceptTx, G!enqueueShard, G!allow, G!Refuse,
     G!Overflow, G!Accept, G!ingress
<1>2. ASSUME NEW sh \in Shards, Take(sh) \/ Validate(sh) PROVE validated \subseteq validated'
  BY <1>2 DEF Take, G!TakeTx, Validate, G!EndValidation, gateVars
<1>3. ASSUME NEW c \in Clients \ Shards, Command(c) PROVE UNCHANGED validated
  BY <1>3 DEF Command, gateVars
<1>4. ASSUME G!Tick PROVE UNCHANGED validated BY <1>4 DEF G!Tick, G!ingress
<1>5. ASSUME UNCHANGED gateVars PROVE UNCHANGED validated BY <1>5 DEF gateVars
<1>6. ASSUME UNCHANGED flowVars PROVE UNCHANGED gateVars BY <1>6 DEF flowVars
<1> QED BY <1>1, <1>2, <1>3, <1>4, <1>5, <1>6 DEF FlowNext

LEMMA EnteredTx ==
  ASSUME QueueInv, GP!Typed, ShardInv, NEW sh \in Shards, NEW i \in entered[sh]
  PROVE  /\ i \in Nat /\ i \in 1..Taken(sh) /\ i \in 1..Len(log[sh])
         /\ log[sh][i] \in validated /\ Logged(sh, i) \in Tx
         /\ Logged(sh, i).from \in Accounts /\ Logged(sh, i).nonce \in Nat
         /\ ShardOf[Logged(sh, i).from] = sh
<1>1. i \in 1..Taken(sh) /\ log[sh][i] \in validated BY DEF ShardInv, TakenInv
<1>2. i \in 1..Len(log[sh]) BY <1>1, TakenType
<1>3. Logged(sh, i) \in Tx /\ ShardOf[Logged(sh, i).from] = sh BY <1>2, TakenTx
<1> QED BY <1>1, <1>2, <1>3, TxFacts

\* Nothing happens to a shard while it neither takes nor validates.
LEMMA StayKeepsShard ==
  ASSUME IndInv, GP!Typed, QueueInv, ShardInv, [FlowNext]_flowVars, [Next]_vars,
         NEW sh \in Shards, ~Take(sh), ~Validate(sh)
  PROVE  TakenInv(sh)' /\ OrderInv(sh)'
<1>1. /\ cpc'[sh] = cpc[sh] /\ ctx'[sh] = ctx[sh] /\ Taken(sh)' = Taken(sh)
      /\ validating'[sh] = validating[sh] /\ entered'[sh] = entered[sh]
  BY ShardStays
<1>2. validated \subseteq validated' BY ValidatedGrows
<1>3. TakenInv(sh) /\ OrderInv(sh) BY DEF ShardInv
<1>4. \A i \in 1..Len(log[sh]) : log'[sh][i] = log[sh][i] /\ Logged(sh, i)' = Logged(sh, i)
  BY HistoryGrows
<1>5. \A i \in entered[sh] :
        /\ log'[sh][i] = log[sh][i] /\ Logged(sh, i)' = Logged(sh, i)
        /\ log[sh][i] \in validated /\ Logged(sh, i).nonce \in Nat
        /\ Logged(sh, i).from \in Accounts
  BY <1>4, EnteredTx
<1>6. TakenInv(sh)'
  <2>1. Taken(sh) # 0 => Taken(sh) \in 1..Len(log[sh]) BY TakenType
  <2>2. Taken(sh) # 0 => /\ log'[sh][Taken(sh)] = log[sh][Taken(sh)]
                         /\ Logged(sh, Taken(sh))' = Logged(sh, Taken(sh))
    <3>1. \A i : i = Taken(sh) /\ i # 0 =>
            log'[sh][i] = log[sh][i] /\ Logged(sh, i)' = Logged(sh, i)
      BY <1>4, <2>1
    <3>2. Taken(sh) # 0 => log'[sh][Taken(sh)] = log[sh][Taken(sh)] BY <3>1
    <3>3. Taken(sh) # 0 => Logged(sh, Taken(sh))' = Logged(sh, Taken(sh))
      BY <1>1, <3>1 DEF Logged
    <3> QED BY <3>2, <3>3
  <2> QED BY <1>1, <1>2, <1>3, <1>5, <2>2 DEF TakenInv
<1>7. OrderInv(sh)'
  <2>1. ASSUME NEW i \in entered[sh]
        PROVE  Logged(sh, i)'.nonce <= NonceTable'[Logged(sh, i)'.from] + 1
    <3>1. Logged(sh, i).nonce <= NonceTable[Logged(sh, i).from] + 1 BY <1>3 DEF OrderInv
    <3> DEFINE tx == Logged(sh, i)
    <3>2. tx.nonce \in Nat /\ tx.from \in Accounts /\ Logged(sh, i)' = tx BY <1>5
    <3>3. tx.nonce <= NonceTable[tx.from] + 1 BY <3>1
    <3> HIDE DEF tx
    <3>4. /\ NonceTable[tx.from] \in Nat /\ NonceTable'[tx.from] \in Nat
          /\ NonceTable[tx.from] <= NonceTable'[tx.from]
      BY <3>2, NoncesGrow
    <3> QED BY <3>2, <3>3, <3>4
  <2> QED BY <1>1, <1>3, <1>5, <2>1 DEF OrderInv
<1> QED BY <1>6, <1>7

LEMMA TakeKeepsShard ==
  ASSUME IndInv, GP!Typed, QueueInv, ShardInv, [FlowNext]_flowVars, NEW sh \in Shards, Take(sh)
  PROVE  TakenInv(sh)' /\ OrderInv(sh)'
<1> DEFINE n == Taken(sh) + 1  tx == payload[Head(shardCh[sh]).id]
<1>1. /\ Taken(sh) \in Nat /\ Taken(sh)' = n /\ n <= Len(log[sh])
      /\ Head(shardCh[sh]) = log[sh][n]
  <2>1. /\ Taken(sh) \in Nat /\ Taken(sh)' = Taken(sh) + 1 /\ Taken(sh)' <= Len(log[sh])
        /\ Head(shardCh[sh]) = log[sh][Taken(sh)']
    BY TakeKeepsQueue
  <2> QED BY <2>1
<1>2. /\ validating[sh] = {} /\ validating' = [validating EXCEPT ![sh] = {Head(shardCh[sh])}]
      /\ UNCHANGED <<payload, log, entered, validated>> /\ Submit(sh, tx)
  BY DEF Take, G!TakeTx, history
<1>3. /\ validating \in [Shards -> SUBSET GTx] /\ sh \in Clients
      /\ DOMAIN cpc = Clients /\ DOMAIN ctx = Clients
  BY GatewayTypes, PipelineAssumption DEF IndInv, TypeOK, ClientTypes
<1>4. cpc'[sh] = "nonce" /\ ctx'[sh] = tx /\ UNCHANGED NonceTable
  BY <1>2, <1>3 DEF Submit, chainVars
<1>5. validating'[sh] = {log[sh][n]} BY <1>1, <1>2, <1>3
<1>6. tx = Logged(sh, n) BY <1>1 DEF Logged
<1>7. TakenInv(sh) /\ OrderInv(sh) BY DEF ShardInv
<1>8. \A i \in entered[sh] : i \in 1..Taken(sh) /\ log[sh][i] \in validated
  BY <1>7 DEF TakenInv
<1>9. \A i : Logged(sh, i)' = Logged(sh, i) BY <1>2 DEF Logged
<1>10. OrderInv(sh)' BY <1>2, <1>4, <1>7, <1>9 DEF OrderInv
<1>11. TakenInv(sh)'
  <2>1. \A i \in entered[sh] : i \in 1..n /\ i # n BY <1>1, <1>8
  <2>2. n # 0 BY <1>1
  <2> HIDE DEF n, tx
  <2>3. Logged(sh, Taken(sh))' = Logged(sh, n) BY <1>1, <1>2 DEF Logged
  <2> QED BY <1>1, <1>2, <1>4, <1>5, <1>6, <1>8, <2>1, <2>2, <2>3 DEF TakenInv
<1> QED BY <1>10, <1>11

\* What validation makes of the transaction that a shard has in hand.
LEMMA ValidateEffect ==
  ASSUME IndInv, GP!Typed, QueueInv, ShardInv, PoolInv, NEW sh \in Shards, Validate(sh)
  PROVE  /\ cpc[sh] # "idle"
         /\ UNCHANGED <<payload, log, shardCh, NonceTable, built>>
         /\ \/ /\ cpc[sh] = "nonce" /\ cpc'[sh] = "balance"
               /\ ctx[sh].nonce = NonceTable[ctx[sh].from] + 1
               /\ UNCHANGED <<ctx, validating, validated, entered>>
            \/ /\ cpc[sh] = "balance" /\ cpc'[sh] = "append"
               /\ UNCHANGED <<ctx, validating, validated, entered>>
            \/ /\ cpc'[sh] = "idle" /\ validating'[sh] = {}
               /\ validated' = validated \cup {log[sh][Taken(sh)]}
               /\ entered' = IF cpc[sh] = "append"
                             THEN [entered EXCEPT ![sh] = @ \cup {Taken(sh)}] ELSE entered
<1>1. /\ DOMAIN cpc = Clients /\ sh \in Clients /\ validating \in [Shards -> SUBSET GTx]
  BY GatewayTypes, PipelineAssumption DEF IndInv, TypeOK, ClientTypes
<1>2. /\ cpc[sh] # "idle" /\ UNCHANGED <<payload, log, shardCh, NonceTable, built>>
  BY DEF Validate, Validation, CheckNonce, CheckBalance, AddToMempool, ClientGoto, chainVars,
     G!EndValidation, gateVars
<1>3. validating[sh] = {log[sh][Taken(sh)]} BY <1>2 DEF ShardInv, TakenInv
<1>4. entered' = IF cpc[sh] = "append" THEN [entered EXCEPT ![sh] = @ \cup {Taken(sh)}]
                 ELSE entered
  BY DEF Validate
<1>5. CASE cpc'[sh] = "idle"
  <2>1. G!EndValidation(sh) BY <1>5 DEF Validate
  <2>2. PICK g \in validating[sh] : /\ validating' = [validating EXCEPT ![sh] = @ \ {g}]
                                    /\ validated' = validated \cup {g}
    BY <2>1 DEF G!EndValidation
  <2>3. g = log[sh][Taken(sh)] BY <1>3
  <2>4. validating'[sh] = {} BY <1>1, <1>3, <2>2, <2>3
  <2> QED BY <1>2, <1>4, <1>5, <2>2, <2>3, <2>4
<1>6. CASE cpc'[sh] # "idle"
  <2>1. UNCHANGED <<validating, validated>> BY <1>6 DEF Validate, gateVars
  <2>2. \/ /\ cpc[sh] = "nonce" /\ cpc' = [cpc EXCEPT ![sh] = "balance"] /\ ctx' = ctx
           /\ ctx[sh].nonce = NonceTable[ctx[sh].from] + 1
        \/ cpc[sh] = "balance" /\ cpc' = [cpc EXCEPT ![sh] = "append"] /\ ctx' = ctx
        \/ cpc' = [cpc EXCEPT ![sh] = "idle"]
    BY DEF Validate, Validation, CheckNonce, CheckBalance, AddToMempool, ClientGoto, ClientReturn,
       GetNextNonce
  <2>3. \/ /\ cpc[sh] = "nonce" /\ cpc'[sh] = "balance" /\ ctx' = ctx
           /\ ctx[sh].nonce = NonceTable[ctx[sh].from] + 1
        \/ cpc[sh] = "balance" /\ cpc'[sh] = "append" /\ ctx' = ctx
    BY <1>1, <1>6, <2>2
  <2> QED BY <1>2, <1>4, <2>1, <2>3
<1> QED BY <1>5, <1>6

LEMMA ValidateKeepsShard ==
  ASSUME IndInv, GP!Typed, QueueInv, ShardInv, PoolInv, [FlowNext]_flowVars,
         NEW sh \in Shards, Validate(sh)
  PROVE  TakenInv(sh)' /\ OrderInv(sh)'
<1> DEFINE n == Taken(sh)
<1>1. /\ cpc[sh] # "idle" /\ UNCHANGED <<payload, log, shardCh, NonceTable>>
  BY ValidateEffect
<1>2. TakenInv(sh) /\ OrderInv(sh) BY DEF ShardInv
<1>3. n \in Nat /\ n # 0 /\ ctx[sh] = Logged(sh, n) /\ n \in 1..Len(log[sh])
  BY <1>1, <1>2, TakenType DEF TakenInv
<1>4. \A i : Logged(sh, i)' = Logged(sh, i) BY <1>1 DEF Logged
<1>5. Taken(sh)' = n BY <1>1 DEF Taken
<1>6. \A i \in entered[sh] : /\ i \in 1..n /\ i # n /\ log[sh][i] \in validated
                             /\ Logged(sh, i).nonce \in Nat
  BY <1>1, <1>2, EnteredTx DEF TakenInv
<1>7. Logged(sh, n).nonce \in Nat /\ NonceTable[Logged(sh, n).from] \in Nat
  BY <1>3, TakenTx, TxFacts DEF IndInv, TypeOK, ChainTypes
<1>8. Logged(sh, Taken(sh))' = Logged(sh, n) BY <1>1, <1>5 DEF Logged
<1> HIDE DEF n
<1>9. ASSUME /\ cpc[sh] = "nonce" /\ cpc'[sh] = "balance"
             /\ ctx[sh].nonce = NonceTable[ctx[sh].from] + 1,
             UNCHANGED <<ctx, validating, validated, entered>>
      PROVE  TakenInv(sh)' /\ OrderInv(sh)'
  <2>1. TakenInv(sh)' BY <1>1, <1>2, <1>3, <1>5, <1>8, <1>9 DEF TakenInv, n
  <2>2. \A i \in entered[sh] : Logged(sh, i).from = ctx[sh].from =>
          Logged(sh, i).nonce <= ctx[sh].nonce
    BY <1>2, <1>9 DEF OrderInv
  <2>3. OrderInv(sh)' BY <1>1, <1>2, <1>4, <1>9, <2>2 DEF OrderInv
  <2> QED BY <2>1, <2>3
<1>10. ASSUME cpc[sh] = "balance" /\ cpc'[sh] = "append",
              UNCHANGED <<ctx, validating, validated, entered>>
       PROVE  TakenInv(sh)' /\ OrderInv(sh)'
  <2>1. TakenInv(sh)' BY <1>1, <1>2, <1>3, <1>5, <1>8, <1>10 DEF TakenInv, n
  <2>2. OrderInv(sh)' BY <1>1, <1>2, <1>4, <1>10 DEF OrderInv
  <2> QED BY <2>1, <2>2
<1>11. ASSUME cpc'[sh] = "idle", validating'[sh] = {},
              validated' = validated \cup {log[sh][n]}, entered' = entered
       PROVE  TakenInv(sh)' /\ OrderInv(sh)'
  <2>1. TakenInv(sh)' BY <1>1, <1>2, <1>5, <1>6, <1>11 DEF TakenInv
  <2>2. OrderInv(sh)' BY <1>1, <1>2, <1>4, <1>11 DEF OrderInv
  <2> QED BY <2>1, <2>2
<1>12. ASSUME cpc[sh] = "append", cpc'[sh] = "idle", validating'[sh] = {},
              validated' = validated \cup {log[sh][n]},
              entered' = [entered EXCEPT ![sh] = @ \cup {n}]
       PROVE  TakenInv(sh)' /\ OrderInv(sh)'
  <2>1. entered'[sh] = entered[sh] \cup {n} BY <1>12 DEF ShardInv
  <2>2. TakenInv(sh)'
    <3>1. \A i \in entered'[sh] : i \in 1..n /\ log'[sh][i] \in validated'
      BY <1>1, <1>3, <1>6, <1>12, <2>1
    <3> QED BY <1>5, <1>12, <3>1 DEF TakenInv
  <2>3. Logged(sh, n).nonce <= NonceTable[Logged(sh, n).from] + 1
    <3>1. NotAhead(ctx[sh]) BY <1>12, PipelineAssumption DEF PoolInv, ClientOK
    <3> QED BY <1>3, <1>7, <3>1 DEF NotAhead, GetNextNonce
  <2>4. \A i \in entered[sh] : Logged(sh, i).from = Logged(sh, n).from =>
          Logged(sh, i).nonce <= Logged(sh, n).nonce
    BY <1>2, <1>3, <1>12 DEF OrderInv
  <2>5. \A i \in entered[sh] : Logged(sh, i).nonce <= NonceTable[Logged(sh, i).from] + 1
    BY <1>2 DEF OrderInv
  <2>6. \A i \in entered'[sh] :
          Logged(sh, i)'.nonce <= NonceTable'[Logged(sh, i)'.from] + 1
    BY <1>1, <1>4, <2>1, <2>3, <2>5
  <2>7. ASSUME NEW i \in entered'[sh], NEW j \in entered'[sh], i < j,
               Logged(sh, i)'.from = Logged(sh, j)'.from
        PROVE  Logged(sh, i)'.nonce <= Logged(sh, j)'.nonce
    <3>1. Logged(sh, i).from = Logged(sh, j).from BY <1>4, <2>7
    <3>2. CASE i \in entered[sh] /\ j \in entered[sh]
      <4>1. Logged(sh, i).nonce <= Logged(sh, j).nonce BY <1>2, <2>7, <3>1, <3>2 DEF OrderInv
      <4> QED BY <1>4, <4>1
    <3>3. CASE i \in entered[sh] /\ j = n
      <4>1. Logged(sh, i).nonce <= Logged(sh, j).nonce BY <2>4, <3>1, <3>3
      <4> QED BY <1>4, <4>1
    <3>4. CASE i = n
      <4>1. j \in 1..n BY <1>3, <1>6, <2>1
      <4> QED BY <1>3, <2>7, <3>4, <4>1
    <3> QED BY <2>1, <3>2, <3>3, <3>4
  <2>8. OrderInv(sh)' BY <1>12, <2>6, <2>7 DEF OrderInv
  <2> QED BY <2>2, <2>8
<1>13. \/ /\ cpc[sh] = "nonce" /\ cpc'[sh] = "balance"
          /\ ctx[sh].nonce = NonceTable[ctx[sh].from] + 1
          /\ UNCHANGED <<ctx, validating, validated, entered>>
       \/ /\ cpc[sh] = "balance" /\ cpc'[sh] = "append"
          /\ UNCHANGED <<ctx, validating, validated, entered>>
       \/ /\ cpc'[sh] = "idle" /\ validating'[sh] = {}
          /\ validated' = validated \cup {log[sh][n]}
          /\ entered' = IF cpc[sh] = "append" THEN [entered EXCEPT ![sh] = @ \cup {n}]
                        ELSE entered
  BY ValidateEffect DEF n
<1> QED BY <1>9, <1>10, <1>11, <1>12, <1>13

LEMMA StepShard ==
  IndInv /\ PoolInv /\ GP!Typed /\ QueueInv /\ ShardInv /\ [FlowNext]_flowVars => ShardInv'
<1> SUFFICES ASSUME IndInv, PoolInv, GP!Typed, QueueInv, ShardInv, [FlowNext]_flowVars
             PROVE  ShardInv'
  OBVIOUS
<1>1. [Next]_vars BY StepIsLedger
<1>2. ASSUME NEW sh \in Shards PROVE TakenInv(sh)' /\ OrderInv(sh)'
  BY <1>1, StayKeepsShard, TakeKeepsShard, ValidateKeepsShard
<1>3. entered' \in [Shards -> SUBSET Nat]
  <2>1. entered \in [Shards -> SUBSET Nat] BY DEF ShardInv
  <2>2. CASE \E r \in Shards : Validate(r)
    <3>1. PICK r \in Shards : Validate(r) BY <2>2
    <3>2. entered' = [entered EXCEPT ![r] = @ \cup {Taken(r)}] \/ entered' = entered
      BY <3>1 DEF Validate
    <3>3. Taken(r) \in Nat BY TakenType
    <3> QED BY <2>1, <3>2, <3>3
  <2>3. CASE ~\E r \in Shards : Validate(r)
    <3>1. UNCHANGED entered
      BY <2>3 DEF FlowNext, CallerStep, Call, Enqueue, Take, Command, history, flowVars
    <3> QED BY <2>1, <3>1
  <2> QED BY <2>2, <2>3
<1> QED BY <1>2, <1>3 DEF ShardInv

LEMMA InitShard == FlowInit => ShardInv
<1> SUFFICES ASSUME FlowInit PROVE ShardInv OBVIOUS
<1>1. /\ entered = [sh \in Shards |-> {}] /\ \A sh \in Shards : validating[sh] = {}
      /\ \A c \in Clients : cpc[c] = "idle"
  BY DEF FlowInit, G!Init, Init
<1> QED BY <1>1, PipelineAssumption DEF ShardInv, TakenInv, OrderInv

LEMMA PoolHolds == Spec => [](IndInv /\ PoolInv)
BY Inductive, InitPool, StepPool, PTL DEF Spec

LEMMA LedgerHolds == FlowSpec => [](IndInv /\ PoolInv)
BY PoolHolds, FlowIsLedger, PTL

LEMMA ShardsHold == FlowSpec => []ShardInv
BY LedgerHolds, GatewayIsTyped, QueuesHold, InitShard, StepShard, PTL DEF FlowSpec

-----------------------------------------------------------------------------
(* Where the transactions of the ledger come from *)

\* What a committer has in its locals, and what the ledger holds anywhere.
Work(k) ==
  {snap[k][i] : i \in DOMAIN snap[k]} \cup {todo[k][i] : i \in DOMAIN todo[k]}
    \cup {final[k][i].tx : i \in DOMAIN final[k]}
Pool == {Mempool[i] : i \in DOMAIN Mempool}
Held == Pool \cup Committed \cup UNION {Work(k) : k \in Committers}

\* A commit moves transactions on and makes none.
LEMMA CommitKeepsWork ==
  ASSUME IndInv, NEW k \in Committers, CommitStep(k)
  PROVE  Work(k)' \subseteq Work(k) \cup Pool
<1>1. /\ snap[k] \in Seq(Tx) /\ todo[k] \in Seq(Tx) /\ final[k] \in Seq(Entry)
      /\ DOMAIN snap = Committers /\ DOMAIN todo = Committers /\ DOMAIN final = Committers
  BY LocalSeqs DEF IndInv, TypeOK, LocalTypes
<1>2. CASE MempoolSnapshot(k)
  <2>1. snap'[k] = Mempool /\ UNCHANGED <<todo, final>> BY <1>1, <1>2 DEF MempoolSnapshot
  <2> QED BY <2>1 DEF Work, Pool
<1>3. ASSUME NEW s, TakePartition(k, s) PROVE Work(k)' \subseteq Work(k)
  <2> DEFINE I == {i \in DOMAIN snap[k] : snap[k][i].from = s}
  <2>1. PICK f \in NonceOrders(snap[k], I) :
          todo' = [todo EXCEPT ![k] = [i \in 1..Cardinality(I) |-> snap[k][f[i]]]]
    BY <1>3 DEF TakePartition
  <2>2. UNCHANGED <<snap, final>> BY <1>3 DEF TakePartition, snapVars
  <2>3. todo'[k] = [i \in 1..Cardinality(I) |-> snap[k][f[i]]] BY <1>1, <2>1
  <2>4. \A i \in 1..Cardinality(I) : f[i] \in I BY <2>1 DEF NonceOrders, Injection
  <2>5. \A i \in I : i \in DOMAIN snap[k] OBVIOUS
  <2> HIDE DEF I
  <2>6. \A i \in DOMAIN todo'[k] : \E j \in DOMAIN snap[k] : todo'[k][i] = snap[k][j]
    BY <2>3, <2>4, <2>5
  <2> QED BY <2>2, <2>6 DEF Work
<1>4. CASE ExecuteTx(k)
  <2> DEFINE q == todo[k]  e == final[k]  new == [tx |-> Head(q), left |-> localBal[k] - Cost(Head(q))]
  <2>1. /\ q # << >> /\ UNCHANGED snap /\ todo' = [todo EXCEPT ![k] = Tail(@)]
        /\ final' = [final EXCEPT ![k] = Append(@, new)]
    BY <1>4 DEF ExecuteTx, snapVars
  <2>2. todo'[k] = Tail(q) /\ final'[k] = Append(e, new) /\ new.tx = Head(q) BY <1>1, <2>1
  <2> HIDE DEF new
  <2>3. q \in Seq(Tx) /\ e \in Seq(Entry) BY <1>1
  <2> HIDE DEF q, e
  <2>4. /\ 1 \in DOMAIN q /\ Head(q) = q[1]
        /\ \A i \in DOMAIN Tail(q) : i + 1 \in DOMAIN q /\ Tail(q)[i] = q[i + 1]
    BY <2>1, <2>3
  <2>5. \A i \in DOMAIN Append(e, new) :
          Append(e, new)[i] = new \/ (i \in DOMAIN e /\ Append(e, new)[i] = e[i])
    BY <2>3
  <2>6. \A i \in DOMAIN todo'[k] : \E j \in DOMAIN q : todo'[k][i] = q[j] BY <2>2, <2>4
  <2>7. \A i \in DOMAIN final'[k] :
          final'[k][i].tx = q[1] \/ (i \in DOMAIN e /\ final'[k][i].tx = e[i].tx)
    BY <2>2, <2>4, <2>5
  <2> QED BY <2>1, <2>4, <2>6, <2>7 DEF Work, q, e
<1>5. ASSUME \/ UNCHANGED snap \/ snap' = [snap EXCEPT ![k] = << >>],
             \/ UNCHANGED todo \/ todo' = [todo EXCEPT ![k] = << >>],
             \/ UNCHANGED final \/ final' = [final EXCEPT ![k] = << >>]
      PROVE  Work(k)' \subseteq Work(k)
  <2>1. /\ snap'[k] = snap[k] \/ snap'[k] = << >>
        /\ todo'[k] = todo[k] \/ todo'[k] = << >>
        /\ final'[k] = final[k] \/ final'[k] = << >>
    BY <1>1, <1>5
  <2>2. DOMAIN << >> = {} OBVIOUS
  <2> QED BY <2>1, <2>2 DEF Work
<1>6. \/ MempoolSnapshot(k) \/ ExecuteTx(k) \/ \E s : TakePartition(k, s)
      \/ /\ \/ UNCHANGED snap \/ snap' = [snap EXCEPT ![k] = << >>]
         /\ \/ UNCHANGED todo \/ todo' = [todo EXCEPT ![k] = << >>]
         /\ \/ UNCHANGED final \/ final' = [final EXCEPT ![k] = << >>]
  BY DEF CommitStep, BeginCommit, SeeMempool, NoBlock, SelectProposer, VotePasses,
     RejectBlock, SnapshotNonces, SnapshotBalances, BreakPartition, CollectPartitions,
     LockState, CommitTx, UnlockState, AppendBlock, AddFee, CreditProposer, SaveAllData,
     RemoveCommittedFromMempool, ReturnFrom, snapVars, execVars
<1> QED BY <1>2, <1>3, <1>4, <1>5, <1>6

LEMMA CommitKeepsHeld ==
  ASSUME IndInv, [Next]_vars, NEW k \in Committers, CommitStep(k)
  PROVE  Held' \subseteq Held
<1>1. ASSUME NEW j \in Committers, j # k PROVE Work(j)' = Work(j)
  <2>1. todo'[j] = todo[j] /\ final'[j] = final[j] BY <1>1, OthersUntouched DEF IndInv
  <2>2. DOMAIN snap = Committers BY DEF IndInv, TypeOK, LocalTypes
  <2>3. UNCHANGED snap \/ \E q : snap' = [snap EXCEPT ![k] = q]
    BY DEF CommitStep, BeginCommit, SeeMempool, NoBlock, SelectProposer, VotePasses,
       RejectBlock, MempoolSnapshot, SnapshotNonces, SnapshotBalances, TakePartition,
       ExecuteTx, BreakPartition, CollectPartitions, LockState, CommitTx, UnlockState,
       AppendBlock, AddFee, CreditProposer, SaveAllData, RemoveCommittedFromMempool,
       ReturnFrom, snapVars
  <2>4. snap'[j] = snap[j] BY <1>1, <2>2, <2>3
  <2> QED BY <2>1, <2>4 DEF Work
<1>2. Pool' \subseteq Pool
  <2>1. CASE RemoveCommittedFromMempool(k)
    <3> DEFINE committed == {HashTransaction(final[k][n].tx) : n \in DOMAIN final[k]}
               keep == {n \in DOMAIN Mempool : HashTransaction(Mempool[n]) \notin committed}
    <3>1. PICK f \in Injection(1..Cardinality(keep), keep) :
            Mempool' = [n \in 1..Cardinality(keep) |-> Mempool[f[n]]]
      BY <2>1 DEF RemoveCommittedFromMempool, KeepOrder
    <3>2. keep \subseteq DOMAIN Mempool OBVIOUS
    <3> HIDE DEF keep
    <3>3. \A n \in 1..Cardinality(keep) : f[n] \in keep BY <3>1 DEF Injection
    <3> QED BY <3>1, <3>2, <3>3 DEF Pool
  <2>2. CASE ~RemoveCommittedFromMempool(k)
    <3>1. UNCHANGED Mempool
      BY <2>2 DEF CommitStep, BeginCommit, SeeMempool, NoBlock, SelectProposer, VotePasses,
         RejectBlock, MempoolSnapshot, SnapshotNonces, SnapshotBalances, TakePartition,
         ExecuteTx, BreakPartition, CollectPartitions, LockState, CommitTx, UnlockState,
         AppendBlock, AddFee, CreditProposer, SaveAllData, Credit, chainVars
    <3> QED BY <3>1 DEF Pool
  <2> QED BY <2>1, <2>2
<1>3. Committed' \subseteq Committed \cup Work(k)
  <2>1. CASE AppendBlock(k)
    <3>1. PICK last \in Nat :
            /\ \A p \in Places : p \in Places' /\ p[1] < last /\ At(p)' = At(p)
            /\ \A p \in Places' :
                 p \in Places \/ (/\ p[1] = last /\ p[2] \in DOMAIN final[k]
                                  /\ At(p)' = final[k][p[2]].tx /\ p = <<p[1], p[2]>>)
      BY <2>1, AppendedBlock
    <3>2. \A p \in Places' : At(p)' \in Committed \cup Work(k) BY <3>1 DEF Committed, Work
    <3> QED BY <3>2 DEF Committed
  <2>2. CASE ~AppendBlock(k)
    <3>1. UNCHANGED Blockchain
      BY <2>2 DEF CommitStep, BeginCommit, SeeMempool, NoBlock, SelectProposer, VotePasses,
         RejectBlock, MempoolSnapshot, SnapshotNonces, SnapshotBalances, TakePartition,
         ExecuteTx, BreakPartition, CollectPartitions, LockState, CommitTx, UnlockState,
         AddFee, CreditProposer, SaveAllData, RemoveCommittedFromMempool, Credit, chainVars
    <3> QED BY <3>1 DEF Committed, Places, At
  <2> QED BY <2>1, <2>2
<1>4. \A j \in Committers : Work(j)' \subseteq Work(j) \cup Pool BY <1>1, CommitKeepsWork
<1> QED BY <1>2, <1>3, <1>4 DEF Held

\* What is new to the ledger, a client has appended to the mempool.
LEMMA HeldOrigin ==
  ASSUME IndInv, [Next]_vars, NEW tx \in Held'
  PROVE  tx \in Held \/ \E c \in Clients : AddToMempool(c) /\ tx = ctx[c]
<1>1. ASSUME NEW k \in Committers, CommitStep(k) PROVE Held' \subseteq Held
  BY <1>1, CommitKeepsHeld
<1>2. ASSUME UNCHANGED <<Mempool, Blockchain, snap, todo, final>> PROVE Held' = Held
  BY <1>2 DEF Held, Pool, Committed, Places, At, Work
<1>3. ASSUME NEW c \in Clients, AddToMempool(c) PROVE tx \in Held \/ tx = ctx[c]
  <2>1. /\ Mempool' = Append(Mempool, ctx[c])
        /\ UNCHANGED <<Blockchain, snap, todo, final>>
    BY <1>3 DEF AddToMempool, ClientReturn, commitVars, snapVars, execVars
  <2>2. Mempool \in Seq(Tx) BY DEF IndInv, TypeOK, ChainTypes
  <2>3. \A i \in DOMAIN Mempool' : Mempool'[i] = ctx[c] \/ (i \in DOMAIN Mempool /\ Mempool'[i] = Mempool[i])
    BY <2>1, <2>2
  <2>4. Pool' \subseteq Pool \cup {ctx[c]} BY <2>3 DEF Pool
  <2>5. Committed' = Committed /\ \A k \in Committers : Work(k)' = Work(k)
    BY <2>1 DEF Committed, Places, At, Work
  <2> QED BY <2>4, <2>5 DEF Held
<1>4. ASSUME NEW c \in Clients, ClientStep(c), ~AddToMempool(c)
      PROVE  UNCHANGED <<Mempool, Blockchain, snap, todo, final>>
  BY <1>4 DEF ClientStep, NewTransaction, ReceiveTx, Submit, CheckNonce, CheckBalance,
     ClientGoto, ClientReturn, chainVars, commitVars, snapVars, execVars
<1>5. ASSUME NEW to, NEW amount, Airdrop(to, amount)
      PROVE  UNCHANGED <<Mempool, Blockchain, snap, todo, final>>
  BY <1>5 DEF Airdrop, Credit, commitVars, snapVars, execVars
<1>6. ASSUME UNCHANGED vars PROVE UNCHANGED <<Mempool, Blockchain, snap, todo, final>>
  BY <1>6 DEF vars, chainVars, commitVars, snapVars, execVars
<1> QED BY <1>1, <1>2, <1>3, <1>4, <1>5, <1>6 DEF Next

\* Built by a command of the node, or taken from a shard's queue.
Queued(tx) == \E sh \in Shards : \E i \in entered[sh] : tx = Logged(sh, i)
Sourced(tx) == tx \in built \/ Queued(tx)

SourceInv ==
  /\ \A tx \in Held : Sourced(tx)
  /\ \A c \in Clients \ Shards : cpc[c] # "idle" => ctx[c] \in built
  /\ IsFiniteSet(built)

\* Only commands of the node build transactions.
LEMMA BuiltGrows ==
  ASSUME [FlowNext]_flowVars
  PROVE  \/ built' = built
         \/ \E c \in Clients \ Shards : NewTransaction(c) /\ built' = built \cup {ctx'[c]}
<1>1. ASSUME NEW c \in Callers, CallerStep(c) PROVE built' = built
  BY <1>1 DEF CallerStep, Call, Enqueue, history
<1>2. ASSUME NEW sh \in Shards, Take(sh) \/ Validate(sh) PROVE built' = built
  BY <1>2 DEF Take, Validate, history
<1>3. ASSUME NEW c \in Clients \ Shards, Command(c)
      PROVE  built' = built \/ (NewTransaction(c) /\ built' = built \cup {ctx'[c]})
  BY <1>3 DEF Command
<1>4. ASSUME UNCHANGED history PROVE built' = built BY <1>4 DEF history
<1>5. ASSUME UNCHANGED flowVars PROVE UNCHANGED history BY <1>5 DEF flowVars
<1> QED BY <1>1, <1>2, <1>3, <1>4, <1>5 DEF FlowNext

LEMMA EnteredGrows ==
  ASSUME IndInv, GP!Typed, QueueInv, ShardInv, [FlowNext]_flowVars, NEW sh \in Shards
  PROVE  entered[sh] \subseteq entered'[sh]
<1>1. entered \in [Shards -> SUBSET Nat] BY DEF ShardInv
<1>2. CASE Validate(sh)
  <2>1. \/ entered' = [entered EXCEPT ![sh] = @ \cup {Taken(sh)}]
        \/ entered' = entered
    BY <1>2 DEF Validate
  <2> QED BY <1>1, <2>1
<1>3. CASE Take(sh) BY <1>3 DEF Take, history
<1>4. CASE ~Validate(sh) /\ ~Take(sh) BY <1>4, ShardStays
<1> QED BY <1>2, <1>3, <1>4

LEMMA SourcedStays ==
  ASSUME IndInv, GP!Typed, QueueInv, ShardInv, [FlowNext]_flowVars, NEW tx, Sourced(tx)
  PROVE  Sourced(tx)'
<1>1. CASE tx \in built BY <1>1, BuiltGrows DEF Sourced
<1>2. CASE Queued(tx)
  <2>1. PICK sh \in Shards : \E i \in entered[sh] : tx = Logged(sh, i) BY <1>2 DEF Queued
  <2>2. PICK i \in entered[sh] : tx = Logged(sh, i) BY <2>1
  <2>3. i \in entered'[sh] BY <2>2, EnteredGrows
  <2>4. i \in 1..Len(log[sh]) BY EnteredTx
  <2>5. Logged(sh, i)' = Logged(sh, i) BY <2>4, HistoryGrows
  <2>6. tx = Logged(sh, i)' BY <2>2, <2>5
  <2> QED BY <2>3, <2>6 DEF Sourced, Queued
<1> QED BY <1>1, <1>2 DEF Sourced

\* A client that is not a shard moves when its command does.
LEMMA CommandsMove ==
  ASSUME IndInv, [FlowNext]_flowVars, NEW c \in Clients \ Shards, ~Command(c)
  PROVE  cpc'[c] = cpc[c] /\ ctx'[c] = ctx[c]
<1>1. Shards \subseteq Clients BY PipelineAssumption
<1>2. ASSUME NEW d \in Callers, CallerStep(d) PROVE UNCHANGED <<cpc, ctx>>
  BY <1>2 DEF CallerStep, Call, Enqueue, vars, clientVars
<1>3. ASSUME NEW sh \in Shards, Take(sh) PROVE cpc'[c] = cpc[c] /\ ctx'[c] = ctx[c]
  <2>1. \E tx : Submit(sh, tx) BY <1>3 DEF Take
  <2>2. sh # c /\ sh \in Clients BY <1>1
  <2> QED BY <2>1, <2>2 DEF Submit, IndInv, TypeOK, ClientTypes
<1>4. ASSUME NEW sh \in Shards, Validate(sh) PROVE cpc'[c] = cpc[c] /\ ctx'[c] = ctx[c]
  <2>1. Validation(sh) BY <1>4 DEF Validate
  <2>2. sh # c /\ sh \in Clients BY <1>1
  <2> QED BY <2>1, <2>2, OneClientMoves
<1>5. ASSUME NEW d \in Clients \ Shards, Command(d) PROVE cpc'[c] = cpc[c] /\ ctx'[c] = ctx[c]
  <2>1. Validation(d) \/ NewTransaction(d) BY <1>5 DEF Command
  <2>2. d # c BY <1>5
  <2> QED BY <2>1, <2>2, OneClientMoves
<1>6. ASSUME NEW k \in Committers, CommitStep(k) PROVE UNCHANGED <<cpc, ctx>>
  BY <1>6
  DEF CommitStep, BeginCommit, SeeMempool, NoBlock, SelectProposer, VotePasses,
     RejectBlock, MempoolSnapshot, SnapshotNonces, SnapshotBalances, TakePartition,
     ExecuteTx, BreakPartition, CollectPartitions, LockState, CommitTx, UnlockState,
     AppendBlock, AddFee, CreditProposer, SaveAllData, RemoveCommittedFromMempool,
     ReturnFrom, Goto, clientVars
<1>7. ASSUME NEW to, NEW amount, Airdrop(to, amount) PROVE UNCHANGED <<cpc, ctx>>
  BY <1>7 DEF Airdrop, clientVars
<1>8. ASSUME UNCHANGED vars PROVE UNCHANGED <<cpc, ctx>> BY <1>8 DEF vars, clientVars
<1>9. ASSUME UNCHANGED flowVars PROVE UNCHANGED vars BY <1>9 DEF flowVars
<1> QED BY <1>2, <1>3, <1>4, <1>5, <1>6, <1>7, <1>8, <1>9 DEF FlowNext

\* A command's client has in hand what the command has built.
LEMMA CommandsHoldBuilt ==
  ASSUME IndInv, SourceInv, [FlowNext]_flowVars, NEW c \in Clients \ Shards, cpc'[c] # "idle"
  PROVE  ctx'[c] \in built'
<1>1. /\ DOMAIN cpc = Clients /\ DOMAIN ctx = Clients
      /\ cpc[c] # "idle" => ctx[c] \in built
  BY DEF IndInv, TypeOK, ClientTypes, SourceInv
<1>2. CASE ~Command(c) BY <1>1, <1>2, CommandsMove, BuiltGrows
<1>3. CASE Command(c) /\ NewTransaction(c) /\ built' = built \cup {ctx'[c]} BY <1>3
<1>4. CASE Command(c) /\ Validation(c)
  <2>1. cpc[c] # "idle" /\ (ctx' = ctx \/ cpc' = [cpc EXCEPT ![c] = "idle"])
    BY <1>4 DEF Validation, CheckNonce, CheckBalance, AddToMempool, ClientGoto, ClientReturn
  <2>2. ctx' = ctx BY <1>1, <2>1
  <2> QED BY <1>1, <2>1, <2>2, BuiltGrows
<1> QED BY <1>2, <1>3, <1>4 DEF Command

\* What a client appends is built, or at a position that enters with it.
LEMMA AddedIsSourced ==
  ASSUME IndInv, GP!Typed, QueueInv, ShardInv, PoolInv, SourceInv, [FlowNext]_flowVars,
         NEW c \in Clients, AddToMempool(c), NEW tx, tx = ctx[c]
  PROVE  Sourced(tx)'
<1>1. cpc[c] = "append" /\ cpc'[c] = "idle"
  BY DEF AddToMempool, ClientReturn, IndInv, TypeOK, ClientTypes
<1>2. CASE c \notin Shards
  <2>1. tx \in built BY <1>1, <1>2 DEF SourceInv
  <2>2. Sourced(tx) BY <2>1 DEF Sourced
  <2> QED BY <2>2, SourcedStays
<1>3. CASE c \in Shards
  <2>1. ~Take(c) BY <1>1 DEF Take, Submit
  <2>2. Validate(c) BY <1>1, <1>3, <2>1, ShardStays
  <2>3. /\ UNCHANGED <<payload, log>>
        /\ entered' = [entered EXCEPT ![c] = @ \cup {Taken(c)}]
    BY <1>1, <2>2 DEF Validate
  <2>4. entered \in [Shards -> SUBSET Nat] /\ ctx[c] = Logged(c, Taken(c))
    BY <1>1, <1>3 DEF ShardInv, TakenInv
  <2>5. Taken(c) \in entered'[c] BY <1>3, <2>3, <2>4
  <2>6. \A i : Logged(c, i)' = Logged(c, i) BY <2>3 DEF Logged
  <2> QED BY <1>3, <2>4, <2>5, <2>6 DEF Sourced, Queued
<1> QED BY <1>2, <1>3

LEMMA StepSource ==
  /\ IndInv /\ PoolInv /\ GP!Typed /\ QueueInv /\ ShardInv /\ SourceInv /\ [FlowNext]_flowVars
  => SourceInv'
<1> SUFFICES ASSUME IndInv, PoolInv, GP!Typed, QueueInv, ShardInv, SourceInv,
                    [FlowNext]_flowVars
             PROVE  SourceInv'
  OBVIOUS
<1>1. [Next]_vars BY StepIsLedger
<1>2. ASSUME NEW tx \in Held' PROVE Sourced(tx)'
  <2>1. CASE tx \in Held
    <3>1. Sourced(tx) BY <2>1 DEF SourceInv
    <3> QED BY <3>1, SourcedStays
  <2>2. CASE \E c \in Clients : AddToMempool(c) /\ tx = ctx[c]
    BY <2>2, AddedIsSourced
  <2> QED BY <1>1, <2>1, <2>2, HeldOrigin
<1>3. IsFiniteSet(built')
  <2>1. IsFiniteSet(built) BY DEF SourceInv
  <2>2. \A x : IsFiniteSet(built \cup {x}) BY <2>1, FS_AddElement
  <2> QED BY <2>1, <2>2, BuiltGrows
<1> QED BY <1>2, <1>3, CommandsHoldBuilt DEF SourceInv

LEMMA InitSource == FlowInit => SourceInv
<1> SUFFICES ASSUME FlowInit PROVE SourceInv OBVIOUS
<1>1. built = {} /\ \A c \in Clients : cpc[c] = "idle" BY DEF FlowInit, Init
<1>2. \A b \in DOMAIN Blockchain : Blockchain[b].Transactions = << >>
  BY DEF FlowInit, Init, Genesis
<1>3. Committed = {} BY <1>2 DEF Committed, Places
<1>4. Pool = {} BY DEF FlowInit, Init, Pool
<1>5. \A k \in Committers : Work(k) = {} BY DEF FlowInit, Init, Work
<1>6. Held = {} BY <1>3, <1>4, <1>5 DEF Held
<1> QED BY <1>1, <1>6, FS_EmptySet DEF SourceInv

LEMMA SourcesHold == FlowSpec => []SourceInv
BY LedgerHolds, GatewayIsTyped, QueuesHold, ShardsHold, InitSource, StepSource, PTL DEF FlowSpec

-----------------------------------------------------------------------------
(* From one end to the other *)

LEMMA ExecutedIsSourced ==
  ASSUME IndInv, QueueInv, GP!Typed, ShardInv, SourceInv, NEW p \in Places
  PROVE  /\ At(p) \in Tx /\ At(p).nonce \in Nat /\ At(p).from \in Accounts
         /\ At(p) \in built
              \/ \E i \in entered[ShardOf[At(p).from]] : At(p) = Logged(ShardOf[At(p).from], i)
<1>1. At(p) \in Tx /\ At(p).nonce \in Nat /\ At(p).from \in Accounts
  BY PlacesFacts, TxFacts
<1>2. Sourced(At(p)) BY DEF SourceInv, Held, Committed
<1>3. ASSUME Queued(At(p))
      PROVE  \E i \in entered[ShardOf[At(p).from]] : At(p) = Logged(ShardOf[At(p).from], i)
  <2>1. PICK sh \in Shards : \E i \in entered[sh] : At(p) = Logged(sh, i) BY <1>3 DEF Queued
  <2>2. PICK i \in entered[sh] : At(p) = Logged(sh, i) BY <2>1
  <2>3. ShardOf[At(p).from] = sh BY <2>2, EnteredTx
  <2> QED BY <2>2, <2>3
<1> QED BY <1>1, <1>2, <1>3 DEF Sourced

\* The nonces of a sender ascend along the chain.
LEMMA ChainAscends ==
  ASSUME IndInv, ChainInv, NEW p \in Places, NEW q \in Places, At(p).from = At(q).from,
         p[1] < q[1] \/ (p[1] = q[1] /\ p[2] < q[2])
  PROVE  At(p).nonce < At(q).nonce
<1>1. /\ p = <<p[1], p[2]>> /\ q = <<q[1], q[2]>> /\ p[1] \in Nat /\ p[2] \in Nat
      /\ q[1] \in Nat /\ q[2] \in Nat
  BY PlacesFacts
<1>2. CASE p[1] < q[1] BY <1>2 DEF ChainInv, Ascending
<1>3. CASE p[1] = q[1] /\ p[2] < q[2]
  <2>1. p # q BY <1>1, <1>3
  <2> QED BY <1>3, <2>1 DEF ChainInv, OneTxPerSenderPerBlock
<1> QED BY <1>2, <1>3

\* ExecutedInQueueOrder for any instance: neither the sort by nonce, nor the order in
\* which the workers finish, nor transactions that come twice let the chain execute what
\* a sender has sent through the gateway in another order than its shard has queued it.
THEOREM QueueOrderIsKept == FlowSpec => []ExecutedInQueueOrder
<1>1. IndInv /\ QueueInv /\ GP!Typed /\ ShardInv /\ SourceInv /\ ChainInv => ExecutedInQueueOrder
  <2> SUFFICES ASSUME IndInv, QueueInv, GP!Typed, ShardInv, SourceInv, ChainInv,
                      NEW p \in Places, NEW q \in Places,
                      At(p).from = At(q).from, At(p) \notin built, At(q) \notin built,
                      p[1] < q[1] \/ (p[1] = q[1] /\ p[2] < q[2])
               PROVE  \E i, j \in entered[ShardOf[At(p).from]] :
                        /\ i < j /\ Logged(ShardOf[At(p).from], i) = At(p)
                        /\ Logged(ShardOf[At(p).from], j) = At(q)
    BY DEF ExecutedInQueueOrder
  <2> DEFINE sh == ShardOf[At(p).from]
  <2>1. PICK i \in entered[sh] : At(p) = Logged(sh, i) BY ExecutedIsSourced
  <2>2. PICK j \in entered[sh] : At(q) = Logged(sh, j) BY ExecutedIsSourced
  <2>3. At(p).nonce < At(q).nonce BY ChainAscends
  <2>4. At(p).nonce \in Nat /\ At(q).nonce \in Nat BY ExecutedIsSourced
  <2>5. sh \in Shards
    <3>1. At(p).from \in Accounts BY ExecutedIsSourced
    <3> QED BY <3>1, PipelineAssumption DEF G!GatewayAssumption
  <2>6. i \in Nat /\ j \in Nat BY <2>5 DEF ShardInv
  <2> HIDE DEF sh
  <2>7. j < i => Logged(sh, j).nonce <= Logged(sh, i).nonce
    BY <2>1, <2>2, <2>5 DEF ShardInv, OrderInv
  <2>8. i # j BY <2>1, <2>2, <2>3, <2>4
  <2>9. ~(j < i)
    <3>1. ASSUME j < i PROVE FALSE
      <4>1. At(q).nonce <= At(p).nonce BY <2>1, <2>2, <2>7, <3>1
      <4> QED BY <2>3, <2>4, <4>1
    <3> QED BY <3>1
  <2>10. i < j BY <2>6, <2>8, <2>9
  <2> QED BY <2>1, <2>2, <2>10 DEF sh
<1>2. FlowSpec => []ChainInv BY ChainIsCounted, FlowIsLedger, PTL
<1> QED BY <1>1, <1>2, LedgerHolds, GatewayIsTyped, QueuesHold, ShardsHold, SourcesHold, PTL

\* Places hold different transactions.
LEMMA PlacesDiffer ==
  ASSUME IndInv, ChainInv, NEW p \in Places, NEW q \in Places, At(p) = At(q)
  PROVE  p = q
<1>1. /\ p = <<p[1], p[2]>> /\ q = <<q[1], q[2]>> /\ p[1] \in Nat /\ p[2] \in Nat
      /\ q[1] \in Nat /\ q[2] \in Nat /\ At(p).nonce \in Nat
  BY PlacesFacts, TxFacts
<1>2. ~(p[1] < q[1]) /\ ~(q[1] < p[1])
  <2>1. ~(At(p).nonce < At(q).nonce) /\ ~(At(q).nonce < At(p).nonce) /\ At(p).from = At(q).from
    BY <1>1
  <2> QED BY <2>1 DEF ChainInv, Ascending
<1>3. p[1] = q[1] BY <1>1, <1>2
<1> QED BY <1>3 DEF ChainInv, OneTxPerSenderPerBlock

\* The lane of a transaction is the lane of the call that carries it.
LEMMA SameLane ==
  ASSUME NEW tx, NEW g, tx.from = g.from, tx.fee = g.fee
  PROVE  G!laneFor(tx) = GP!laneFor(g)
BY DEF G!laneFor, GP!laneFor, G!isValidator, GP!isValidator

Reached(l) == GP!Reached(l)

\* The sizes of sets are the same on both sides.
LEMMA SameSizes ==
  \A S : (GP!IsFiniteSet(S) <=> IsFiniteSet(S)) /\ GP!Cardinality(S) = Cardinality(S)
<1>1. \A S : GP!IsFiniteSet(S) <=> IsFiniteSet(S) BY DEF GP!IsFiniteSet, IsFiniteSet
<1>2. \A S : GP!Cardinality(S) = Cardinality(S) BY DEF GP!Cardinality, Cardinality
<1> QED BY <1>1, <1>2

\* What the shards have got is not more than the rates allow.
RateInv ==
  \A l \in G!Lanes :
    /\ IsFiniteSet(Reached(l))
    /\ role = "public" =>
         Cardinality(Reached(l)) * Unit <= (Burst[l] + now * Rate[l]) * G!LaneWeight(l)

LEMMA RateHolds == FlowSpec => []RateInv
<1>1. GP!Spec => []GP!WithinRate
  <2> HIDE DEF GP!Lanes
  <2> QED BY ONLY GP!ShardsAreRateLimited, GatewayGiven DEF GP!GatewayAssumption
<1>2. GP!WithinRate => RateInv
  <2> SUFFICES ASSUME GP!WithinRate, NEW l \in G!Lanes
               PROVE  /\ IsFiniteSet(Reached(l))
                      /\ role = "public" => Cardinality(Reached(l)) * Unit
                           <= (Burst[l] + now * Rate[l]) * G!LaneWeight(l)
    BY DEF RateInv
  <2>1. /\ GP!IsFiniteSet(Reached(l))
        /\ role = "public" => GP!Cardinality(Reached(l)) * Unit
             <= (Burst[l] + now * Rate[l]) * GP!LaneWeight(l)
    BY DEF GP!WithinRate, G!Lanes, GP!Lanes, Reached
  <2>2. GP!LaneWeight(l) = G!LaneWeight(l)
    BY DEF GP!LaneWeight, G!LaneWeight, GP!MaxWeight, G!MaxWeight
  <2>3. /\ GP!IsFiniteSet(Reached(l)) <=> IsFiniteSet(Reached(l))
        /\ GP!Cardinality(Reached(l)) = Cardinality(Reached(l))
    BY SameSizes
  <2> QED BY ONLY <2>1, <2>2, <2>3
<1> QED BY <1>1, <1>2, FlowIsGateway, PTL

\* What the chain has executed of a lane is either built here or has reached a shard, and
\* nothing of it has been executed twice.
LEMMA ExecutedHasReached ==
  ASSUME IndInv, GP!Typed, QueueInv, ShardInv, SourceInv, ChainInv, NEW l \in G!Lanes,
         IsFiniteSet(Reached(l))
  PROVE  LET executed == {p \in Places : G!laneFor(At(p)) = l}
             mine == {tx \in built : G!laneFor(tx) = l}
         IN  /\ Cardinality(executed) \in Nat /\ Cardinality(mine) \in Nat
             /\ Cardinality(Reached(l)) \in Nat
             /\ Cardinality(executed) <= Cardinality(Reached(l)) + Cardinality(mine)
<1> DEFINE executed == {p \in Places : G!laneFor(At(p)) = l}
           mine == {tx \in built : G!laneFor(tx) = l}
           got == Reached(l)
           carried == {payload[g.id] : g \in got}
<1>1. IsFiniteSet(mine) /\ Cardinality(mine) \in Nat
  <2>1. IsFiniteSet(built) /\ mine \subseteq built BY DEF SourceInv
  <2> HIDE DEF mine
  <2>2. IsFiniteSet(mine) BY <2>1, FS_Subset
  <2> QED BY <2>2, FS_CardinalityType
<1>2. /\ IsFiniteSet(carried) /\ Cardinality(carried) <= Cardinality(got)
      /\ Cardinality(carried) \in Nat /\ Cardinality(got) \in Nat
  <2> DEFINE f == [g \in got |-> payload[g.id]]
  <2>1. f \in Surjection(got, carried) BY DEF Surjection
  <2> HIDE DEF f, got, carried
  <2>2. IsFiniteSet(got) BY DEF got
  <2>3. IsFiniteSet(carried) /\ Cardinality(carried) <= Cardinality(got)
    BY <2>1, <2>2, FS_Surjection
  <2> QED BY <2>2, <2>3, FS_CardinalityType
<1>3. \A p \in executed : At(p) \in mine \cup carried
  <2> SUFFICES ASSUME NEW p \in Places, G!laneFor(At(p)) = l, At(p) \notin built
               PROVE  At(p) \in carried
    OBVIOUS
  <2> DEFINE sh == ShardOf[At(p).from]
  <2>1. PICK i \in entered[sh] : At(p) = Logged(sh, i) BY ExecutedIsSourced
  <2>2. sh \in Shards
    <3>1. At(p).from \in Accounts BY ExecutedIsSourced
    <3> QED BY <3>1, PipelineAssumption DEF G!GatewayAssumption
  <2> HIDE DEF sh
  <2> DEFINE g == log[sh][i]
  <2>3. i \in 1..Len(log[sh]) /\ g \in validated BY <2>1, <2>2, EnteredTx
  <2>4. At(p).from = g.from /\ At(p).fee = g.fee BY <2>1, <2>2, <2>3, TakenTx
  <2>5. At(p) = payload[g.id] BY <2>1 DEF Logged
  <2> HIDE DEF g
  <2>6. GP!laneFor(g) = l BY <2>4, SameLane
  <2>7. g \in got BY <2>3, <2>6 DEF Reached, GP!Reached, GP!HandedOver
  <2> QED BY <2>5, <2>7
<1> DEFINE all == mine \cup carried
<1>4. /\ IsFiniteSet(all) /\ Cardinality(all) \in Nat
      /\ Cardinality(all) <= Cardinality(mine) + Cardinality(carried)
  <2> HIDE DEF mine, carried
  <2>1. /\ IsFiniteSet(all)
        /\ Cardinality(all) =
             Cardinality(mine) + Cardinality(carried) - Cardinality(mine \cap carried)
    BY <1>1, <1>2, FS_Union
  <2>2. Cardinality(mine \cap carried) \in Nat
    <3>1. IsFiniteSet(mine \cap carried) BY <1>1, FS_Intersection
    <3> QED BY <3>1, FS_CardinalityType
  <2>3. Cardinality(all) \in Nat BY <2>1, FS_CardinalityType
  <2> QED BY <1>1, <1>2, <2>1, <2>2, <2>3
<1>5. Cardinality(executed) \in Nat /\ Cardinality(executed) <= Cardinality(all)
  <2> DEFINE f == [p \in executed |-> At(p)]
  <2>1. \A p, q \in executed : At(p) = At(q) => p = q BY PlacesDiffer
  <2>2. \A p \in executed : At(p) \in all BY <1>3
  <2> HIDE DEF executed, all
  <2>3. /\ f \in [executed -> all]
        /\ \A p, q \in executed : f[p] = f[q] => p = q
    BY <2>1, <2>2
  <2> HIDE DEF f
  <2>4. f \in Injection(executed, all) BY <2>3 DEF Injection, IsInjective
  <2>5. IsFiniteSet(executed) /\ Cardinality(executed) <= Cardinality(all)
    BY <1>4, <2>4, FS_Injection
  <2> QED BY <2>5, FS_CardinalityType
<1> HIDE DEF executed, mine, got, carried, all
<1>6. Cardinality(executed) <= Cardinality(got) + Cardinality(mine)
  BY <1>1, <1>2, <1>4, <1>5
<1> QED BY <1>1, <1>2, <1>5, <1>6 DEF executed, mine, got

\* ChainIsRateLimited for any instance: every transaction that the chain executes has a
\* call of its own behind it that a bucket let pass, unless the node has built it, and so
\* the lanes of GatewayAcceptTx limit the chain and not just the queues.
THEOREM RateLimitHolds == FlowSpec => []ChainIsRateLimited
<1>1. /\ IndInv /\ GP!Typed /\ QueueInv /\ ShardInv /\ SourceInv /\ ChainInv /\ RateInv
      => ChainIsRateLimited
  <2> SUFFICES ASSUME IndInv, GP!Typed, QueueInv, ShardInv, SourceInv, ChainInv, RateInv,
                      role = "public", NEW l \in G!Lanes
               PROVE  Cardinality({p \in Places : G!laneFor(At(p)) = l}) * Unit
                        <= (Burst[l] + now * Rate[l]) * G!LaneWeight(l)
                             + Cardinality({tx \in built : G!laneFor(tx) = l}) * Unit
    BY DEF ChainIsRateLimited
  <2> DEFINE n == Cardinality({p \in Places : G!laneFor(At(p)) = l})
             m == Cardinality({tx \in built : G!laneFor(tx) = l})
             r == Cardinality(Reached(l))
             most == (Burst[l] + now * Rate[l]) * G!LaneWeight(l)
  <2>1. IsFiniteSet(Reached(l)) /\ r * Unit <= most BY DEF RateInv
  <2>2. n \in Nat /\ m \in Nat /\ r \in Nat /\ n <= r + m BY <2>1, ExecutedHasReached
  <2>3. Unit \in Nat BY PipelineAssumption DEF G!GatewayAssumption
  <2>4. most \in Int
    <3>1. /\ Burst[l] \in Nat /\ Rate[l] \in Nat /\ now \in Nat
      BY PipelineAssumption DEF G!GatewayAssumption, GP!Typed, GP!TypeOK
    <3>2. G!LaneWeight(l) \in Nat BY DEF G!LaneWeight, G!MaxWeight
    <3> QED BY <3>1, <3>2, ProductType
  <2> HIDE DEF n, m, r, most
  <2>5. n * Unit <= most + m * Unit
    <3>1. n * Unit <= (r + m) * Unit
      <4>1. r + m \in Nat /\ n <= r + m BY <2>2
      <4>2. Unit * ((r + m) - n) \in Nat BY <2>2, <2>3, <4>1, ProductType
      <4>3. Unit * ((r + m) - n) = (r + m) * Unit - n * Unit BY <2>2, <2>3
      <4>4. (r + m) * Unit \in Int /\ n * Unit \in Int BY <2>2, <2>3, ProductType
      <4> QED BY ONLY <4>2, <4>3, <4>4
    <3>2. (r + m) * Unit = r * Unit + m * Unit BY <2>2, <2>3
    <3>3. n * Unit \in Int /\ r * Unit \in Int /\ m * Unit \in Int
      BY <2>2, <2>3, ProductType
    <3> QED BY <2>1, <2>4, <3>1, <3>2, <3>3
  <2> QED BY <2>5 DEF n, m, most
<1>2. FlowSpec => []ChainInv BY ChainIsCounted, FlowIsLedger, PTL
<1> QED
  BY <1>1, <1>2, LedgerHolds, GatewayIsTyped, QueuesHold, ShardsHold, SourcesHold, RateHolds, PTL
=============================================================================
