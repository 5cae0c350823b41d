--------------------------- MODULE GatewayProofs ----------------------------
(***************************************************************************)
(* What a bucket shared by callers of different weight lets pass, for any  *)
(* rates, bursts, stakes and callers.  Two inequalities are kept by every  *)
(* call: what has passed since a tick, together with the tokens that are   *)
(* left, is at most what a full bucket and the heaviest caller's refill    *)
(* allow; what has passed in all, together with the tokens that are left,  *)
(* is at least a burst.                                                    *)
(*                                                                         *)
(* Then, what becomes of a call: the two counters lag behind the calls by  *)
(* the callers that still stand before them.  And how the shards implement *)
(* one queue for each sender (module Ingress): what the queue of a shard   *)
(* holds of one sender changes at its ends only.                           *)
(***************************************************************************)
EXTENDS Gateway, SumTheorems, TLAPS

-----------------------------------------------------------------------------
(* Arithmetic; the prover needs every product spelled out *)

LEMMA ProductNat == \A m, n \in Nat : m * n \in Nat
OBVIOUS

LEMMA ProductGrows == \A k, m, n \in Nat : m <= n => k * m <= k * n
<1> SUFFICES ASSUME NEW k \in Nat, NEW m \in Nat, NEW n \in Nat, m <= n
             PROVE  k * m <= k * n
  OBVIOUS
<1> DEFINE d == n - m
<1>1. d \in Nat /\ n = m + d OBVIOUS
<1>2. k * n = k * m + k * d BY <1>1
<1>3. k * d \in Nat /\ k * m \in Nat BY <1>1, ProductNat
<1> HIDE DEF d
<1> QED BY <1>2, <1>3

\* A refill at weight w brings at most what one at a greater weight does.
LEMMA RefillGrows ==
  \A e, r, w, m \in Nat : w <= m => e * r * w \in Nat /\ e * r * w <= e * (r * m)
<1> SUFFICES ASSUME NEW e \in Nat, NEW r \in Nat, NEW w \in Nat, NEW m \in Nat, w <= m
             PROVE  e * r * w \in Nat /\ e * r * w <= e * (r * m)
  OBVIOUS
<1>1. e * r \in Nat BY ProductNat
<1>2. (e * r) * w <= (e * r) * m BY <1>1, ProductGrows
<1>3. (e * r) * m = e * (r * m) OBVIOUS
<1>4. (e * r) * w \in Nat BY <1>1, ProductNat
<1> QED BY <1>2, <1>3, <1>4

-----------------------------------------------------------------------------
(* Types *)

LEMMA WeightType ==
  ASSUME NEW tx \in Tx
  PROVE  /\ laneFor(tx) \in Lanes
         /\ Weight(tx.from) \in Nat /\ 1 <= Weight(tx.from)
         /\ Weight(tx.from) <= LaneWeight(laneFor(tx))
<1>1. laneFor(tx) \in Lanes BY DEF laneFor, Lanes
<1>2. CASE isValidator(tx.from)
  <2>1. Stake[tx.from] \in Nat BY <1>2, GatewayAssumption DEF isValidator
  <2>2. laneFor(tx) = "fast" BY <1>2 DEF laneFor
  <2>3. Weight(tx.from) = Lesser(1 + Stake[tx.from], 4) BY <1>2 DEF Weight, MaxWeight
  <2> QED BY <1>1, <2>1, <2>2, <2>3 DEF Lesser, LaneWeight, MaxWeight
<1>3. CASE ~isValidator(tx.from)
  <2>1. Weight(tx.from) = 1 BY <1>3 DEF Weight
  <2> QED BY <1>1, <2>1 DEF LaneWeight, MaxWeight
<1> QED BY <1>2, <1>3

LEMMA LaneNumbers ==
  ASSUME NEW l \in Lanes
  PROVE  /\ Rate[l] \in Nat /\ Burst[l] \in Nat
         /\ LaneWeight(l) \in Nat /\ 1 <= LaneWeight(l)
         /\ Rate[l] * LaneWeight(l) \in Nat /\ Burst[l] * LaneWeight(l) \in Nat
<1>1. Rate[l] \in Nat /\ Burst[l] \in Nat BY GatewayAssumption
<1>2. LaneWeight(l) \in Nat /\ 1 <= LaneWeight(l) BY DEF LaneWeight, MaxWeight
<1> QED BY <1>1, <1>2, ProductNat

\* The bucket that a call finds: a number, below the cap, above the least of what was
\* there and a burst, and richer by at most what the lane's heaviest caller brings.
LEMMA FilledBounds ==
  ASSUME NEW l \in Lanes, NEW w \in Nat, 1 <= w, w <= LaneWeight(l),
         tokens[l] \in Nat, lastRef[l] \in Nat, now \in Nat, lastRef[l] <= now
  PROVE  /\ Filled(l, w) \in Nat
         /\ Filled(l, w) <= Burst[l] * LaneWeight(l)
         /\ Filled(l, w) <= tokens[l] + (now - lastRef[l]) * (Rate[l] * LaneWeight(l))
         /\ Filled(l, w) >= tokens[l] \/ Filled(l, w) >= Burst[l]
<1> DEFINE e == now - lastRef[l]
           in == e * Rate[l] * w
           cap == Burst[l] * w
<1>1. e \in Nat OBVIOUS
<1>2. in \in Nat /\ in <= e * (Rate[l] * LaneWeight(l))
  BY <1>1, LaneNumbers, RefillGrows
<1>3. cap \in Nat /\ cap <= Burst[l] * LaneWeight(l)
  BY LaneNumbers, ProductNat, ProductGrows
<1>4. Burst[l] * 1 <= cap
  BY LaneNumbers, ProductGrows
<1>5. Filled(l, w) = Lesser(tokens[l] + in, cap)
  BY DEF Filled
<1>6. Burst[l] \in Nat BY LaneNumbers
<1>7. e * (Rate[l] * LaneWeight(l)) \in Nat BY <1>1, LaneNumbers, ProductNat
<1>8. Burst[l] * LaneWeight(l) \in Nat BY LaneNumbers
<1>9. Burst[l] <= cap BY <1>4, <1>6
<1> HIDE DEF in, cap
<1>10. (now - lastRef[l]) * (Rate[l] * LaneWeight(l)) = e * (Rate[l] * LaneWeight(l))
  OBVIOUS
<1> HIDE DEF e
<1> DEFINE most == e * (Rate[l] * LaneWeight(l))
           full == Burst[l] * LaneWeight(l)
<1>11. in <= most /\ cap <= full /\ most \in Nat /\ full \in Nat
  BY <1>2, <1>3, <1>7, <1>8
<1> HIDE DEF most, full
<1>12. /\ Filled(l, w) \in Nat /\ Filled(l, w) <= full
       /\ Filled(l, w) <= tokens[l] + most
       /\ Filled(l, w) >= tokens[l] \/ Filled(l, w) >= Burst[l]
  BY <1>2, <1>3, <1>5, <1>6, <1>9, <1>11 DEF Lesser
<1> QED BY <1>10, <1>12 DEF most, full

LEMMA GotoType ==
  ASSUME NEW c \in Callers, NEW place \in Places \ {"idle"}, TypeOK, ctx[c].at # "idle",
         Goto(c, place)
  PROVE  ctx' \in [Callers -> {Idle} \cup Busy]
<1>1. ctx[c] \in Busy BY DEF TypeOK, Idle
<1>2. [ctx[c] EXCEPT !.at = place] \in Busy BY <1>1 DEF Busy
<1>3. ctx' = [ctx EXCEPT ![c] = [ctx[c] EXCEPT !.at = place]] BY DEF Goto
<1> QED BY <1>2, <1>3 DEF TypeOK

LEMMA ReturnType ==
  ASSUME NEW c \in Callers, TypeOK, Return(c)
  PROVE  ctx' \in [Callers -> {Idle} \cup Busy]
BY DEF TypeOK, Return

LEMMA CallerTx ==
  ASSUME NEW c \in Callers, TypeOK, ctx[c].at # "idle"
  PROVE  ctx[c].tx \in Tx
<1>1. ctx[c] \in Busy BY DEF TypeOK, Idle
<1> QED BY <1>1 DEF Busy

-----------------------------------------------------------------------------
(* Calls of allow *)

InTime == \A l \in Lanes : lastRef[l] <= now

\* What a call does to the bucket of lane l that it found with f parts.
Passed(l, f) ==
  /\ f >= Unit
  /\ tokens' = [tokens EXCEPT ![l] = f - Unit]
  /\ admitted' = [admitted EXCEPT ![l] = @ + 1]
  /\ UNCHANGED refused

TurnedAway(l, f) ==
  /\ ~(f >= Unit)
  /\ tokens' = [tokens EXCEPT ![l] = f]
  /\ refused' = [refused EXCEPT ![l] = @ + 1]
  /\ UNCHANGED admitted

LEMMA AllowEffect ==
  ASSUME TypeOK, InTime, NEW c \in Callers, allow(c)
  PROVE  /\ \E l \in Lanes, f \in Nat :
              /\ f <= Burst[l] * LaneWeight(l)
              /\ f <= tokens[l] + (now - lastRef[l]) * (Rate[l] * LaneWeight(l))
              /\ f >= tokens[l] \/ f >= Burst[l]
              /\ lastRef' = [lastRef EXCEPT ![l] = now]
              /\ Passed(l, f) \/ TurnedAway(l, f)
         /\ Goto(c, "enqueue") \/ Goto(c, "refuse")
         /\ UNCHANGED <<role, now, before, ingress, stats, calls>>
<1> DEFINE tx == ctx[c].tx
           l == laneFor(tx)
           w == Weight(tx.from)
           f == Filled(l, w)
<1>1. tx \in Tx BY CallerTx DEF allow
<1>2. l \in Lanes /\ w \in Nat /\ 1 <= w /\ w <= LaneWeight(l) BY <1>1, WeightType
<1>3. tokens[l] \in Nat /\ lastRef[l] \in Nat /\ now \in Nat /\ lastRef[l] <= now
  BY <1>2 DEF TypeOK, InTime
<1>4. /\ f \in Nat /\ f <= Burst[l] * LaneWeight(l)
      /\ f <= tokens[l] + (now - lastRef[l]) * (Rate[l] * LaneWeight(l))
      /\ f >= tokens[l] \/ f >= Burst[l]
  BY <1>2, <1>3, FilledBounds
<1>5. /\ lastRef' = [lastRef EXCEPT ![l] = now]
      /\ \/ Passed(l, f) /\ Goto(c, "enqueue")
         \/ TurnedAway(l, f) /\ Goto(c, "refuse")
      /\ UNCHANGED <<role, now, before, ingress, stats, calls>>
  BY DEF allow, RefillTime, Price, Passed, TurnedAway
<1> HIDE DEF tx, l, w, f
<1> QED BY <1>2, <1>4, <1>5

-----------------------------------------------------------------------------
(* Type correctness *)

Typed == TypeOK /\ InTime

LEMMA InitTyped == Init => Typed
BY GatewayAssumption DEF Init, Typed, TypeOK, InTime

LEMMA AllowTyped ==
  ASSUME Typed, NEW c \in Callers, allow(c)
  PROVE  Typed'
<1>1. TypeOK /\ InTime BY DEF Typed
<1>2. PICK l \in Lanes, f \in Nat :
        /\ lastRef' = [lastRef EXCEPT ![l] = now]
        /\ Passed(l, f) \/ TurnedAway(l, f)
  BY <1>1, AllowEffect
<1>3. UNCHANGED <<role, now, before, ingress, stats, calls>> BY <1>1, AllowEffect
<1>4. ctx' \in [Callers -> {Idle} \cup Busy]
  <2>1. ctx[c].at # "idle" BY DEF allow
  <2>2. Goto(c, "enqueue") \/ Goto(c, "refuse") BY <1>1, AllowEffect
  <2> QED BY <1>1, <2>1, <2>2, GotoType DEF Places
<1>5. /\ tokens' \in [Lanes -> Nat] /\ lastRef' \in [Lanes -> Nat]
      /\ admitted' \in [Lanes -> Nat] /\ refused' \in [Lanes -> Nat]
  <2>1. lastRef' \in [Lanes -> Nat] BY <1>1, <1>2 DEF TypeOK
  <2>2. CASE Passed(l, f)
    <3>1. f - Unit \in Nat BY <2>2, GatewayAssumption DEF Passed
    <3>2. admitted[l] + 1 \in Nat BY <1>1 DEF TypeOK
    <3> QED BY <1>1, <2>1, <2>2, <3>1, <3>2 DEF TypeOK, Passed
  <2>3. CASE TurnedAway(l, f)
    <3>1. refused[l] + 1 \in Nat BY <1>1 DEF TypeOK
    <3> QED BY <1>1, <2>1, <2>3, <3>1 DEF TypeOK, TurnedAway
  <2> QED BY <1>2, <2>2, <2>3
<1>6. \A k \in Lanes : lastRef'[k] <= now'
  BY <1>1, <1>2, <1>3 DEF TypeOK, InTime
<1> QED BY <1>1, <1>3, <1>4, <1>5, <1>6 DEF Typed, TypeOK, InTime, ingress, stats

LEMMA CallTyped ==
  ASSUME Typed, NEW c \in Callers, NEW s \in Senders, NEW fee \in Fees,
         GatewayAcceptTx(c, s, fee)
  PROVE  Typed'
<1> DEFINE tx == [id |-> calls + 1, from |-> s, fee |-> fee]
           call == [at |-> IF role = "public" THEN "allow" ELSE "enqueue", tx |-> tx]
<1>1. calls \in Nat /\ calls < MaxCalls BY DEF Typed, TypeOK, GatewayAcceptTx
<1>2. tx \in Tx BY <1>1, GatewayAssumption DEF Tx
<1>3. call \in Busy BY <1>2 DEF Busy, Places
<1>4. ctx' = [ctx EXCEPT ![c] = call] BY DEF GatewayAcceptTx
<1> HIDE DEF call
<1>5. ctx' \in [Callers -> {Idle} \cup Busy] BY <1>3, <1>4 DEF Typed, TypeOK
<1> QED
  BY <1>1, <1>5 DEF GatewayAcceptTx, Typed, TypeOK, InTime, bucket, ingress, stats

LEMMA QueueTyped ==
  ASSUME Typed, NEW c \in Callers, enqueueShard(c)
  PROVE  Typed'
<1> DEFINE tx == ctx[c].tx
           sh == ShardOf[tx.from]
<1>1. ctx[c].at # "idle" BY DEF enqueueShard
<1>2. tx \in Tx BY <1>1, CallerTx DEF Typed
<1>3. sh \in Shards BY <1>2, GatewayAssumption DEF Tx
<1>4. /\ Goto(c, "accept") \/ Goto(c, "overflow")
      /\ shardCh' = [shardCh EXCEPT ![sh] = Append(@, tx)] \/ UNCHANGED shardCh
      /\ UNCHANGED <<role, now, bucket, validating, validated, stats, calls>>
  BY DEF enqueueShard
<1>5. ctx' \in [Callers -> {Idle} \cup Busy] BY <1>1, <1>4, GotoType DEF Typed, Places
<1> HIDE DEF tx, sh
<1>6. shardCh' \in [Shards -> Seq(Tx)]
  <2>1. shardCh \in [Shards -> Seq(Tx)] BY DEF Typed, TypeOK
  <2>2. Append(shardCh[sh], tx) \in Seq(Tx) BY <1>2, <1>3, <2>1
  <2> QED BY <1>4, <2>1, <2>2
<1> QED BY <1>4, <1>5, <1>6 DEF Typed, TypeOK, InTime, bucket, stats

LEMMA CountTyped ==
  ASSUME Typed, NEW c \in Callers, Refuse(c) \/ Overflow(c) \/ Accept(c)
  PROVE  Typed'
<1>1. /\ Return(c) \/ Goto(c, "accept")
      /\ ctx[c].at # "idle"
      /\ \/ ingressDropped' = ingressDropped + 1 /\ UNCHANGED ingressAccepted
         \/ ingressAccepted' = ingressAccepted + 1 /\ UNCHANGED ingressDropped
      /\ UNCHANGED <<role, now, bucket, ingress, calls>>
  BY DEF Refuse, Overflow, Accept
<1>2. ctx' \in [Callers -> {Idle} \cup Busy]
  BY <1>1, GotoType, ReturnType DEF Typed, Places
<1> QED BY <1>1, <1>2 DEF Typed, TypeOK, InTime, bucket, ingress

LEMMA ShardTyped ==
  ASSUME Typed, NEW sh \in Shards, ShardStep(sh)
  PROVE  Typed'
<1>1. CASE TakeTx(sh)
  <2>1. shardCh[sh] \in Seq(Tx) /\ shardCh[sh] # << >>
    BY <1>1 DEF TakeTx, Typed, TypeOK
  <2>2. Head(shardCh[sh]) \in Tx /\ Tail(shardCh[sh]) \in Seq(Tx) BY <2>1
  <2> QED BY <1>1, <2>2 DEF TakeTx, Typed, TypeOK, InTime, bucket, stats
<1>2. CASE EndValidation(sh)
  BY <1>2 DEF EndValidation, Typed, TypeOK, InTime, bucket, stats
<1> QED BY <1>1, <1>2 DEF ShardStep

LEMMA TickTyped == Typed /\ Tick => Typed'
<1> SUFFICES ASSUME Typed, Tick PROVE Typed'
  OBVIOUS
<1>1. before' \in [Lanes -> [0..now' -> Nat]]
  BY DEF Tick, Typed, TypeOK
<1> QED BY <1>1 DEF Tick, Typed, TypeOK, InTime, ingress, stats

LEMMA StepTyped == Typed /\ [Next]_vars => Typed'
<1> SUFFICES ASSUME Typed, [Next]_vars PROVE Typed'
  OBVIOUS
<1>1. CASE UNCHANGED vars
  BY <1>1 DEF vars, bucket, ingress, stats, Typed, TypeOK, InTime
<1>2. CASE Tick BY <1>2, TickTyped
<1>3. CASE \E c \in Callers : CallerStep(c)
  BY <1>3, CallTyped, AllowTyped, QueueTyped, CountTyped DEF CallerStep
<1>4. CASE \E sh \in Shards : ShardStep(sh) BY <1>4, ShardTyped
<1> QED BY <1>1, <1>2, <1>3, <1>4 DEF Next

LEMMA AlwaysTyped == Spec => []Typed
BY InitTyped, StepTyped, PTL DEF Spec

\* Every variable of the gateway keeps its type: above all, no bucket is ever overdrawn.
THEOREM TypeCorrect == Spec => []TypeOK
<1>1. Typed => TypeOK BY DEF Typed
<1> QED BY <1>1, AlwaysTyped, PTL

-----------------------------------------------------------------------------
(* The buckets change in calls of allow only *)

LEMMA OtherSteps ==
  ASSUME [Next]_vars
  PROVE  \/ \E c \in Callers : allow(c)
         \/ Tick
         \/ UNCHANGED <<now, tokens, lastRef, admitted, refused, before>>
<1>1. CASE UNCHANGED vars BY <1>1 DEF vars, bucket
<1>2. CASE Tick BY <1>2
<1>3. ASSUME NEW c \in Callers, CallerStep(c)
      PROVE  allow(c) \/ UNCHANGED <<now, tokens, lastRef, admitted, refused, before>>
  BY <1>3
  DEF CallerStep, GatewayAcceptTx, Refuse, enqueueShard, Overflow, Accept, bucket
<1>4. ASSUME NEW sh \in Shards, ShardStep(sh)
      PROVE  UNCHANGED <<now, tokens, lastRef, admitted, refused, before>>
  BY <1>4 DEF ShardStep, TakeTx, EndValidation, bucket
<1> QED BY <1>1, <1>2, <1>3, <1>4 DEF Next

\* What a call may do to the bucket of lane l, with the brought tokens named.
Effect(l, f) ==
  /\ f <= Burst[l] * LaneWeight(l)
  /\ f <= tokens[l] + (now - lastRef[l]) * (Rate[l] * LaneWeight(l))
  /\ f >= tokens[l] \/ f >= Burst[l]
  /\ lastRef' = [lastRef EXCEPT ![l] = now]
  /\ Passed(l, f) \/ TurnedAway(l, f)
  /\ UNCHANGED <<now, before>>

LEMMA AllowIsEffect ==
  ASSUME Typed, NEW c \in Callers, allow(c)
  PROVE  \E l \in Lanes, f \in Nat : Effect(l, f)
BY AllowEffect DEF Typed, Effect

-----------------------------------------------------------------------------
(* No more than a burst and the refill *)

\* Since tick t, what has passed and what is left of it came from a full bucket at t and
\* from the refills up to the last call; without a call since t nothing has passed.
Within(l, t) ==
  \/ /\ lastRef[l] >= t
     /\ (admitted[l] - before[l][t]) * Unit + tokens[l]
          <= Burst[l] * LaneWeight(l) + (lastRef[l] - t) * (Rate[l] * LaneWeight(l))
  \/ /\ lastRef[l] < t
     /\ admitted[l] = before[l][t]

AllWithin == \A l \in Lanes : \A t \in 0..now : Within(l, t)

LEMMA InitWithin == Init => AllWithin
<1> SUFFICES ASSUME Init, NEW l \in Lanes, NEW t \in 0..now PROVE Within(l, t)
  BY DEF AllWithin
<1>1. t = 0 /\ lastRef[l] = 0 /\ admitted[l] = 0 /\ before[l][t] = 0 /\ tokens[l] = Burst[l]
  BY DEF Init
<1>2. Burst[l] * 1 <= Burst[l] * LaneWeight(l) BY LaneNumbers, ProductGrows
<1>3. Burst[l] \in Nat /\ Burst[l] * LaneWeight(l) \in Nat BY LaneNumbers
<1>4. (lastRef[l] - t) * (Rate[l] * LaneWeight(l)) = 0 BY <1>1, LaneNumbers
<1>5. (admitted[l] - before[l][t]) * Unit = 0 BY <1>1, GatewayAssumption
<1> QED BY <1>1, <1>2, <1>3, <1>4, <1>5 DEF Within

\* The arithmetic of one call, freed of the bucket: a = passed since t, u = Unit,
\* b = a full bucket, r = refill per tick, last = time of the last call before this one.
LEMMA CallWithin ==
  ASSUME NEW a \in Int, NEW u \in Nat, NEW b \in Nat, NEW r \in Nat, NEW k \in Nat,
         NEW f \in Nat, NEW last \in Nat, NEW t \in Nat, NEW n \in Nat,
         last <= n, t <= n, f <= b, f <= k + (n - last) * r,
         \/ last >= t /\ a * u + k <= b + (last - t) * r
         \/ last < t /\ a = 0
  PROVE  a * u + f <= b + (n - t) * r
<1>1. CASE last >= t /\ a * u + k <= b + (last - t) * r
  <2> DEFINE p == (n - last) * r
             q == (last - t) * r
             z == a * u
  <2>1. (n - t) * r = p + q OBVIOUS
  <2>2. p \in Int /\ q \in Int /\ z \in Int OBVIOUS
  <2>3. f <= k + p /\ z + k <= b + q BY <1>1
  <2> HIDE DEF p, q, z
  <2>4. z + f <= b + (p + q) BY <2>2, <2>3
  <2> QED BY <2>1, <2>4 DEF z
<1>2. CASE last < t /\ a = 0
  <2>1. a * u = 0 BY <1>2
  <2>2. n - t \in Nat OBVIOUS
  <2>3. (n - t) * r \in Nat BY <2>2, ProductNat
  <2> QED BY <2>1, <2>3
<1> QED BY <1>1, <1>2

LEMMA EffectWithin ==
  ASSUME Typed, AllWithin, NEW l \in Lanes, NEW f \in Nat, Effect(l, f),
         NEW t \in 0..now
  PROVE  Within(l, t)'
<1> DEFINE a == admitted[l] - before[l][t]
           b == Burst[l] * LaneWeight(l)
           r == Rate[l] * LaneWeight(l)
<1>1. /\ admitted[l] \in Nat /\ before[l][t] \in Nat /\ tokens[l] \in Nat
      /\ lastRef[l] \in Nat /\ now \in Nat /\ lastRef[l] <= now /\ t \in Nat /\ t <= now
  BY DEF Typed, TypeOK, InTime
<1>2. a \in Int /\ b \in Nat /\ r \in Nat /\ Unit \in Nat
  BY <1>1, LaneNumbers, GatewayAssumption
<1>3. f <= b /\ f <= tokens[l] + (now - lastRef[l]) * r BY DEF Effect
<1>4. \/ lastRef[l] >= t /\ a * Unit + tokens[l] <= b + (lastRef[l] - t) * r
      \/ lastRef[l] < t /\ a = 0
  <2>1. Within(l, t) BY DEF AllWithin
  <2>2. admitted[l] = before[l][t] => a = 0 BY <1>1
  <2> QED BY <2>1, <2>2 DEF Within
<1>5. a * Unit + f <= b + (now - t) * r
  <2> HIDE DEF a, b, r
  <2> QED BY <1>1, <1>2, <1>3, <1>4, CallWithin
<1>6. lastRef'[l] = now /\ before'[l][t] = before[l][t] /\ now' = now
  BY DEF Effect, Typed, TypeOK
<1>7. (admitted'[l] - before[l][t]) * Unit + tokens'[l] = a * Unit + f
  <2>1. CASE Passed(l, f)
    <3>1. admitted'[l] = admitted[l] + 1 /\ tokens'[l] = f - Unit
      BY <2>1 DEF Passed, Typed, TypeOK
    <3>2. admitted'[l] - before[l][t] = a + 1 BY <1>1, <3>1
    <3> HIDE DEF a
    <3>3. (a + 1) * Unit = a * Unit + Unit BY <1>2
    <3>4. a * Unit \in Int BY <1>2
    <3>5. (a * Unit + Unit) + (f - Unit) = a * Unit + f BY <1>2, <3>4
    <3> QED BY <3>1, <3>2, <3>3, <3>5
  <2>2. CASE TurnedAway(l, f)
    BY <2>2 DEF TurnedAway, Typed, TypeOK
  <2> QED BY <2>1, <2>2 DEF Effect
<1> QED BY <1>1, <1>5, <1>6, <1>7 DEF Within

LEMMA StepWithin == Typed /\ AllWithin /\ [Next]_vars => AllWithin'
<1> SUFFICES ASSUME Typed, AllWithin, [Next]_vars, NEW k \in Lanes, NEW t \in 0..now'
             PROVE  Within(k, t)'
  BY DEF AllWithin
<1>1. ASSUME NEW c \in Callers, allow(c) PROVE Within(k, t)'
  <2>1. PICK l \in Lanes, f \in Nat : Effect(l, f) BY <1>1, AllowIsEffect
  <2>2. t \in 0..now BY <2>1 DEF Effect
  <2>3. CASE k = l BY <2>1, <2>2, <2>3, EffectWithin
  <2>4. CASE k # l
    <3>1. /\ lastRef'[k] = lastRef[k] /\ before' = before
          /\ tokens'[k] = tokens[k] /\ admitted'[k] = admitted[k]
      BY <2>1, <2>4 DEF Effect, Passed, TurnedAway, Typed, TypeOK
    <3> QED BY <2>2, <3>1 DEF AllWithin, Within
  <2> QED BY <2>3, <2>4
<1>2. CASE Tick
  <2>1. UNCHANGED <<tokens, lastRef, admitted>> /\ now' = now + 1 BY <1>2 DEF Tick
  <2>2. now \in Nat /\ lastRef[k] \in Nat /\ lastRef[k] <= now BY DEF Typed, TypeOK, InTime
  <2>3. before'[k][t] = IF t <= now THEN before[k][t] ELSE admitted[k]
    BY <1>2, <2>1 DEF Tick
  <2>4. CASE t <= now
    <3>1. Within(k, t) BY <2>1, <2>2, <2>4 DEF AllWithin
    <3> QED BY <2>1, <2>3, <2>4, <3>1 DEF Within
  <2>5. CASE ~(t <= now)
    <3>1. lastRef[k] < t BY <2>1, <2>2, <2>5
    <3> QED BY <2>1, <2>3, <2>5, <3>1 DEF Within
  <2> QED BY <2>4, <2>5
<1>3. CASE UNCHANGED <<now, tokens, lastRef, admitted, refused, before>>
  BY <1>3 DEF AllWithin, Within
<1> QED BY <1>1, <1>2, <1>3, OtherSteps

LEMMA WithinBounds == Typed /\ AllWithin => RateIsBounded
<1> SUFFICES ASSUME Typed, AllWithin, NEW l \in Lanes, NEW t \in 0..now
             PROVE  (admitted[l] - before[l][t]) * Unit
                      <= (Burst[l] + (now - t) * Rate[l]) * LaneWeight(l)
  BY DEF RateIsBounded
<1> DEFINE a == admitted[l] - before[l][t]
           b == Burst[l] * LaneWeight(l)
           r == Rate[l] * LaneWeight(l)
<1>1. /\ admitted[l] \in Nat /\ before[l][t] \in Nat /\ tokens[l] \in Nat
      /\ lastRef[l] \in Nat /\ now \in Nat /\ lastRef[l] <= now /\ t \in Nat /\ t <= now
  BY DEF Typed, TypeOK, InTime
<1>2. a \in Int /\ b \in Nat /\ r \in Nat /\ Unit \in Nat
  BY <1>1, LaneNumbers, GatewayAssumption
<1>3. (Burst[l] + (now - t) * Rate[l]) * LaneWeight(l) = b + (now - t) * r
  BY <1>1, LaneNumbers
<1>4. \/ lastRef[l] >= t /\ a * Unit + tokens[l] <= b + (lastRef[l] - t) * r
      \/ lastRef[l] < t /\ a = 0
  <2>1. Within(l, t) BY DEF AllWithin
  <2>2. admitted[l] = before[l][t] => a = 0 BY <1>1
  <2> QED BY <2>1, <2>2 DEF Within
<1>5. a * Unit + 0 <= b + (now - t) * r
  <2>1. 0 <= tokens[l] + (now - lastRef[l]) * r
    <3>1. now - lastRef[l] \in Nat BY <1>1
    <3>2. (now - lastRef[l]) * r \in Nat BY <1>2, <3>1, ProductNat
    <3> QED BY <1>1, <3>2
  <2>2. 0 <= b BY <1>2
  <2> HIDE DEF a, b, r
  <2> QED BY <1>1, <1>2, <1>4, <2>1, <2>2, CallWithin
<1>6. a * Unit \in Int BY <1>2
<1> QED BY <1>3, <1>5, <1>6

\* RateIsBounded for any rates, bursts, stakes and callers: callers that refill the
\* bucket of allow by turns, each at its own weight, let no more pass than the heaviest
\* one would alone.
THEOREM RateLimit == Spec => []RateIsBounded
BY AlwaysTyped, InitWithin, StepWithin, WithinBounds, PTL DEF Spec

-----------------------------------------------------------------------------
(* No less than a burst *)

\* What has passed and what is left make a burst; a call was turned away only when less
\* than a token was left of it.
Served(l) ==
  /\ admitted[l] * Unit + tokens[l] >= Burst[l]
  /\ refused[l] > 0 => (admitted[l] + 1) * Unit > Burst[l]

AllServed == \A l \in Lanes : Served(l)

LEMMA InitServed == Init => AllServed
<1> SUFFICES ASSUME Init, NEW l \in Lanes PROVE Served(l)
  BY DEF AllServed
<1>1. admitted[l] = 0 /\ refused[l] = 0 /\ tokens[l] = Burst[l] BY DEF Init
<1>2. admitted[l] * Unit = 0 BY <1>1, GatewayAssumption
<1>3. Burst[l] \in Nat BY LaneNumbers
<1> QED BY <1>1, <1>2, <1>3 DEF Served

LEMMA EffectServed ==
  ASSUME Typed, NEW l \in Lanes, NEW f \in Nat, Served(l), Effect(l, f)
  PROVE  Served(l)'
<1>1. admitted[l] \in Nat /\ refused[l] \in Nat /\ tokens[l] \in Nat BY DEF Typed, TypeOK
<1>2. Unit \in Nat /\ Burst[l] \in Nat BY LaneNumbers, GatewayAssumption
<1> DEFINE z == admitted[l] * Unit
<1>3. z \in Nat BY <1>1, <1>2, ProductNat
<1>4. (admitted[l] + 1) * Unit = z + Unit /\ (admitted[l] + 1 + 1) * Unit = z + Unit + Unit
  BY <1>1, <1>2
<1>5. z + tokens[l] >= Burst[l] /\ (refused[l] > 0 => z + Unit > Burst[l])
  BY <1>4 DEF Served
<1> HIDE DEF z
<1>6. z + f >= Burst[l] BY <1>1, <1>2, <1>3, <1>5 DEF Effect
<1>7. CASE Passed(l, f)
  <2>1. /\ admitted'[l] = admitted[l] + 1 /\ tokens'[l] = f - Unit
        /\ refused'[l] = refused[l]
    BY <1>7 DEF Passed, Typed, TypeOK
  <2>2. (z + Unit) + (f - Unit) >= Burst[l] BY <1>2, <1>3, <1>6
  <2>3. refused[l] > 0 => z + Unit + Unit > Burst[l] BY <1>1, <1>2, <1>3, <1>5
  <2> QED BY <1>4, <2>1, <2>2, <2>3 DEF Served
<1>8. CASE TurnedAway(l, f)
  <2>1. admitted'[l] = admitted[l] /\ tokens'[l] = f
    BY <1>8 DEF TurnedAway, Typed, TypeOK
  <2>2. ~(f >= Unit) BY <1>8 DEF TurnedAway
  <2>3. z + Unit > Burst[l] BY <1>2, <1>3, <1>6, <2>2
  <2> QED BY <1>4, <1>6, <2>1, <2>3 DEF Served, z
<1> QED BY <1>7, <1>8 DEF Effect

LEMMA StepServed == Typed /\ AllServed /\ [Next]_vars => AllServed'
<1> SUFFICES ASSUME Typed, AllServed, [Next]_vars, NEW k \in Lanes PROVE Served(k)'
  BY DEF AllServed
<1>1. ASSUME NEW c \in Callers, allow(c) PROVE Served(k)'
  <2>1. PICK l \in Lanes, f \in Nat : Effect(l, f) BY <1>1, AllowIsEffect
  <2>2. CASE k = l BY <2>1, <2>2, EffectServed DEF AllServed
  <2>3. CASE k # l
    <3>1. /\ tokens'[k] = tokens[k] /\ admitted'[k] = admitted[k]
          /\ refused'[k] = refused[k]
      BY <2>1, <2>3 DEF Effect, Passed, TurnedAway, Typed, TypeOK
    <3> QED BY <3>1 DEF AllServed, Served
  <2> QED BY <2>2, <2>3
<1>2. CASE Tick \/ UNCHANGED <<now, tokens, lastRef, admitted, refused, before>>
  BY <1>2 DEF Tick, AllServed, Served
<1> QED BY <1>1, <1>2, OtherSteps

\* FullBurstFirst for any rates, bursts, stakes and callers: a light call of allow cuts
\* the bucket down to its own cap, which is still a burst.
THEOREM BurstIsServed == Spec => []FullBurstFirst
<1>1. AllServed => FullBurstFirst BY DEF AllServed, Served, FullBurstFirst
<1> QED BY <1>1, AlwaysTyped, InitServed, StepServed, PTL DEF Spec
-----------------------------------------------------------------------------
(* What becomes of a call *)

\* The callers that stand at one of the places P.
Standing(P) == {c \in Callers : ctx[c].at \in P}

\* Their transaction is neither counted as dropped nor handed over to a shard.
Open == Standing({"allow", "refuse", "enqueue", "overflow"})

\* Their call is neither counted as accepted nor refused by a bucket.
Unanswered == Standing({"allow", "enqueue", "overflow", "accept"})

\* Each transaction in the hands of a caller is a new one.
Distinct ==
  /\ \A c \in Open : ctx[c].tx.id <= calls /\ ctx[c].tx \notin HandedOver
  /\ \A c, d \in Open : c # d => ctx[c].tx # ctx[d].tx
  /\ \A tx \in HandedOver : tx.id <= calls

\* Both counters lag behind the calls by what is still under way.
Counted ==
  /\ IsFiniteSet(HandedOver) /\ IsFiniteSet(Open) /\ IsFiniteSet(Unanswered)
  /\ calls = ingressDropped + Cardinality(HandedOver) + Cardinality(Open)
  /\ calls = ingressAccepted + Refusals + Cardinality(Unanswered)

Tracked == Typed /\ Distinct /\ Counted

LEMMA AddMember ==
  ASSUME NEW S, IsFiniteSet(S), NEW x, x \notin S
  PROVE  /\ IsFiniteSet(S \cup {x}) /\ Cardinality(S) \in Nat
         /\ Cardinality(S \cup {x}) = Cardinality(S) + 1
BY FS_AddElement, FS_CardinalityType

LEMMA DropMember ==
  ASSUME NEW S, IsFiniteSet(S), NEW x \in S
  PROVE  /\ IsFiniteSet(S \ {x}) /\ Cardinality(S) \in Nat /\ Cardinality(S) > 0
         /\ Cardinality(S \ {x}) = Cardinality(S) - 1
<1>1. Cardinality(S) \in Nat /\ (Cardinality(S) = 0 <=> S = {})
  BY FS_CardinalityType, FS_EmptySet
<1>2. IsFiniteSet(S \ {x}) /\ Cardinality(S \ {x}) = Cardinality(S) - 1
  BY FS_RemoveElement
<1> QED BY <1>1, <1>2

LEMMA NoMembers == \A S : S = {} => IsFiniteSet(S) /\ Cardinality(S) = 0
BY FS_EmptySet

\* One caller moves: it joins the callers at P, leaves them, or changes nothing.
LEMMA Moves ==
  ASSUME Typed, NEW c \in Callers, NEW v, ctx' = [ctx EXCEPT ![c] = v], NEW P
  PROVE  Standing(P)' = IF v.at \in P THEN Standing(P) \cup {c} ELSE Standing(P) \ {c}
<1>1. DOMAIN ctx = Callers BY DEF Typed, TypeOK
<1>2. \A d \in Callers : ctx'[d] = IF d = c THEN v ELSE ctx[d] BY <1>1
<1> QED BY <1>2 DEF Standing

LEMMA GotoMoves ==
  ASSUME Typed, NEW c \in Callers, NEW place, ctx[c].at # "idle", Goto(c, place), NEW P
  PROVE  /\ Standing(P)' = IF place \in P THEN Standing(P) \cup {c} ELSE Standing(P) \ {c}
         /\ \A d \in Callers : ctx'[d].tx = ctx[d].tx
<1>1. ctx[c] \in Busy /\ DOMAIN ctx = Callers BY DEF Typed, TypeOK, Idle
<1> DEFINE v == [ctx[c] EXCEPT !.at = place]
<1>2. ctx' = [ctx EXCEPT ![c] = v] BY DEF Goto
<1>3. v.at = place /\ v.tx = ctx[c].tx BY <1>1 DEF Busy
<1> HIDE DEF v
<1>4. Standing(P)' = IF place \in P THEN Standing(P) \cup {c} ELSE Standing(P) \ {c}
  BY <1>2, <1>3, Moves
<1>5. \A d \in Callers : ctx'[d] = IF d = c THEN v ELSE ctx[d] BY <1>1, <1>2
<1> QED BY <1>3, <1>4, <1>5

LEMMA ReturnMoves ==
  ASSUME Typed, NEW c \in Callers, Return(c), NEW P, "idle" \notin P
  PROVE  /\ Standing(P)' = Standing(P) \ {c}
         /\ \A d \in Callers \ {c} : ctx'[d] = ctx[d]
<1>1. DOMAIN ctx = Callers BY DEF Typed, TypeOK
<1> DEFINE v == Idle
<1>2. ctx' = [ctx EXCEPT ![c] = v] BY DEF Return
<1>3. v.at \notin P BY DEF Idle
<1> HIDE DEF v
<1>4. Standing(P)' = Standing(P) \ {c}
  <2>1. Standing(P)' = IF v.at \in P THEN Standing(P) \cup {c} ELSE Standing(P) \ {c}
    BY ONLY Typed, c \in Callers, <1>2, Moves
  <2> QED BY <1>3, <2>1
<1>5. \A d \in Callers \ {c} : ctx'[d] = ctx[d] BY <1>1, <1>2
<1> QED BY <1>4, <1>5

LEMMA CountTypes ==
  ASSUME Tracked
  PROVE  /\ calls \in Nat /\ ingressDropped \in Nat /\ ingressAccepted \in Nat
         /\ Refusals \in Nat
         /\ Cardinality(HandedOver) \in Nat /\ Cardinality(Open) \in Nat
         /\ Cardinality(Unanswered) \in Nat
<1>1. Refusals \in Nat BY DEF Tracked, Typed, TypeOK, Refusals, Lanes
<1>2. /\ Cardinality(HandedOver) \in Nat /\ Cardinality(Open) \in Nat
      /\ Cardinality(Unanswered) \in Nat
  BY FS_CardinalityType DEF Tracked, Counted
<1> QED BY <1>1, <1>2 DEF Tracked, Typed, TypeOK

LEMMA InitTracked == Init => Tracked
<1> SUFFICES ASSUME Init PROVE Tracked OBVIOUS
<1>1. Typed BY InitTyped
<1>2. HandedOver = {}
  <2>1. \A sh \in Shards : shardCh[sh] = << >> /\ validating[sh] = {} BY DEF Init
  <2>2. Queued = {} BY <2>1 DEF Queued, ToSet
  <2>3. InValidation = {} BY <2>1 DEF InValidation
  <2> QED BY <2>2, <2>3 DEF HandedOver, Init
<1>3. Open = {} /\ Unanswered = {} BY DEF Init, Open, Unanswered, Standing, Idle
<1>4. calls = 0 /\ ingressDropped = 0 /\ ingressAccepted = 0 /\ Refusals = 0
  BY DEF Init, Refusals, Lanes
<1>5. Counted BY <1>2, <1>3, <1>4, NoMembers DEF Counted
<1>6. Distinct BY <1>2, <1>3 DEF Distinct
<1> QED BY <1>1, <1>5, <1>6 DEF Tracked

\* A call gets a number that no other has.
LEMMA CallTracked ==
  ASSUME Tracked, NEW c \in Callers, NEW s \in Senders, NEW fee \in Fees,
         GatewayAcceptTx(c, s, fee)
  PROVE  Distinct' /\ Counted'
<1> DEFINE tx == [id |-> calls + 1, from |-> s, fee |-> fee]
           v == [at |-> IF role = "public" THEN "allow" ELSE "enqueue", tx |-> tx]
<1>1. /\ ctx[c].at = "idle" /\ calls' = calls + 1 /\ ctx' = [ctx EXCEPT ![c] = v]
      /\ UNCHANGED <<HandedOver, ingressDropped, ingressAccepted, Refusals>>
  BY DEF GatewayAcceptTx, bucket, ingress, stats, HandedOver, Queued, InValidation, Refusals
<1>2. v.at \in {"allow", "enqueue"} /\ v.tx = tx /\ tx.id = calls + 1 OBVIOUS
<1> HIDE DEF v, tx
<1>3. Typed BY DEF Tracked
<1>4. Open' = Open \cup {c} /\ Unanswered' = Unanswered \cup {c}
  <2>1. \A P : Standing(P)' = IF v.at \in P THEN Standing(P) \cup {c} ELSE Standing(P) \ {c}
    BY <1>1, <1>3, Moves
  <2>2. Open' = Open \cup {c} BY <1>2, <2>1 DEF Open
  <2>3. Unanswered' = Unanswered \cup {c} BY <1>2, <2>1 DEF Unanswered
  <2> QED BY <2>2, <2>3
<1>5. c \notin Open /\ c \notin Unanswered BY <1>1 DEF Open, Unanswered, Standing
<1>6. Counted'
  <2> DEFINE o == Cardinality(Open)  u == Cardinality(Unanswered)
             o1 == Cardinality(Open')  u1 == Cardinality(Unanswered')
  <2>1. /\ IsFiniteSet(Open') /\ IsFiniteSet(Unanswered') /\ o1 = o + 1 /\ u1 = u + 1
    BY <1>4, <1>5, AddMember DEF Tracked, Counted
  <2>2. /\ calls = ingressDropped + Cardinality(HandedOver) + o
        /\ calls = ingressAccepted + Refusals + u /\ IsFiniteSet(HandedOver)
    BY DEF Tracked, Counted
  <2>3. o \in Nat /\ u \in Nat BY CountTypes
  <2> DEFINE h == Cardinality(HandedOver)
  <2>4. h \in Nat BY CountTypes
  <2> HIDE DEF o, u, o1, u1, h
  <2>5. /\ calls' = ingressDropped + h + o1 /\ calls' = ingressAccepted + Refusals + u1
    BY <1>1, <2>1, <2>2, <2>3, <2>4, CountTypes DEF h
  <2> QED BY <1>1, <2>1, <2>2, <2>5 DEF Counted, o1, u1, h
<1>7. Distinct'
  <2>1. \A d \in Callers : ctx'[d] = IF d = c THEN v ELSE ctx[d]
    BY <1>1, <1>3 DEF Typed, TypeOK
  <2>2. /\ \A d \in Open : d # c /\ ctx[d].tx.id <= calls /\ ctx[d].tx \notin HandedOver
                           /\ d \in Callers
        /\ \A d, e \in Open : d # e => ctx[d].tx # ctx[e].tx
        /\ \A t \in HandedOver : t.id <= calls
    BY <1>5 DEF Tracked, Distinct, Open, Standing
  <2>3. /\ \A d \in Open : ctx'[d] = ctx[d] /\ ctx[d].tx # tx
        /\ ctx'[c].tx = tx /\ tx \notin HandedOver /\ calls \in Nat
    BY <1>2, <2>1, <2>2, CountTypes
  <2>4. \A d \in Open' : ctx'[d].tx.id <= calls' /\ ctx'[d].tx \notin HandedOver'
    <3> SUFFICES ASSUME NEW d \in Open'
                 PROVE  ctx'[d].tx.id <= calls + 1 /\ ctx'[d].tx \notin HandedOver
      BY <1>1
    <3>1. CASE d = c BY <1>2, <2>3, <3>1
    <3>2. CASE d # c
      <4>1. d \in Open BY <1>4, <3>2
      <4>2. ctx'[d].tx = ctx[d].tx /\ ctx[d].tx \in Tx
        <5>1. ctx[d].at # "idle" /\ d \in Callers BY <4>1 DEF Open, Standing
        <5> QED BY <1>3, <2>3, <4>1, <5>1, CallerTx DEF Typed
      <4> QED BY <2>2, <2>3, <4>1, <4>2 DEF Tx
    <3> QED BY <3>1, <3>2
  <2>5. \A d, e \in Open' : d # e => ctx'[d].tx # ctx'[e].tx
    BY <1>4, <2>2, <2>3
  <2>6. \A t \in HandedOver' : t.id <= calls'
    <3> SUFFICES ASSUME NEW t \in HandedOver PROVE t.id <= calls + 1
      BY <1>1
    <3>1. t \in Tx BY <1>3 DEF HandedOver, Queued, InValidation, Typed, TypeOK, ToSet
    <3> QED BY <2>2, <2>3, <3>1 DEF Tx
  <2> QED BY <2>4, <2>5, <2>6 DEF Distinct
<1> QED BY <1>6, <1>7

LEMMA StillDistinct ==
  ASSUME Distinct, UNCHANGED <<HandedOver, calls>>, Open' \subseteq Open,
         \A d \in Open' : ctx'[d].tx = ctx[d].tx
  PROVE  Distinct'
BY DEF Distinct

\* A bucket turns a call away, or lets it pass: then it stands where both counters wait.
LEMMA AllowTracked ==
  ASSUME Tracked, NEW c \in Callers, allow(c)
  PROVE  Distinct' /\ Counted'
<1>1. Typed /\ TypeOK /\ InTime BY DEF Tracked, Typed
<1>2. PICK l \in Lanes, f \in Nat : Passed(l, f) \/ TurnedAway(l, f)
  BY <1>1, AllowEffect
<1>3. /\ ctx[c].at = "allow" /\ UNCHANGED <<HandedOver, ingressDropped, ingressAccepted, calls>>
      /\ \/ Goto(c, "enqueue") /\ UNCHANGED refused
         \/ Goto(c, "refuse") /\ Refusals' = Refusals + 1
  <2>1. /\ ctx[c].at = "allow"
        /\ UNCHANGED <<HandedOver, ingressDropped, ingressAccepted, calls>>
    BY DEF allow, ingress, stats, HandedOver, Queued, InValidation
  <2>2. \/ Goto(c, "enqueue") /\ UNCHANGED refused
        \/ Goto(c, "refuse") /\ \E k \in Lanes : refused' = [refused EXCEPT ![k] = @ + 1]
    <3>1. laneFor(ctx[c].tx) \in Lanes BY DEF laneFor, Lanes
    <3> QED BY <3>1 DEF allow
  <2>3. ASSUME NEW k \in Lanes, refused' = [refused EXCEPT ![k] = @ + 1]
        PROVE  Refusals' = Refusals + 1
    <3>1. \A m \in Lanes : refused[m] \in Nat /\ refused'[m] = IF m = k THEN refused[m] + 1
                                                               ELSE refused[m]
      BY <1>1, <2>3 DEF TypeOK
    <3> QED BY <3>1 DEF Refusals, Lanes
  <2> QED BY <2>1, <2>2, <2>3
<1>4. c \in Open /\ c \in Unanswered BY <1>3 DEF Open, Unanswered, Standing
<1>5. CASE Goto(c, "enqueue") /\ UNCHANGED refused
  <2>1. /\ Open' = Open \cup {c} /\ Unanswered' = Unanswered \cup {c}
        /\ \A d \in Callers : ctx'[d].tx = ctx[d].tx
    BY <1>1, <1>3, <1>5, GotoMoves DEF Open, Unanswered
  <2>2. Open' = Open /\ Unanswered' = Unanswered /\ Refusals' = Refusals
    BY <1>4, <1>5, <2>1 DEF Refusals
  <2>3. \A d \in Open' : ctx'[d].tx = ctx[d].tx BY <2>1 DEF Open, Standing
  <2>4. Distinct' BY <1>3, <2>2, <2>3, StillDistinct DEF Tracked
  <2> QED BY <1>3, <2>2, <2>4 DEF Tracked, Counted
<1>6. CASE Goto(c, "refuse") /\ Refusals' = Refusals + 1
  <2>1. /\ Open' = Open \cup {c} /\ Unanswered' = Unanswered \ {c}
        /\ \A d \in Callers : ctx'[d].tx = ctx[d].tx
    BY <1>1, <1>3, <1>6, GotoMoves DEF Open, Unanswered
  <2>2. Open' = Open BY <1>4, <2>1
  <2>3. \A d \in Open' : ctx'[d].tx = ctx[d].tx BY <2>1 DEF Open, Standing
  <2>4. Distinct' BY <1>3, <2>2, <2>3, StillDistinct DEF Tracked
  <2> DEFINE u == Cardinality(Unanswered)  u1 == Cardinality(Unanswered')
  <2>5. IsFiniteSet(Unanswered') /\ u1 = u - 1 /\ u \in Nat
    BY <1>4, <2>1, DropMember DEF Tracked, Counted
  <2>6. calls = ingressAccepted + Refusals + u BY DEF Tracked, Counted
  <2> HIDE DEF u, u1
  <2>7. calls' = ingressAccepted' + Refusals' + u1
    BY <1>3, <1>6, <2>5, <2>6, CountTypes
  <2> QED BY <1>3, <2>2, <2>4, <2>5, <2>7 DEF Tracked, Counted, u1
<1> QED BY <1>3, <1>5, <1>6

\* A caller leaves Open when its transaction is counted as dropped.
LEMMA DropTracked ==
  ASSUME Tracked, NEW c \in Open, UNCHANGED <<HandedOver, ingressAccepted, Refusals, calls>>,
         ingressDropped' = ingressDropped + 1,
         Open' = Open \ {c}, Unanswered' = Unanswered,
         \A d \in Open' : ctx'[d].tx = ctx[d].tx
  PROVE  Distinct' /\ Counted'
<1>1. Distinct' BY StillDistinct DEF Tracked
<1> DEFINE o == Cardinality(Open)  o1 == Cardinality(Open')  h == Cardinality(HandedOver)
<1>2. IsFiniteSet(Open') /\ o1 = o - 1 /\ o \in Nat BY DropMember DEF Tracked, Counted
<1>3. calls = ingressDropped + h + o BY DEF Tracked, Counted
<1>4. h \in Nat BY CountTypes
<1> HIDE DEF o, o1, h
<1>5. calls' = ingressDropped' + h + o1 BY <1>2, <1>3, <1>4, CountTypes
<1> QED BY <1>1, <1>2, <1>5 DEF Tracked, Counted, o1, h

LEMMA RefuseTracked ==
  ASSUME Tracked, NEW c \in Callers, Refuse(c)
  PROVE  Distinct' /\ Counted'
<1>1. /\ ctx[c].at = "refuse" /\ ingressDropped' = ingressDropped + 1 /\ Return(c)
      /\ UNCHANGED <<HandedOver, ingressAccepted, Refusals, calls>>
  BY DEF Refuse, bucket, ingress, HandedOver, Queued, InValidation, Refusals
<1>2. /\ Open' = Open \ {c} /\ Unanswered' = Unanswered \ {c}
      /\ \A d \in Callers \ {c} : ctx'[d] = ctx[d]
  BY <1>1, ReturnMoves DEF Tracked, Open, Unanswered
<1>3. c \in Open /\ c \notin Unanswered BY <1>1 DEF Open, Unanswered, Standing
<1>4. Unanswered' = Unanswered BY <1>2, <1>3
<1>5. \A d \in Open' : ctx'[d].tx = ctx[d].tx BY <1>2 DEF Open, Standing
<1> QED BY <1>1, <1>2, <1>3, <1>4, <1>5, DropTracked

LEMMA OverflowTracked ==
  ASSUME Tracked, NEW c \in Callers, Overflow(c)
  PROVE  Distinct' /\ Counted'
<1>1. /\ ctx[c].at = "overflow" /\ ingressDropped' = ingressDropped + 1 /\ Goto(c, "accept")
      /\ UNCHANGED <<HandedOver, ingressAccepted, Refusals, calls>>
  BY DEF Overflow, bucket, ingress, HandedOver, Queued, InValidation, Refusals
<1>2. /\ Open' = Open \ {c} /\ Unanswered' = Unanswered \cup {c}
      /\ \A d \in Callers : ctx'[d].tx = ctx[d].tx
  BY <1>1, GotoMoves DEF Tracked, Open, Unanswered
<1>3. c \in Open /\ c \in Unanswered BY <1>1 DEF Open, Unanswered, Standing
<1>4. Unanswered' = Unanswered BY <1>2, <1>3
<1>5. \A d \in Open' : ctx'[d].tx = ctx[d].tx BY <1>2 DEF Open, Standing
<1> QED BY <1>1, <1>2, <1>3, <1>4, <1>5, DropTracked

LEMMA AcceptTracked ==
  ASSUME Tracked, NEW c \in Callers, Accept(c)
  PROVE  Distinct' /\ Counted'
<1>1. /\ ctx[c].at = "accept" /\ ingressAccepted' = ingressAccepted + 1 /\ Return(c)
      /\ UNCHANGED <<HandedOver, ingressDropped, Refusals, calls>>
  BY DEF Accept, bucket, ingress, HandedOver, Queued, InValidation, Refusals
<1>2. /\ Open' = Open \ {c} /\ Unanswered' = Unanswered \ {c}
      /\ \A d \in Callers \ {c} : ctx'[d] = ctx[d]
  BY <1>1, ReturnMoves DEF Tracked, Open, Unanswered
<1>3. c \notin Open /\ c \in Unanswered BY <1>1 DEF Open, Unanswered, Standing
<1>4. Open' = Open BY <1>2, <1>3
<1>5. \A d \in Open' : ctx'[d].tx = ctx[d].tx BY <1>2, <1>3, <1>4 DEF Open, Standing
<1>6. Distinct' BY <1>1, <1>4, <1>5, StillDistinct DEF Tracked
<1> DEFINE u == Cardinality(Unanswered)  u1 == Cardinality(Unanswered')
<1>7. IsFiniteSet(Unanswered') /\ u1 = u - 1 /\ u \in Nat
  BY <1>2, <1>3, DropMember DEF Tracked, Counted
<1>8. calls = ingressAccepted + Refusals + u BY DEF Tracked, Counted
<1> HIDE DEF u, u1
<1>9. calls' = ingressAccepted' + Refusals' + u1 BY <1>1, <1>7, <1>8, CountTypes
<1> QED BY <1>1, <1>4, <1>6, <1>7, <1>9 DEF Tracked, Counted, u1

-----------------------------------------------------------------------------
(* Queues *)

LEMMA QueueEnds ==
  ASSUME NEW q \in Seq(Tx)
  PROVE  /\ \A tx \in Tx : ToSet(Append(q, tx)) = ToSet(q) \cup {tx}
         /\ q # << >> => /\ Head(q) \in Tx /\ Tail(q) \in Seq(Tx)
                         /\ ToSet(q) = {Head(q)} \cup ToSet(Tail(q))
<1>1. ASSUME NEW tx \in Tx PROVE ToSet(Append(q, tx)) = ToSet(q) \cup {tx}
  <2>1. /\ Len(q) \in Nat /\ DOMAIN q = 1..Len(q)
        /\ DOMAIN Append(q, tx) = 1..(Len(q) + 1)
        /\ Append(q, tx)[Len(q) + 1] = tx
        /\ \A i \in 1..Len(q) : Append(q, tx)[i] = q[i]
    OBVIOUS
  <2> QED BY <2>1 DEF ToSet
<1>2. ASSUME q # << >>
      PROVE  /\ Head(q) \in Tx /\ Tail(q) \in Seq(Tx)
             /\ ToSet(q) = {Head(q)} \cup ToSet(Tail(q))
  <2>1. /\ Len(q) \in Nat /\ Len(q) > 0 /\ DOMAIN q = 1..Len(q)
        /\ DOMAIN Tail(q) = 1..(Len(q) - 1) /\ Head(q) = q[1]
        /\ \A i \in 1..(Len(q) - 1) : Tail(q)[i] = q[i + 1]
        /\ Head(q) \in Tx /\ Tail(q) \in Seq(Tx)
    BY <1>2
  <2>2. \A i \in DOMAIN q : i = 1 \/ (i - 1 \in DOMAIN Tail(q) /\ Tail(q)[i - 1] = q[i])
    BY <2>1
  <2>3. \A i \in DOMAIN Tail(q) : i + 1 \in DOMAIN q /\ Tail(q)[i] = q[i + 1]
    BY <2>1
  <2>4. 1 \in DOMAIN q BY <2>1
  <2> DEFINE r == Tail(q)  x == Head(q)
  <2>5. x = q[1] BY <2>1
  <2> HIDE DEF r, x
  <2>6. {q[i] : i \in DOMAIN q} = {x} \cup {r[i] : i \in DOMAIN r}
    <3>1. \A i \in DOMAIN q : q[i] = x \/ \E j \in DOMAIN r : r[j] = q[i]
      BY <2>2, <2>5 DEF r
    <3>2. \A j \in DOMAIN r : \E i \in DOMAIN q : r[j] = q[i] BY <2>3 DEF r
    <3> QED BY <2>4, <2>5, <3>1, <3>2
  <2> QED BY <2>1, <2>6 DEF ToSet, r, x
<1> QED BY <1>1, <1>2

\* A transaction that a shard has taken over was in the hands of its caller only.
LEMMA QueueTracked ==
  ASSUME Tracked, NEW c \in Callers, enqueueShard(c)
  PROVE  Distinct' /\ Counted'
<1> DEFINE tx == ctx[c].tx  sh == ShardOf[tx.from]
<1>1. /\ ctx[c].at = "enqueue"
      /\ UNCHANGED <<validating, validated, ingressDropped, ingressAccepted, Refusals, calls>>
      /\ \/ shardCh' = [shardCh EXCEPT ![sh] = Append(@, tx)] /\ Goto(c, "accept")
         \/ Goto(c, "overflow") /\ UNCHANGED shardCh
  BY DEF enqueueShard, bucket, stats, Refusals
<1>2. Typed /\ TypeOK BY DEF Tracked, Typed
<1>3. c \in Open /\ c \in Unanswered BY <1>1 DEF Open, Unanswered, Standing
<1>4. tx \in Tx /\ sh \in Shards
  <2>1. tx \in Tx BY <1>1, <1>2, CallerTx
  <2> QED BY <2>1, GatewayAssumption DEF Tx
<1>5. CASE shardCh' = [shardCh EXCEPT ![sh] = Append(@, tx)] /\ Goto(c, "accept")
  <2>1. /\ Open' = Open \ {c} /\ Unanswered' = Unanswered \cup {c}
        /\ \A d \in Callers : ctx'[d].tx = ctx[d].tx
    <3>1. ctx[c].at # "idle" /\ Goto(c, "accept") BY <1>1, <1>5
    <3> HIDE DEF tx, sh
    <3> QED BY <1>2, <3>1, GotoMoves DEF Open, Unanswered
  <2>2. Unanswered' = Unanswered BY <1>3, <2>1
  <2>3. HandedOver' = HandedOver \cup {tx}
    <3> HIDE DEF tx, sh
    <3>1. /\ shardCh'[sh] = Append(shardCh[sh], tx) /\ shardCh[sh] \in Seq(Tx)
          /\ \A k \in Shards \ {sh} : shardCh'[k] = shardCh[k]
      BY <1>2, <1>4, <1>5 DEF TypeOK
    <3>2. ToSet(shardCh'[sh]) = ToSet(shardCh[sh]) \cup {tx} BY <1>4, <3>1, QueueEnds
    <3>3. Queued' = Queued \cup {tx}
      <4>1. \A k \in Shards : ToSet(shardCh'[k]) = IF k = sh THEN ToSet(shardCh[k]) \cup {tx}
                                                   ELSE ToSet(shardCh[k])
        BY <3>1, <3>2
      <4> QED BY <1>4, <4>1 DEF Queued
    <3>4. InValidation' = InValidation BY <1>1 DEF InValidation
    <3> QED BY <1>1, <3>3, <3>4 DEF HandedOver
  <2>4. tx \notin HandedOver /\ tx.id <= calls BY <1>3 DEF Tracked, Distinct
  <2>5. Distinct'
    <3>1. \A d \in Open' : d \in Open /\ d # c /\ ctx'[d].tx = ctx[d].tx
      BY <2>1 DEF Open, Standing
    <3>2. \A d \in Open' : ctx[d].tx # tx BY <1>3, <3>1 DEF Tracked, Distinct
    <3> HIDE DEF tx
    <3> QED BY <1>1, <2>3, <2>4, <3>1, <3>2 DEF Tracked, Distinct
  <2> DEFINE o == Cardinality(Open)  o1 == Cardinality(Open')
             h == Cardinality(HandedOver)  h1 == Cardinality(HandedOver')
  <2>6. IsFiniteSet(Open') /\ o1 = o - 1 /\ o \in Nat
    BY <1>3, <2>1, DropMember DEF Tracked, Counted
  <2>7. IsFiniteSet(HandedOver') /\ h1 = h + 1 /\ h \in Nat
    <3> HIDE DEF tx
    <3> QED BY <2>3, <2>4, AddMember DEF Tracked, Counted
  <2>8. calls = ingressDropped + h + o BY DEF Tracked, Counted
  <2> HIDE DEF o, o1, h, h1
  <2>9. calls' = ingressDropped' + h1 + o1
    <3>1. calls \in Nat /\ ingressDropped \in Nat BY CountTypes
    <3>2. calls' = calls /\ ingressDropped' = ingressDropped BY <1>1
    <3> QED BY ONLY <2>6, <2>7, <2>8, <3>1, <3>2
  <2> QED BY <1>1, <2>2, <2>5, <2>6, <2>7, <2>9 DEF Tracked, Counted, o1, h1
<1>6. CASE Goto(c, "overflow") /\ UNCHANGED shardCh
  <2>1. /\ Open' = Open \cup {c} /\ Unanswered' = Unanswered \cup {c}
        /\ \A d \in Callers : ctx'[d].tx = ctx[d].tx
    <3>1. ctx[c].at # "idle" /\ Goto(c, "overflow") BY <1>1, <1>6
    <3> HIDE DEF tx, sh
    <3> QED BY <1>2, <3>1, GotoMoves DEF Open, Unanswered
  <2>2. Open' = Open /\ Unanswered' = Unanswered BY <1>3, <2>1
  <2>3. \A d \in Open' : ctx'[d].tx = ctx[d].tx BY <2>1 DEF Open, Standing
  <2>4. HandedOver' = HandedOver BY <1>1, <1>6 DEF HandedOver, Queued, InValidation
  <2>5. Distinct' BY <1>1, <2>2, <2>3, <2>4, StillDistinct DEF Tracked
  <2> QED BY <1>1, <2>2, <2>4, <2>5 DEF Tracked, Counted
<1> QED BY <1>1, <1>5, <1>6

\* A shard moves a transaction from its queue to its validation, and out of it.
LEMMA ShardKeepsHandedOver ==
  ASSUME Typed, NEW sh \in Shards, ShardStep(sh)
  PROVE  /\ HandedOver' = HandedOver
         /\ UNCHANGED <<ctx, ingressDropped, ingressAccepted, Refusals, calls>>
<1>1. UNCHANGED <<ctx, ingressDropped, ingressAccepted, Refusals, calls>>
  BY DEF ShardStep, TakeTx, EndValidation, bucket, stats, Refusals
<1>2. TypeOK BY DEF Typed
<1>3. CASE TakeTx(sh)
  <2> DEFINE tx == Head(shardCh[sh])
  <2>1. /\ shardCh[sh] \in Seq(Tx) /\ shardCh[sh] # << >> /\ validating[sh] = {}
        /\ shardCh' = [shardCh EXCEPT ![sh] = Tail(shardCh[sh])]
        /\ validating' = [validating EXCEPT ![sh] = {tx}] /\ validated' = validated
    BY <1>2, <1>3 DEF TakeTx, TypeOK
  <2>2. ToSet(shardCh[sh]) = {tx} \cup ToSet(Tail(shardCh[sh])) BY <2>1, QueueEnds
  <2>3. /\ \A k \in Shards : shardCh'[k] = IF k = sh THEN Tail(shardCh[sh]) ELSE shardCh[k]
        /\ \A k \in Shards : validating'[k] = IF k = sh THEN {tx} ELSE validating[k]
    BY <1>2, <2>1 DEF TypeOK
  <2> HIDE DEF tx
  <2>4. Queued' \cup {tx} = Queued BY <2>2, <2>3 DEF Queued
  <2>5. InValidation' = InValidation \cup {tx} BY <2>1, <2>3 DEF InValidation
  <2> QED BY <1>1, <2>1, <2>4, <2>5 DEF HandedOver
<1>4. CASE EndValidation(sh)
  <2>1. PICK tx \in validating[sh] :
          /\ validating' = [validating EXCEPT ![sh] = @ \ {tx}]
          /\ validated' = validated \cup {tx}
    BY <1>4 DEF EndValidation
  <2>2. shardCh' = shardCh BY <1>4 DEF EndValidation
  <2>3. \A k \in Shards : validating'[k] = IF k = sh THEN validating[k] \ {tx}
                                           ELSE validating[k]
    BY <1>2, <2>1 DEF TypeOK
  <2>4. InValidation' \cup {tx} = InValidation \cup {tx} /\ tx \in InValidation
    BY <2>1, <2>3 DEF InValidation
  <2>5. Queued' = Queued BY <2>2 DEF Queued
  <2> QED BY <1>1, <2>1, <2>4, <2>5 DEF HandedOver
<1> QED BY <1>3, <1>4 DEF ShardStep

LEMMA StepTracked == Tracked /\ [Next]_vars => Tracked'
<1> SUFFICES ASSUME Tracked, [Next]_vars PROVE Distinct' /\ Counted'
  BY StepTyped DEF Tracked
<1>1. ASSUME UNCHANGED <<HandedOver, ctx, ingressDropped, ingressAccepted, Refusals, calls>>
      PROVE  Distinct' /\ Counted'
  <2>1. Open' = Open /\ Unanswered' = Unanswered BY <1>1 DEF Open, Unanswered, Standing
  <2> QED BY <1>1, <2>1 DEF Tracked, Distinct, Counted
<1>2. CASE UNCHANGED vars \/ Tick
  <2>1. UNCHANGED <<HandedOver, ctx, ingressDropped, ingressAccepted, Refusals, calls>>
    BY <1>2 DEF vars, Tick, bucket, ingress, stats, HandedOver, Queued, InValidation, Refusals
  <2> QED BY <1>1, <2>1
<1>3. ASSUME NEW c \in Callers, CallerStep(c) PROVE Distinct' /\ Counted'
  BY <1>3, CallTracked, AllowTracked, RefuseTracked, QueueTracked, OverflowTracked,
     AcceptTracked DEF CallerStep
<1>4. ASSUME NEW sh \in Shards, ShardStep(sh) PROVE Distinct' /\ Counted'
  BY <1>1, <1>4, ShardKeepsHandedOver DEF Tracked
<1> QED BY <1>2, <1>3, <1>4 DEF Next

\* EveryCallIsCounted for any callers, shards and capacities: what GatewayAcceptTx still
\* has to count is in the hands of a caller.
THEOREM CallsAreCounted == Spec => []EveryCallIsCounted
<1>1. Tracked => EveryCallIsCounted
  <2> SUFFICES ASSUME Tracked, \A c \in Callers : ctx[c] = Idle
               PROVE  /\ ingressDropped = calls - Cardinality(HandedOver)
                      /\ ingressAccepted = calls - Refusals
    BY DEF EveryCallIsCounted
  <2>1. Open = {} /\ Unanswered = {} BY DEF Open, Unanswered, Standing, Idle
  <2>2. Cardinality(Open) = 0 /\ Cardinality(Unanswered) = 0 BY <2>1, NoMembers
  <2>3. /\ calls = ingressDropped + Cardinality(HandedOver) + Cardinality(Open)
        /\ calls = ingressAccepted + Refusals + Cardinality(Unanswered)
    BY DEF Tracked, Counted
  <2> QED BY <2>2, <2>3, CountTypes
<1> QED BY <1>1, InitTracked, StepTracked, PTL DEF Spec

-----------------------------------------------------------------------------
(* Every lane's part in what the shards have got *)

\* What shards have got of a lane, and what callers are about to hand over to them.
InHands == {ctx[c].tx : c \in Standing({"enqueue"})}
Carried(l) == {tx \in HandedOver \cup InHands : laneFor(tx) = l}

AllCarried ==
  \A l \in Lanes : /\ IsFiniteSet(Carried(l))
                   /\ role = "public" => Cardinality(Carried(l)) <= admitted[l]

LEMMA NothingMoreCarried ==
  ASSUME Typed, AllCarried, HandedOver' \cup InHands' \subseteq HandedOver \cup InHands,
         UNCHANGED <<role, admitted>>
  PROVE  AllCarried'
<1> SUFFICES ASSUME NEW l \in Lanes
             PROVE  /\ IsFiniteSet(Carried(l)')
                    /\ role = "public" => Cardinality(Carried(l)') <= admitted[l]
  BY DEF AllCarried
<1>1. Carried(l)' \subseteq Carried(l) BY DEF Carried, laneFor, isValidator
<1>2. IsFiniteSet(Carried(l)) /\ (role = "public" => Cardinality(Carried(l)) <= admitted[l])
  BY DEF AllCarried
<1>3. IsFiniteSet(Carried(l)') /\ Cardinality(Carried(l)') <= Cardinality(Carried(l))
  BY <1>1, <1>2, FS_Subset
<1>4. Cardinality(Carried(l)') \in Nat /\ Cardinality(Carried(l)) \in Nat
  BY <1>2, <1>3, FS_CardinalityType
<1>5. admitted[l] \in Nat BY DEF Typed, TypeOK
<1> QED BY <1>2, <1>3, <1>4, <1>5

\* A caller that joins those who hand over has just been admitted, or the node has no lanes.
LEMMA OneMoreCarried ==
  ASSUME Typed, AllCarried, NEW tx, laneFor(tx) \in Lanes,
         HandedOver' \cup InHands' \subseteq HandedOver \cup InHands \cup {tx},
         UNCHANGED role,
         role = "public" => admitted' = [admitted EXCEPT ![laneFor(tx)] = @ + 1]
  PROVE  AllCarried'
<1> SUFFICES ASSUME NEW l \in Lanes
             PROVE  /\ IsFiniteSet(Carried(l)')
                    /\ role = "public" => Cardinality(Carried(l)') <= admitted'[l]
  BY DEF AllCarried
<1> DEFINE more == IF laneFor(tx) = l THEN {tx} ELSE {}
<1>1. Carried(l)' \subseteq Carried(l) \cup more BY DEF Carried, laneFor, isValidator
<1>2. IsFiniteSet(Carried(l)) /\ (role = "public" => Cardinality(Carried(l)) <= admitted[l])
  BY DEF AllCarried
<1>3. admitted \in [Lanes -> Nat] BY DEF Typed, TypeOK
<1>4. Cardinality(Carried(l)) \in Nat BY <1>2, FS_CardinalityType
<1>5. CASE laneFor(tx) = l
  <2>1. /\ IsFiniteSet(Carried(l) \cup {tx})
        /\ Cardinality(Carried(l) \cup {tx}) <= Cardinality(Carried(l)) + 1
    BY <1>2, <1>4, FS_AddElement
  <2>2. /\ IsFiniteSet(Carried(l)')
        /\ Cardinality(Carried(l)') <= Cardinality(Carried(l) \cup {tx})
    BY <1>1, <1>5, <2>1, FS_Subset
  <2>3. Cardinality(Carried(l)') \in Nat /\ Cardinality(Carried(l) \cup {tx}) \in Nat
    BY <2>1, <2>2, FS_CardinalityType
  <2>4. role = "public" => admitted'[l] = admitted[l] + 1 BY <1>3, <1>5
  <2>5. admitted[l] \in Nat BY <1>3
  <2> QED BY ONLY <1>2, <1>4, <2>1, <2>2, <2>3, <2>4, <2>5
<1>6. CASE laneFor(tx) # l
  <2>1. IsFiniteSet(Carried(l)') /\ Cardinality(Carried(l)') <= Cardinality(Carried(l))
    BY <1>1, <1>2, <1>6, FS_Subset
  <2>2. Cardinality(Carried(l)') \in Nat BY <2>1, FS_CardinalityType
  <2>3. role = "public" => admitted'[l] = admitted[l] BY <1>3, <1>6
  <2>4. admitted[l] \in Nat BY <1>3
  <2> QED BY ONLY <1>2, <1>4, <2>1, <2>2, <2>3, <2>4
<1> QED BY <1>5, <1>6

LEMMA CallCarried ==
  ASSUME Typed, AllCarried, NEW c \in Callers, NEW s \in Senders, NEW fee \in Fees,
         GatewayAcceptTx(c, s, fee)
  PROVE  AllCarried'
<1> DEFINE tx == [id |-> calls + 1, from |-> s, fee |-> fee]
           v == [at |-> IF role = "public" THEN "allow" ELSE "enqueue", tx |-> tx]
<1>1. /\ ctx' = [ctx EXCEPT ![c] = v] /\ ctx[c].at = "idle"
      /\ UNCHANGED <<HandedOver, role, admitted>>
  BY DEF GatewayAcceptTx, bucket, ingress, HandedOver, Queued, InValidation
<1>2. DOMAIN ctx = Callers BY DEF Typed, TypeOK
<1>3. v.tx = tx /\ v.at = IF role = "public" THEN "allow" ELSE "enqueue" OBVIOUS
<1>4. laneFor(tx) \in Lanes BY DEF laneFor, Lanes
<1> HIDE DEF v, tx
<1>5. \A d \in Callers : ctx'[d] = IF d = c THEN v ELSE ctx[d] BY <1>1, <1>2
<1>6. InHands' \subseteq IF role = "public" THEN InHands ELSE InHands \cup {tx}
  BY <1>3, <1>5 DEF InHands, Standing
<1>7. CASE role = "public" BY <1>1, <1>6, <1>7, NothingMoreCarried
<1>8. CASE role # "public" BY <1>1, <1>4, <1>6, <1>8, OneMoreCarried
<1> QED BY <1>7, <1>8

LEMMA AllowCarried ==
  ASSUME Typed, AllCarried, NEW c \in Callers, allow(c)
  PROVE  AllCarried'
<1> DEFINE tx == ctx[c].tx
<1>1. /\ UNCHANGED <<HandedOver, role>> /\ ctx[c].at = "allow"
      /\ \/ admitted' = [admitted EXCEPT ![laneFor(tx)] = @ + 1] /\ Goto(c, "enqueue")
         \/ UNCHANGED admitted /\ Goto(c, "refuse")
  BY DEF allow, ingress, HandedOver, Queued, InValidation
<1>2. laneFor(tx) \in Lanes BY DEF laneFor, Lanes
<1>3. ctx[c].at # "idle" BY <1>1
<1>4. CASE admitted' = [admitted EXCEPT ![laneFor(tx)] = @ + 1] /\ Goto(c, "enqueue")
  <2>1. /\ Standing({"enqueue"})' = Standing({"enqueue"}) \cup {c}
        /\ \A d \in Callers : ctx'[d].tx = ctx[d].tx
    BY <1>3, <1>4, GotoMoves
  <2>2. InHands' \subseteq InHands \cup {tx} BY <2>1 DEF InHands, Standing
  <2> HIDE DEF tx
  <2> QED BY <1>1, <1>2, <1>4, <2>2, OneMoreCarried
<1>5. CASE UNCHANGED admitted /\ Goto(c, "refuse")
  <2>1. /\ Standing({"enqueue"})' = Standing({"enqueue"}) \ {c}
        /\ \A d \in Callers : ctx'[d].tx = ctx[d].tx
    BY <1>3, <1>5, GotoMoves
  <2>2. InHands' \subseteq InHands BY <2>1 DEF InHands, Standing
  <2> QED BY <1>1, <1>5, <2>2, NothingMoreCarried
<1> QED BY <1>1, <1>4, <1>5

LEMMA QueueCarried ==
  ASSUME Typed, AllCarried, NEW c \in Callers, enqueueShard(c)
  PROVE  AllCarried'
<1> DEFINE tx == ctx[c].tx  sh == ShardOf[tx.from]
<1>1. /\ ctx[c].at = "enqueue" /\ UNCHANGED <<validating, validated, role, admitted>>
      /\ \/ shardCh' = [shardCh EXCEPT ![sh] = Append(@, tx)] /\ Goto(c, "accept")
         \/ UNCHANGED shardCh /\ Goto(c, "overflow")
  BY DEF enqueueShard, bucket
<1>2. tx \in Tx /\ sh \in Shards
  <2>1. tx \in Tx BY <1>1, CallerTx DEF Typed
  <2> QED BY <2>1, GatewayAssumption DEF Tx
<1>3. c \in Standing({"enqueue"}) BY <1>1 DEF Standing
<1>4. tx \in InHands BY <1>3 DEF InHands
<1>5. /\ Standing({"enqueue"})' = Standing({"enqueue"}) \ {c}
      /\ \A d \in Callers : ctx'[d].tx = ctx[d].tx
  <2> HIDE DEF tx, sh
  <2>1. ctx[c].at # "idle" BY ONLY <1>1
  <2>2. Goto(c, "accept") \/ Goto(c, "overflow") BY ONLY <1>1
  <2> QED BY ONLY <2>1, <2>2, Typed, c \in Callers, GotoMoves
<1>6. InHands' \subseteq InHands BY <1>5 DEF InHands, Standing
<1> HIDE DEF tx, sh
<1>7. shardCh \in [Shards -> Seq(Tx)] BY DEF Typed, TypeOK
<1>8. \A k \in Shards : ToSet(shardCh'[k]) \subseteq ToSet(shardCh[k]) \cup {tx}
  <2>1. CASE UNCHANGED shardCh BY <2>1
  <2>2. CASE shardCh' = [shardCh EXCEPT ![sh] = Append(@, tx)]
    <3>1. shardCh'[sh] = Append(shardCh[sh], tx) BY <1>2, <1>7, <2>2
    <3>2. ToSet(shardCh'[sh]) = ToSet(shardCh[sh]) \cup {tx}
      BY <1>2, <1>7, <3>1, QueueEnds
    <3>3. \A k \in Shards \ {sh} : shardCh'[k] = shardCh[k] BY <1>7, <2>2
    <3> QED BY <3>2, <3>3
  <2> QED BY <1>1, <2>1, <2>2
<1>9. Queued' \subseteq Queued \cup {tx} BY <1>8 DEF Queued
<1>10. InValidation' = InValidation BY <1>1 DEF InValidation
<1>11. HandedOver' \subseteq HandedOver \cup {tx} BY <1>1, <1>9, <1>10 DEF HandedOver
<1> QED BY <1>1, <1>4, <1>6, <1>11, NothingMoreCarried

LEMMA CountCarried ==
  ASSUME Typed, AllCarried, NEW c \in Callers, Refuse(c) \/ Overflow(c) \/ Accept(c)
  PROVE  AllCarried'
<1>1. /\ ctx[c].at # "idle" /\ (Return(c) \/ Goto(c, "accept"))
      /\ UNCHANGED <<HandedOver, role, admitted>>
  BY DEF Refuse, Overflow, Accept, bucket, ingress, HandedOver, Queued, InValidation
<1>2. CASE Return(c)
  <2>1. /\ Standing({"enqueue"})' = Standing({"enqueue"}) \ {c}
        /\ \A d \in Callers \ {c} : ctx'[d] = ctx[d]
    BY <1>2, ReturnMoves
  <2>2. InHands' \subseteq InHands BY <2>1 DEF InHands, Standing
  <2> QED BY <1>1, <2>2, NothingMoreCarried
<1>3. CASE Goto(c, "accept")
  <2>1. /\ Standing({"enqueue"})' = Standing({"enqueue"}) \ {c}
        /\ \A d \in Callers : ctx'[d].tx = ctx[d].tx
    BY <1>1, <1>3, GotoMoves
  <2>2. InHands' \subseteq InHands BY <2>1 DEF InHands, Standing
  <2> QED BY <1>1, <2>2, NothingMoreCarried
<1> QED BY <1>1, <1>2, <1>3

LEMMA StepCarried == Typed /\ AllCarried /\ [Next]_vars => AllCarried'
<1> SUFFICES ASSUME Typed, AllCarried, [Next]_vars PROVE AllCarried'
  OBVIOUS
<1>1. ASSUME UNCHANGED <<HandedOver, ctx, role, admitted>> PROVE AllCarried'
  <2>1. InHands' = InHands BY <1>1 DEF InHands, Standing
  <2> QED BY <1>1, <2>1, NothingMoreCarried
<1>2. CASE UNCHANGED vars \/ Tick
  <2>1. UNCHANGED <<HandedOver, ctx, role, admitted>>
    BY <1>2 DEF vars, Tick, bucket, ingress, HandedOver, Queued, InValidation
  <2> QED BY <1>1, <2>1
<1>3. ASSUME NEW c \in Callers, CallerStep(c) PROVE AllCarried'
  BY <1>3, CallCarried, AllowCarried, QueueCarried, CountCarried DEF CallerStep
<1>4. ASSUME NEW sh \in Shards, ShardStep(sh) PROVE AllCarried'
  <2>1. UNCHANGED <<role, admitted>>
    BY <1>4 DEF ShardStep, TakeTx, EndValidation, bucket
  <2> QED BY <1>1, <1>4, <2>1, ShardKeepsHandedOver
<1> QED BY <1>2, <1>3, <1>4 DEF Next

LEMMA InitCarried == Init => AllCarried
<1> SUFFICES ASSUME Init PROVE AllCarried OBVIOUS
<1>1. HandedOver = {}
  <2>1. \A sh \in Shards : shardCh[sh] = << >> /\ validating[sh] = {} BY DEF Init
  <2>2. Queued = {} BY <2>1 DEF Queued, ToSet
  <2>3. InValidation = {} BY <2>1 DEF InValidation
  <2> QED BY <2>2, <2>3 DEF HandedOver, Init
<1>2. InHands = {} BY DEF Init, InHands, Standing, Idle
<1>3. \A l : Carried(l) = {} BY <1>1, <1>2 DEF Carried
<1>4. \A l \in Lanes : admitted[l] = 0 BY DEF Init
<1> QED BY <1>3, <1>4, NoMembers DEF AllCarried

Reached(l) == {tx \in HandedOver : laneFor(tx) = l}

LEMMA ReachedIsCarried ==
  ASSUME Typed, AllCarried, NEW l \in Lanes
  PROVE  /\ IsFiniteSet(Reached(l)) /\ Cardinality(Reached(l)) \in Nat
         /\ role = "public" => Cardinality(Reached(l)) <= admitted[l]
<1>1. Reached(l) \subseteq Carried(l) BY DEF Reached, Carried
<1>2. IsFiniteSet(Carried(l)) /\ (role = "public" => Cardinality(Carried(l)) <= admitted[l])
  BY DEF AllCarried
<1>3. IsFiniteSet(Reached(l)) /\ Cardinality(Reached(l)) <= Cardinality(Carried(l))
  BY <1>1, <1>2, FS_Subset
<1>4. Cardinality(Reached(l)) \in Nat /\ Cardinality(Carried(l)) \in Nat
  BY <1>2, <1>3, FS_CardinalityType
<1>5. admitted[l] \in Nat BY DEF Typed, TypeOK
<1> QED BY ONLY <1>2, <1>3, <1>4, <1>5

\* What the shards of a public node have got of a lane, in their queues, under validation
\* or validated, the lane's bucket has let pass: a lost transaction is paid for as well.
THEOREM ShardsGetWhatIsAdmitted ==
  Spec => [](role = "public" => \A l \in Lanes : Cardinality(Reached(l)) <= admitted[l])
<1>1. Typed /\ AllCarried =>
        (role = "public" => \A l \in Lanes : Cardinality(Reached(l)) <= admitted[l])
  BY ReachedIsCarried
<1> QED BY <1>1, AlwaysTyped, InitCarried, StepCarried, PTL DEF Spec

\* Nothing had been let pass before the first tick.
FromNothing == \A l \in Lanes : before[l][0] = 0

LEMMA StepFromNothing == Typed /\ FromNothing /\ [Next]_vars => FromNothing'
<1> SUFFICES ASSUME Typed, FromNothing, [Next]_vars PROVE FromNothing'
  OBVIOUS
<1>1. CASE Tick
  <2>1. before' = [l \in Lanes |->
          [t \in 0..(now + 1) |-> IF t <= now THEN before[l][t] ELSE admitted[l]]]
    BY <1>1 DEF Tick
  <2>2. now \in Nat BY DEF Typed, TypeOK
  <2>3. 0 \in 0..(now + 1) /\ 0 <= now BY <2>2
  <2>4. \A l \in Lanes : before'[l][0] = before[l][0] BY ONLY <2>1, <2>3
  <2> QED BY <2>4 DEF FromNothing
<1>2. CASE UNCHANGED before BY <1>2 DEF FromNothing
<1>3. UNCHANGED before \/ Tick
  BY DEF Next, CallerStep, ShardStep, GatewayAcceptTx, allow, Refuse, enqueueShard, Overflow,
     Accept, TakeTx, EndValidation, bucket, vars
<1> QED BY <1>1, <1>2, <1>3

LEMMA InitFromNothing == Init => FromNothing
BY DEF Init, FromNothing

\* What the rate of a lane allows for the time since the start.
WithinRate ==
  \A l \in Lanes :
    /\ IsFiniteSet(Reached(l))
    /\ role = "public" =>
         Cardinality(Reached(l)) * Unit <= (Burst[l] + now * Rate[l]) * LaneWeight(l)

\* So the shards of a public node get no more than the rates of the lanes allow for the
\* time since the start, however often queues have overflowed in between.
THEOREM ShardsAreRateLimited == Spec => []WithinRate
<1>1. Typed /\ AllCarried /\ AllWithin /\ FromNothing => WithinRate
  <2> SUFFICES ASSUME Typed, AllCarried, AllWithin, FromNothing, NEW l \in Lanes
               PROVE  /\ IsFiniteSet(Reached(l))
                      /\ role = "public" => Cardinality(Reached(l)) * Unit
                                              <= (Burst[l] + now * Rate[l]) * LaneWeight(l)
    BY DEF WithinRate
  <2> DEFINE n == Cardinality(Reached(l))
             most == (Burst[l] + now * Rate[l]) * LaneWeight(l)
  <2>1. IsFiniteSet(Reached(l)) /\ n \in Nat /\ (role = "public" => n <= admitted[l])
    BY ReachedIsCarried
  <2>2. /\ now \in Nat /\ admitted[l] \in Nat /\ Unit \in Nat /\ Rate[l] \in Nat
        /\ Burst[l] \in Nat /\ LaneWeight(l) \in Nat
    BY LaneNumbers, GatewayAssumption DEF Typed, TypeOK
  <2>3. (admitted[l] - before[l][0]) * Unit <= (Burst[l] + (now - 0) * Rate[l]) * LaneWeight(l)
    <3>1. 0 \in 0..now BY <2>2
    <3> QED BY <3>1, WithinBounds DEF RateIsBounded
  <2>4. admitted[l] - before[l][0] = admitted[l] /\ now - 0 = now BY <2>2 DEF FromNothing
  <2>5. admitted[l] * Unit <= most BY <2>3, <2>4
  <2>6. Unit * n \in Nat /\ Unit * admitted[l] \in Nat BY <2>1, <2>2, ProductNat
  <2>7. role = "public" => Unit * n <= Unit * admitted[l] BY <2>1, <2>2, ProductGrows
  <2>8. most \in Nat
    <3>1. now * Rate[l] \in Nat BY <2>2, ProductNat
    <3>2. Burst[l] + now * Rate[l] \in Nat BY <2>2, <3>1
    <3> QED BY <2>2, <3>2, ProductNat
  <2> HIDE DEF n, most
  <2>9. n * Unit = Unit * n /\ admitted[l] * Unit = Unit * admitted[l] BY <2>1, <2>2
  <2>10. role = "public" => n * Unit <= most BY ONLY <2>5, <2>6, <2>7, <2>8, <2>9
  <2> QED BY <2>1, <2>10 DEF n, most
<1> QED
  BY <1>1, AlwaysTyped, InitCarried, StepCarried, InitWithin, StepWithin, InitFromNothing,
     StepFromNothing, PTL DEF Spec

-----------------------------------------------------------------------------
(* The transactions of one sender in a queue *)

\* g[n] holds those among the first n of q.
Selects(g, q, s) ==
  /\ g \in [0..Len(q) -> Seq(Tx)]
  /\ g[0] = << >>
  /\ \A n \in 1..Len(q) : g[n] = IF q[n].from = s THEN Append(g[n - 1], q[n]) ELSE g[n - 1]

LEMMA Selection ==
  ASSUME NEW q \in Seq(Tx), NEW s
  PROVE  \E g : Selects(g, q, s)
<1> DEFINE Upto(g, m) ==
             /\ g \in [0..m -> Seq(Tx)] /\ g[0] = << >>
             /\ \A n \in 1..m : g[n] = IF q[n].from = s THEN Append(g[n - 1], q[n])
                             ELSE g[n - 1]
           N == {m \in Nat : m <= Len(q) => \E g : Upto(g, m)}
<1>1. Len(q) \in Nat OBVIOUS
<1>2. 0 \in N
  <2> DEFINE g == [n \in 0..0 |-> << >>]
  <2>1. Upto(g, 0) OBVIOUS
  <2> QED BY <2>1
<1>3. ASSUME NEW m \in N PROVE m + 1 \in N
  <2>0. m \in Nat /\ m + 1 \in Nat OBVIOUS
  <2> SUFFICES ASSUME m + 1 <= Len(q) PROVE \E g : Upto(g, m + 1)
    <3> HIDE DEF Upto
    <3> QED BY <2>0 DEF N
  <2>1. PICK g : Upto(g, m) BY <1>1, <1>3, <2>0
  <2> DEFINE v == IF q[m + 1].from = s THEN Append(g[m], q[m + 1]) ELSE g[m]
             h == [n \in 0..(m + 1) |-> IF n = m + 1 THEN v ELSE g[n]]
  <2>2. v \in Seq(Tx)
    <3>1. g[m] \in Seq(Tx) /\ q[m + 1] \in Tx BY <1>1, <2>1
    <3> QED BY <3>1
  <2>3. h \in [0..(m + 1) -> Seq(Tx)] /\ h[0] = << >>
    <3> HIDE DEF v
    <3> QED BY <2>1, <2>2
  <2>4. ASSUME NEW n \in 1..(m + 1)
        PROVE  h[n] = IF q[n].from = s THEN Append(h[n - 1], q[n]) ELSE h[n - 1]
    <3>1. h[n - 1] = g[n - 1] OBVIOUS
    <3>2. CASE n = m + 1 BY <3>1, <3>2
    <3>3. CASE n # m + 1
      <4>1. n \in 1..m /\ h[n] = g[n] BY <3>3
      <4> QED BY <2>1, <3>1, <4>1
    <3> QED BY <3>2, <3>3
  <2> HIDE DEF h
  <2>5. Upto(h, m + 1) BY <2>3, <2>4
  <2> QED BY <2>5
<1>4. N \in SUBSET Nat OBVIOUS
<1>5. Len(q) \in N
  <2> HIDE DEF N
  <2> QED BY <1>1, <1>2, <1>3, <1>4, AllNaturals
<1> QED BY <1>1, <1>5 DEF Selects

\* Two queues that begin alike.
LEMMA SameBeginning ==
  ASSUME NEW q \in Seq(Tx), NEW r \in Seq(Tx), NEW s, NEW g, Selects(g, q, s),
         NEW h, Selects(h, r, s),
         NEW k \in Nat, k <= Len(q), k <= Len(r), \A n \in 1..k : q[n] = r[n]
  PROVE  g[k] = h[k]
<1> DEFINE N == {m \in Nat : m <= k => g[m] = h[m]}
<1>1. 0 \in N BY DEF Selects
<1>2. ASSUME NEW m \in N PROVE m + 1 \in N
  <2> SUFFICES ASSUME m + 1 <= k PROVE g[m + 1] = h[m + 1] OBVIOUS
  <2>1. g[m] = h[m] /\ q[m + 1] = r[m + 1] BY <1>2
  <2>2. m + 1 \in 1..Len(q) /\ m + 1 \in 1..Len(r) /\ (m + 1) - 1 = m OBVIOUS
  <2> QED BY <2>1, <2>2 DEF Selects
<1>3. N \in SUBSET Nat OBVIOUS
<1>4. k \in N
  <2> HIDE DEF N
  <2> QED BY <1>1, <1>2, <1>3, AllNaturals
<1> QED BY <1>4

LEMMA FromSenderSelects ==
  ASSUME NEW q \in Seq(Tx), NEW s, NEW g, Selects(g, q, s)
  PROVE  FromSender(q, s) = g[Len(q)] /\ FromSender(q, s) \in Seq(Tx)
<1> DEFINE Of == CHOOSE f : f = [n \in 0..Len(q) |->
                   IF n = 0 THEN << >>
                   ELSE IF q[n].from = s THEN Append(f[n - 1], q[n]) ELSE f[n - 1]]
<1>0. Len(q) \in Nat OBVIOUS
<1>1. g = [n \in 0..Len(q) |->
             IF n = 0 THEN << >>
             ELSE IF q[n].from = s THEN Append(g[n - 1], q[n]) ELSE g[n - 1]]
  <2>1. \A n \in 0..Len(q) : n = 0 \/ n \in 1..Len(q) OBVIOUS
  <2> QED BY <2>1 DEF Selects
<1>2. Of = [n \in 0..Len(q) |->
              IF n = 0 THEN << >>
              ELSE IF q[n].from = s THEN Append(Of[n - 1], q[n]) ELSE Of[n - 1]]
  BY <1>1
<1>3. FromSender(q, s) = Of[Len(q)] BY DEF FromSender
<1> HIDE DEF Of
<1> DEFINE N == {m \in Nat : m <= Len(q) => Of[m] = g[m]}
<1>4. 0 \in N BY <1>2 DEF Selects
<1>5. ASSUME NEW m \in N PROVE m + 1 \in N
  <2> SUFFICES ASSUME m + 1 <= Len(q) PROVE Of[m + 1] = g[m + 1] OBVIOUS
  <2>1. Of[m] = g[m] BY <1>5, <1>0
  <2>2. m + 1 \in 1..Len(q) /\ m + 1 \in 0..Len(q) /\ (m + 1) - 1 = m /\ m + 1 # 0
    BY <1>0
  <2>3. Of[m + 1] = IF q[m + 1].from = s THEN Append(Of[m], q[m + 1]) ELSE Of[m]
    BY <1>2, <2>2
  <2> QED BY <2>1, <2>2, <2>3 DEF Selects
<1>6. N \in SUBSET Nat OBVIOUS
<1>7. Len(q) \in N
  <2> HIDE DEF N
  <2> QED BY <1>0, <1>4, <1>5, <1>6, AllNaturals
<1>8. g[Len(q)] \in Seq(Tx) BY <1>0 DEF Selects
<1> QED BY <1>0, <1>3, <1>7, <1>8

LEMMA FromSenderEmpty == \A s : FromSender(<< >>, s) = << >>
<1> SUFFICES ASSUME NEW s PROVE FromSender(<< >>, s) = << >> OBVIOUS
<1> DEFINE q == << >>
<1>1. q \in Seq(Tx) /\ Len(q) = 0 OBVIOUS
<1> HIDE DEF q
<1>2. PICK g : Selects(g, q, s) BY <1>1, Selection
<1>3. FromSender(q, s) = g[0] BY <1>1, <1>2, FromSenderSelects
<1>4. g[0] = << >> BY <1>2 DEF Selects
<1> QED BY <1>3, <1>4 DEF q

\* What joins the queue joins it for its sender alone.
LEMMA FromSenderAppend ==
  ASSUME NEW q \in Seq(Tx), NEW tx \in Tx, NEW s
  PROVE  FromSender(Append(q, tx), s)
           = IF tx.from = s THEN Append(FromSender(q, s), tx) ELSE FromSender(q, s)
<1> DEFINE r == Append(q, tx)  k == Len(q)
<1>1. /\ r \in Seq(Tx) /\ k \in Nat /\ Len(r) = k + 1 /\ r[k + 1] = tx
      /\ \A n \in 1..k : q[n] = r[n]
  OBVIOUS
<1> HIDE DEF r, k
<1>2. PICK g : Selects(g, q, s) BY Selection
<1>3. PICK h : Selects(h, r, s) BY <1>1, Selection
<1>4. g[k] = h[k]
  <2>1. k <= Len(q) /\ k <= Len(r) BY <1>1 DEF k
  <2> QED BY <1>1, <1>2, <1>3, <2>1, SameBeginning
<1>5. FromSender(q, s) = g[k] /\ FromSender(r, s) = h[k + 1]
  BY <1>1, <1>2, <1>3, FromSenderSelects DEF k
<1>6. h[k + 1] = IF tx.from = s THEN Append(h[k], tx) ELSE h[k]
  <2>1. k + 1 \in 1..Len(r) /\ (k + 1) - 1 = k BY <1>1
  <2> QED BY <1>1, <1>3, <2>1 DEF Selects
<1> QED BY <1>4, <1>5, <1>6 DEF r

LEMMA PutBefore ==
  ASSUME NEW x \in Tx, NEW q \in Seq(Tx), NEW y \in Tx
  PROVE  /\ <<x>> \o << >> = Append(<< >>, x)
         /\ <<x>> \o Append(q, y) = Append(<<x>> \o q, y)
OBVIOUS

\* What leaves the queue leaves it for its sender alone, at the head.
LEMMA FromSenderTail ==
  ASSUME NEW q \in Seq(Tx), q # << >>, NEW s
  PROVE  FromSender(q, s) = IF Head(q).from = s THEN <<Head(q)>> \o FromSender(Tail(q), s)
                                                ELSE FromSender(Tail(q), s)
<1> DEFINE r == Tail(q)  x == Head(q)  k == Len(r)
<1>1. /\ r \in Seq(Tx) /\ k \in Nat /\ Len(q) = k + 1 /\ x = q[1] /\ x \in Tx
      /\ \A n \in 1..k : r[n] = q[n + 1]
  OBVIOUS
<1> HIDE DEF r, x, k
<1>2. PICK g : Selects(g, q, s) BY Selection
<1>3. PICK h : Selects(h, r, s) BY <1>1, Selection
<1> DEFINE N == {m \in Nat : m <= k =>
                   g[m + 1] = IF x.from = s THEN <<x>> \o h[m] ELSE h[m]}
<1>4. 0 \in N
  <2>1. 1 \in 1..Len(q) /\ 1 - 1 = 0 BY <1>1
  <2>2. g[1] = IF q[1].from = s THEN Append(g[0], q[1]) ELSE g[0]
    BY <1>2, <2>1 DEF Selects
  <2>3. g[0] = << >> /\ h[0] = << >> BY <1>2, <1>3 DEF Selects
  <2>4. <<x>> \o << >> = Append(<< >>, x) BY <1>1, PutBefore
  <2>5. g[0 + 1] = IF x.from = s THEN <<x>> \o h[0] ELSE h[0] BY <1>1, <2>2, <2>3, <2>4
  <2> QED BY <2>5
<1>5. ASSUME NEW m \in N PROVE m + 1 \in N
  <2> SUFFICES ASSUME m + 1 <= k
               PROVE  g[(m + 1) + 1] = IF x.from = s THEN <<x>> \o h[m + 1] ELSE h[m + 1]
    OBVIOUS
  <2> DEFINE y == r[m + 1]  j == m + 1
  <2>1. /\ j \in 1..k /\ j \in 1..Len(r) /\ j + 1 \in 1..Len(q) /\ j - 1 = m
        /\ (j + 1) - 1 = j /\ m \in 0..Len(r)
    BY <1>1 DEF k
  <2>2. y = q[j + 1] /\ y \in Tx BY <1>1, <2>1
  <2>3. g[j] = IF x.from = s THEN <<x>> \o h[m] ELSE h[m] BY <1>1, <1>5
  <2> HIDE DEF y, j
  <2>4. g[j + 1] = IF y.from = s THEN Append(g[j], y) ELSE g[j]
    BY <1>2, <2>1, <2>2 DEF Selects
  <2>5. h[j] = IF y.from = s THEN Append(h[m], y) ELSE h[m]
    BY <1>3, <2>1 DEF Selects, y, j
  <2>6. h[m] \in Seq(Tx) BY <1>3, <2>1 DEF Selects
  <2>7. <<x>> \o Append(h[m], y) = Append(<<x>> \o h[m], y)
    BY <1>1, <2>2, <2>6, PutBefore
  <2>8. g[j + 1] = IF x.from = s THEN <<x>> \o h[j] ELSE h[j]
    BY <2>3, <2>4, <2>5, <2>7
  <2> QED BY <2>8 DEF j
<1>6. N \in SUBSET Nat OBVIOUS
<1>7. k \in N
  <2> HIDE DEF N
  <2> QED BY <1>1, <1>4, <1>5, <1>6, AllNaturals
<1>8. FromSender(q, s) = g[k + 1] /\ FromSender(r, s) = h[k]
  BY <1>1, <1>2, <1>3, FromSenderSelects DEF k
<1> QED BY <1>1, <1>7, <1>8 DEF r, x

-----------------------------------------------------------------------------
(* The shards are a queue for each sender *)

\* A shard holds what the hash of its senders sends there, and validates at most one.
Sharded ==
  \A sh \in Shards :
    /\ \A tx \in ToSet(shardCh[sh]) : ShardOf[tx.from] = sh
    /\ validating[sh] = {} \/ \E tx \in Tx : validating[sh] = {tx} /\ ShardOf[tx.from] = sh

Orderly == Typed /\ Sharded

LEMMA InitSharded == Init => Sharded
BY DEF Init, Sharded, ToSet

\* What moves transactions: a send to a shard, and the shard's own steps.
Joins(tx) ==
  /\ shardCh' = [shardCh EXCEPT ![ShardOf[tx.from]] = Append(@, tx)]
  /\ UNCHANGED validating

LEMMA ShardSteps ==
  ASSUME Typed, [Next]_vars
  PROVE  \/ \E tx \in Tx : Joins(tx)
         \/ \E sh \in Shards : TakeTx(sh) \/ EndValidation(sh)
         \/ UNCHANGED <<shardCh, validating>>
<1>1. CASE UNCHANGED vars \/ Tick BY <1>1 DEF vars, Tick, ingress
<1>2. ASSUME NEW c \in Callers, CallerStep(c)
      PROVE  (\E tx \in Tx : Joins(tx)) \/ UNCHANGED <<shardCh, validating>>
  <2>1. CASE enqueueShard(c)
    <3>1. ctx[c].tx \in Tx BY <2>1, CallerTx DEF enqueueShard, Typed
    <3> QED BY <2>1, <3>1 DEF enqueueShard, Joins
  <2>2. CASE ~enqueueShard(c)
    BY <1>2, <2>2
    DEF CallerStep, GatewayAcceptTx, allow, Refuse, Overflow, Accept, ingress
  <2> QED BY <2>1, <2>2
<1>3. ASSUME NEW sh \in Shards, ShardStep(sh) PROVE TakeTx(sh) \/ EndValidation(sh)
  BY <1>3 DEF ShardStep
<1> QED BY <1>1, <1>2, <1>3 DEF Next

LEMMA JoinsEffect ==
  ASSUME TypeOK, NEW tx \in Tx, Joins(tx)
  PROVE  /\ ShardOf[tx.from] \in Shards
         /\ \A sh \in Shards : shardCh[sh] \in Seq(Tx)
         /\ \A sh \in Shards : shardCh'[sh] = IF sh = ShardOf[tx.from]
                                              THEN Append(shardCh[sh], tx) ELSE shardCh[sh]
<1>1. ShardOf[tx.from] \in Shards BY GatewayAssumption DEF Tx
<1> QED BY <1>1 DEF TypeOK, Joins

\* Shard sh takes tx from the front of its queue.
Takes(sh, tx) ==
  /\ shardCh[sh] \in Seq(Tx) /\ shardCh[sh] # << >> /\ validating[sh] = {}
  /\ tx = Head(shardCh[sh]) /\ tx.from \in Senders /\ ShardOf[tx.from] = sh
  /\ ToSet(shardCh[sh]) = {tx} \cup ToSet(Tail(shardCh[sh]))
  /\ \A k \in Shards : /\ shardCh'[k] = IF k = sh THEN Tail(shardCh[k]) ELSE shardCh[k]
                       /\ validating'[k] = IF k = sh THEN {tx} ELSE validating[k]

LEMMA TakeEffect ==
  ASSUME Orderly, NEW sh \in Shards, TakeTx(sh)
  PROVE  \E tx \in Tx : Takes(sh, tx)
<1> DEFINE tx == Head(shardCh[sh])
<1>1. TypeOK BY DEF Orderly, Typed
<1>2. shardCh[sh] \in Seq(Tx) /\ shardCh[sh] # << >> /\ validating[sh] = {}
  BY <1>1 DEF TakeTx, TypeOK
<1>3. tx \in Tx /\ ToSet(shardCh[sh]) = {tx} \cup ToSet(Tail(shardCh[sh]))
  BY <1>2, QueueEnds
<1>4. \A k \in Shards : /\ shardCh'[k] = IF k = sh THEN Tail(shardCh[k]) ELSE shardCh[k]
                        /\ validating'[k] = IF k = sh THEN {tx} ELSE validating[k]
  BY <1>1 DEF TakeTx, TypeOK
<1> HIDE DEF tx
<1>5. tx.from \in Senders /\ ShardOf[tx.from] = sh
  BY <1>3 DEF Orderly, Sharded, Tx
<1>6. tx = Head(shardCh[sh]) BY DEF tx
<1>7. Takes(sh, tx) BY <1>2, <1>3, <1>4, <1>5, <1>6 DEF Takes
<1> QED BY <1>3, <1>7

LEMMA EndEffect ==
  ASSUME Orderly, NEW sh \in Shards, EndValidation(sh)
  PROVE  \E tx \in Tx :
           /\ validating[sh] = {tx} /\ tx.from \in Senders /\ ShardOf[tx.from] = sh
           /\ shardCh' = shardCh
           /\ \A k \in Shards : validating'[k] = IF k = sh THEN {} ELSE validating[k]
<1>1. TypeOK BY DEF Orderly, Typed
<1>2. PICK t \in validating[sh] : validating' = [validating EXCEPT ![sh] = @ \ {t}]
  BY DEF EndValidation
<1>3. PICK tx \in Tx : validating[sh] = {tx} /\ ShardOf[tx.from] = sh
  BY <1>2 DEF Orderly, Sharded
<1>4. t = tx BY <1>2, <1>3
<1>5. \A k \in Shards : validating'[k] = IF k = sh THEN {} ELSE validating[k]
  BY <1>1, <1>2, <1>3, <1>4 DEF TypeOK
<1>6. shardCh' = shardCh BY DEF EndValidation
<1>7. tx.from \in Senders BY DEF Tx
<1> QED BY <1>3, <1>5, <1>6, <1>7

LEMMA StepSharded == Orderly /\ [Next]_vars => Sharded'
<1> SUFFICES ASSUME Orderly, [Next]_vars PROVE Sharded' OBVIOUS
<1>1. Typed /\ TypeOK BY DEF Orderly, Typed
<1>2. ASSUME NEW tx \in Tx, Joins(tx) PROVE Sharded'
  <2>1. /\ \A sh \in Shards : shardCh[sh] \in Seq(Tx)
        /\ \A sh \in Shards : shardCh'[sh] = IF sh = ShardOf[tx.from]
                                             THEN Append(shardCh[sh], tx) ELSE shardCh[sh]
        /\ validating' = validating
    BY <1>1, <1>2, JoinsEffect DEF Joins
  <2>2. \A sh \in Shards : ToSet(Append(shardCh[sh], tx)) = ToSet(shardCh[sh]) \cup {tx}
    BY <2>1, QueueEnds
  <2> QED BY <2>1, <2>2 DEF Orderly, Sharded
<1>3. ASSUME NEW sh \in Shards, TakeTx(sh) PROVE Sharded'
  <2>1. PICK tx \in Tx : Takes(sh, tx) BY <1>3, TakeEffect
  <2>2. \A k \in Shards : ToSet(shardCh'[k]) \subseteq ToSet(shardCh[k]) BY <2>1 DEF Takes
  <2>3. \A k \in Shards : validating'[k] = IF k = sh THEN {tx} ELSE validating[k]
    BY <2>1 DEF Takes
  <2>4. ShardOf[tx.from] = sh BY <2>1 DEF Takes
  <2> QED BY <2>2, <2>3, <2>4 DEF Orderly, Sharded
<1>4. ASSUME NEW sh \in Shards, EndValidation(sh) PROVE Sharded'
  BY <1>4, EndEffect DEF Orderly, Sharded
<1>5. CASE UNCHANGED <<shardCh, validating>> BY <1>5 DEF Orderly, Sharded
<1> QED BY <1>1, <1>2, <1>3, <1>4, <1>5, ShardSteps

\* What is under validation of s is under validation in its shard.
Current(s) == {tx \in InValidation : tx.from = s}

LEMMA CurrentOfShard ==
  ASSUME Orderly, NEW s \in Senders
  PROVE  Current(s) = {tx \in validating[ShardOf[s]] : tx.from = s}
<1>1. ShardOf[s] \in Shards BY GatewayAssumption
<1>2. \A sh \in Shards : \A tx \in validating[sh] : ShardOf[tx.from] = sh
  BY DEF Orderly, Sharded
<1> QED BY <1>1, <1>2 DEF Current, InValidation

\* One step for one sender; the others see nothing.
LEMMA JoinsIsOffer ==
  ASSUME Orderly, NEW tx \in Tx, Joins(tx)
  PROVE  PerSender!Offer(tx.from)
<1>1. TypeOK BY DEF Orderly, Typed
<1>2. tx.from \in Senders BY DEF Tx
<1>3. ASSUME NEW s \in Senders
      PROVE  FromSender(shardCh'[ShardOf[s]], s)
               = IF s = tx.from THEN Append(FromSender(shardCh[ShardOf[s]], s), tx)
                                ELSE FromSender(shardCh[ShardOf[s]], s)
  <2>1. ShardOf[s] \in Shards BY GatewayAssumption
  <2>2. /\ shardCh[ShardOf[s]] \in Seq(Tx)
        /\ shardCh'[ShardOf[s]] = IF ShardOf[s] = ShardOf[tx.from]
                                  THEN Append(shardCh[ShardOf[s]], tx)
                                  ELSE shardCh[ShardOf[s]]
    BY <1>1, <2>1, JoinsEffect
  <2> DEFINE q == shardCh[ShardOf[s]]  r == shardCh'[ShardOf[s]]
  <2>3. /\ q \in Seq(Tx)
        /\ r = IF ShardOf[s] = ShardOf[tx.from] THEN Append(q, tx) ELSE q
    BY <2>2
  <2> HIDE DEF q, r
  <2>4. FromSender(Append(q, tx), s) = IF tx.from = s THEN Append(FromSender(q, s), tx)
                                                     ELSE FromSender(q, s)
    BY <2>3, FromSenderAppend
  <2>5. FromSender(r, s) = IF s = tx.from THEN Append(FromSender(q, s), tx)
                                          ELSE FromSender(q, s)
    BY <2>3, <2>4
  <2> QED BY <2>5 DEF q, r
<1>4. InValidation' = InValidation BY DEF InValidation, Joins
<1>5. [s \in Senders |-> FromSender(shardCh'[ShardOf[s]], s)]
        = [[s \in Senders |-> FromSender(shardCh[ShardOf[s]], s)]
             EXCEPT ![tx.from] = Append(@, tx)]
  BY <1>2, <1>3
<1> QED BY <1>4, <1>5 DEF PerSender!Offer

LEMMA TakeIsBegin ==
  ASSUME Orderly, Orderly', NEW sh \in Shards, TakeTx(sh)
  PROVE  \E s \in Senders : PerSender!Begin(s)
<1>0. PICK tx \in Tx : Takes(sh, tx) BY TakeEffect
<1>1. /\ shardCh[sh] \in Seq(Tx) /\ shardCh[sh] # << >> /\ validating[sh] = {}
      /\ tx = Head(shardCh[sh]) /\ tx.from \in Senders /\ ShardOf[tx.from] = sh
      /\ \A k \in Shards : /\ shardCh'[k] = IF k = sh THEN Tail(shardCh[k]) ELSE shardCh[k]
                           /\ validating'[k] = IF k = sh THEN {tx} ELSE validating[k]
  BY <1>0 DEF Takes
<1>2. \A s \in Senders : ShardOf[s] \in Shards BY GatewayAssumption
<1>3. \A s \in Senders : FromSender(shardCh[sh], s)
        = IF tx.from = s THEN <<tx>> \o FromSender(Tail(shardCh[sh]), s)
                         ELSE FromSender(Tail(shardCh[sh]), s)
  BY <1>1, FromSenderTail
<1> DEFINE rest == FromSender(Tail(shardCh[sh]), tx.from)
<1>4. rest \in Seq(Tx)
  <2>1. Tail(shardCh[sh]) \in Seq(Tx) BY <1>1
  <2> QED BY <2>1, Selection, FromSenderSelects
<1>5. ASSUME NEW s \in Senders
      PROVE  /\ s = tx.from => FromSender(shardCh[ShardOf[s]], s) = <<tx>> \o rest
             /\ FromSender(shardCh'[ShardOf[s]], s)
                  = IF s = tx.from THEN rest ELSE FromSender(shardCh[ShardOf[s]], s)
  <2> DEFINE k == ShardOf[s]
  <2>1. k \in Shards BY <1>2
  <2> HIDE DEF k
  <2>2. CASE k = sh
    <3>1. shardCh'[k] = Tail(shardCh[sh]) BY <1>1, <2>1, <2>2
    <3>2. FromSender(shardCh[k], s) = IF tx.from = s THEN <<tx>> \o FromSender(shardCh'[k], s)
                                                     ELSE FromSender(shardCh'[k], s)
      BY <1>3, <2>2, <3>1
    <3>3. s = tx.from => FromSender(shardCh'[k], s) = rest BY <3>1 DEF rest
    <3> QED BY <3>2, <3>3 DEF k
  <2>3. CASE k # sh
    <3>1. shardCh'[k] = shardCh[k] BY <1>1, <2>1, <2>3
    <3>2. s # tx.from BY <1>1, <2>3 DEF k
    <3> QED BY <3>1, <3>2 DEF k
  <2> QED BY <2>2, <2>3
<1> HIDE DEF rest
<1>6. Head(<<tx>> \o rest) = tx /\ Tail(<<tx>> \o rest) = rest /\ <<tx>> \o rest # << >>
  BY <1>1, <1>4
<1>7. /\ {t \in InValidation : t.from = tx.from} = {}
      /\ \A s \in Senders : {t \in InValidation' : t.from = s}
                              = IF s = tx.from THEN {tx} ELSE {t \in InValidation : t.from = s}
  <2>1. Current(tx.from) = {} BY <1>1, CurrentOfShard
  <2>2. {t \in InValidation : t.from = tx.from} = {} BY <2>1 DEF Current
  <2>3. InValidation' = InValidation \cup {tx} BY <1>1 DEF InValidation
  <2>4. ASSUME NEW s \in Senders
        PROVE  {t \in InValidation' : t.from = s}
                 = IF s = tx.from THEN {tx} ELSE {t \in InValidation : t.from = s}
    BY <2>2, <2>3
  <2> QED BY <2>2, <2>4
<1>8. /\ [s \in Senders |-> FromSender(shardCh'[ShardOf[s]], s)]
           = [[s \in Senders |-> FromSender(shardCh[ShardOf[s]], s)]
                EXCEPT ![tx.from] = rest]
      /\ [s \in Senders |-> {t \in InValidation' : t.from = s}]
           = [[s \in Senders |-> {t \in InValidation : t.from = s}]
                EXCEPT ![tx.from] = {tx}]
  <2>1. [s \in Senders |-> FromSender(shardCh'[ShardOf[s]], s)]
           = [[s \in Senders |-> FromSender(shardCh[ShardOf[s]], s)]
                EXCEPT ![tx.from] = rest]
    BY <1>5
  <2>2. [s \in Senders |-> {t \in InValidation' : t.from = s}]
           = [[s \in Senders |-> {t \in InValidation : t.from = s}]
                EXCEPT ![tx.from] = {tx}]
    BY <1>7
  <2> QED BY <2>1, <2>2
<1>9. /\ FromSender(shardCh[ShardOf[tx.from]], tx.from) = <<tx>> \o rest
      /\ {t \in InValidation : t.from = tx.from} = {}
  BY <1>1, <1>5, <1>7
<1>10. PerSender!Begin(tx.from)
  BY <1>1, <1>6, <1>8, <1>9 DEF PerSender!Begin
<1> QED BY <1>1, <1>10

LEMMA EndIsEnd ==
  ASSUME Orderly, NEW sh \in Shards, EndValidation(sh)
  PROVE  \E s \in Senders : PerSender!End(s)
<1>1. PICK tx \in Tx :
        /\ validating[sh] = {tx} /\ tx.from \in Senders /\ ShardOf[tx.from] = sh
        /\ shardCh' = shardCh
        /\ \A k \in Shards : validating'[k] = IF k = sh THEN {} ELSE validating[k]
  BY EndEffect
<1>2. Current(tx.from) = {tx} BY <1>1, CurrentOfShard
<1>3. \A t \in InValidation : t \in InValidation' \/ t = tx BY <1>1 DEF InValidation
<1>4. \A t \in InValidation' : t \in InValidation /\ t # tx
  <2>1. \A k \in Shards : \A t \in validating[k] : ShardOf[t.from] = k
    BY DEF Orderly, Sharded
  <2> QED BY <1>1, <2>1 DEF InValidation
<1>5. /\ {t \in InValidation : t.from = tx.from} = {tx}
      /\ [s \in Senders |-> {t \in InValidation' : t.from = s}]
           = [[s \in Senders |-> {t \in InValidation : t.from = s}] EXCEPT ![tx.from] = {}]
  <2>1. {t \in InValidation : t.from = tx.from} = {tx} BY <1>2 DEF Current
  <2>2. InValidation' = InValidation \ {tx} BY <1>3, <1>4
  <2>3. ASSUME NEW s \in Senders
        PROVE  {t \in InValidation' : t.from = s}
                 = IF s = tx.from THEN {} ELSE {t \in InValidation : t.from = s}
    BY <2>1, <2>2
  <2>4. [s \in Senders |-> {t \in InValidation' : t.from = s}]
          = [[s \in Senders |-> {t \in InValidation : t.from = s}] EXCEPT ![tx.from] = {}]
    BY <2>3
  <2> QED BY <2>1, <2>4
<1>6. PerSender!End(tx.from) BY <1>1, <1>5 DEF PerSender!End
<1> QED BY <1>1, <1>6

\* The sharded queues of enqueueShard and their goroutines implement one queue and one
\* validation at a time for each sender.
THEOREM OneQueuePerSender == Spec => RefinesIngress
<1>1. Init => Orderly BY InitTyped, InitSharded DEF Orderly
<1>2. Orderly /\ [Next]_vars => Orderly' BY StepTyped, StepSharded DEF Orderly
<1>3. Init => PerSender!Init
  <2> SUFFICES ASSUME Init PROVE PerSender!Init OBVIOUS
  <2>1. \A s \in Senders : FromSender(shardCh[ShardOf[s]], s) = << >>
    BY GatewayAssumption, FromSenderEmpty DEF Init
  <2>2. InValidation = {} BY DEF Init, InValidation
  <2> QED BY <2>1, <2>2 DEF PerSender!Init
<1>4. ASSUME Orderly, Orderly', [Next]_vars
      PROVE  PerSender!Next
             \/ UNCHANGED <<[s \in Senders |-> FromSender(shardCh[ShardOf[s]], s)],
                            [s \in Senders |-> {tx \in InValidation : tx.from = s}]>>
  <2>1. ASSUME NEW tx \in Tx, Joins(tx) PROVE PerSender!Next
    <3>1. tx.from \in Senders BY DEF Tx
    <3> QED BY <1>4, <2>1, <3>1, JoinsIsOffer DEF PerSender!Next
  <2>2. ASSUME NEW sh \in Shards, TakeTx(sh) PROVE PerSender!Next
    BY <1>4, <2>2, TakeIsBegin DEF PerSender!Next
  <2>3. ASSUME NEW sh \in Shards, EndValidation(sh) PROVE PerSender!Next
    BY <1>4, <2>3, EndIsEnd DEF PerSender!Next
  <2>4. CASE UNCHANGED <<shardCh, validating>>
    BY <2>4 DEF InValidation
  <2> QED BY <1>4, <2>1, <2>2, <2>3, <2>4, ShardSteps DEF Orderly
<1> QED BY <1>1, <1>2, <1>3, <1>4, PTL DEF Spec, RefinesIngress, PerSender!Spec
=============================================================================
