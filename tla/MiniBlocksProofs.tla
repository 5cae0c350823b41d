-------------------------- MODULE MiniBlocksProofs --------------------------
(***************************************************************************)
(* Proofs about MiniBlocks, for any number of collectors and slots, any    *)
(* lists of transactions and any capacity of the bus.                      *)
(*                                                                         *)
(* A mini-block is in one place at a time: a publication either reaches    *)
(* the bus or is lost, and whoever takes it from the bus either keeps it   *)
(* or throws it away.                                                      *)
(*                                                                         *)
(* The i-th hash after k passes of ComputeMerkleRoot is the root of the    *)
(* i-th tree of height k over the transactions. The hashes of a level tell *)
(* those of the level below, except for copies at its end: the last one,   *)
(* when their number is odd, has been paired with itself.                  *)
(***************************************************************************)
EXTENDS MiniBlocks, SumTheorems, SequenceTheorems, TLAPS

-----------------------------------------------------------------------------
(* Types *)

Contexts == {Idle} \cup Collecting

Typed ==
  /\ TypeOK
  /\ ctx \in [Collectors -> Contexts]

LEMMA SignedFacts ==
  ASSUME NEW p \in Producers, NEW slot \in Slots, NEW txs \in TxLists, NEW n \in 0..MaxFollowed
  PROVE  SignMiniBlock(p, slot, txs, n) \in MiniBlocks /\ SignMiniBlock(p, slot, txs, n).n = n
BY DEF MiniBlocks, SignMiniBlock

LEMMA NumberOf ==
  ASSUME NEW mb \in MiniBlocks
  PROVE  mb.n \in 0..MaxFollowed
BY DEF MiniBlocks, SignMiniBlock

LEMMA FollowedFacts ==
  ASSUME NEW mb \in MiniBlocks
  PROVE  Followed(mb) \subseteq MiniBlocks /\ \A x \in Followed(mb) : x = mb /\ x.n > 0
BY DEF Followed

LEMMA HeadFacts ==
  ASSUME NEW S, NEW q \in Seq(S), q # << >>
  PROVE  Head(q) \in S /\ Tail(q) \in Seq(S) /\ Len(Tail(q)) < Len(q)
BY HeadTailProperties

LEMMA ContextFacts ==
  ASSUME NEW x \in Collecting
  PROVE  /\ x.at = "collecting" /\ x.slot \in Slots /\ x.expired \in BOOLEAN
         /\ x.out \in Seq(MiniBlocks) /\ x # Idle
BY DEF Collecting, Idle

LEMMA ToSetType ==
  ASSUME NEW S, NEW q \in Seq(S)
  PROVE  ToSet(q) \subseteq S
BY ElementOfSeq DEF ToSet

\* What Publish does to the bus and to the history.
LEMMA PublishFacts ==
  ASSUME NEW p \in Producers, NEW slot \in Slots, Publish(p, slot), Typed
  PROVE  \E mb \in MiniBlocks :
           /\ PublishMiniBlock(mb)
           /\ \/ mb.n = followed + 1 /\ followed' = followed + 1 /\ followed < MaxFollowed
              \/ mb.n = 0 /\ followed' = followed
<1>1. followed \in Nat /\ MaxFollowed \in Nat BY MiniBlocksAssumption DEF Typed, TypeOK
<1>2. CASE followed < MaxFollowed /\ followed' = followed + 1
           /\ \E txs \in TxLists : PublishMiniBlock(SignMiniBlock(p, slot, txs, followed + 1))
  <2>1. PICK txs \in TxLists : PublishMiniBlock(SignMiniBlock(p, slot, txs, followed + 1))
    BY <1>2
  <2>2. followed + 1 \in 0..MaxFollowed BY <1>1, <1>2
  <2> QED BY <1>2, <2>1, <2>2, SignedFacts
<1>3. CASE PublishMiniBlock(SignMiniBlock(p, slot, << >>, 0)) /\ UNCHANGED followed
  <2>1. << >> \in TxLists /\ 0 \in 0..MaxFollowed BY <1>1, MiniBlocksAssumption
  <2> QED BY <1>3, <2>1, SignedFacts
<1> QED BY <1>2, <1>3 DEF Publish

LEMMA PublishTyped ==
  ASSUME Typed, NEW mb \in MiniBlocks, PublishMiniBlock(mb), followed' \in 0..MaxFollowed
  PROVE  Typed'
<1>1. ctx' \in [Collectors -> Contexts] /\ ctx' = ctx /\ returned' = returned /\ discarded' = discarded
  BY DEF PublishMiniBlock, Typed
<1>2. miniBlockBus' \in Seq(MiniBlocks) /\ Len(miniBlockBus') <= Capacity
  <2>1. miniBlockBus \in Seq(MiniBlocks) /\ Len(miniBlockBus) <= Capacity /\ Capacity \in Nat
    BY MiniBlocksAssumption DEF Typed, TypeOK
  <2>2. Append(miniBlockBus, mb) \in Seq(MiniBlocks)
        /\ Len(Append(miniBlockBus, mb)) = Len(miniBlockBus) + 1 /\ Len(miniBlockBus) \in Nat
    BY <2>1, AppendProperties, LenProperties
  <2> QED BY <2>1, <2>2 DEF PublishMiniBlock
<1>3. overflowed' \subseteq MiniBlocks
  BY FollowedFacts DEF PublishMiniBlock, Typed, TypeOK
<1>4. \A c \in Collectors : ctx'[c] = Idle \/ ctx'[c] \in Collecting
  BY <1>1 DEF Typed, TypeOK
<1> QED BY <1>1, <1>2, <1>3, <1>4 DEF Typed, TypeOK

\* What Take does: the mini-block goes to the collector or is thrown away.
LEMMA TakeFacts ==
  ASSUME Typed, NEW c \in Collectors, Take(c)
  PROVE  LET mb == Head(miniBlockBus)
             mine == mb.slot = ctx[c].slot /\ VerifyMiniBlock(mb)
             f == [ctx[c] EXCEPT !.expired = ExpiredAfterTake(c),
                                 !.out = IF mine /\ mb.n > 0 THEN Append(@, mb) ELSE @]
         IN  /\ ctx[c] \in Collecting /\ f \in Collecting
             /\ f.out = IF mine /\ mb.n > 0 THEN Append(ctx[c].out, mb) ELSE ctx[c].out
             /\ ctx' = [ctx EXCEPT ![c] = f]
             /\ discarded' = IF mine THEN discarded ELSE discarded \cup Followed(mb)
             /\ miniBlockBus # << >> /\ mb \in MiniBlocks
             /\ miniBlockBus' = Tail(miniBlockBus)
             /\ UNCHANGED <<followed, returned, overflowed>>
<1> DEFINE mb == Head(miniBlockBus)
           mine == mb.slot = ctx[c].slot /\ VerifyMiniBlock(mb)
           f == [ctx[c] EXCEPT !.expired = ExpiredAfterTake(c),
                               !.out = IF mine /\ mb.n > 0 THEN Append(@, mb) ELSE @]
<1>1. ctx[c] \in Collecting BY DEF Take, Typed, TypeOK, Idle
<1>2. miniBlockBus # << >> /\ mb \in MiniBlocks
  BY HeadFacts DEF Take, Typed, TypeOK
<1>3. ctx[c].out \in Seq(MiniBlocks) /\ ctx[c].expired \in BOOLEAN BY <1>1, ContextFacts
<1>4. Append(ctx[c].out, mb) \in Seq(MiniBlocks) BY <1>2, <1>3, AppendProperties
<1>5. f \in Collecting /\ f.out = IF mine /\ mb.n > 0 THEN Append(ctx[c].out, mb) ELSE ctx[c].out
  <2> HIDE DEF mine, mb
  <2> QED BY <1>1, <1>3, <1>4 DEF Collecting, ExpiredAfterTake
<1>6. ctx' = [ctx EXCEPT ![c] = f]
  BY DEF Take
<1>7. /\ discarded' = IF mine THEN discarded ELSE discarded \cup Followed(mb)
      /\ miniBlockBus' = Tail(miniBlockBus)
      /\ UNCHANGED <<followed, returned, overflowed>>
  BY DEF Take
<1> QED BY <1>1, <1>2, <1>5, <1>6, <1>7

LEMMA InitTyped == Init => Typed
<1> SUFFICES ASSUME Init PROVE Typed OBVIOUS
<1>1. << >> \in Seq(MiniBlocks) /\ Len(<< >>) = 0 BY EmptySeq
<1> QED BY <1>1, MiniBlocksAssumption DEF Init, Typed, TypeOK, Contexts

LEMMA NextTyped == Typed /\ [Next]_vars => Typed'
<1> SUFFICES ASSUME Typed, [Next]_vars PROVE Typed' OBVIOUS
<1>1. ASSUME NEW p \in Producers, NEW slot \in Slots, Publish(p, slot) PROVE Typed'
  <2>1. PICK mb \in MiniBlocks :
          /\ PublishMiniBlock(mb)
          /\ \/ mb.n = followed + 1 /\ followed' = followed + 1 /\ followed < MaxFollowed
             \/ mb.n = 0 /\ followed' = followed
    BY <1>1, PublishFacts
  <2>2. followed' \in 0..MaxFollowed BY <2>1, MiniBlocksAssumption DEF Typed, TypeOK
  <2> QED BY <2>1, <2>2, PublishTyped
<1>2. ASSUME NEW c \in Collectors, NEW f \in Contexts, ctx' = [ctx EXCEPT ![c] = f]
      PROVE  ctx' \in [Collectors -> Contexts]
             /\ \A d \in Collectors : ctx'[d] = Idle \/ ctx'[d] \in Collecting
  BY <1>2 DEF Typed, Contexts
<1>3. ASSUME NEW c \in Collectors, NEW slot \in Slots, CollectMiniBlocks(c, slot) PROVE Typed'
  <2> DEFINE f == [at |-> "collecting", slot |-> slot, expired |-> FALSE, out |-> << >>]
  <2>1. f \in Contexts BY EmptySeq DEF Contexts, Collecting
  <2>2. ctx' = [ctx EXCEPT ![c] = f]
        /\ UNCHANGED <<miniBlockBus, followed, returned, discarded, overflowed>>
    BY <1>3 DEF CollectMiniBlocks
  <2> QED BY <1>2, <2>1, <2>2 DEF Typed, TypeOK
<1>4. ASSUME NEW c \in Collectors, Expire(c) PROVE Typed'
  <2> DEFINE f == [ctx[c] EXCEPT !.expired = TRUE]
  <2>1. f \in Contexts BY <1>4 DEF Expire, Typed, TypeOK, Contexts, Collecting, Idle
  <2>2. ctx' = [ctx EXCEPT ![c] = f]
        /\ UNCHANGED <<miniBlockBus, followed, returned, discarded, overflowed>>
    BY <1>4 DEF Expire
  <2> QED BY <1>2, <2>1, <2>2 DEF Typed, TypeOK
<1>5. ASSUME NEW c \in Collectors, Take(c) PROVE Typed'
  <2>1. PICK f \in Collecting : ctx' = [ctx EXCEPT ![c] = f] BY <1>5, TakeFacts
  <2>2. miniBlockBus' \in Seq(MiniBlocks) /\ Len(miniBlockBus') <= Capacity
    <3>1. miniBlockBus # << >> /\ miniBlockBus' = Tail(miniBlockBus) BY <1>5, TakeFacts
    <3>2. miniBlockBus \in Seq(MiniBlocks) /\ Len(miniBlockBus) <= Capacity /\ Capacity \in Nat
      BY MiniBlocksAssumption DEF Typed, TypeOK
    <3>3. Tail(miniBlockBus) \in Seq(MiniBlocks) /\ Len(Tail(miniBlockBus)) < Len(miniBlockBus)
          /\ Len(Tail(miniBlockBus)) \in Nat /\ Len(miniBlockBus) \in Nat
      BY <3>1, <3>2, HeadFacts, LenProperties
    <3> QED BY <3>1, <3>2, <3>3
  <2>3. discarded' \subseteq MiniBlocks
    BY <1>5, TakeFacts, FollowedFacts DEF Typed, TypeOK
  <2>4. UNCHANGED <<followed, returned, overflowed>> BY <1>5, TakeFacts
  <2>5. f \in Contexts BY DEF Contexts
  <2> QED BY <1>2, <2>1, <2>2, <2>3, <2>4, <2>5 DEF Typed, TypeOK
<1>6. ASSUME NEW c \in Collectors, Return(c) PROVE Typed'
  <2>1. Idle \in Contexts BY DEF Contexts
  <2>2. ctx' = [ctx EXCEPT ![c] = Idle]
        /\ UNCHANGED <<miniBlockBus, followed, discarded, overflowed>>
    BY <1>6 DEF Return
  <2>3. ToSet(ctx[c].out) \subseteq MiniBlocks
    <3>1. ctx[c].out \in Seq(MiniBlocks)
      BY <1>6, ContextFacts DEF Return, Typed, TypeOK, Idle
    <3> QED BY <3>1, ToSetType
  <2>4. returned' \in [Collectors -> SUBSET MiniBlocks]
    <3>1. returned' = [returned EXCEPT ![c] = returned[c] \cup ToSet(ctx[c].out)]
      BY <1>6 DEF Return
    <3> QED BY <2>3, <3>1 DEF Typed, TypeOK
  <2> QED BY <1>2, <2>1, <2>2, <2>4 DEF Typed, TypeOK
<1>7. CASE UNCHANGED vars BY <1>7 DEF vars, Typed, TypeOK
<1> QED BY <1>1, <1>3, <1>4, <1>5, <1>6, <1>7 DEF Next

\* A bus never holds more than its capacity, and collectors, history and bus hold only
\* signed mini-blocks.
THEOREM TypeCorrect == Spec => []TypeOK
<1>1. Typed => TypeOK BY DEF Typed
<1> QED BY <1>1, InitTyped, NextTyped, PTL DEF Spec

-----------------------------------------------------------------------------
(* One copy *)

Single(S) == \E x \in S : S = {x}

\* A mini-block with a number that was given is in one place, one with another nowhere.
Nowhere(n) == OnBus(n) = {} /\ Holders(n) = {} /\ Gone(n) = {}
OnePlace(n) ==
  \/ Single(OnBus(n)) /\ Holders(n) = {} /\ Gone(n) = {}
  \/ OnBus(n) = {} /\ Single(Holders(n)) /\ Gone(n) = {}
  \/ OnBus(n) = {} /\ Holders(n) = {} /\ Single(Gone(n))

Placed ==
  /\ Typed
  /\ \A n \in Nat \ {0} : IF n <= followed THEN OnePlace(n) ELSE Nowhere(n)

LEMMA BusPushed ==
  ASSUME Typed, NEW mb \in MiniBlocks, miniBlockBus' = Append(miniBlockBus, mb), NEW n
  PROVE  OnBus(n)' = IF mb.n = n THEN OnBus(n) \cup {Len(miniBlockBus) + 1} ELSE OnBus(n)
<1>1. miniBlockBus \in Seq(MiniBlocks) BY DEF Typed, TypeOK
<1> DEFINE l == Len(miniBlockBus)
<1>2. /\ Len(miniBlockBus') = l + 1 /\ l \in Nat
      /\ DOMAIN miniBlockBus = 1..l /\ DOMAIN miniBlockBus' = 1..(l + 1)
      /\ \A i \in 1..l : miniBlockBus'[i] = miniBlockBus[i]
      /\ miniBlockBus'[l + 1] = mb
  BY <1>1, AppendProperties, LenProperties
<1> HIDE DEF l
<1>3. 1..(l + 1) = 1..l \cup {l + 1} BY <1>2
<1> QED BY <1>2, <1>3 DEF OnBus, l

LEMMA BusPopped ==
  ASSUME Typed, miniBlockBus # << >>, miniBlockBus' = Tail(miniBlockBus), NEW n
  PROVE  /\ Head(miniBlockBus).n = n => 1 \in OnBus(n)
         /\ OnBus(n)' = {i - 1 : i \in OnBus(n) \ {1}}
         /\ Head(miniBlockBus).n # n => 1 \notin OnBus(n)
<1>1. miniBlockBus \in Seq(MiniBlocks) BY DEF Typed, TypeOK
<1> DEFINE l == Len(miniBlockBus)
<1>2. /\ l \in Nat /\ l > 0 /\ DOMAIN miniBlockBus = 1..l
      /\ DOMAIN miniBlockBus' = 1..(l - 1)
      /\ \A i \in 1..(l - 1) : miniBlockBus'[i] = miniBlockBus[i + 1]
      /\ Head(miniBlockBus) = miniBlockBus[1]
  BY <1>1, HeadTailProperties, LenProperties, EmptySeq
<1> HIDE DEF l
<1>3. OnBus(n)' = {i \in 1..(l - 1) : miniBlockBus[i + 1].n = n} BY <1>2 DEF OnBus
<1>4. OnBus(n) = {i \in 1..l : miniBlockBus[i].n = n} BY <1>2 DEF OnBus
<1>5. OnBus(n)' = {i - 1 : i \in OnBus(n) \ {1}}
  <2>1. ASSUME NEW j \in OnBus(n)' PROVE j \in {i - 1 : i \in OnBus(n) \ {1}}
    <3>1. j + 1 \in OnBus(n) \ {1} /\ j = (j + 1) - 1 BY <1>2, <1>3, <1>4
    <3> QED BY <3>1
  <2>2. ASSUME NEW i \in OnBus(n) \ {1} PROVE i - 1 \in OnBus(n)'
    <3>1. i - 1 \in 1..(l - 1) /\ (i - 1) + 1 = i BY <1>2, <1>4
    <3>2. miniBlockBus[i].n = n BY <1>4
    <3> QED BY <1>3, <3>1, <3>2
  <2> QED BY <2>1, <2>2
<1> QED BY <1>2, <1>4, <1>5

\* Nothing that a collector holds changes unless its context or what it returned does.
LEMMA HoldersSame ==
  ASSUME NEW n, \A c \in Collectors : Held(c)' = Held(c)
  PROVE  Holders(n)' = Holders(n)
BY DEF Holders

LEMMA ToSetAppend ==
  ASSUME NEW S, NEW q \in Seq(S), NEW x \in S
  PROVE  ToSet(Append(q, x)) = ToSet(q) \cup {x}
<1> DEFINE l == Len(q)
           r == Append(q, x)
<1>1. /\ l \in Nat /\ DOMAIN q = 1..l /\ DOMAIN r = 1..(l + 1)
      /\ \A i \in 1..l : r[i] = q[i]
      /\ r[l + 1] = x
  BY AppendProperties, LenProperties
<1>2. ToSet(r) = {r[i] : i \in 1..(l + 1)} /\ ToSet(q) = {q[i] : i \in 1..l}
  BY <1>1 DEF ToSet
<1> HIDE DEF l, r
<1>3. 1..(l + 1) = 1..l \cup {l + 1} BY <1>1
<1>4. ToSet(r) = ToSet(q) \cup {x} BY <1>1, <1>2, <1>3
<1> QED BY <1>4 DEF r

LEMMA InitPlaced == Init => Placed
<1> SUFFICES ASSUME Init PROVE Placed OBVIOUS
<1>1. Typed BY InitTyped
<1>2. followed = 0 BY DEF Init
<1>3. ASSUME NEW n PROVE Nowhere(n)
  <2>1. DOMAIN miniBlockBus = {} BY EmptySeq DEF Init
  <2>2. \A c \in Collectors : Held(c) = {}
    <3>1. ToSet(<< >>) = {} BY DEF ToSet
    <3> QED BY <3>1 DEF Init, Held, Out
  <2> QED BY <2>1, <2>2 DEF Nowhere, OnBus, Holders, Gone, Init
<1> QED BY <1>1, <1>2, <1>3 DEF Placed

\* A publication puts a new mini-block on the bus, or it is lost.
LEMMA PublishPlaced ==
  ASSUME Placed, Typed', NEW mb \in MiniBlocks, PublishMiniBlock(mb),
         \/ mb.n = followed + 1 /\ followed' = followed + 1
         \/ mb.n = 0 /\ followed' = followed
  PROVE  Placed'
<1>1. Typed BY DEF Placed
<1>2. followed \in Nat BY <1>1 DEF Typed, TypeOK
<1> SUFFICES ASSUME NEW n \in Nat \ {0}
             PROVE  IF n <= followed' THEN OnePlace(n)' ELSE Nowhere(n)'
  BY DEF Placed
<1>3. Holders(n)' = Holders(n)
  <2>1. UNCHANGED <<ctx, returned>> BY DEF PublishMiniBlock
  <2> QED BY <2>1, HoldersSame DEF Held, Out
<1>4. mb.n # n => OnBus(n)' = OnBus(n) /\ Gone(n)' = Gone(n)
  <2> SUFFICES ASSUME mb.n # n PROVE OnBus(n)' = OnBus(n) /\ Gone(n)' = Gone(n)
    OBVIOUS
  <2>1. CASE miniBlockBus' = Append(miniBlockBus, mb) /\ UNCHANGED <<discarded, overflowed>>
    BY <1>1, <2>1, BusPushed DEF Gone
  <2>2. CASE overflowed' = overflowed \cup Followed(mb) /\ UNCHANGED <<miniBlockBus, discarded>>
    BY <2>2, FollowedFacts DEF Gone, OnBus
  <2> QED BY <2>1, <2>2 DEF PublishMiniBlock
<1>5. Nowhere(n) /\ mb.n = n => OnePlace(n)'
  <2> SUFFICES ASSUME Nowhere(n), mb.n = n PROVE OnePlace(n)'
    OBVIOUS
  <2>1. CASE miniBlockBus' = Append(miniBlockBus, mb) /\ UNCHANGED <<discarded, overflowed>>
    <3>1. OnBus(n)' = {Len(miniBlockBus) + 1} BY <1>1, <2>1, BusPushed DEF Nowhere
    <3>2. Gone(n)' = {} BY <2>1 DEF Gone, Nowhere
    <3> QED BY <1>3, <3>1, <3>2 DEF OnePlace, Single, Nowhere
  <2>2. CASE overflowed' = overflowed \cup Followed(mb) /\ UNCHANGED <<miniBlockBus, discarded>>
    <3>1. Followed(mb) = {mb} BY DEF Followed
    <3>2. OnBus(n)' = {} BY <2>2 DEF OnBus, Nowhere
    <3>3. Gone(n)' = {mb} BY <2>2, <3>1 DEF Gone, Nowhere
    <3> QED BY <1>3, <3>2, <3>3 DEF OnePlace, Single, Nowhere
  <2> QED BY <2>1, <2>2 DEF PublishMiniBlock
<1>6. mb.n # n => (OnePlace(n) => OnePlace(n)') /\ (Nowhere(n) => Nowhere(n)')
  BY <1>3, <1>4 DEF OnePlace, Nowhere
<1>7. CASE mb.n = n
  <2>1. n = followed + 1 /\ followed' = followed + 1 BY <1>7
  <2>2. Nowhere(n) BY <1>2, <2>1 DEF Placed
  <2> QED BY <1>2, <1>5, <1>7, <2>1, <2>2
<1>8. CASE mb.n # n
  <2>1. n <= followed' <=> n <= followed BY <1>2, <1>8
  <2> QED BY <1>6, <1>8, <2>1 DEF Placed
<1> QED BY <1>7, <1>8

\* The collector that takes a mini-block holds it from then on, or it is thrown away.
LEMMA TakePlaced ==
  ASSUME Placed, Typed', NEW c \in Collectors, Take(c)
  PROVE  Placed'
<1> DEFINE mb == Head(miniBlockBus)
           mine == mb.slot = ctx[c].slot /\ VerifyMiniBlock(mb)
<1>1. Typed BY DEF Placed
<1>2. followed' = followed /\ followed \in Nat
  <2>1. followed' = followed BY <1>1, TakeFacts
  <2> QED BY <1>1, <2>1 DEF Typed, TypeOK
<1>3. /\ miniBlockBus # << >> /\ mb \in MiniBlocks /\ miniBlockBus' = Tail(miniBlockBus)
      /\ discarded' = IF mine THEN discarded ELSE discarded \cup Followed(mb)
      /\ UNCHANGED <<returned, overflowed>>
  BY <1>1, TakeFacts
<1>4. PICK f \in Collecting :
        /\ f.out = IF mine /\ mb.n > 0 THEN Append(ctx[c].out, mb) ELSE ctx[c].out
        /\ ctx' = [ctx EXCEPT ![c] = f]
        /\ ctx[c] \in Collecting
  <2> DEFINE g == [ctx[c] EXCEPT !.expired = ExpiredAfterTake(c),
                                 !.out = IF mine /\ mb.n > 0 THEN Append(@, mb) ELSE @]
  <2>1. /\ g \in Collecting /\ ctx' = [ctx EXCEPT ![c] = g] /\ ctx[c] \in Collecting
        /\ g.out = IF mine /\ mb.n > 0 THEN Append(ctx[c].out, mb) ELSE ctx[c].out
    BY <1>1, TakeFacts
  <2> HIDE DEF g, mine, mb
  <2> QED BY <2>1
<1>5. mb.n \in Nat BY <1>3, NumberOf
<1> HIDE DEF mine
<1>6. \A d \in Collectors : Held(d)' = IF d = c /\ mine /\ mb.n > 0 THEN Held(d) \cup {mb} ELSE Held(d)
  <2> SUFFICES ASSUME NEW d \in Collectors
               PROVE  Held(d)' = IF d = c /\ mine /\ mb.n > 0 THEN Held(d) \cup {mb} ELSE Held(d)
    OBVIOUS
  <2>1. ctx'[d] = IF d = c THEN f ELSE ctx[d] BY <1>1, <1>4 DEF Typed
  <2>2. CASE d # c BY <1>3, <2>1, <2>2 DEF Held, Out
  <2>3. CASE d = c
    <3>1. Out(d) = ctx[c].out /\ Out(d)' = f.out /\ ctx[c].out \in Seq(MiniBlocks)
      BY <1>4, <2>1, <2>3, ContextFacts DEF Out
    <3>2. ToSet(Append(ctx[c].out, mb)) = ToSet(ctx[c].out) \cup {mb}
      BY <1>3, <3>1, ToSetAppend
    <3>3. ToSet(f.out) = IF mine /\ mb.n > 0 THEN ToSet(ctx[c].out) \cup {mb} ELSE ToSet(ctx[c].out)
      BY <1>4, <3>2
    <3>4. Held(d)' = ToSet(f.out) \cup returned[d] /\ Held(d) = ToSet(ctx[c].out) \cup returned[d]
      BY <1>3, <3>1 DEF Held
    <3> QED BY <2>3, <3>3, <3>4
  <2> QED BY <2>2, <2>3
<1> SUFFICES ASSUME NEW n \in Nat \ {0}
             PROVE  IF n <= followed THEN OnePlace(n)' ELSE Nowhere(n)'
  BY <1>2 DEF Placed
<1> HIDE DEF mb
<1>7. /\ mb.n = n => 1 \in OnBus(n)
      /\ OnBus(n)' = {i - 1 : i \in OnBus(n) \ {1}}
      /\ mb.n # n => 1 \notin OnBus(n)
  BY <1>1, <1>3, BusPopped DEF mb
<1>8. Holders(n)' = IF mine /\ mb.n = n THEN Holders(n) \cup {c} ELSE Holders(n)
  BY <1>5, <1>6 DEF Holders
<1>9. Gone(n)' = IF ~mine /\ mb.n = n THEN Gone(n) \cup {mb} ELSE Gone(n)
  <2>1. Followed(mb) = IF mb.n > 0 THEN {mb} ELSE {} BY DEF Followed
  <2> QED BY <1>3, <1>5, <2>1 DEF Gone
<1>10. CASE mb.n # n
  <2>1. OnBus(n) \ {1} = OnBus(n) BY <1>7, <1>10
  <2>2. OnBus(n)' = {i - 1 : i \in OnBus(n)} BY <1>7, <2>1
  <2>3. OnBus(n) = {} => OnBus(n)' = {} BY <2>2
  <2>4. ASSUME Single(OnBus(n)) PROVE Single(OnBus(n)')
    <3>1. PICK x \in OnBus(n) : OnBus(n) = {x} BY <2>4 DEF Single
    <3>2. OnBus(n)' = {x - 1} BY <2>2, <3>1
    <3> QED BY <3>2 DEF Single
  <2> QED BY <1>8, <1>9, <1>10, <2>3, <2>4 DEF Placed, OnePlace, Nowhere
<1>11. CASE mb.n = n
  <2>1. OnePlace(n) /\ n <= followed BY <1>7, <1>11 DEF Placed, Nowhere
  <2>2. OnBus(n) = {1} /\ Holders(n) = {} /\ Gone(n) = {}
    BY <1>7, <1>11, <2>1 DEF OnePlace, Single
  <2>3. OnBus(n)' = {} BY <1>7, <2>2
  <2>4. CASE mine
    <3>1. Holders(n)' = {c} /\ Gone(n)' = {} BY <1>8, <1>9, <1>11, <2>2, <2>4
    <3>2. OnePlace(n)' BY <2>3, <3>1 DEF OnePlace, Single
    <3> QED BY <2>1, <3>2
  <2>5. CASE ~mine
    <3>1. Holders(n)' = {} /\ Gone(n)' = {mb} BY <1>8, <1>9, <1>11, <2>2, <2>5
    <3>2. OnePlace(n)' BY <2>3, <3>1 DEF OnePlace, Single
    <3> QED BY <2>1, <3>2
  <2> QED BY <2>4, <2>5
<1> QED BY <1>10, <1>11

LEMMA PlacedStays ==
  ASSUME Placed, Typed', UNCHANGED <<miniBlockBus, followed, discarded, overflowed>>,
         \A c \in Collectors : Held(c)' = Held(c)
  PROVE  Placed'
<1>1. ASSUME NEW n PROVE /\ OnBus(n)' = OnBus(n) /\ Holders(n)' = Holders(n) /\ Gone(n)' = Gone(n)
  BY HoldersSame DEF OnBus, Gone
<1>2. ASSUME NEW n PROVE OnePlace(n)' = OnePlace(n) /\ Nowhere(n)' = Nowhere(n)
  BY <1>1 DEF OnePlace, Nowhere
<1> QED BY <1>2 DEF Placed

LEMMA NextPlaced == Placed /\ [Next]_vars => Placed'
<1> SUFFICES ASSUME Placed, [Next]_vars PROVE Placed' OBVIOUS
<1>1. Typed /\ Typed' BY NextTyped DEF Placed
<1>2. ASSUME NEW p \in Producers, NEW slot \in Slots, Publish(p, slot) PROVE Placed'
  BY <1>1, <1>2, PublishFacts, PublishPlaced
<1>3. ASSUME NEW c \in Collectors, NEW slot \in Slots, CollectMiniBlocks(c, slot) PROVE Placed'
  <2>1. \A d \in Collectors : Out(d)' = Out(d)
    BY <1>1, <1>3 DEF CollectMiniBlocks, Out, Typed, Idle
  <2>2. UNCHANGED <<miniBlockBus, followed, discarded, overflowed>> /\ UNCHANGED returned
    BY <1>3 DEF CollectMiniBlocks
  <2>3. \A d \in Collectors : Held(d)' = Held(d) BY <2>1, <2>2 DEF Held
  <2> QED BY <1>1, <2>2, <2>3, PlacedStays
<1>4. ASSUME NEW c \in Collectors, Expire(c) PROVE Placed'
  <2> DEFINE f == [ctx[c] EXCEPT !.expired = TRUE]
  <2>1. ctx[c] \in Collecting BY <1>1, <1>4 DEF Expire, Typed, TypeOK, Idle
  <2>2. f.out = ctx[c].out /\ f # Idle BY <2>1 DEF Collecting, Idle
  <2>3. ctx' = [ctx EXCEPT ![c] = f] BY <1>4 DEF Expire
  <2> HIDE DEF f
  <2>4. \A d \in Collectors : Out(d)' = Out(d)
    BY <1>1, <2>1, <2>2, <2>3, ContextFacts DEF Out, Typed
  <2>5. UNCHANGED <<miniBlockBus, followed, discarded, overflowed>> /\ UNCHANGED returned
    BY <1>4 DEF Expire
  <2>6. \A d \in Collectors : Held(d)' = Held(d) BY <2>4, <2>5 DEF Held
  <2> QED BY <1>1, <2>5, <2>6, PlacedStays
<1>5. ASSUME NEW c \in Collectors, Take(c) PROVE Placed' BY <1>1, <1>5, TakePlaced
<1>6. ASSUME NEW c \in Collectors, Return(c) PROVE Placed'
  <2>1. ctx[c] # Idle /\ ctx' = [ctx EXCEPT ![c] = Idle]
        /\ returned' = [returned EXCEPT ![c] = returned[c] \cup ToSet(ctx[c].out)]
    BY <1>6 DEF Return, Idle
  <2>2. UNCHANGED <<miniBlockBus, followed, discarded, overflowed>> BY <1>6 DEF Return
  <2>3. ASSUME NEW d \in Collectors PROVE Held(d)' = Held(d)
    <3>1. ctx'[d] = IF d = c THEN Idle ELSE ctx[d] BY <1>1, <2>1 DEF Typed
    <3>2. returned'[d] = IF d = c THEN returned[c] \cup ToSet(ctx[c].out) ELSE returned[d]
      BY <1>1, <2>1 DEF Typed, TypeOK
    <3>3. ToSet(<< >>) = {} BY DEF ToSet
    <3>4. CASE d = c
      <4>1. Out(d)' = << >> /\ Out(d) = ctx[c].out BY <2>1, <3>1, <3>4 DEF Out
      <4> QED BY <3>2, <3>3, <3>4, <4>1 DEF Held
    <3>5. CASE d # c
      <4>1. Out(d)' = Out(d) BY <3>1, <3>5 DEF Out
      <4> QED BY <3>2, <3>5, <4>1 DEF Held
    <3> QED BY <3>4, <3>5
  <2> QED BY <1>1, <2>2, <2>3, PlacedStays
<1>7. CASE UNCHANGED vars
  <2>1. \A d \in Collectors : Held(d)' = Held(d) BY <1>7 DEF vars, Held, Out
  <2>2. UNCHANGED <<miniBlockBus, followed, discarded, overflowed>> BY <1>7 DEF vars
  <2> QED BY <1>1, <2>1, <2>2, PlacedStays
<1> QED BY <1>2, <1>3, <1>4, <1>5, <1>6, <1>7 DEF Next

LEMMA PlacedOnce == Placed => OneCopy
<1> SUFFICES ASSUME Placed, NEW n \in 1..followed PROVE Copies(n) = 1 BY DEF OneCopy
<1>1. OnePlace(n) BY DEF Placed, Typed, TypeOK
<1>2. Cardinality({}) = 0 BY FS_EmptySet
<1>3. ASSUME NEW S, Single(S) PROVE Cardinality(S) = 1 BY <1>3, FS_Singleton DEF Single
<1> DEFINE b == Cardinality(OnBus(n))
           h == Cardinality(Holders(n))
           g == Cardinality(Gone(n))
<1>4. CASE Single(OnBus(n)) /\ Holders(n) = {} /\ Gone(n) = {}
  <2>1. b = 1 /\ h = 0 /\ g = 0 BY <1>2, <1>3, <1>4
  <2> HIDE DEF b, h, g
  <2>2. b + h + g = 1 BY <2>1
  <2> QED BY <2>2 DEF Copies, b, h, g
<1>5. CASE OnBus(n) = {} /\ Single(Holders(n)) /\ Gone(n) = {}
  <2>1. b = 0 /\ h = 1 /\ g = 0 BY <1>2, <1>3, <1>5
  <2> HIDE DEF b, h, g
  <2>2. b + h + g = 1 BY <2>1
  <2> QED BY <2>2 DEF Copies, b, h, g
<1>6. CASE OnBus(n) = {} /\ Holders(n) = {} /\ Single(Gone(n))
  <2>1. b = 0 /\ h = 0 /\ g = 1 BY <1>2, <1>3, <1>6
  <2> HIDE DEF b, h, g
  <2>2. b + h + g = 1 BY <2>1
  <2> QED BY <2>2 DEF Copies, b, h, g
<1> QED BY <1>1, <1>4, <1>5, <1>6 DEF OnePlace

\* However many collectors listen and however their slots differ, a published mini-block
\* is never returned by two of them, and it does not vanish: it waits on the bus, or one
\* collector has it, or it was thrown away or lost.
THEOREM NeverTwice == Spec => []OneCopy
BY InitPlaced, NextPlaced, PlacedOnce, PTL DEF Spec

-----------------------------------------------------------------------------
(* Powers of two, and the height of a tree *)

Doubles(f, n) ==
  /\ f = [k \in 0..n |-> f[k]]
  /\ f[0] = 1
  /\ \A k \in 1..n : f[k] = 2 * f[k - 1]

LEMMA DoublesExist ==
  ASSUME NEW n \in Nat
  PROVE  \E f : Doubles(f, n)
<1> DEFINE N == {m \in Nat : \E f : Doubles(f, m)}
<1>1. 0 \in N
  <2> DEFINE f == [k \in 0..0 |-> 1]
  <2>1. Doubles(f, 0) BY DEF Doubles
  <2> QED BY <2>1
<1>2. ASSUME NEW m \in N PROVE m + 1 \in N
  <2>1. PICK f : Doubles(f, m) OBVIOUS
  <2> DEFINE g == [k \in 0..(m + 1) |-> IF k = m + 1 THEN 2 * f[m] ELSE f[k]]
  <2>2. g[0] = 1 BY <2>1 DEF Doubles
  <2>3. ASSUME NEW k \in 1..(m + 1) PROVE g[k] = 2 * g[k - 1]
    <3>1. g[k - 1] = f[k - 1] OBVIOUS
    <3>2. CASE k = m + 1 BY <3>1, <3>2
    <3>3. CASE k # m + 1
      <4>1. k \in 1..m /\ g[k] = f[k] BY <3>3
      <4> QED BY <2>1, <3>1, <4>1 DEF Doubles
    <3> QED BY <3>2, <3>3
  <2>4. g = [k \in 0..(m + 1) |-> g[k]] OBVIOUS
  <2> HIDE DEF g
  <2>5. Doubles(g, m + 1) BY <2>2, <2>3, <2>4 DEF Doubles
  <2> QED BY <2>5
<1>3. N \in SUBSET Nat OBVIOUS
<1>4. n \in N
  <2> HIDE DEF N
  <2> QED BY <1>1, <1>2, <1>3, AllNaturals
<1> QED BY <1>4

LEMMA PowersDouble ==
  ASSUME NEW n \in Nat
  PROVE  Doubles(PowersOfTwo(n), n)
<1> DEFINE Two == CHOOSE f : f = [k \in 0..n |-> IF k = 0 THEN 1 ELSE 2 * f[k - 1]]
<1>1. PICK g : Doubles(g, n) BY DoublesExist
<1>2. g = [k \in 0..n |-> IF k = 0 THEN 1 ELSE 2 * g[k - 1]]
  <2>1. \A k \in 0..n : k = 0 \/ k \in 1..n OBVIOUS
  <2>2. \A k \in 0..n : g[k] = IF k = 0 THEN 1 ELSE 2 * g[k - 1] BY <1>1, <2>1 DEF Doubles
  <2> QED BY <1>1, <2>2 DEF Doubles
<1>3. Two = [k \in 0..n |-> IF k = 0 THEN 1 ELSE 2 * Two[k - 1]] BY <1>2
<1>4. PowersOfTwo(n) = Two BY DEF PowersOfTwo
<1> HIDE DEF Two
<1>5. Doubles(Two, n) BY <1>3 DEF Doubles
<1> QED BY <1>4, <1>5

LEMMA PowersFacts ==
  ASSUME NEW n \in Nat, NEW k \in 0..n
  PROVE  /\ PowersOfTwo(n)[k] \in Nat /\ PowersOfTwo(n)[k] > k /\ PowersOfTwo(n)[0] = 1
         /\ k < n => PowersOfTwo(n)[k + 1] = 2 * PowersOfTwo(n)[k]
<1> DEFINE f == PowersOfTwo(n)
           N == {m \in Nat : m <= n => f[m] \in Nat /\ f[m] > m}
<1>1. Doubles(f, n) BY PowersDouble
<1> HIDE DEF f
<1>2. 0 \in N BY <1>1 DEF Doubles
<1>3. ASSUME NEW m \in N PROVE m + 1 \in N
  <2> SUFFICES ASSUME m + 1 <= n PROVE f[m + 1] \in Nat /\ f[m + 1] > m + 1 OBVIOUS
  <2>1. m + 1 \in 1..n /\ (m + 1) - 1 = m OBVIOUS
  <2>2. f[m + 1] = 2 * f[m] BY <1>1, <2>1 DEF Doubles
  <2>3. f[m] \in Nat /\ f[m] > m OBVIOUS
  <2> QED BY <2>2, <2>3
<1>4. N \in SUBSET Nat OBVIOUS
<1>5. k \in N
  <2> HIDE DEF N
  <2> QED BY <1>2, <1>3, <1>4, AllNaturals
<1>6. k < n => f[k + 1] = 2 * f[k]
  <2> SUFFICES ASSUME k < n PROVE f[k + 1] = 2 * f[k] OBVIOUS
  <2>1. k + 1 \in 1..n /\ (k + 1) - 1 = k OBVIOUS
  <2> QED BY <1>1, <2>1 DEF Doubles
<1> QED BY <1>1, <1>5, <1>6 DEF f, Doubles

LEMMA HeightFacts ==
  ASSUME NEW n \in Nat
  PROVE  /\ Height(n) \in 0..n
         /\ n <= PowersOfTwo(n)[Height(n)]
         /\ \A j \in 0..(Height(n) - 1) : PowersOfTwo(n)[j] < n
<1> DEFINE f == PowersOfTwo(n)
           Least(k) == n <= f[k] /\ \A j \in 0..(k - 1) : f[j] < n
           N == {m \in Nat : m <= n /\ n <= f[m] => \E k \in 0..n : Least(k)}
           T == {m \in Nat : 0..m \subseteq N}
<1>1. \A k \in 0..n : f[k] \in Nat /\ f[k] > k BY PowersFacts
<1> HIDE DEF f
<1>2. 0 \in T
  <2>1. 0 <= n /\ n <= f[0] => Least(0) /\ 0 \in 0..n OBVIOUS
  <2>2. 0 \in N BY <2>1
  <2>3. 0..0 = {0} OBVIOUS
  <2> QED BY <2>2, <2>3
<1>3. ASSUME NEW m \in T PROVE m + 1 \in T
  <2>1. m + 1 \in N
    <3> SUFFICES ASSUME m + 1 <= n, n <= f[m + 1] PROVE \E k \in 0..n : Least(k) OBVIOUS
    <3>1. CASE \E j \in 0..m : n <= f[j]
      <4>1. PICK j \in 0..m : n <= f[j] BY <3>1
      <4>2. j \in N /\ j \in Nat /\ j <= n BY <1>3
      <4> QED BY <4>1, <4>2
    <3>2. CASE \A j \in 0..m : ~(n <= f[j])
      <4>1. \A j \in 0..m : f[j] < n BY <1>1, <3>2
      <4>2. Least(m + 1) BY <4>1
      <4>3. m + 1 \in 0..n OBVIOUS
      <4> QED BY <4>2, <4>3
    <3> QED BY <3>1, <3>2
  <2>2. 0..(m + 1) = 0..m \cup {m + 1} OBVIOUS
  <2> HIDE DEF N
  <2> QED BY <2>1, <2>2
<1>4. n \in T
  <2>1. T \in SUBSET Nat OBVIOUS
  <2> HIDE DEF T
  <2> QED BY <1>2, <1>3, <2>1, AllNaturals
<1>5. \E k \in 0..n : Least(k)
  <2>1. n \in N BY <1>4
  <2>2. n <= f[n] BY <1>1
  <2> QED BY <2>1, <2>2
<1>6. Height(n) = CHOOSE k \in 0..n : Least(k) BY DEF Height, f
<1>7. Height(n) \in 0..n /\ Least(Height(n))
  <2> HIDE DEF Least
  <2> QED BY <1>5, <1>6
<1> QED BY <1>7 DEF f

-----------------------------------------------------------------------------
(* Levels of hashes *)

\* q is a sequence of n elements.
Level(q, n) == q = [i \in 1..n |-> q[i]]

LEMMA LevelLength ==
  ASSUME NEW n \in Nat, NEW q, Level(q, n)
  PROVE  Len(q) = n /\ DOMAIN q = 1..n
<1> DEFINE S == {q[i] : i \in 1..n}
<1>1. q \in [1..n -> S] BY DEF Level
<1> HIDE DEF S
<1>2. q \in Seq(S) BY <1>1, SeqDef
<1>3. DOMAIN q = 1..n BY DEF Level
<1>4. Len(q) \in Nat /\ DOMAIN q = 1..Len(q) BY <1>2, LenProperties
<1>5. Len(q) = n BY <1>3, <1>4
<1> QED BY <1>3, <1>5

LEMMA NextLevelFacts ==
  ASSUME NEW n \in Nat, NEW q, Level(q, n)
  PROVE  /\ Level(NextLevel(q), (n + 1) \div 2)
         /\ \A i \in 1..((n + 1) \div 2) :
              NextLevel(q)[i] = Hash(q[2 * i - 1], IF 2 * i <= n THEN q[2 * i] ELSE q[2 * i - 1])
<1>1. Len(q) = n BY LevelLength
<1> QED BY <1>1 DEF NextLevel, Level

LEMMA Halves ==
  ASSUME NEW n \in Nat
  PROVE  /\ (n + 1) \div 2 \in Nat
         /\ n = 2 * ((n + 1) \div 2) \/ n = 2 * ((n + 1) \div 2) - 1
         /\ n > 1 => (n + 1) \div 2 > 0 /\ (n + 1) \div 2 < n
OBVIOUS

Makes(g, txs, n) ==
  /\ g = [k \in 0..n |-> g[k]]
  /\ g[0] = [i \in 1..Len(txs) |-> HashTransaction(txs[i])]
  /\ \A k \in 1..n : g[k] = IF Len(g[k - 1]) > 1 THEN NextLevel(g[k - 1]) ELSE g[k - 1]

LEMMA PassesExist ==
  ASSUME NEW txs, NEW n \in Nat
  PROVE  \E g : Makes(g, txs, n)
<1> DEFINE leaves == [i \in 1..Len(txs) |-> HashTransaction(txs[i])]
           Step(x) == IF Len(x) > 1 THEN NextLevel(x) ELSE x
           N == {m \in Nat : \E g : Makes(g, txs, m)}
<1>1. 0 \in N
  <2> DEFINE g == [k \in 0..0 |-> leaves]
  <2>1. g[0] = leaves /\ g = [k \in 0..0 |-> g[k]] OBVIOUS
  <2> HIDE DEF g
  <2>2. Makes(g, txs, 0) BY <2>1 DEF Makes
  <2> QED BY <2>2
<1>2. ASSUME NEW m \in N PROVE m + 1 \in N
  <2>1. PICK f : Makes(f, txs, m) OBVIOUS
  <2> HIDE DEF Step
  <2> DEFINE g == [k \in 0..(m + 1) |-> IF k = m + 1 THEN Step(f[m]) ELSE f[k]]
  <2>2. g[0] = leaves
    <3>1. g[0] = f[0] OBVIOUS
    <3>2. f[0] = leaves BY <2>1 DEF Makes
    <3> QED BY <3>1, <3>2
  <2>3. ASSUME NEW k \in 1..(m + 1) PROVE g[k] = Step(g[k - 1])
    <3>1. g[k - 1] = f[k - 1] OBVIOUS
    <3>2. CASE k = m + 1 BY <3>1, <3>2
    <3>3. CASE k # m + 1
      <4>1. k \in 1..m /\ g[k] = f[k] BY <3>3
      <4>2. f[k] = Step(f[k - 1]) BY <2>1, <4>1 DEF Makes, Step
      <4> QED BY <3>1, <4>1, <4>2
    <3> QED BY <3>2, <3>3
  <2>4. g = [k \in 0..(m + 1) |-> g[k]] OBVIOUS
  <2> HIDE DEF g
  <2>5. Makes(g, txs, m + 1) BY <2>2, <2>3, <2>4 DEF Makes, Step
  <2> QED BY <2>5
<1>3. N \in SUBSET Nat OBVIOUS
<1>4. n \in N
  <2> HIDE DEF N
  <2> QED BY <1>1, <1>2, <1>3, AllNaturals
<1> QED BY <1>4

LEMMA PassesMake ==
  ASSUME NEW txs, Len(txs) \in Nat
  PROVE  Makes(Passes(txs), txs, Len(txs))
<1> DEFINE n == Len(txs)
           leaves == [i \in 1..n |-> HashTransaction(txs[i])]
           Step(x) == IF Len(x) > 1 THEN NextLevel(x) ELSE x
           Pass == CHOOSE f : f = [k \in 0..n |-> IF k = 0 THEN leaves ELSE Step(f[k - 1])]
<1>1. PICK g : Makes(g, txs, n) BY PassesExist
<1>2. Passes(txs) = Pass BY DEF Passes
<1>3. g[0] = leaves /\ \A k \in 1..n : g[k] = Step(g[k - 1]) BY <1>1 DEF Makes
<1>4. g = [k \in 0..n |-> g[k]] BY <1>1 DEF Makes
<1>5. n \in Nat OBVIOUS
<1> HIDE DEF n, leaves, Step
<1>6. g = [k \in 0..n |-> IF k = 0 THEN leaves ELSE Step(g[k - 1])]
  <2>1. \A k \in 0..n : k = 0 \/ k \in 1..n BY <1>5
  <2>2. \A k \in 0..n : g[k] = IF k = 0 THEN leaves ELSE Step(g[k - 1]) BY <1>3, <2>1
  <2> QED BY <1>4, <2>2
<1>7. Pass = [k \in 0..n |-> IF k = 0 THEN leaves ELSE Step(Pass[k - 1])] BY <1>6
<1> HIDE DEF Pass
<1>8. Pass = [k \in 0..n |-> Pass[k]] /\ Pass[0] = leaves
      /\ \A k \in 1..n : Pass[k] = Step(Pass[k - 1])
  BY <1>5, <1>7
<1>9. Makes(Pass, txs, n) BY <1>8 DEF Makes, leaves, Step, n
<1> QED BY <1>2, <1>9 DEF n

Branch(txs, k, x) ==
  [lo \in 1..Len(txs) |->
     IF k = 0 THEN HashTransaction(txs[lo])
     ELSE LET mid == lo + PowersOfTwo(Len(txs))[k - 1]
          IN  Hash(x[lo], x[IF mid <= Len(txs) THEN mid ELSE lo])]

Grows(g, txs, n) ==
  /\ g = [k \in 0..n |-> g[k]]
  /\ \A k \in 0..n : g[k] = Branch(txs, k, g[k - 1])

LEMMA TreesExist ==
  ASSUME NEW txs, NEW n \in Nat
  PROVE  \E g : Grows(g, txs, n)
<1> DEFINE N == {m \in Nat : \E g : Grows(g, txs, m)}
<1>0. \A x, y : Branch(txs, 0, x) = Branch(txs, 0, y) BY DEF Branch
<1>1. 0 \in N
  <2> DEFINE g == [k \in 0..0 |-> Branch(txs, 0, 0)]
  <2>1. g[0] = Branch(txs, 0, 0) /\ g = [k \in 0..0 |-> g[k]] OBVIOUS
  <2> HIDE DEF g
  <2>2. Grows(g, txs, 0) BY <1>0, <2>1 DEF Grows
  <2> QED BY <2>2
<1>2. ASSUME NEW m \in N PROVE m + 1 \in N
  <2>1. PICK f : Grows(f, txs, m) OBVIOUS
  <2> DEFINE g == [k \in 0..(m + 1) |->
                     IF k = m + 1 THEN Branch(txs, m + 1, f[m]) ELSE f[k]]
  <2>2. ASSUME NEW k \in 0..(m + 1) PROVE g[k] = Branch(txs, k, g[k - 1])
    <3>1. k # 0 => g[k - 1] = f[k - 1] OBVIOUS
    <3>2. CASE k = m + 1 BY <3>1, <3>2
    <3>3. CASE k # m + 1
      <4>1. k \in 0..m /\ g[k] = f[k] BY <3>3
      <4>2. f[k] = Branch(txs, k, f[k - 1]) BY <2>1, <4>1 DEF Grows
      <4> QED BY <1>0, <3>1, <4>1, <4>2
    <3> QED BY <3>2, <3>3
  <2>3. g = [k \in 0..(m + 1) |-> g[k]] OBVIOUS
  <2> HIDE DEF g
  <2>4. Grows(g, txs, m + 1) BY <2>2, <2>3 DEF Grows
  <2> QED BY <2>4
<1>3. N \in SUBSET Nat OBVIOUS
<1>4. n \in N
  <2> HIDE DEF N
  <2> QED BY <1>1, <1>2, <1>3, AllNaturals
<1> QED BY <1>4

LEMMA TreesGrow ==
  ASSUME NEW txs, Len(txs) \in Nat
  PROVE  Grows(Trees(txs), txs, Len(txs))
<1> DEFINE n == Len(txs)
           Tree == CHOOSE f : f = [k \in 0..n |-> Branch(txs, k, f[k - 1])]
<1>1. PICK g : Grows(g, txs, n) BY TreesExist
<1>2. Trees(txs) = Tree BY DEF Trees, Branch
<1>3. n \in Nat OBVIOUS
<1> HIDE DEF n
<1>4. g = [k \in 0..n |-> Branch(txs, k, g[k - 1])] BY <1>1 DEF Grows
<1>5. Tree = [k \in 0..n |-> Branch(txs, k, Tree[k - 1])] BY <1>4
<1> HIDE DEF Tree
<1>6. Tree = [k \in 0..n |-> Tree[k]]
      /\ \A k \in 0..n : Tree[k] = Branch(txs, k, Tree[k - 1])
  BY <1>5
<1> QED BY <1>2, <1>6 DEF Grows, n

\* The trees by their roots and halves.
LEMMA TreeFacts ==
  ASSUME NEW txs, Len(txs) \in Nat, NEW lo \in 1..Len(txs)
  PROVE  /\ Trees(txs)[0][lo] = HashTransaction(txs[lo])
         /\ \A k \in 0..(Len(txs) - 1) :
              LET mid == lo + PowersOfTwo(Len(txs))[k]
              IN  Trees(txs)[k + 1][lo]
                    = Hash(Trees(txs)[k][lo], Trees(txs)[k][IF mid <= Len(txs) THEN mid ELSE lo])
<1> DEFINE n == Len(txs)  T == Trees(txs)
<1>1. \A k \in 0..n : T[k] = Branch(txs, k, T[k - 1]) BY TreesGrow DEF Grows
<1> HIDE DEF T
<1>2. T[0][lo] = HashTransaction(txs[lo])
  <2>1. T[0] = Branch(txs, 0, T[0 - 1]) BY <1>1
  <2> QED BY <2>1 DEF Branch
<1>3. ASSUME NEW k \in 0..(n - 1)
      PROVE  T[k + 1][lo] = Hash(T[k][lo], T[k][IF lo + PowersOfTwo(n)[k] <= n
                                                  THEN lo + PowersOfTwo(n)[k] ELSE lo])
  <2>1. k + 1 \in 0..n /\ (k + 1) - 1 = k /\ k + 1 # 0 OBVIOUS
  <2>2. T[k + 1] = Branch(txs, k + 1, T[k]) BY <1>1, <2>1
  <2> QED BY <2>1, <2>2 DEF Branch
<1> QED BY <1>2, <1>3 DEF T

LEMMA PassFacts ==
  ASSUME NEW txs, Len(txs) \in Nat
  PROVE  /\ Passes(txs)[0] = [i \in 1..Len(txs) |-> HashTransaction(txs[i])]
         /\ \A k \in 0..(Len(txs) - 1) :
              Passes(txs)[k + 1] = IF Len(Passes(txs)[k]) > 1 THEN NextLevel(Passes(txs)[k])
                                   ELSE Passes(txs)[k]
<1> DEFINE n == Len(txs)  P == Passes(txs)
<1>1. Makes(P, txs, n) BY PassesMake
<1> HIDE DEF P
<1>2. ASSUME NEW k \in 0..(n - 1)
      PROVE  P[k + 1] = IF Len(P[k]) > 1 THEN NextLevel(P[k]) ELSE P[k]
  <2>1. k + 1 \in 1..n /\ (k + 1) - 1 = k OBVIOUS
  <2> QED BY <1>1, <2>1 DEF Makes
<1> QED BY <1>1, <1>2 DEF P, Makes

LEMMA Multiples ==
  ASSUME NEW p \in Nat, NEW a \in Int, NEW b \in Int
  PROVE  /\ a * p \in Int
         /\ (a + b) * p = a * p + b * p
         /\ a * (2 * p) = (2 * a) * p
         /\ a <= b => a * p <= b * p
OBVIOUS

\* n leaves need l trees of p leaves each, but not one tree less.
Cover(n, l, p) == (l - 1) * p < n /\ n <= l * p

LEMMA CoverHalves ==
  ASSUME NEW n \in Nat, NEW l \in Nat, NEW p \in Nat, Cover(n, l, p)
  PROVE  Cover(n, (l + 1) \div 2, 2 * p)
<1> DEFINE w == (l + 1) \div 2
<1>1. w \in Nat /\ (l = 2 * w \/ l = 2 * w - 1) BY Halves
<1> HIDE DEF w
<1>2. (w - 1) * (2 * p) = (2 * w - 2) * p /\ w * (2 * p) = (2 * w) * p
  <2>1. 2 * (w - 1) = 2 * w - 2 /\ w - 1 \in Int /\ w \in Int BY <1>1
  <2> QED BY <2>1, Multiples
<1>3. (2 * w - 2) * p <= (l - 1) * p /\ l * p <= (2 * w) * p
  <2>1. /\ 2 * w - 2 \in Int /\ l - 1 \in Int /\ l \in Int /\ 2 * w \in Int
        /\ 2 * w - 2 <= l - 1 /\ l <= 2 * w
    BY <1>1
  <2> QED BY <2>1, Multiples
<1> DEFINE a == (2 * w - 2) * p  b == (l - 1) * p  c == l * p  d == (2 * w) * p
<1>4. a \in Int /\ b \in Int /\ c \in Int /\ d \in Int
  <2>1. /\ 2 * w - 2 \in Int /\ l - 1 \in Int /\ l \in Int /\ 2 * w \in Int BY <1>1
  <2> QED BY <2>1, Multiples
<1>5. b < n /\ n <= c BY DEF Cover
<1>6. a <= b /\ c <= d BY <1>3
<1>7. (w - 1) * (2 * p) = a /\ w * (2 * p) = d BY <1>2
<1> HIDE DEF a, b, c, d
<1>8. a < n /\ n <= d BY <1>4, <1>5, <1>6
<1>9. Cover(n, w, 2 * p) BY <1>7, <1>8 DEF Cover
<1> QED BY <1>9 DEF w

\* The right half of the i-th pair has leaves if there is a right neighbour.
LEMMA RightHalf ==
  ASSUME NEW n \in Nat, NEW l \in Nat, NEW p \in Nat, Cover(n, l, p),
         NEW i \in Nat \ {0}, 2 * i - 1 <= l
  PROVE  LET lo == (i - 1) * (2 * p) + 1
         IN  /\ lo = (2 * i - 2) * p + 1
             /\ lo + p = (2 * i - 1) * p + 1
             /\ lo \in 1..n
             /\ lo + p <= n <=> 2 * i <= l
<1>1. /\ i - 1 \in Int /\ 2 * i - 2 \in Int /\ 2 * i - 1 \in Int /\ l \in Int /\ l - 1 \in Int
      /\ 2 * (i - 1) = 2 * i - 2 /\ (2 * i - 2) + 1 = 2 * i - 1
  OBVIOUS
<1> DEFINE a == (i - 1) * (2 * p)  b == (2 * i - 2) * p  c == (2 * i - 1) * p
           d == (l - 1) * p  e == l * p
<1>2. a = b
  <2>1. (i - 1) * (2 * p) = (2 * (i - 1)) * p BY <1>1, Multiples
  <2> QED BY <1>1, <2>1
<1>3. c = b + p
  <2>1. ((2 * i - 2) + 1) * p = (2 * i - 2) * p + 1 * p BY <1>1, Multiples
  <2> QED BY <1>1, <2>1
<1>4. b >= 0
  <2>1. 0 <= 2 * i - 2 /\ 0 \in Int OBVIOUS
  <2>2. 0 * p <= (2 * i - 2) * p BY <1>1, <2>1, Multiples
  <2> QED BY <2>2
<1>5. b <= d
  <2>1. 2 * i - 2 <= l - 1 OBVIOUS
  <2> QED BY <1>1, <2>1, Multiples
<1>6. 2 * i <= l => c <= d
  <2> SUFFICES ASSUME 2 * i <= l PROVE c <= d OBVIOUS
  <2>1. 2 * i - 1 <= l - 1 OBVIOUS
  <2> QED BY <1>1, <2>1, Multiples
<1>7. ~(2 * i <= l) => e <= c
  <2> SUFFICES ASSUME ~(2 * i <= l) PROVE e <= c OBVIOUS
  <2>1. l <= 2 * i - 1 OBVIOUS
  <2> QED BY <1>1, <2>1, Multiples
<1>8. d < n /\ n <= e BY DEF Cover
<1>9. /\ a \in Int /\ b \in Int /\ c \in Int /\ d \in Int /\ e \in Int
  <2>1. 2 * p \in Nat OBVIOUS
  <2> QED BY <1>1, <2>1, Multiples
<1> HIDE DEF a, b, c, d, e
<1>10. /\ a + 1 = b + 1 /\ (a + 1) + p = c + 1 /\ a + 1 \in 1..n
       /\ (a + 1) + p <= n <=> 2 * i <= l
  BY <1>2, <1>3, <1>4, <1>5, <1>6, <1>7, <1>8, <1>9
<1> QED BY <1>10 DEF a, b, c

-----------------------------------------------------------------------------
(* The loop computes the root of the tree *)

\* The i-th hash after k passes is the root of the i-th tree of height k.
LevelIsTrees(txs, k) ==
  LET n == Len(txs)
      p == PowersOfTwo(n)[k]
  IN  \E l \in Nat :
        /\ Level(Passes(txs)[k], l)
        /\ Cover(n, l, p)
        /\ \A i \in 1..l :
             /\ (i - 1) * p + 1 \in 1..n
             /\ Passes(txs)[k][i] = Trees(txs)[k][(i - 1) * p + 1]

LEMMA FirstLevel ==
  ASSUME NEW txs, Len(txs) \in Nat \ {0}
  PROVE  LevelIsTrees(txs, 0)
<1> DEFINE n == Len(txs)
<1>1. PowersOfTwo(n)[0] = 1 BY PowersFacts
<1>2. Passes(txs)[0] = [i \in 1..n |-> HashTransaction(txs[i])] BY PassFacts
<1>3. Cover(n, n, 1) BY DEF Cover
<1>4. \A i \in 1..n : (i - 1) * 1 + 1 = i OBVIOUS
<1>5. \A i \in 1..n : Passes(txs)[0][i] = Trees(txs)[0][i] BY <1>2, TreeFacts
<1>6. Level(Passes(txs)[0], n) BY <1>2 DEF Level
<1> QED BY <1>1, <1>3, <1>4, <1>5, <1>6 DEF LevelIsTrees

LEMMA OnePass ==
  ASSUME NEW txs, Len(txs) \in Nat \ {0}, NEW k \in 0..(Len(txs) - 1),
         PowersOfTwo(Len(txs))[k] < Len(txs), LevelIsTrees(txs, k)
  PROVE  /\ LevelIsTrees(txs, k + 1)
         /\ Passes(txs)[k + 1] = NextLevel(Passes(txs)[k])
<1> DEFINE n == Len(txs)
           p == PowersOfTwo(n)[k]
           q == Passes(txs)[k]
           T == Trees(txs)
<1>1. PICK l \in Nat :
        /\ Level(q, l)
        /\ Cover(n, l, p)
        /\ \A i \in 1..l : (i - 1) * p + 1 \in 1..n /\ q[i] = T[k][(i - 1) * p + 1]
  BY DEF LevelIsTrees
<1>2. p \in Nat /\ PowersOfTwo(n)[k + 1] = 2 * p
  BY PowersFacts
<1>3. Len(q) = l BY <1>1, LevelLength
<1>4. l > 1
  <2> SUFFICES ASSUME l <= 1 PROVE FALSE BY <1>1
  <2>1. l * p <= 1 * p BY <1>1, <1>2, Multiples
  <2>2. 1 * p = p /\ l * p \in Int BY <1>1, <1>2, Multiples
  <2>3. n <= l * p BY <1>1 DEF Cover
  <2> DEFINE e == l * p
  <2>4. n <= e /\ e <= p /\ e \in Int BY <2>1, <2>2, <2>3
  <2> HIDE DEF e
  <2> QED BY <1>2, <2>4
<1>5. Passes(txs)[k + 1] = NextLevel(q) BY <1>3, <1>4, PassFacts
<1> DEFINE w == (l + 1) \div 2
           r == Passes(txs)[k + 1]
<1>6. /\ Level(r, w)
      /\ \A i \in 1..w : r[i] = Hash(q[2 * i - 1], IF 2 * i <= l THEN q[2 * i] ELSE q[2 * i - 1])
  <2> HIDE DEF q, r
  <2>1. /\ Level(NextLevel(q), (l + 1) \div 2)
        /\ \A i \in 1..((l + 1) \div 2) :
             NextLevel(q)[i] = Hash(q[2 * i - 1], IF 2 * i <= l THEN q[2 * i] ELSE q[2 * i - 1])
    BY <1>1, NextLevelFacts
  <2>2. r = NextLevel(q) BY <1>5 DEF r
  <2> QED BY <2>1, <2>2
<1>7. Cover(n, w, 2 * p) BY <1>1, <1>2, CoverHalves
<1>8. w \in Nat /\ (l = 2 * w \/ l = 2 * w - 1) BY <1>1, Halves
<1>9. \A lo \in 1..n :
        T[k + 1][lo] = Hash(T[k][lo], T[k][IF lo + p <= n THEN lo + p ELSE lo])
  BY TreeFacts
<1> HIDE DEF n, p, q, T, w, r
<1>10. ASSUME NEW i \in 1..w
       PROVE  /\ (i - 1) * (2 * p) + 1 \in 1..n
              /\ r[i] = T[k + 1][(i - 1) * (2 * p) + 1]
  <2> DEFINE lo == (i - 1) * (2 * p) + 1
  <2>1. i \in Nat \ {0} /\ 2 * i - 1 <= l BY <1>1, <1>8
  <2>2. /\ lo = (2 * i - 2) * p + 1
        /\ lo + p = (2 * i - 1) * p + 1
        /\ lo \in 1..n
        /\ lo + p <= n <=> 2 * i <= l
    <3>1. n \in Nat BY DEF n
    <3> QED BY <1>1, <1>2, <2>1, <3>1, RightHalf
  <2> HIDE DEF lo
  <2>3. q[2 * i - 1] = T[k][lo]
    <3>1. 2 * i - 1 \in 1..l /\ (2 * i - 1) - 1 = 2 * i - 2 BY <1>1, <2>1
    <3> QED BY <1>1, <2>2, <3>1
  <2>4. 2 * i <= l => q[2 * i] = T[k][lo + p]
    <3> SUFFICES ASSUME 2 * i <= l PROVE q[2 * i] = T[k][lo + p] OBVIOUS
    <3>1. 2 * i \in 1..l /\ (2 * i) - 1 = 2 * i - 1 BY <1>1, <2>1
    <3> QED BY <1>1, <2>2, <3>1
  <2>5. r[i] = Hash(T[k][lo], T[k][IF lo + p <= n THEN lo + p ELSE lo])
    <3>1. r[i] = Hash(q[2 * i - 1], IF 2 * i <= l THEN q[2 * i] ELSE q[2 * i - 1]) BY <1>6
    <3>2. CASE 2 * i <= l BY <2>2, <2>3, <2>4, <3>1, <3>2
    <3>3. CASE ~(2 * i <= l) BY <2>2, <2>3, <3>1, <3>3
    <3> QED BY <3>2, <3>3
  <2>6. r[i] = T[k + 1][lo] BY <1>9, <2>2, <2>5
  <2> QED BY <2>2, <2>6 DEF lo
<1>11. LevelIsTrees(txs, k + 1)
  BY <1>2, <1>6, <1>7, <1>8, <1>10 DEF LevelIsTrees, n, p, r, T
<1> QED BY <1>5, <1>11 DEF q

\* The passes up to the height of the tree, and what is left after them.
LEMMA PassesAreTrees ==
  ASSUME NEW txs, Len(txs) \in Nat \ {0}
  PROVE  /\ \A k \in 0..Height(Len(txs)) : LevelIsTrees(txs, k)
         /\ \A k \in 0..(Height(Len(txs)) - 1) :
              Passes(txs)[k + 1] = NextLevel(Passes(txs)[k])
<1> DEFINE n == Len(txs)  h == Height(n)
           N == {m \in Nat : m <= h => LevelIsTrees(txs, m)}
<1>1. h \in 0..n /\ \A j \in 0..(h - 1) : PowersOfTwo(n)[j] < n BY HeightFacts
<1> HIDE DEF h
<1>2. 0 \in N BY FirstLevel
<1>3. ASSUME NEW m \in N PROVE m + 1 \in N
  <2> SUFFICES ASSUME m + 1 <= h PROVE LevelIsTrees(txs, m + 1) OBVIOUS
  <2>1. m \in 0..(h - 1) /\ m \in 0..(n - 1) /\ LevelIsTrees(txs, m) BY <1>1
  <2> QED BY <1>1, <2>1, OnePass
<1>4. N \in SUBSET Nat OBVIOUS
<1>5. \A m \in Nat : m \in N
  <2> HIDE DEF N
  <2> QED BY <1>2, <1>3, <1>4, AllNaturals
<1>6. \A k \in 0..h : LevelIsTrees(txs, k) BY <1>1, <1>5
<1>7. ASSUME NEW k \in 0..(h - 1) PROVE Passes(txs)[k + 1] = NextLevel(Passes(txs)[k])
  <2>1. k \in 0..(n - 1) /\ k \in 0..h BY <1>1
  <2> QED BY <1>1, <1>6, <2>1, OnePass
<1> QED BY <1>6, <1>7 DEF h

LEMMA OneHashStays ==
  ASSUME NEW txs, Len(txs) \in Nat \ {0}
  PROVE  /\ Level(Passes(txs)[Height(Len(txs))], 1)
         /\ Passes(txs)[Len(txs)] = Passes(txs)[Height(Len(txs))]
<1> DEFINE n == Len(txs)  h == Height(n)  p == PowersOfTwo(n)[h]
           q == Passes(txs)[h]
           N == {m \in Nat : h + m <= n => Passes(txs)[h + m] = q}
<1>1. h \in 0..n /\ n <= p BY HeightFacts
<1>2. p \in Nat BY <1>1, PowersFacts
<1>3. LevelIsTrees(txs, h)
  <2>1. h \in 0..h BY <1>1
  <2> QED BY <2>1, PassesAreTrees
<1>4. PICK l \in Nat : Level(q, l) /\ Cover(n, l, p) BY <1>3 DEF LevelIsTrees
<1> HIDE DEF h, p
<1>5. l = 1
  <2>1. l # 0
    <3>1. 0 * p = 0 BY <1>2
    <3> QED BY <1>4, <3>1 DEF Cover
  <2>2. ~(l >= 2)
    <3> SUFFICES ASSUME l >= 2 PROVE FALSE OBVIOUS
    <3> DEFINE d == (l - 1) * p
    <3>1. 1 * p <= (l - 1) * p BY <1>2, Multiples
    <3>2. d < n BY <1>4 DEF Cover
    <3>3. d \in Int /\ p <= d BY <1>2, <3>1, Multiples
    <3> HIDE DEF d
    <3> QED BY <1>1, <1>2, <3>2, <3>3
  <2> QED BY <2>1, <2>2
<1>6. Level(q, 1) /\ Len(q) = 1 BY <1>4, <1>5, LevelLength
<1> HIDE DEF q
<1>7. 0 \in N BY <1>1 DEF q
<1>8. ASSUME NEW m \in N PROVE m + 1 \in N
  <2> SUFFICES ASSUME h + (m + 1) <= n PROVE Passes(txs)[h + (m + 1)] = q OBVIOUS
  <2>1. h + m \in 0..(n - 1) /\ h + (m + 1) = (h + m) + 1 /\ h + m <= n BY <1>1
  <2>2. Passes(txs)[h + m] = q BY <2>1
  <2>3. Passes(txs)[(h + m) + 1] = IF Len(Passes(txs)[h + m]) > 1
                                      THEN NextLevel(Passes(txs)[h + m]) ELSE Passes(txs)[h + m]
    <3> HIDE DEF N
    <3> QED BY <2>1, PassFacts
  <2>4. Passes(txs)[(h + m) + 1] = q BY <1>6, <2>2, <2>3
  <2> QED BY <2>1, <2>4
<1>9. N \in SUBSET Nat OBVIOUS
<1>10. \A m \in Nat : m \in N
  <2> HIDE DEF N
  <2> QED BY <1>7, <1>8, <1>9, AllNaturals
<1>11. Passes(txs)[n] = q
  <2>1. n - h \in Nat /\ h + (n - h) = n BY <1>1
  <2> QED BY <1>10, <2>1
<1> QED BY <1>6, <1>11 DEF q, h

\* The loop of ComputeMerkleRoot computes the root of the tree.
LEMMA LoopFindsRoot ==
  ASSUME NEW txs, Len(txs) \in Nat \ {0}, txs # << >>
  PROVE  ComputeMerkleRoot(txs) = TreeRoot(txs)
<1> DEFINE n == Len(txs)  h == Height(n)
<1>1. Passes(txs)[n] = Passes(txs)[h] /\ Level(Passes(txs)[h], 1) BY OneHashStays
<1>2. LevelIsTrees(txs, h) /\ h \in 0..n
  <2>1. h \in 0..n /\ h \in 0..h BY HeightFacts
  <2> QED BY <2>1, PassesAreTrees
<1> DEFINE p == PowersOfTwo(n)[h]
<1>3. PICK l \in Nat :
        /\ Level(Passes(txs)[h], l)
        /\ \A i \in 1..l : Passes(txs)[h][i] = Trees(txs)[h][(i - 1) * p + 1]
  BY <1>2 DEF LevelIsTrees
<1>4. l = 1
  <2>1. Len(Passes(txs)[h]) = 1 /\ Len(Passes(txs)[h]) = l BY <1>1, <1>3, LevelLength
  <2> QED BY <2>1
<1>5. p \in Nat BY <1>2, PowersFacts
<1> HIDE DEF p
<1>6. (1 - 1) * p + 1 = 1 BY <1>5
<1>7. Passes(txs)[h][1] = Trees(txs)[h][1] BY <1>3, <1>4, <1>6
<1>8. ComputeMerkleRoot(txs) = Passes(txs)[n][1] BY DEF ComputeMerkleRoot
<1> QED BY <1>1, <1>7, <1>8 DEF TreeRoot

-----------------------------------------------------------------------------
(* What a root tells *)

\* r begins with the elements of q, and whatever follows are copies of some of them.
Copying(q, n, r, m) ==
  /\ n <= m
  /\ \A i \in 1..n : r[i] = q[i]
  /\ \A i \in (n + 1)..m : \E j \in 1..n : r[i] = q[j]

LEMMA HashFacts ==
  /\ \A a, b, c, d : Hash(a, b) = Hash(c, d) => a = c /\ b = d
  /\ \A a, b, x : Hash(a, b) # HashTransaction(x)
  /\ \A a, b : Hash(a, b) # NoRoot
  /\ \A x : HashTransaction(x) # NoRoot
BY DEF Hash, HashTransaction, NoRoot

\* Equal pairs have equal halves, where the second half of the last pair may be a copy.
LEMMA PairsTell ==
  ASSUME NEW n \in Nat, NEW q, Level(q, n), NEW m \in Nat, NEW r, Level(r, m),
         NEW i \in 1..((n + 1) \div 2), NEW j \in 1..((m + 1) \div 2),
         NextLevel(q)[i] = NextLevel(r)[j]
  PROVE  /\ q[2 * i - 1] = r[2 * j - 1]
         /\ (IF 2 * i <= n THEN q[2 * i] ELSE q[2 * i - 1])
              = (IF 2 * j <= m THEN r[2 * j] ELSE r[2 * j - 1])
<1> DEFINE a == IF 2 * i <= n THEN q[2 * i] ELSE q[2 * i - 1]
           b == IF 2 * j <= m THEN r[2 * j] ELSE r[2 * j - 1]
<1>1. NextLevel(q)[i] = Hash(q[2 * i - 1], a) BY NextLevelFacts
<1>2. NextLevel(r)[j] = Hash(r[2 * j - 1], b) BY NextLevelFacts
<1> HIDE DEF a, b
<1>3. Hash(q[2 * i - 1], a) = Hash(r[2 * j - 1], b) BY <1>1, <1>2
<1>4. q[2 * i - 1] = r[2 * j - 1] /\ a = b BY <1>3, HashFacts
<1> QED BY <1>4 DEF a, b

\* The case of the next lemma in which the lower level of r is not the shorter one.
LEMMA LongerCopies ==
  ASSUME NEW n \in Nat, NEW q, Level(q, n), NEW m \in Nat, NEW r, Level(r, m), n <= m,
         Copying(NextLevel(q), (n + 1) \div 2, NextLevel(r), (m + 1) \div 2)
  PROVE  Copying(q, n, r, m)
<1> DEFINE w == (n + 1) \div 2  v == (m + 1) \div 2
<1>1. /\ w \in Nat /\ (n = 2 * w \/ n = 2 * w - 1)
      /\ v \in Nat /\ (m = 2 * v \/ m = 2 * v - 1)
  BY Halves
<1>2. /\ w <= v
      /\ \A i \in 1..w : NextLevel(r)[i] = NextLevel(q)[i]
      /\ \A i \in (w + 1)..v : \E j \in 1..w : NextLevel(r)[i] = NextLevel(q)[j]
  BY DEF Copying
<1>3. ASSUME NEW i \in 1..w, NEW j \in 1..v, NextLevel(q)[i] = NextLevel(r)[j]
      PROVE  /\ q[2 * i - 1] = r[2 * j - 1]
             /\ (IF 2 * i <= n THEN q[2 * i] ELSE q[2 * i - 1])
                  = (IF 2 * j <= m THEN r[2 * j] ELSE r[2 * j - 1])
  BY <1>3, PairsTell
<1> HIDE DEF w, v
<1>4. ASSUME NEW i \in 1..n PROVE r[i] = q[i]
  <2> DEFINE k == (i + 1) \div 2
  <2>1. k \in Nat /\ (i = 2 * k \/ i = 2 * k - 1) BY Halves
  <2> HIDE DEF k
  <2>2. k \in 1..w /\ k \in 1..v BY <1>1, <1>2, <2>1
  <2>3. /\ q[2 * k - 1] = r[2 * k - 1]
        /\ (IF 2 * k <= n THEN q[2 * k] ELSE q[2 * k - 1])
             = (IF 2 * k <= m THEN r[2 * k] ELSE r[2 * k - 1])
    BY <1>2, <1>3, <2>2
  <2>4. CASE i = 2 * k
    <3>1. 2 * k <= n /\ 2 * k <= m BY <2>4
    <3> QED BY <2>3, <2>4, <3>1
  <2>5. CASE i = 2 * k - 1 BY <2>3, <2>5
  <2> QED BY <2>1, <2>4, <2>5
<1>5. ASSUME NEW i \in (n + 1)..m PROVE \E j \in 1..n : r[i] = q[j]
  <2> DEFINE k == (i + 1) \div 2
  <2>1. k \in Nat /\ (i = 2 * k \/ i = 2 * k - 1) BY Halves
  <2> HIDE DEF k
  <2>2. k \in 1..v BY <1>1, <2>1
  <2>3. PICK l \in 1..w : NextLevel(q)[l] = NextLevel(r)[k]
    <3>1. CASE k <= w
      <4>1. k \in 1..w BY <2>2, <3>1
      <4>2. NextLevel(q)[k] = NextLevel(r)[k] BY <1>2, <4>1
      <4> QED BY <4>1, <4>2
    <3>2. CASE k > w
      <4>1. k \in (w + 1)..v BY <1>1, <2>2, <3>2
      <4> QED BY <1>2, <4>1
    <3> QED BY <1>1, <2>1, <3>1, <3>2
  <2>4. /\ q[2 * l - 1] = r[2 * k - 1]
        /\ (IF 2 * l <= n THEN q[2 * l] ELSE q[2 * l - 1])
             = (IF 2 * k <= m THEN r[2 * k] ELSE r[2 * k - 1])
    BY <1>3, <2>2, <2>3
  <2>5. 2 * l - 1 \in 1..n /\ (2 * l <= n => 2 * l \in 1..n) BY <1>1
  <2>6. CASE i = 2 * k - 1 BY <2>4, <2>5, <2>6
  <2>7. CASE i = 2 * k
    <3>1. 2 * k <= m BY <2>7
    <3>2. r[i] = IF 2 * l <= n THEN q[2 * l] ELSE q[2 * l - 1] BY <2>4, <2>7, <3>1
    <3>3. CASE 2 * l <= n BY <2>5, <3>2, <3>3
    <3>4. CASE ~(2 * l <= n) BY <2>5, <3>2, <3>4
    <3> QED BY <3>3, <3>4
  <2> QED BY <2>1, <2>6, <2>7
<1> QED BY <1>4, <1>5 DEF Copying

\* An odd hash at the end is paired with itself: the pairs tell the hashes that they are
\* made of, except for a copy at the end.
LEMMA NextLevelTells ==
  ASSUME NEW n \in Nat, NEW q, Level(q, n), NEW m \in Nat, NEW r, Level(r, m),
         Copying(NextLevel(q), (n + 1) \div 2, NextLevel(r), (m + 1) \div 2)
  PROVE  Copying(q, n, r, m) \/ Copying(r, m, q, n)
<1> DEFINE w == (n + 1) \div 2  v == (m + 1) \div 2
<1>1. CASE n <= m BY <1>1, LongerCopies
<1>2. CASE m < n
  <2>1. /\ w \in Nat /\ (n = 2 * w \/ n = 2 * w - 1)
        /\ v \in Nat /\ (m = 2 * v \/ m = 2 * v - 1)
    BY Halves
  <2>2. /\ w <= v /\ \A i \in 1..w : NextLevel(r)[i] = NextLevel(q)[i]
    BY DEF Copying
  <2> HIDE DEF w, v
  <2>3. v = w BY <1>2, <2>1, <2>2
  <2>4. Copying(NextLevel(r), v, NextLevel(q), w)
    <3>1. (v + 1)..w = {} BY <2>1, <2>3
    <3> QED BY <2>1, <2>2, <2>3, <3>1 DEF Copying
  <2> QED BY <1>2, <2>4, LongerCopies DEF w, v
<1> QED BY <1>1, <1>2

\* A level up to the root has a first hash.
LEMMA LevelsNotEmpty ==
  ASSUME NEW txs, Len(txs) \in Nat \ {0}, NEW k \in 0..Height(Len(txs))
  PROVE  \E l \in Nat \ {0} : Level(Passes(txs)[k], l)
<1> DEFINE n == Len(txs)  p == PowersOfTwo(n)[k]
<1>1. k \in 0..n
  <2>1. Height(n) \in 0..n BY HeightFacts
  <2> QED BY <2>1
<1>2. p \in Nat BY <1>1, PowersFacts
<1>3. PICK l \in Nat : Level(Passes(txs)[k], l) /\ Cover(n, l, p)
  BY PassesAreTrees DEF LevelIsTrees
<1> HIDE DEF p
<1>4. l # 0
  <2>1. 0 * p = 0 BY <1>2
  <2> QED BY <1>3, <2>1 DEF Cover
<1> QED BY <1>3, <1>4

\* The first hash of a level above the leaves is one of a pair.
LEMMA FirstIsPair ==
  ASSUME NEW n \in Nat \ {0}, NEW q, Level(q, n)
  PROVE  \E y : NextLevel(q)[1] = Hash(q[1], y)
<1> DEFINE w == (n + 1) \div 2  y == IF 2 * 1 <= n THEN q[2 * 1] ELSE q[2 * 1 - 1]
<1>1. w \in Nat /\ (n = 2 * w \/ n = 2 * w - 1) BY Halves
<1>2. \A i \in 1..w :
        NextLevel(q)[i] = Hash(q[2 * i - 1], IF 2 * i <= n THEN q[2 * i] ELSE q[2 * i - 1])
  BY NextLevelFacts
<1> HIDE DEF w
<1>3. 1 \in 1..w BY <1>1
<1>4. NextLevel(q)[1] = Hash(q[2 * 1 - 1], y) BY <1>2, <1>3
<1> HIDE DEF y
<1>5. 2 * 1 - 1 = 1 OBVIOUS
<1> QED BY <1>4, <1>5

\* From the root down the first hashes of both trees agree, until the lower one ends.
LEMMA FirstsAgree ==
  ASSUME NEW s, Len(s) \in Nat \ {0}, NEW t, Len(t) \in Nat \ {0},
         Passes(s)[Len(s)][1] = Passes(t)[Len(t)][1],
         NEW d \in Nat, d <= Height(Len(s)), d <= Height(Len(t))
  PROVE  Passes(s)[Height(Len(s)) - d][1] = Passes(t)[Height(Len(t)) - d][1]
<1> DEFINE a == Height(Len(s))  b == Height(Len(t))  P == Passes(s)  Q == Passes(t)
           N == {m \in Nat : m <= a /\ m <= b => P[a - m][1] = Q[b - m][1]}
<1>1. a \in Nat /\ b \in Nat BY HeightFacts
<1>2. P[a][1] = Q[b][1] BY OneHashStays
<1>3. /\ \A j \in 0..(a - 1) : P[j + 1] = NextLevel(P[j])
      /\ \A j \in 0..(b - 1) : Q[j + 1] = NextLevel(Q[j])
  BY PassesAreTrees
<1>4. /\ \A j \in 0..a : \E l \in Nat \ {0} : Level(P[j], l)
      /\ \A j \in 0..b : \E l \in Nat \ {0} : Level(Q[j], l)
  BY LevelsNotEmpty
<1> HIDE DEF a, b, P, Q
<1>5. 0 \in N
  <2>1. a - 0 = a /\ b - 0 = b BY <1>1
  <2> QED BY <1>2, <2>1
<1>6. ASSUME NEW m \in N PROVE m + 1 \in N
  <2> SUFFICES ASSUME m + 1 <= a, m + 1 <= b
               PROVE  P[a - (m + 1)][1] = Q[b - (m + 1)][1]
    OBVIOUS
  <2> DEFINE i == a - (m + 1)  j == b - (m + 1)
  <2>1. /\ i \in 0..(a - 1) /\ i \in 0..a /\ i + 1 = a - m
        /\ j \in 0..(b - 1) /\ j \in 0..b /\ j + 1 = b - m
    BY <1>1
  <2>2. P[a - m][1] = Q[b - m][1] BY <1>1, <1>6
  <2> HIDE DEF i, j, N
  <2>3. NextLevel(P[i])[1] = NextLevel(Q[j])[1] BY <1>3, <2>1, <2>2
  <2>4. PICK y : NextLevel(P[i])[1] = Hash(P[i][1], y) BY <1>4, <2>1, FirstIsPair
  <2>5. PICK z : NextLevel(Q[j])[1] = Hash(Q[j][1], z) BY <1>4, <2>1, FirstIsPair
  <2>6. Hash(P[i][1], y) = Hash(Q[j][1], z) BY <2>3, <2>4, <2>5
  <2>7. P[i][1] = Q[j][1] BY <2>6, HashFacts
  <2> QED BY <2>7 DEF i, j
<1>7. N \in SUBSET Nat OBVIOUS
<1>8. d \in N
  <2> HIDE DEF N
  <2> QED BY <1>5, <1>6, <1>7, AllNaturals
<1>9. P[a - d][1] = Q[b - d][1] BY <1>8 DEF a, b
<1> QED BY <1>9 DEF P, Q, a, b

\* A tree has no transaction where the other still has a pair.
LEMMA NotLower ==
  ASSUME NEW s, Len(s) \in Nat \ {0}, NEW t, Len(t) \in Nat \ {0},
         Passes(s)[Len(s)][1] = Passes(t)[Len(t)][1]
  PROVE  ~(Height(Len(s)) < Height(Len(t)))
<1> SUFFICES ASSUME Height(Len(s)) < Height(Len(t)) PROVE FALSE OBVIOUS
<1> DEFINE a == Height(Len(s))  b == Height(Len(t))  P == Passes(s)  Q == Passes(t)
           j == (b - a) - 1
<1>1. a \in Nat /\ b \in Nat BY HeightFacts
<1>2. P[0][1] = Q[b - a][1]
  <2>1. a \in Nat /\ a <= Height(Len(s)) /\ a <= Height(Len(t)) BY <1>1
  <2> HIDE DEF a
  <2>2. Passes(s)[Height(Len(s)) - a][1] = Passes(t)[Height(Len(t)) - a][1]
    BY <2>1, FirstsAgree
  <2>3. Height(Len(s)) - a = 0
    <3>1. a - a = 0 BY <1>1
    <3> QED BY <3>1 DEF a
  <2> QED BY <2>2, <2>3
<1>3. P[0][1] = HashTransaction(s[1])
  <2>1. P[0] = [i \in 1..Len(s) |-> HashTransaction(s[i])] BY PassFacts
  <2>2. 1 \in 1..Len(s) OBVIOUS
  <2> QED BY <2>1, <2>2
<1>4. \A i \in 0..(b - 1) : Q[i + 1] = NextLevel(Q[i]) BY PassesAreTrees
<1>5. \A i \in 0..b : \E l \in Nat \ {0} : Level(Q[i], l) BY LevelsNotEmpty
<1>6. a < b OBVIOUS
<1> HIDE DEF a, b, P, Q
<1>7. j \in 0..(b - 1) /\ j \in 0..b /\ j + 1 = b - a BY <1>1, <1>6
<1> HIDE DEF j
<1>8. PICK l \in Nat \ {0} : Level(Q[j], l) BY <1>5, <1>7
<1>9. PICK y : Q[b - a][1] = Hash(Q[j][1], y) BY <1>4, <1>7, <1>8, FirstIsPair
<1>10. Hash(Q[j][1], y) = HashTransaction(s[1]) BY <1>2, <1>3, <1>9
<1> QED BY <1>10, HashFacts

\* Two levels that differ in nothing except copies at the end.
Close(q, r) ==
  \E n, m \in Nat :
    Level(q, n) /\ Level(r, m) /\ (Copying(q, n, r, m) \/ Copying(r, m, q, n))

LEMMA CloseBelow ==
  ASSUME NEW n \in Nat, NEW q, Level(q, n), NEW m \in Nat, NEW r, Level(r, m),
         Close(NextLevel(q), NextLevel(r))
  PROVE  Close(q, r)
<1> DEFINE w == (n + 1) \div 2  v == (m + 1) \div 2  x == NextLevel(q)  y == NextLevel(r)
<1>1. PICK k, l \in Nat :
        Level(x, k) /\ Level(y, l) /\ (Copying(x, k, y, l) \/ Copying(y, l, x, k))
  BY DEF Close
<1>2. w \in Nat /\ v \in Nat /\ Level(x, w) /\ Level(y, v) BY Halves, NextLevelFacts
<1> HIDE DEF x, y, w, v
<1>3. k = w /\ l = v
  <2>1. Len(x) = k /\ Len(x) = w /\ Len(y) = l /\ Len(y) = v BY <1>1, <1>2, LevelLength
  <2> QED BY <2>1
<1>4. Copying(x, w, y, v) \/ Copying(y, v, x, w) BY <1>1, <1>3
<1>5. Copying(q, n, r, m) \/ Copying(r, m, q, n)
  <2>1. CASE Copying(x, w, y, v) BY <2>1, NextLevelTells DEF x, y, w, v
  <2>2. CASE Copying(y, v, x, w) BY <2>2, NextLevelTells DEF x, y, w, v
  <2> QED BY <1>4, <2>1, <2>2
<1> QED BY <1>5 DEF Close

\* From the root down to the leaves the levels of both trees are close.
LEMMA LeavesClose ==
  ASSUME NEW s, Len(s) \in Nat \ {0}, NEW t, Len(t) \in Nat \ {0},
         Passes(s)[Len(s)][1] = Passes(t)[Len(t)][1],
         Height(Len(s)) = Height(Len(t))
  PROVE  Close(Passes(s)[0], Passes(t)[0])
<1> DEFINE a == Height(Len(s))  P == Passes(s)  Q == Passes(t)
           N == {m \in Nat : m <= a => Close(P[a - m], Q[a - m])}
<1>1. a \in Nat BY HeightFacts
<1>2. Close(P[a], Q[a])
  <2>1. Level(P[a], 1) /\ Level(Q[a], 1) /\ P[a][1] = Q[a][1] BY OneHashStays
  <2> HIDE DEF P, Q, a
  <2>2. (\A i \in 1..1 : i = 1) /\ (1 + 1)..1 = {} OBVIOUS
  <2>3. Copying(P[a], 1, Q[a], 1) BY <2>1, <2>2 DEF Copying
  <2> QED BY <2>1, <2>3 DEF Close
<1>3. \A j \in 0..(a - 1) : P[j + 1] = NextLevel(P[j]) /\ Q[j + 1] = NextLevel(Q[j])
  BY PassesAreTrees
<1>4. \A j \in 0..a :
        (\E l \in Nat \ {0} : Level(P[j], l)) /\ \E l \in Nat \ {0} : Level(Q[j], l)
  BY LevelsNotEmpty
<1> HIDE DEF a, P, Q
<1>5. 0 \in N
  <2>1. a - 0 = a BY <1>1
  <2> QED BY <1>2, <2>1
<1>6. ASSUME NEW m \in N PROVE m + 1 \in N
  <2> SUFFICES ASSUME m + 1 <= a PROVE Close(P[a - (m + 1)], Q[a - (m + 1)]) OBVIOUS
  <2> DEFINE i == a - (m + 1)
  <2>1. i \in 0..(a - 1) /\ i \in 0..a /\ i + 1 = a - m BY <1>1
  <2>2. Close(P[a - m], Q[a - m]) BY <1>1, <1>6
  <2> HIDE DEF i, N
  <2>3. Close(NextLevel(P[i]), NextLevel(Q[i])) BY <1>3, <2>1, <2>2
  <2>4. PICK l \in Nat \ {0} : Level(P[i], l) BY <1>4, <2>1
  <2>5. PICK k \in Nat \ {0} : Level(Q[i], k) BY <1>4, <2>1
  <2>6. Close(P[i], Q[i]) BY <2>3, <2>4, <2>5, CloseBelow
  <2> QED BY <2>6 DEF i
<1>7. N \in SUBSET Nat OBVIOUS
<1>8. a \in N
  <2> HIDE DEF N
  <2> QED BY <1>1, <1>5, <1>6, <1>7, AllNaturals
<1>9. Close(P[a - a], Q[a - a]) /\ a - a = 0 BY <1>1, <1>8
<1> QED BY <1>9 DEF P, Q

LEMMA CopyingIsCopies ==
  ASSUME NEW s, Len(s) \in Nat, NEW t, Len(t) \in Nat,
         Copying(Passes(s)[0], Len(s), Passes(t)[0], Len(t))
  PROVE  CopiesFollow(s, t)
<1> DEFINE n == Len(s)  m == Len(t)  P == Passes(s)  Q == Passes(t)
<1>1. P[0] = [i \in 1..n |-> HashTransaction(s[i])] BY PassFacts
<1>2. Q[0] = [i \in 1..m |-> HashTransaction(t[i])] BY PassFacts
<1>3. /\ n \in Nat /\ m \in Nat /\ n <= m
      /\ \A i \in 1..n : Q[0][i] = P[0][i]
      /\ \A i \in (n + 1)..m : \E j \in 1..n : Q[0][i] = P[0][j]
  BY DEF Copying
<1> HIDE DEF P, Q, n, m
<1>4. \A i \in 1..n : P[0][i] = HashTransaction(s[i]) BY <1>1
<1>5. \A i \in 1..m : Q[0][i] = HashTransaction(t[i]) BY <1>2
<1>6. ASSUME NEW i \in 1..n PROVE HashTransaction(t[i]) = HashTransaction(s[i])
  <2>1. i \in 1..m BY <1>3
  <2> QED BY <1>3, <1>4, <1>5, <2>1
<1>7. ASSUME NEW i \in (n + 1)..m
      PROVE  \E j \in 1..n : HashTransaction(t[i]) = HashTransaction(s[j])
  <2>1. i \in 1..m BY <1>3
  <2>2. PICK j \in 1..n : Q[0][i] = P[0][j] BY <1>3
  <2>3. HashTransaction(t[i]) = HashTransaction(s[j]) BY <1>4, <1>5, <2>1, <2>2
  <2> QED BY <2>3
<1> QED BY <1>3, <1>6, <1>7 DEF CopiesFollow, n, m

\* The root of transactions is not that of an empty list.
LEMMA SomeRoot ==
  ASSUME NEW x, x # << >>, Len(x) \in Nat \ {0}
  PROVE  ComputeMerkleRoot(x) # NoRoot /\ ComputeMerkleRoot(x) = Passes(x)[Len(x)][1]
<1> DEFINE n == Len(x)  h == Height(n)  P == Passes(x)
<1>1. ComputeMerkleRoot(x) = P[n][1] BY DEF ComputeMerkleRoot
<1>2. P[n] = P[h] BY OneHashStays
<1>3. h \in 0..n /\ \A j \in 0..(h - 1) : P[j + 1] = NextLevel(P[j])
  BY HeightFacts, PassesAreTrees
<1>4. P[0] = [i \in 1..n |-> HashTransaction(x[i])] BY PassFacts
<1>5. \A j \in 0..h : \E l \in Nat \ {0} : Level(P[j], l) BY LevelsNotEmpty
<1>6. n \in Nat /\ n > 0 OBVIOUS
<1> HIDE DEF n, h, P
<1>7. CASE h = 0
  <2>1. 1 \in 1..n BY <1>6
  <2>2. P[h][1] = HashTransaction(x[1]) BY <1>4, <1>7, <2>1
  <2> QED BY <1>1, <1>2, <2>2, HashFacts DEF n, P
<1>8. CASE h > 0
  <2>1. h - 1 \in 0..(h - 1) /\ h - 1 \in 0..h /\ (h - 1) + 1 = h BY <1>3, <1>6, <1>8
  <2>2. P[h] = NextLevel(P[h - 1]) BY <1>3, <2>1
  <2>3. PICK l \in Nat \ {0} : Level(P[h - 1], l) BY <1>5, <2>1
  <2>4. \E y : P[h][1] = Hash(P[h - 1][1], y) BY <2>2, <2>3, FirstIsPair
  <2> QED BY <1>1, <1>2, <2>4, HashFacts DEF n, P
<1> QED BY <1>3, <1>6, <1>7, <1>8

\* Two lists that have one root differ in nothing except copies at the end.
LEMMA RootTellsList ==
  ASSUME NEW S, NEW s \in Seq(S), NEW R, NEW t \in Seq(R),
         ComputeMerkleRoot(s) = ComputeMerkleRoot(t)
  PROVE  CopiesFollow(s, t) \/ CopiesFollow(t, s)
<1>1. Len(s) \in Nat /\ Len(t) \in Nat BY LenProperties
<1>2. (s = << >> <=> Len(s) = 0) /\ (t = << >> <=> Len(t) = 0) BY EmptySeq
<1>3. ComputeMerkleRoot(<< >>) = NoRoot BY DEF ComputeMerkleRoot
<1>4. CASE s = << >> \/ t = << >>
  <2>1. Len(s) = 0 /\ Len(t) = 0
    <3>1. s # << >> => ComputeMerkleRoot(s) # NoRoot BY <1>1, <1>2, SomeRoot
    <3>2. t # << >> => ComputeMerkleRoot(t) # NoRoot BY <1>1, <1>2, SomeRoot
    <3>3. s = << >> /\ t = << >> BY <1>3, <1>4, <3>1, <3>2
    <3> QED BY <1>2, <3>3
  <2>2. 1..0 = {} /\ (0 + 1)..0 = {} OBVIOUS
  <2> QED BY <2>1, <2>2 DEF CopiesFollow
<1>5. CASE s # << >> /\ t # << >>
  <2>1. Len(s) \in Nat \ {0} /\ Len(t) \in Nat \ {0} BY <1>1, <1>2, <1>5
  <2>2. Passes(s)[Len(s)][1] = Passes(t)[Len(t)][1] BY <1>5, <2>1, SomeRoot
  <2>3. Height(Len(s)) = Height(Len(t))
    <3>1. Height(Len(s)) \in 0..Len(s) /\ Height(Len(t)) \in 0..Len(t) BY <2>1, HeightFacts
    <3>2. ~(Height(Len(s)) < Height(Len(t))) BY <2>1, <2>2, NotLower
    <3>3. ~(Height(Len(t)) < Height(Len(s))) BY <2>1, <2>2, NotLower
    <3> QED BY <2>1, <3>1, <3>2, <3>3
  <2>4. PICK n, m \in Nat :
          /\ Level(Passes(s)[0], n) /\ Level(Passes(t)[0], m)
          /\ \/ Copying(Passes(s)[0], n, Passes(t)[0], m)
             \/ Copying(Passes(t)[0], m, Passes(s)[0], n)
    BY <2>1, <2>2, <2>3, LeavesClose DEF Close
  <2>5. Level(Passes(s)[0], Len(s)) /\ Level(Passes(t)[0], Len(t))
    BY <1>1, PassFacts DEF Level
  <2>6. n = Len(s) /\ m = Len(t)
    <3>1. Len(Passes(s)[0]) = n /\ Len(Passes(t)[0]) = m BY <2>4, LevelLength
    <3>2. Len(Passes(s)[0]) = Len(s) /\ Len(Passes(t)[0]) = Len(t)
      BY <1>1, <2>5, LevelLength
    <3> QED BY <3>1, <3>2
  <2>7. CASE Copying(Passes(s)[0], n, Passes(t)[0], m)
    BY <1>1, <2>6, <2>7, CopyingIsCopies
  <2>8. CASE Copying(Passes(t)[0], m, Passes(s)[0], n)
    BY <1>1, <2>6, <2>8, CopyingIsCopies
  <2> QED BY <2>4, <2>7, <2>8
<1> QED BY <1>4, <1>5

-----------------------------------------------------------------------------
(* Merkle roots *)

LEMMA PublishedAreSigned ==
  ASSUME Typed, NEW mb \in Published
  PROVE  mb.txs \in TxLists /\ mb.root = ComputeMerkleRoot(mb.txs)
<1>1. mb \in MiniBlocks
  <2>1. ToSet(miniBlockBus) \subseteq MiniBlocks BY ToSetType DEF Typed, TypeOK
  <2>2. ASSUME NEW c \in Collectors PROVE Held(c) \subseteq MiniBlocks
    <3>1. Out(c) \in Seq(MiniBlocks)
      <4>1. CASE ctx[c] = Idle BY <4>1, EmptySeq DEF Out
      <4>2. CASE ctx[c] \in Collecting BY <4>2, ContextFacts DEF Out
      <4> QED BY <4>1, <4>2 DEF Typed, TypeOK
    <3>2. ToSet(Out(c)) \subseteq MiniBlocks BY <3>1, ToSetType
    <3> QED BY <3>2 DEF Held, Typed, TypeOK
  <2>3. mb \in ToSet(miniBlockBus) \/ \E c \in Collectors : mb \in Held(c)
    <3> DEFINE S == {Held(c) : c \in Collectors}
    <3>1. mb \in UNION S \/ mb \in ToSet(miniBlockBus) BY DEF Published
    <3>2. \A s \in S : \E c \in Collectors : s = Held(c) OBVIOUS
    <3> HIDE DEF S
    <3> QED BY <3>1, <3>2
  <2> QED BY <2>1, <2>2, <2>3
<1>2. mb.txs \in TxLists /\ mb.root = MerkleRoot[mb.txs] BY <1>1 DEF MiniBlocks, SignMiniBlock
<1> QED BY <1>2 DEF MerkleRoot

LEMMA ListFacts ==
  ASSUME NEW txs \in TxLists
  PROVE  /\ txs \in Seq(Range(txs)) /\ Len(txs) \in Nat /\ DOMAIN txs = 1..Len(txs)
         /\ txs # << >> => Len(txs) \in Nat \ {0}
<1>1. txs \in Seq(Range(txs)) BY MiniBlocksAssumption
<1>2. Len(txs) \in Nat /\ DOMAIN txs = 1..Len(txs) /\ (txs # << >> => Len(txs) # 0)
  BY <1>1, LenProperties, EmptySeq
<1> QED BY <1>1, <1>2

LEMMA RootsRight == Typed => RootIsTreeRoot /\ RootIdentifiesTxs
<1> SUFFICES ASSUME Typed PROVE RootIsTreeRoot /\ RootIdentifiesTxs OBVIOUS
<1>1. ASSUME NEW mb \in Published
      PROVE  mb.root = IF mb.txs = << >> THEN NoRoot ELSE TreeRoot(mb.txs)
  <2>1. mb.txs \in TxLists /\ mb.root = ComputeMerkleRoot(mb.txs) BY PublishedAreSigned
  <2>2. CASE mb.txs = << >> BY <2>1, <2>2 DEF ComputeMerkleRoot
  <2>3. CASE mb.txs # << >>
    <3>1. Len(mb.txs) \in Nat \ {0} BY <2>1, <2>3, ListFacts
    <3>2. ComputeMerkleRoot(mb.txs) = TreeRoot(mb.txs) BY <2>3, <3>1, LoopFindsRoot
    <3> QED BY <2>1, <2>3, <3>2
  <2> QED BY <2>2, <2>3
<1>2. ASSUME NEW mb \in Published, NEW txs \in TxLists, mb.root = MerkleRoot[txs]
      PROVE  CopiesFollow(mb.txs, txs) \/ CopiesFollow(txs, mb.txs)
  <2>1. mb.txs \in TxLists /\ mb.root = ComputeMerkleRoot(mb.txs) BY PublishedAreSigned
  <2>2. ComputeMerkleRoot(mb.txs) = ComputeMerkleRoot(txs) BY <1>2, <2>1 DEF MerkleRoot
  <2>3. txs \in Seq(Range(txs)) /\ mb.txs \in Seq(Range(mb.txs)) BY <2>1, ListFacts
  <2> QED BY <2>2, <2>3, RootTellsList
<1> QED BY <1>1, <1>2 DEF RootIsTreeRoot, RootIdentifiesTxs

\* For lists of any length: the loop of ComputeMerkleRoot, which pairs neighbours from
\* the leaves up, signs the root of the tree that is defined from the root down.
THEOREM LoopIsTree == Spec => []RootIsTreeRoot
BY InitTyped, NextTyped, RootsRight, PTL DEF Spec

\* For any lists: the root that SignMiniBlock signs tells what HashTransaction hashes of
\* every transaction, except how many copies there are at the end of the list, as long as
\* no two texts and no two pairs have one hash and no text has the hash of a pair.
THEOREM RootTellsTxs == Spec => []RootIdentifiesTxs
BY InitTyped, NextTyped, RootsRight, PTL DEF Spec

=============================================================================
