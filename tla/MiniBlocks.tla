----------------------------- MODULE MiniBlocks -----------------------------
(***************************************************************************)
(* The bus of mini-blocks (network/messages.go) in the build without p2p.  *)
(* Producers sign and publish; a publication that finds the bus full is    *)
(* lost.  Collectors of one slot each take whatever comes first from the   *)
(* one bus, until their deadline.                                          *)
(*                                                                         *)
(* Mini-blocks go on arriving without a bound.  A few of them are followed *)
(* by a number, in the order of publication; the others have number 0 and  *)
(* are not recorded once they have left the bus.  A signature is what it   *)
(* signs.                                                                  *)
(***************************************************************************)
EXTENDS Integers, Sequences, FiniteSets, SequencesExt, Merkle

CONSTANTS
  Slots,
  Producers,  \* wallets that sign
  Collectors, \* goroutines that collect
  TxLists,    \* lists of transactions
  Capacity,   \* of the bus
  MaxFollowed \* bound: mini-blocks that are followed

ASSUME MiniBlocksAssumption ==
  /\ Capacity \in Nat /\ MaxFollowed \in Nat
  /\ << >> \in TxLists
  /\ \A l \in TxLists : l \in Seq(Range(l))

VARIABLES
  miniBlockBus,
  ctx,       \* where each collector stands
  followed,  \* mini-blocks followed so far
  returned,  \* history: followed mini-blocks that calls of each collector returned
  discarded, \* history: followed mini-blocks that collectors threw away
  overflowed \* history: followed mini-blocks that found the bus full

vars == <<miniBlockBus, ctx, followed, returned, discarded, overflowed>>

\* Computed once for each list.
MerkleRoot == [txs \in TxLists |-> ComputeMerkleRoot(txs)]

Header(p, slot, root) == [slot |-> slot, root |-> root, producer |-> p]

SignMiniBlock(p, slot, txs, n) ==
  [n |-> n, slot |-> slot, txs |-> txs, root |-> MerkleRoot[txs], producer |-> p,
   signature |-> Header(p, slot, MerkleRoot[txs])]

\* The root is taken as it is: the transactions are not hashed again.
VerifyMiniBlock(mb) == mb.signature = Header(mb.producer, mb.slot, mb.root)

MiniBlocks ==
  {SignMiniBlock(p, slot, txs, n) :
     p \in Producers, slot \in Slots, txs \in TxLists, n \in 0..MaxFollowed}

Idle == [at |-> "idle"]
Collecting == [at: {"collecting"}, slot: Slots, expired: BOOLEAN, out: Seq(MiniBlocks)]

Init ==
  /\ miniBlockBus = << >>
  /\ ctx = [c \in Collectors |-> Idle]
  /\ followed = 0
  /\ returned = [c \in Collectors |-> {}] /\ discarded = {} /\ overflowed = {}

-----------------------------------------------------------------------------
Followed(mb) == IF mb.n > 0 THEN {mb} ELSE {}

\* A fault: the bus is also subscribed to what is published, and echoes it.
PublishEchoed(mb) ==
  /\ IF Len(miniBlockBus) < Capacity
       THEN miniBlockBus' = miniBlockBus \o <<mb, mb>> /\ UNCHANGED overflowed
       ELSE overflowed' = overflowed \cup Followed(mb) /\ UNCHANGED miniBlockBus
  /\ UNCHANGED <<ctx, returned, discarded>>

\* A send that does not wait.
PublishMiniBlock(mb) ==
  /\ IF Len(miniBlockBus) < Capacity
       THEN miniBlockBus' = Append(miniBlockBus, mb) /\ UNCHANGED overflowed
       ELSE overflowed' = overflowed \cup Followed(mb) /\ UNCHANGED miniBlockBus
  /\ UNCHANGED <<ctx, returned, discarded>>

Publish(p, slot) ==
  \/ /\ followed < MaxFollowed /\ followed' = followed + 1
     /\ \E txs \in TxLists : PublishMiniBlock(SignMiniBlock(p, slot, txs, followed + 1))
  \/ /\ PublishMiniBlock(SignMiniBlock(p, slot, << >>, 0))
     /\ UNCHANGED followed

CollectMiniBlocks(c, slot) ==
  /\ ctx[c] = Idle
  /\ ctx' = [ctx EXCEPT ![c] =
       [at |-> "collecting", slot |-> slot, expired |-> FALSE, out |-> << >>]]
  /\ UNCHANGED <<miniBlockBus, followed, returned, discarded, overflowed>>

\* The time of time.After has come.
Expire(c) ==
  /\ ctx[c].at = "collecting" /\ ~ctx[c].expired
  /\ ctx' = [ctx EXCEPT ![c].expired = TRUE]
  /\ UNCHANGED <<miniBlockBus, followed, returned, discarded, overflowed>>

\* A fault: the timer is started anew for each mini-block.
ExpiredAfterTakeRestarted(c) == FALSE

ExpiredAfterTake(c) == ctx[c].expired

\* The select takes a mini-block, even when the time has come as well.
Take(c) ==
  /\ ctx[c].at = "collecting" /\ miniBlockBus # << >>
  /\ miniBlockBus' = Tail(miniBlockBus)
  /\ LET mb == Head(miniBlockBus)
         mine == mb.slot = ctx[c].slot /\ VerifyMiniBlock(mb)
     IN  /\ ctx' = [ctx EXCEPT
              ![c].expired = ExpiredAfterTake(c),
              ![c].out = IF mine /\ mb.n > 0 THEN Append(@, mb) ELSE @]
         /\ discarded' = IF mine THEN discarded ELSE discarded \cup Followed(mb)
  /\ UNCHANGED <<followed, returned, overflowed>>

\* The select sees that the time has come.
Return(c) ==
  /\ ctx[c].at = "collecting" /\ ctx[c].expired
  /\ returned' = [returned EXCEPT ![c] = @ \cup ToSet(ctx[c].out)]
  /\ ctx' = [ctx EXCEPT ![c] = Idle]
  /\ UNCHANGED <<miniBlockBus, followed, discarded, overflowed>>

-----------------------------------------------------------------------------
Next ==
  \/ \E p \in Producers, slot \in Slots : Publish(p, slot)
  \/ \E c \in Collectors :
       (\E slot \in Slots : CollectMiniBlocks(c, slot)) \/ Expire(c) \/ Take(c) \/ Return(c)

Spec == Init /\ [][Next]_vars

\* Timers fire, and a select with two ready cases, which draws one at random, does not
\* draw the same for ever.
FairSpec == Spec /\ \A c \in Collectors : WF_vars(Expire(c)) /\ WF_vars(Return(c))

-----------------------------------------------------------------------------
TypeOK ==
  /\ miniBlockBus \in Seq(MiniBlocks) /\ Len(miniBlockBus) <= Capacity
  /\ \A c \in Collectors : ctx[c] = Idle \/ ctx[c] \in Collecting
  /\ followed \in 0..MaxFollowed
  /\ returned \in [Collectors -> SUBSET MiniBlocks]
  /\ {discarded, overflowed} \subseteq SUBSET MiniBlocks

Out(c) == IF ctx[c] = Idle THEN << >> ELSE ctx[c].out

Held(c) == ToSet(Out(c)) \cup returned[c]

\* Where mini-block n is: on the bus, with a collector, thrown away or lost.
OnBus(n) == {i \in DOMAIN miniBlockBus : miniBlockBus[i].n = n}
Holders(n) == {c \in Collectors : \E mb \in Held(c) : mb.n = n}
Gone(n) == {mb \in discarded \cup overflowed : mb.n = n}

Copies(n) == Cardinality(OnBus(n)) + Cardinality(Holders(n)) + Cardinality(Gone(n))

\* A published mini-block is in one place: no two collectors of a slot return the same
\* one, and one that a collector of another slot took is not there for its own slot any
\* more.
OneCopy == \A n \in 1..followed : Copies(n) = 1

\* CollectMiniBlocks returns although mini-blocks keep arriving.
CollectionEnds == \A c \in Collectors : ctx[c] # Idle ~> ctx[c] = Idle

Published == ToSet(miniBlockBus) \cup UNION {Held(c) : c \in Collectors}

\* The loop of ComputeMerkleRoot computes the root of the tree.
RootIsTreeRoot ==
  \A mb \in Published :
    mb.root = IF mb.txs = << >> THEN NoRoot ELSE TreeRoot(mb.txs)

\* t begins with the transactions of s, and whatever follows are copies of some of them;
\* transactions count as equal when they are hashed as equal.
CopiesFollow(s, t) ==
  /\ Len(s) <= Len(t)
  /\ \A i \in 1..Len(s) : HashTransaction(t[i]) = HashTransaction(s[i])
  /\ \A i \in (Len(s) + 1)..Len(t) :
       \E j \in 1..Len(s) : HashTransaction(t[i]) = HashTransaction(s[j])

\* ComputeMerkleRoot pairs an odd hash with itself, so a signed root has more than one
\* list; but these lists differ in nothing except copies at their end.
RootIdentifiesTxs ==
  \A mb \in Published, txs \in TxLists :
    mb.root = MerkleRoot[txs] => CopiesFollow(mb.txs, txs) \/ CopiesFollow(txs, mb.txs)
=============================================================================
