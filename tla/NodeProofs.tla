----------------------------- MODULE NodeProofs -----------------------------
(***************************************************************************)
(* What a crash, or a Put that fails, leaves on disk, for any accounts,    *)
(* commands and bounds.  Memory always holds at least what the disk holds, *)
(* and SaveAllData writes the chain before the nonces; so whatever is cut  *)
(* off, the chain on disk only grows, and it covers the saved nonces       *)
(* unless a Put of the chain has failed.                                   *)
(*                                                                         *)
(* An executed transaction is never loaded from the mempool again, as long *)
(* as every process ended after it had saved.  RemoveCommittedFromMempool  *)
(* cleans the mempool after SaveAllData has written it, so that what       *)
(* matters is the save that follows: the last invariant looks at the disk  *)
(* as it will be when the current save is through.                         *)
(*                                                                         *)
(* The second half says what cut-off commits and failed Puts cost at most. *)
(* SaveAllData writes balances, chain, mempool and nonces in this order; a *)
(* process that ends, or a Put that fails, leaves a later key behind an    *)
(* earlier one.  Each such event, and nothing else, can let one nonce of a *)
(* sender be executed again or keep one reward from being matched by a     *)
(* block, so both are counted against cuts and fails.                      *)
(***************************************************************************)
EXTENDS Node, SumTheorems, SequenceTheorems, TLAPS

Keys == {"balances", "blockchain", "mempool", "nonce_table"}

-----------------------------------------------------------------------------
(* Batches *)

\* The transactions of a batch: finitely many, and of sender s not more than its run,
\* whose nonces they have.
Executes(b, s) ==
  /\ b \subseteq Tx /\ Cardinality(SentBy(s, b)) \in Nat
  /\ NonceTable[s] \in Nat =>
       \A n \in (NonceTable[s] + 1)..(NonceTable[s] + Cardinality(SentBy(s, b))) :
         \E tx \in b : tx.from = s /\ tx.nonce = n

LEMMA BatchFacts ==
  ASSUME Mempool \in Seq(Tx), NEW B \in Batches, NEW s \in Accounts
  PROVE  Executes({Mempool[i] : i \in B}, s)
<1> DEFINE b == {Mempool[i] : i \in B}
           mine == {i \in B : Mempool[i].from = s}
           run == RunLength(s)
<1>1. B \subseteq DOMAIN Mempool /\ DOMAIN Mempool = 1..Len(Mempool) /\ Len(Mempool) \in Nat
  BY DEF Batches
<1>2. Cardinality(mine) = run
      /\ {Mempool[i].nonce : i \in mine} = (NonceTable[s] + 1)..(NonceTable[s] + run)
  BY DEF Batches
<1>3. \A i \in B : Mempool[i] \in Tx BY <1>1, ElementOfSeq
<1>4. IsFiniteSet(mine)
  <2>1. IsFiniteSet(1..Len(Mempool)) BY <1>1, FS_Interval
  <2>2. mine \in SUBSET (1..Len(Mempool)) BY <1>1
  <2> HIDE DEF mine
  <2> QED BY <2>1, <2>2, FS_Subset
<1>5. run \in Nat BY <1>2, <1>4, FS_CardinalityType
<1>6. SentBy(s, b) = {Mempool[i] : i \in mine} BY DEF SentBy
<1>7. IsFiniteSet(SentBy(s, b)) /\ Cardinality(SentBy(s, b)) <= run
  <2> DEFINE g == [i \in mine |-> Mempool[i]]
  <2>1. g \in Surjection(mine, SentBy(s, b)) BY <1>6 DEF Surjection
  <2> HIDE DEF g, mine, b
  <2>2. IsFiniteSet(SentBy(s, b)) /\ Cardinality(SentBy(s, b)) <= Cardinality(mine)
    BY <1>4, <2>1, FS_Surjection
  <2> QED BY <1>2, <2>2
<1> DEFINE k == Cardinality(SentBy(s, b))
<1>8. k \in Nat BY <1>7, FS_CardinalityType
<1>9. ASSUME NonceTable[s] \in Nat, NEW n \in (NonceTable[s] + 1)..(NonceTable[s] + k)
      PROVE  \E tx \in b : tx.from = s /\ tx.nonce = n
  <2>1. n \in (NonceTable[s] + 1)..(NonceTable[s] + run)
    <3> HIDE DEF k, run
    <3> QED BY <1>5, <1>7, <1>8, <1>9 DEF k
  <2>2. PICK i \in mine : Mempool[i].nonce = n BY <1>2, <2>1
  <2> QED BY <2>2
<1>10. b \subseteq Tx BY <1>3
<1>11. Executes(b, s)
  <2> HIDE DEF b
  <2> QED BY <1>8, <1>9, <1>10 DEF Executes
<1> QED BY <1>11

-----------------------------------------------------------------------------
(* The invariant *)

Types ==
  /\ NonceTable \in [Accounts -> Nat]
  /\ Mempool \in Seq(Tx) /\ Blockchain \in Blocks
  /\ DOMAIN disk = Keys
  /\ disk.nonce_table \in [Accounts -> Nat]
  /\ disk.mempool \in Seq(Tx) /\ disk.blockchain \in Blocks
  /\ todo \in Seq(Keys) /\ batch \subseteq Tx

\* Between processes nothing is under way.
AtRest == cmd = "none" => todo = << >> /\ unsaved = {} /\ pc = "idle"

\* c begins as d does.
Extends(c, d) == Len(d) <= Len(c) /\ \A i \in 1..Len(d) : c[i] = d[i]

\* A running process knows every saved block and every saved nonce.
Knows ==
  cmd # "none" =>
    /\ Extends(Blockchain, disk.blockchain)
    /\ \A s \in Accounts : disk.nonce_table[s] <= NonceTable[s]

ChainWritten == "blockchain" \in unsaved \/ disk.blockchain = Blockchain

\* Before the nonces are written, the chain is.
ChainFirstInLine ==
  \A i \in DOMAIN todo :
    todo[i] = "nonce_table" =>
      ChainWritten \/ \E j \in 1..(i - 1) : todo[j] = "blockchain"

Recorded(chain, table) ==
  \A s \in Accounts : \A n \in 1..table[s] : Executions(chain, s, n) # {}

\* The blocks in memory, and those on disk, cover the nonces next to them.
Covered ==
  ~lost =>
    /\ cmd # "none" => Recorded(Blockchain, NonceTable)
    /\ "blockchain" \notin unsaved => Recorded(disk.blockchain, disk.nonce_table)

Safe == Types /\ AtRest /\ Knows /\ ChainFirstInLine /\ Covered

LEMMA RecordedExtends ==
  ASSUME NEW c \in Blocks, NEW d \in Blocks, NEW table, Extends(c, d), Recorded(d, table)
  PROVE  Recorded(c, table)
<1> SUFFICES ASSUME NEW s \in Accounts, NEW n \in 1..table[s]
             PROVE  Executions(c, s, n) # {}
  BY DEF Recorded
<1>1. PICK i \in DOMAIN d : \E tx \in d[i] : tx.from = s /\ tx.nonce = n
  BY DEF Recorded, Executions
<1>2. i \in DOMAIN c /\ c[i] = d[i] BY <1>1 DEF Extends, Blocks
<1> QED BY <1>1, <1>2 DEF Executions

\* Recorded for a smaller table.
LEMMA RecordedBelow ==
  ASSUME NEW c, NEW table \in [Accounts -> Nat], NEW less \in [Accounts -> Nat],
         \A s \in Accounts : less[s] <= table[s], Recorded(c, table)
  PROVE  Recorded(c, less)
<1>1. \A s \in Accounts : 1..less[s] \subseteq 1..table[s] OBVIOUS
<1> QED BY <1>1 DEF Recorded

LEMMA InitSafe == Init => Safe
<1> SUFFICES ASSUME Init PROVE Safe OBVIOUS
<1>1. Types BY DEF Init, Types, Keys, Blocks
<1>2. AtRest /\ Knows /\ ChainFirstInLine BY DEF Init, AtRest, Knows, ChainFirstInLine
<1>3. Covered
  <2>1. \A s \in Accounts : disk.nonce_table[s] = 0 /\ NonceTable[s] = 0 BY DEF Init
  <2> QED BY <2>1 DEF Covered, Recorded, Init
<1> QED BY <1>1, <1>2, <1>3 DEF Safe

-----------------------------------------------------------------------------
(* Saving *)

\* One Put of a save, to one key.
LEMMA SaveEffect ==
  ASSUME Safe, Save
  PROVE  LET key == Head(todo)
         IN  /\ key \in Keys /\ key = todo[1] /\ 1 \in DOMAIN todo
             /\ DOMAIN disk' = Keys
             /\ disk'[key] = InMemory(key)
             /\ \A k \in Keys \ {key} : disk'[k] = disk[k]
             /\ unsaved' = unsaved \ {key}
<1>1. todo \in Seq(Keys) /\ todo # << >> /\ DOMAIN disk = Keys
  BY DEF Safe, Types, Save
<1>2. Head(todo) \in Keys /\ Head(todo) = todo[1] /\ 1 \in DOMAIN todo BY <1>1
<1>3. disk' = [disk EXCEPT ![Head(todo)] = InMemory(Head(todo))]
      /\ unsaved' = unsaved \ {Head(todo)}
  BY DEF Save
<1> QED BY <1>1, <1>2, <1>3

\* What is left of the line of keys, once the first one has been written or has failed.
LEMMA TailInLine ==
  ASSUME todo \in Seq(Keys), todo # << >>, todo' = Tail(todo),
         ChainFirstInLine, ChainWritten => ChainWritten',
         Head(todo) = "blockchain" => ChainWritten'
  PROVE  ChainFirstInLine'
<1> SUFFICES ASSUME NEW i \in DOMAIN todo', todo'[i] = "nonce_table", ~ChainWritten'
             PROVE  \E j \in 1..(i - 1) : todo'[j] = "blockchain"
  BY DEF ChainFirstInLine
<1>1. /\ Len(todo) \in Nat \ {0} /\ DOMAIN todo = 1..Len(todo)
      /\ Len(Tail(todo)) = Len(todo) - 1
      /\ \A j \in 1..(Len(todo) - 1) : Tail(todo)[j] = todo[j + 1]
      /\ DOMAIN Tail(todo) = 1..(Len(todo) - 1)
  OBVIOUS
<1>2. i + 1 \in DOMAIN todo /\ todo[i + 1] = "nonce_table" BY <1>1
<1>3. PICK j \in 1..((i + 1) - 1) : todo[j] = "blockchain"
  BY <1>2 DEF ChainFirstInLine
<1>4. j # 1
  <2>1. todo[1] = Head(todo) BY <1>1
  <2> QED BY <1>3, <2>1
<1>5. j - 1 \in 1..(i - 1) /\ todo'[j - 1] = "blockchain" BY <1>1, <1>3, <1>4
<1> QED BY <1>5

LEMMA SaveSafe ==
  ASSUME Safe, Save
  PROVE  Safe'
<1> DEFINE key == Head(todo)
<1>1. /\ key \in Keys /\ key = todo[1] /\ 1 \in DOMAIN todo
      /\ DOMAIN disk' = Keys
      /\ disk'[key] = InMemory(key)
      /\ \A k \in Keys \ {key} : disk'[k] = disk[k]
      /\ unsaved' = unsaved \ {key}
  BY SaveEffect
<1>2. UNCHANGED <<NonceTable, Mempool, Blockchain, cmd, pc, batch, lost>>
  BY DEF Save, memory
<1>3. todo \in Seq(Keys) /\ todo # << >> /\ todo' = Tail(todo)
  BY DEF Save, Safe, Types
<1>4. cmd # "none" BY <1>3 DEF Safe, AtRest
<1> HIDE DEF key
<1>5. /\ "blockchain" \in Keys /\ "nonce_table" \in Keys /\ "mempool" \in Keys
  BY DEF Keys
<1>6. disk'.blockchain = IF key = "blockchain" THEN Blockchain ELSE disk.blockchain
  BY <1>1, <1>5 DEF InMemory
<1>7. disk'.nonce_table = IF key = "nonce_table" THEN NonceTable ELSE disk.nonce_table
  BY <1>1, <1>5 DEF InMemory
<1>8. disk'.mempool = IF key = "mempool" THEN Mempool ELSE disk.mempool
  BY <1>1, <1>5 DEF InMemory
<1>9. Types'
  <2>1. todo' \in Seq(Keys) BY <1>3
  <2> QED BY <1>1, <1>2, <1>6, <1>7, <1>8, <2>1 DEF Safe, Types
<1>10. AtRest' BY <1>2, <1>4 DEF AtRest
<1>11. Knows'
  <2>1. Extends(Blockchain, Blockchain) BY DEF Extends
  <2>2. \A s \in Accounts : NonceTable[s] <= NonceTable[s] BY DEF Safe, Types
  <2> QED BY <1>2, <1>4, <1>6, <1>7, <2>1, <2>2 DEF Safe, Knows, Extends
<1>12. ChainFirstInLine'
  <2>1. ChainWritten => ChainWritten' BY <1>1, <1>2, <1>6 DEF ChainWritten
  <2>2. Head(todo) = "blockchain" => ChainWritten'
    BY <1>2, <1>6 DEF ChainWritten, key
  <2> QED BY <1>3, <2>1, <2>2, TailInLine DEF Safe
<1>13. Covered'
  <2> SUFFICES ASSUME ~lost, "blockchain" \notin unsaved'
               PROVE  Recorded(disk.blockchain, disk.nonce_table)'
    BY <1>2, <1>4 DEF Safe, Covered, Recorded, Executions
  <2>1. Recorded(Blockchain, NonceTable) BY <1>4 DEF Safe, Covered
  <2>2. CASE key = "blockchain"
    <3>1. Recorded(Blockchain, disk.nonce_table)
      BY <1>4, <2>1, RecordedBelow DEF Safe, Knows, Types
    <3>2. disk'.blockchain = Blockchain /\ disk'.nonce_table = disk.nonce_table
      BY <1>6, <1>7, <2>2
    <3> QED BY <3>1, <3>2 DEF Recorded, Executions
  <2>3. CASE key = "nonce_table"
    <3>1. ChainWritten
      <4>1. todo[1] = "nonce_table" BY <1>1, <2>3
      <4>2. ~\E j \in 1..(1 - 1) : todo[j] = "blockchain" OBVIOUS
      <4> QED BY <1>1, <4>1, <4>2 DEF Safe, ChainFirstInLine
    <3>2. "blockchain" \notin unsaved BY <1>1, <2>3
    <3>3. disk'.blockchain = Blockchain /\ disk'.nonce_table = NonceTable
      BY <1>6, <1>7, <2>3, <3>1, <3>2 DEF ChainWritten
    <3> QED BY <2>1, <3>3 DEF Recorded, Executions
  <2>4. CASE key \notin {"blockchain", "nonce_table"}
    <3>1. "blockchain" \notin unsaved BY <1>1, <2>4
    <3>2. Recorded(disk.blockchain, disk.nonce_table) BY <3>1 DEF Safe, Covered
    <3>3. disk'.blockchain = disk.blockchain /\ disk'.nonce_table = disk.nonce_table
      BY <1>6, <1>7, <2>4
    <3> QED BY <3>2, <3>3 DEF Recorded, Executions
  <2> QED BY <2>2, <2>3, <2>4
<1> QED BY <1>9, <1>10, <1>11, <1>12, <1>13 DEF Safe

LEMMA SaveFailsSafe ==
  ASSUME Safe, SaveFails
  PROVE  Safe'
<1>1. UNCHANGED <<NonceTable, Mempool, Blockchain, disk, cmd, pc, batch, lost>>
  BY DEF SaveFails, memory
<1>2. /\ todo \in Seq(Keys) /\ todo # << >> /\ todo' = Tail(todo)
      /\ unsaved' = unsaved \cup {Head(todo)}
  BY DEF SaveFails, Safe, Types
<1>3. cmd # "none" BY <1>2 DEF Safe, AtRest
<1>4. Types'
  <2>1. todo' \in Seq(Keys) BY <1>2
  <2> QED BY <1>1, <2>1 DEF Safe, Types
<1>5. AtRest' BY <1>1, <1>3 DEF AtRest
<1>6. Knows' BY <1>1 DEF Safe, Knows, Extends
<1>7. ChainFirstInLine'
  <2>1. ChainWritten => ChainWritten' BY <1>1, <1>2 DEF ChainWritten
  <2>2. Head(todo) = "blockchain" => ChainWritten' BY <1>2 DEF ChainWritten
  <2> QED BY <1>2, <2>1, <2>2, TailInLine DEF Safe
<1>8. Covered' BY <1>1, <1>2 DEF Safe, Covered, Recorded, Executions
<1> QED BY <1>4, <1>5, <1>6, <1>7, <1>8 DEF Safe

-----------------------------------------------------------------------------
(* The other steps *)

LEMMA LaunchSafe ==
  ASSUME Safe, NEW c \in Commands, Launch(c)
  PROVE  Safe'
<1>1. /\ NonceTable' = disk.nonce_table /\ Mempool' = disk.mempool
      /\ Blockchain' = disk.blockchain
      /\ todo' = << >> /\ batch' = {} /\ cmd' = c /\ UNCHANGED <<disk, unsaved, lost>>
      /\ cmd = "none"
  BY DEF Launch, LoadAllData, failures
<1>2. c # "none" BY NodeAssumption DEF AllCommands
<1>3. unsaved = {} BY <1>1 DEF Safe, AtRest
<1>4. Types' BY <1>1 DEF Safe, Types
<1>5. AtRest' BY <1>1, <1>2 DEF AtRest
<1>6. Knows'
  <2>1. \A s \in Accounts : disk.nonce_table[s] <= disk.nonce_table[s] BY DEF Safe, Types
  <2> QED BY <1>1, <2>1 DEF Knows, Extends
<1>7. ChainFirstInLine' BY <1>1 DEF ChainFirstInLine
<1>8. Covered' BY <1>1, <1>3 DEF Safe, Covered, Recorded, Executions
<1> QED BY <1>4, <1>5, <1>6, <1>7, <1>8 DEF Safe

LEMMA EndSafe ==
  ASSUME Safe, End
  PROVE  Safe'
<1>1. /\ NonceTable' = [a \in Accounts |-> 0] /\ Mempool' = << >> /\ Blockchain' = << >>
      /\ cmd' = "none" /\ pc' = "idle" /\ todo' = << >> /\ batch' = {} /\ unsaved' = {}
      /\ lost' = (lost \/ unsaved # {}) /\ UNCHANGED disk
  BY DEF End
<1>2. Types' BY <1>1 DEF Safe, Types, Blocks
<1>3. AtRest' /\ Knows' /\ ChainFirstInLine'
  BY <1>1 DEF AtRest, Knows, ChainFirstInLine
<1>4. Covered'
  <2>1. ~lost' => ~lost /\ unsaved = {} BY <1>1, Zenon
  <2>2. cmd' = "none" /\ disk' = disk BY <1>1
  <2> QED BY <2>1, <2>2 DEF Safe, Covered, Recorded, Executions
<1> QED BY <1>2, <1>3, <1>4 DEF Safe

LEMMA LinesOfKeys ==
  AllKeys \in Seq(Keys) /\ <<"balances">> \in Seq(Keys) /\ <<"blockchain">> \in Seq(Keys)
<1>1. \A a, b, c, d \in Keys : <<a, b, c, d>> \in Seq(Keys) OBVIOUS
<1>2. \A a \in Keys : <<a>> \in Seq(Keys) OBVIOUS
<1>3. /\ "balances" \in Keys /\ "blockchain" \in Keys
      /\ "mempool" \in Keys /\ "nonce_table" \in Keys
  BY DEF Keys
<1> QED BY <1>1, <1>2, <1>3 DEF AllKeys

\* A step that touches neither the chain, nor the nonces, nor the disk.
LEMMA QuietSafe ==
  ASSUME Safe, cmd # "none",
         UNCHANGED <<NonceTable, Blockchain, disk, cmd, unsaved, lost>>,
         Mempool' \in Seq(Tx), batch' \subseteq Tx,
         todo' \in {todo, AllKeys, <<"balances">>}
  PROVE  Safe'
<1>1. Types'
  <2>1. todo' \in Seq(Keys) BY LinesOfKeys DEF Safe, Types
  <2> QED BY <2>1 DEF Safe, Types
<1>2. AtRest' BY DEF AtRest
<1>3. Knows' BY DEF Safe, Knows, Extends
<1>4. ChainFirstInLine'
  <2>1. CASE todo' = todo BY <2>1 DEF Safe, ChainFirstInLine, ChainWritten
  <2>2. CASE todo' = AllKeys BY <2>2 DEF AllKeys, ChainFirstInLine
  <2>3. CASE todo' = <<"balances">> BY <2>3 DEF ChainFirstInLine
  <2> QED BY <2>1, <2>2, <2>3
<1>5. Covered' BY DEF Safe, Covered, Recorded, Executions
<1> QED BY <1>1, <1>2, <1>3, <1>4, <1>5 DEF Safe

\* A step that puts a block at the end of the chain, and whose nonces the chain covers.
LEMMA GrowthSafe ==
  ASSUME Safe, cmd # "none", UNCHANGED <<Mempool, disk, cmd, unsaved, lost>>,
         batch' \subseteq Tx, Blockchain' \in Blocks, Extends(Blockchain', Blockchain),
         NonceTable' \in [Accounts -> Nat],
         \A s \in Accounts : NonceTable[s] <= NonceTable'[s],
         Recorded(Blockchain, NonceTable) => Recorded(Blockchain', NonceTable'),
         todo' \in {AllKeys, <<"blockchain">>}
  PROVE  Safe'
<1>1. Types'
  <2>1. todo' \in Seq(Keys) BY LinesOfKeys DEF Safe, Types
  <2> QED BY <2>1 DEF Safe, Types
<1>2. AtRest' BY DEF AtRest
<1>3. Knows'
  <2>1. Extends(Blockchain, disk.blockchain) /\ Blockchain \in Blocks /\ disk.blockchain \in Blocks
    BY DEF Safe, Knows, Types
  <2>2. Extends(Blockchain', disk.blockchain) BY <2>1 DEF Extends, Blocks
  <2>3. \A s \in Accounts : disk.nonce_table[s] <= NonceTable'[s]
    BY DEF Safe, Knows, Types
  <2> QED BY <2>2, <2>3 DEF Knows, Extends
<1>4. ChainFirstInLine'
  <2>1. CASE todo' = AllKeys BY <2>1 DEF AllKeys, ChainFirstInLine
  <2>2. CASE todo' = <<"blockchain">> BY <2>2 DEF ChainFirstInLine
  <2> QED BY <2>1, <2>2
<1>5. Covered' BY DEF Safe, Covered, Recorded, Executions
<1> QED BY <1>1, <1>2, <1>3, <1>4, <1>5 DEF Safe

LEMMA GenesisSafe ==
  ASSUME Safe, InitLedger
  PROVE  Safe'
<1>1. cmd # "none" /\ UNCHANGED <<NonceTable, Mempool, disk, cmd, batch, unsaved, lost>>
  BY DEF InitLedger, history, grants, failures
<1>2. CASE Blockchain = << >> /\ Blockchain' = <<Genesis>> /\ todo' = <<"blockchain">>
  <2>1. Blockchain' \in Blocks BY <1>2 DEF Blocks, Genesis
  <2>2. Extends(Blockchain', Blockchain) BY <1>2 DEF Extends
  <2>3. Recorded(Blockchain, NonceTable) => Recorded(Blockchain', NonceTable')
    BY <1>1, <2>1, <2>2, RecordedExtends DEF Safe, Types
  <2>4. \A s \in Accounts : NonceTable[s] <= NonceTable'[s] BY <1>1 DEF Safe, Types
  <2> QED BY <1>1, <1>2, <2>1, <2>2, <2>3, <2>4, GrowthSafe DEF Safe, Types
<1>3. CASE UNCHANGED <<Blockchain, todo>>
  BY <1>1, <1>3, QuietSafe DEF Safe, Types
<1> QED BY <1>2, <1>3 DEF InitLedger

LEMMA AddBlockSafe ==
  ASSUME Safe, AddBlock
  PROVE  Safe'
<1>1. PICK B \in Batches :
        LET b == {Mempool[i] : i \in B}
        IN  /\ batch' = b
            /\ NonceTable' =
                 [a \in Accounts |-> NonceTable[a] + Cardinality(SentBy(a, b))]
            /\ Blockchain' =
                 (IF Blockchain = << >> THEN <<Genesis>> ELSE Blockchain) \o <<b>>
  BY DEF AddBlock
<1>2. cmd # "none" /\ UNCHANGED <<Mempool, disk, cmd, unsaved, lost>> /\ todo' = AllKeys
  BY DEF AddBlock, Committing, failures
<1> DEFINE b == {Mempool[i] : i \in B}
           base == IF Blockchain = << >> THEN <<Genesis>> ELSE Blockchain
           sent_(s) == Cardinality(SentBy(s, b))
<1>3. Mempool \in Seq(Tx) /\ Blockchain \in Blocks /\ NonceTable \in [Accounts -> Nat]
  BY DEF Safe, Types
<1>4. ASSUME NEW s \in Accounts
      PROVE  /\ sent_(s) \in Nat
             /\ \A n \in (NonceTable[s] + 1)..(NonceTable[s] + sent_(s)) :
                  \E tx \in b : tx.from = s /\ tx.nonce = n
  <2>1. Executes(b, s) BY <1>3, BatchFacts
  <2> HIDE DEF b
  <2> QED BY <1>3, <2>1 DEF Executes
<1>5. b \subseteq Tx
  <2>1. B \subseteq DOMAIN Mempool BY DEF Batches
  <2> QED BY <1>3, <2>1, ElementOfSeq
<1>6. base \in Blocks
  <2>1. Genesis \in SUBSET Tx BY DEF Genesis
  <2>2. <<Genesis>> \in Blocks BY <2>1 DEF Blocks
  <2> QED BY <1>3, <2>2
<1>7. NonceTable' = [a \in Accounts |-> NonceTable[a] + sent_(a)]
      /\ Blockchain' = base \o <<b>> /\ batch' = b
  BY <1>1
<1> HIDE DEF b, sent_
<1>8. /\ Blockchain' \in Blocks
      /\ Len(base) \in Nat /\ Len(Blockchain') = Len(base) + 1
      /\ \A i \in 1..Len(base) : Blockchain'[i] = base[i]
      /\ Blockchain'[Len(base) + 1] = b
  <2> HIDE DEF base
  <2> QED BY <1>5, <1>6, <1>7 DEF Blocks
<1>9. Extends(Blockchain', Blockchain) BY <1>3, <1>8 DEF Extends, Blocks
<1>10. /\ NonceTable' \in [Accounts -> Nat]
       /\ \A s \in Accounts : NonceTable[s] <= NonceTable'[s]
  BY <1>3, <1>4, <1>7
<1>11. ASSUME Recorded(Blockchain, NonceTable)
       PROVE  Recorded(Blockchain', NonceTable')
  <2> SUFFICES ASSUME NEW s \in Accounts, NEW n \in 1..NonceTable'[s]
               PROVE  Executions(Blockchain', s, n) # {}
    BY DEF Recorded
  <2>1. NonceTable[s] \in Nat /\ sent_(s) \in Nat /\ NonceTable'[s] = NonceTable[s] + sent_(s)
    BY <1>3, <1>4, <1>7
  <2>2. CASE n <= NonceTable[s]
    <3>1. Recorded(Blockchain', NonceTable)
      BY <1>3, <1>8, <1>9, <1>11, RecordedExtends
    <3> QED BY <2>1, <2>2, <3>1 DEF Recorded
  <2>3. CASE n > NonceTable[s]
    <3>1. n \in (NonceTable[s] + 1)..(NonceTable[s] + sent_(s)) BY <2>1, <2>3
    <3>2. \E tx \in b : tx.from = s /\ tx.nonce = n BY <1>4, <3>1
    <3>3. Len(base) + 1 \in DOMAIN Blockchain' BY <1>8 DEF Blocks
    <3> QED BY <1>8, <3>2, <3>3 DEF Executions
  <2> QED BY <2>1, <2>2, <2>3
<1> QED BY <1>2, <1>5, <1>7, <1>8, <1>9, <1>10, <1>11, GrowthSafe

\* The filter of RemoveCommittedFromMempool.
LEMMA KeptType ==
  ASSUME NEW m \in Seq(Tx), NEW keep \in SUBSET (DOMAIN m), NEW f \in KeepOrder(keep)
  PROVE  [i \in 1..Cardinality(keep) |-> m[f[i]]] \in Seq(Tx)
<1>1. DOMAIN m = 1..Len(m) /\ Len(m) \in Nat OBVIOUS
<1>2. IsFiniteSet(1..Len(m)) BY <1>1, FS_Interval
<1>3. IsFiniteSet(keep) BY <1>1, <1>2, FS_Subset
<1>4. Cardinality(keep) \in Nat BY <1>3, FS_CardinalityType
<1>5. \A i \in 1..Cardinality(keep) : f[i] \in keep BY DEF KeepOrder, Injection
<1>6. \A i \in 1..Cardinality(keep) : m[f[i]] \in Tx BY <1>1, <1>5, ElementOfSeq
<1> QED BY <1>4, <1>6, SeqDef

LEMMA RemoveSafe ==
  ASSUME Safe, RemoveCommittedFromMempool
  PROVE  Safe'
<1>1. /\ pc = "adding" /\ batch' = {} /\ AfterCommit
      /\ UNCHANGED <<NonceTable, Blockchain, disk, cmd, unsaved, lost>>
  BY DEF RemoveCommittedFromMempool, history, grants, failures
<1>2. cmd # "none" BY <1>1 DEF Safe, AtRest
<1>3. todo' \in {todo, AllKeys} BY <1>1 DEF AfterCommit
<1> DEFINE keep == {i \in DOMAIN Mempool : Mempool[i] \notin batch}
<1>4. PICK f \in KeepOrder(keep) : Mempool' = [i \in 1..Cardinality(keep) |-> Mempool[f[i]]]
  BY DEF RemoveCommittedFromMempool
<1>5. Mempool' \in Seq(Tx)
  <2>1. Mempool \in Seq(Tx) /\ keep \in SUBSET (DOMAIN Mempool) BY DEF Safe, Types
  <2> HIDE DEF keep
  <2> QED BY <1>4, <2>1, KeptType
<1> QED BY <1>1, <1>2, <1>3, <1>5, QuietSafe

LEMMA SubmitSafe ==
  ASSUME Safe, NEW from \in Accounts, NEW to \in Accounts, Submit(from, to)
  PROVE  Safe'
<1>1. /\ cmd # "none"
      /\ UNCHANGED <<NonceTable, Blockchain, disk, cmd, todo, batch, unsaved, lost>>
  BY DEF Submit, control, history, grants, failures
<1>2. Mempool' \in Seq(Tx)
  <2> DEFINE tx == [from |-> from, to |-> to, nonce |-> GetNextNonce(from)]
  <2>1. Mempool \in Seq(Tx) /\ NonceTable[from] \in Nat BY DEF Safe, Types
  <2>2. tx \in Tx BY <2>1 DEF Tx, GetNextNonce
  <2>3. Mempool' = Append(Mempool, tx) BY DEF Submit
  <2> QED BY <2>1, <2>2, <2>3
<1> QED BY <1>1, <1>2, QuietSafe DEF Safe, Types

\* An airdrop and a slash change the same things.
Gives == (\E folder \in SUBSET Accounts : Airdrop(folder)) \/ Slash

LEMMA GiftIsGrant ==
  ASSUME Gives
  PROVE  cmd \in {"airdrop", "slash"} /\ \E more \in [Accounts -> Int] : Grant(more)
<1>1. ASSUME NEW folder \in SUBSET Accounts, Airdrop(folder)
      PROVE  cmd = "airdrop" /\ \E more \in [Accounts -> Int] : Grant(more)
  <2>1. PICK amount \in Airdrops :
          Grant([a \in Accounts |-> IF a \in folder THEN amount ELSE 0])
    BY <1>1 DEF Airdrop
  <2>2. amount \in Int BY NodeAssumption
  <2>3. [a \in Accounts |-> IF a \in folder THEN amount ELSE 0] \in [Accounts -> Int]
    BY <2>2
  <2> QED BY <1>1, <2>1, <2>3 DEF Airdrop
<1>2. ASSUME Slash
      PROVE  cmd = "slash" /\ \E more \in [Accounts -> Int] : Grant(more)
  <2>1. PICK more \in [Accounts -> Shares] : Grant(more) BY <1>2 DEF Slash
  <2>2. Shares \subseteq Int BY NodeAssumption
  <2>3. more \in [Accounts -> Int] BY <2>2
  <2> QED BY <1>2, <2>1, <2>3 DEF Slash
<1> QED BY <1>1, <1>2 DEF Gives

LEMMA OtherSafe ==
  ASSUME Safe, FinishSave \/ SkipCommit \/ Gives
  PROVE  Safe'
<1>1. CASE FinishSave \/ SkipCommit
  <2>1. UNCHANGED <<NonceTable, Mempool, Blockchain, disk, cmd, batch, unsaved, lost>>
    BY <1>1 DEF FinishSave, SkipCommit, memory, history, grants, failures
  <2>2. cmd # "none" BY <1>1 DEF FinishSave, SkipCommit, Committing, Safe, AtRest
  <2>3. todo' \in {todo, AllKeys} BY <1>1 DEF FinishSave, SkipCommit, AfterCommit
  <2> QED BY <2>1, <2>2, <2>3, QuietSafe DEF Safe, Types
<1>2. CASE Gives
  <2>1. PICK more \in [Accounts -> Int] : Grant(more) BY <1>2, GiftIsGrant
  <2>2. cmd # "none" BY <1>2, GiftIsGrant
  <2>3. UNCHANGED <<NonceTable, Mempool, Blockchain, disk, cmd, batch, unsaved, lost>>
        /\ todo' = <<"balances">>
    BY <2>1 DEF Grant, failures
  <2> QED BY <2>2, <2>3, QuietSafe DEF Safe, Types
<1> QED BY <1>1, <1>2

LEMMA StepSafe == Safe /\ [Next]_vars => Safe'
<1> SUFFICES ASSUME Safe, [Next]_vars PROVE Safe' OBVIOUS
<1>1. CASE UNCHANGED vars
  BY <1>1 DEF vars, memory, control, history, grants, failures, Safe, Types, AtRest, Knows,
     Extends, ChainFirstInLine, ChainWritten, Covered, Recorded, Executions
<1>2. ASSUME NEW c \in Commands, Launch(c) PROVE Safe' BY <1>2, LaunchSafe
<1>3. CASE Return \/ Die BY <1>3, EndSafe DEF Return, Die
<1>4. CASE Run
  BY <1>4, SaveSafe, SaveFailsSafe, OtherSafe, GenesisSafe, AddBlockSafe, RemoveSafe DEF Run
<1>5. ASSUME NEW from \in Accounts, NEW to \in Accounts, Submit(from, to) PROVE Safe'
  BY <1>5, SubmitSafe
<1>6. CASE Gives BY <1>6, OtherSafe
<1> QED BY <1>1, <1>2, <1>3, <1>4, <1>5, <1>6 DEF Next, Gives

LEMMA AlwaysSafe == Spec => []Safe
BY InitSafe, StepSafe, PTL DEF Spec

-----------------------------------------------------------------------------
\* UsedNoncesAreRecorded for any accounts, commands and bounds: SaveAllData may be cut off
\* after any key.
THEOREM NoncesAreRecorded == Spec => []UsedNoncesAreRecorded
<1>1. Safe => UsedNoncesAreRecorded BY DEF Safe, Covered, Recorded, UsedNoncesAreRecorded
<1> QED BY <1>1, AlwaysSafe, PTL

LEMMA DiskSteps ==
  ASSUME [Next]_vars
  PROVE  Save \/ UNCHANGED disk
BY DEF Next, vars, Launch, Return, Die, End, Run, SaveFails, FinishSave, InitLedger,
   AddBlock, SkipCommit, RemoveCommittedFromMempool, Submit, Airdrop, Slash, Grant

\* SavedChainGrows for any accounts, commands and bounds: no death of a process and no
\* failing Put of SaveAllData loses or replaces a saved block.
THEOREM ChainGrows == Spec => SavedChainGrows
<1> DEFINE Grows == \A b \in DOMAIN disk.blockchain :
             b \in DOMAIN disk'.blockchain /\ disk'.blockchain[b] = disk.blockchain[b]
<1>1. Safe /\ [Next]_vars => [Grows]_vars
  <2> SUFFICES ASSUME Safe, Next, NEW b \in DOMAIN disk.blockchain
               PROVE  b \in DOMAIN disk'.blockchain /\ disk'.blockchain[b] = disk.blockchain[b]
    OBVIOUS
  <2>1. CASE Save
    <3>1. disk'.blockchain \in {disk.blockchain, Blockchain}
      BY <2>1, SaveEffect DEF Keys, InMemory
    <3>2. cmd # "none" BY <2>1 DEF Save, Safe, AtRest
    <3>3. Extends(Blockchain, disk.blockchain) /\ Blockchain \in Blocks /\ disk.blockchain \in Blocks
      BY <3>2 DEF Safe, Knows, Types
    <3> QED BY <3>1, <3>3 DEF Extends, Blocks
  <2>2. CASE UNCHANGED disk BY <2>2
  <2> QED BY <2>1, <2>2, DiskSteps
<1> HIDE DEF Grows
<1>2. Spec => [][Grows]_vars BY <1>1, AlwaysSafe, PTL DEF Spec
<1> QED BY <1>2 DEF SavedChainGrows, Grows

-----------------------------------------------------------------------------
(* Types *)

LEMMA FiniteBatch ==
  ASSUME Mempool \in Seq(Tx), NEW B \in Batches
  PROVE  {Mempool[i] : i \in B} \in SUBSET Tx /\ IsFiniteSet({Mempool[i] : i \in B})
<1>1. B \in SUBSET (1..Len(Mempool)) /\ Len(Mempool) \in Nat BY DEF Batches
<1>2. IsFiniteSet(1..Len(Mempool)) BY <1>1, FS_Interval
<1>3. IsFiniteSet(B) BY <1>1, <1>2, FS_Subset
<1> DEFINE g == [i \in B |-> Mempool[i]]  b == {Mempool[i] : i \in B}
<1>4. g \in Surjection(B, b) BY DEF Surjection
<1>5. b \in SUBSET Tx BY <1>1, ElementOfSeq
<1> HIDE DEF g, b
<1>6. IsFiniteSet(b) BY <1>3, <1>4, FS_Surjection
<1> QED BY <1>5, <1>6 DEF b

LEMMA BatchCounts ==
  ASSUME NEW b, IsFiniteSet(b), NEW a
  PROVE  /\ Cardinality(b) \in Nat
         /\ Cardinality(SentBy(a, b)) \in Nat /\ Cardinality(SentTo(a, b)) \in Nat
<1>1. SentBy(a, b) \in SUBSET b /\ SentTo(a, b) \in SUBSET b BY DEF SentBy, SentTo
<1>2. IsFiniteSet(SentBy(a, b)) /\ IsFiniteSet(SentTo(a, b)) BY <1>1, FS_Subset
<1> QED BY <1>2, FS_CardinalityType

\* The rest of TypeOK.
Kinds ==
  /\ Balances \in [Accounts -> Int] /\ disk.balances \in [Accounts -> Int]
  /\ disk = [k \in Keys |-> disk[k]]
  /\ cmd \in Commands \cup {"none"}
  /\ pc \in {"idle", "adding", "saving", "done"}
  /\ runs \in Nat /\ added \in Nat /\ cuts \in Nat /\ fails \in Nat
  /\ grant \in Int /\ granted \in Int
  /\ unsaved \subseteq Keys /\ lost \in BOOLEAN
  /\ sent \in SUBSET Tx /\ producerRan \in BOOLEAN

LEMMA InitKinds == Init => Kinds
<1> SUFFICES ASSUME Init PROVE Kinds OBVIOUS
<1>1. Balances \in [Accounts -> Int] /\ disk.balances = Balances
  BY NodeAssumption DEF Init
<1>2. disk = [k \in Keys |-> disk[k]] BY DEF Init, Keys
<1>3. sent = {} /\ unsaved = {} /\ lost = FALSE /\ producerRan = FALSE BY DEF Init
<1>4. cmd = "none" /\ pc = "idle" BY DEF Init
<1>5. /\ runs \in Nat /\ added \in Nat /\ cuts \in Nat /\ fails \in Nat
      /\ grant \in Int /\ granted \in Int
  BY DEF Init
<1>6. disk.balances \in [Accounts -> Int] BY <1>1
<1>7. /\ sent \in SUBSET Tx /\ unsaved \subseteq Keys /\ lost \in BOOLEAN
      /\ producerRan \in BOOLEAN
  BY <1>3
<1> QED BY <1>1, <1>2, <1>4, <1>5, <1>6, <1>7 DEF Kinds

LEMMA SaveKinds ==
  ASSUME Safe, Kinds, Save
  PROVE  Kinds'
<1> DEFINE key == Head(todo)
<1>1. /\ key \in Keys /\ disk'[key] = InMemory(key) /\ DOMAIN disk' = Keys
      /\ \A k \in Keys \ {key} : disk'[k] = disk[k]
      /\ unsaved' = unsaved \ {key}
  BY SaveEffect
<1>2. disk' = [disk EXCEPT ![key] = InMemory(key)] BY DEF Save
<1> HIDE DEF key
<1>3. disk'.balances \in {disk.balances, Balances}
  BY <1>1 DEF InMemory, Keys
<1>4. disk' = [k \in Keys |-> disk'[k]] BY <1>1, <1>2 DEF Kinds
<1>5. grant' \in Int /\ granted' \in Int BY DEF Save, grants, Kinds
<1>6. UNCHANGED <<Balances, cmd, pc, runs, added, cuts, fails, lost, sent, producerRan>>
  BY DEF Save, memory
<1> QED BY <1>1, <1>3, <1>4, <1>5, <1>6 DEF Kinds

LEMMA SaveFailsKinds ==
  ASSUME Safe, Kinds, SaveFails
  PROVE  Kinds'
<1>1. Head(todo) \in Keys BY DEF SaveFails, Safe, Types
<1>2. /\ unsaved' = unsaved \cup {Head(todo)} /\ fails' = fails + 1
      /\ UNCHANGED <<Balances, disk, cmd, pc, runs, added, cuts, grant, granted, lost, sent,
                     producerRan>>
  BY DEF SaveFails, memory, grants
<1> QED BY <1>1, <1>2 DEF Kinds

LEMMA LaunchKinds ==
  ASSUME Kinds, NEW c \in Commands, Launch(c)
  PROVE  Kinds'
BY DEF Launch, LoadAllData, grants, failures, Kinds

LEMMA EndKinds ==
  ASSUME Kinds, End
  PROVE  Kinds'
<1>1. cuts' \in Nat BY DEF End, Kinds
<1>2. lost' \in BOOLEAN /\ unsaved' = {} /\ grant' = 0 BY DEF End
<1>3. /\ Balances' = InitBalances /\ cmd' = "none" /\ pc' = "idle"
      /\ UNCHANGED <<disk, runs, fails, granted, added, sent, producerRan>>
  BY DEF End
<1> QED BY <1>1, <1>2, <1>3, NodeAssumption DEF Kinds

LEMMA SubmitKinds ==
  ASSUME Safe, Kinds, NEW from \in Accounts, NEW to \in Accounts, Submit(from, to)
  PROVE  Kinds'
<1> DEFINE tx == [from |-> from, to |-> to, nonce |-> GetNextNonce(from)]
<1>1. NonceTable[from] \in Nat BY DEF Safe, Types
<1>2. tx \in Tx BY <1>1 DEF Tx, GetNextNonce
<1>3. sent' \in {sent, sent \cup {tx}} /\ added' = added + 1 BY DEF Submit
<1> HIDE DEF tx
<1>4. UNCHANGED <<Balances, disk, control, history>> BY DEF Submit
<1> QED BY <1>2, <1>3, <1>4 DEF Kinds, control, history, grants, failures

LEMMA AddBlockKinds ==
  ASSUME Safe, Kinds, AddBlock
  PROVE  Kinds'
<1>1. PICK proposer \in Proposers, B \in Batches :
        LET b == {Mempool[i] : i \in B}
        IN  Balances' = [a \in Accounts |->
              Balances[a] - (Amount + Fee) * Cardinality(SentBy(a, b))
                + Amount * Cardinality(SentTo(a, b))
                + (IF a = proposer THEN Fee * Cardinality(b) + BlockReward ELSE 0)]
  BY DEF AddBlock
<1> DEFINE b == {Mempool[i] : i \in B}
           by(a) == Cardinality(SentBy(a, b))
           to(a) == Cardinality(SentTo(a, b))
           size == Cardinality(b)
           reward(a) == IF a = proposer THEN Fee * size + BlockReward ELSE 0
<1>2. IsFiniteSet(b) BY FiniteBatch DEF Safe, Types
<1>3. ASSUME NEW a \in Accounts
      PROVE  by(a) \in Int /\ to(a) \in Int /\ size \in Int
  <2> HIDE DEF b
  <2> QED BY <1>2, BatchCounts
<1>4. Balances' = [a \in Accounts |->
                    Balances[a] - (Amount + Fee) * by(a) + Amount * to(a) + reward(a)]
  BY <1>1
<1> HIDE DEF by, to, size
<1>5. Amount \in Int /\ Fee \in Int /\ Amount + Fee \in Int /\ BlockReward \in Int
  BY NodeAssumption
<1>6. ASSUME NEW a \in Accounts
      PROVE  Balances[a] - (Amount + Fee) * by(a) + Amount * to(a) + reward(a) \in Int
  <2>1. (Amount + Fee) * by(a) \in Int /\ Amount * to(a) \in Int /\ Fee * size \in Int
    BY <1>3, <1>5, ProductType
  <2>2. reward(a) \in Int BY <1>5, <2>1
  <2>3. Balances[a] \in Int BY DEF Kinds
  <2> HIDE DEF reward
  <2> QED BY <2>1, <2>2, <2>3
<1>7. Balances' \in [Accounts -> Int]
  <2> HIDE DEF reward
  <2> QED BY <1>4, <1>6
<1>8. pc' = "adding" /\ producerRan' \in BOOLEAN BY DEF AddBlock, Kinds
<1>9. UNCHANGED <<disk, cmd, runs, cuts, fails, unsaved, lost, grant, granted, added, sent>>
  BY DEF AddBlock, failures, grants
<1> QED BY <1>7, <1>8, <1>9 DEF Kinds

LEMMA GrantKinds ==
  ASSUME Kinds, NEW more \in [Accounts -> Int], Grant(more)
  PROVE  Kinds'
<1>1. /\ Balances' = [a \in Accounts |-> Balances[a] + more[a]] /\ pc' = "saving"
      /\ grant' = grant + SumFunction(more)
      /\ UNCHANGED <<disk, cmd, runs, cuts, fails, unsaved, lost, granted, added, sent,
                     producerRan>>
  BY DEF Grant, failures
<1>2. Balances' \in [Accounts -> Int] BY <1>1 DEF Kinds
<1>3. grant' \in Int
  <2>1. SumFunction(more) \in Int BY SumType, NodeAssumption
  <2> QED BY <1>1, <2>1 DEF Kinds
<1> QED BY <1>1, <1>2, <1>3 DEF Kinds

LEMMA OtherKinds ==
  ASSUME Kinds, FinishSave \/ InitLedger \/ SkipCommit \/ RemoveCommittedFromMempool
  PROVE  Kinds'
<1>1. pc' \in {"idle", "saving", "done"}
  BY DEF FinishSave, InitLedger, SkipCommit, RemoveCommittedFromMempool, AfterCommit
<1>2. UNCHANGED <<Balances, disk, cmd, runs, cuts, fails, unsaved, lost, grant, granted,
                  added, sent, producerRan>>
  BY DEF FinishSave, InitLedger, SkipCommit, RemoveCommittedFromMempool, memory, history,
     grants, failures
<1> QED BY <1>1, <1>2 DEF Kinds

LEMMA StepKinds == Safe /\ Kinds /\ [Next]_vars => Kinds'
<1> SUFFICES ASSUME Safe, Kinds, [Next]_vars PROVE Kinds' OBVIOUS
<1>1. CASE UNCHANGED vars
  BY <1>1 DEF vars, memory, control, history, grants, failures, Kinds
<1>2. ASSUME NEW c \in Commands, Launch(c) PROVE Kinds' BY <1>2, LaunchKinds
<1>3. CASE Return \/ Die BY <1>3, EndKinds DEF Return, Die
<1>4. CASE Run BY <1>4, SaveKinds, SaveFailsKinds, AddBlockKinds, OtherKinds DEF Run
<1>5. ASSUME NEW from \in Accounts, NEW to \in Accounts, Submit(from, to) PROVE Kinds'
  BY <1>5, SubmitKinds
<1>6. CASE Gives BY <1>6, GiftIsGrant, GrantKinds
<1> QED BY <1>1, <1>2, <1>3, <1>4, <1>5, <1>6 DEF Next, Gives

\* Types, for any accounts, amounts, commands and bounds: memory and the keys of leveldb
\* hold what LoadAllData and SaveAllData take them for, whatever is cut off or not written.
THEOREM TypeCorrect == Spec => []TypeOK
<1>1. Safe /\ Kinds => TypeOK
  <2> SUFFICES ASSUME Safe, Kinds PROVE TypeOK OBVIOUS
  <2>1. disk \in [balances: [Accounts -> Int], blockchain: Blocks,
                  mempool: Seq(Tx), nonce_table: [Accounts -> Nat]]
    BY DEF Safe, Types, Kinds, Keys
  <2>2. DOMAIN disk = Keys BY DEF Safe, Types
  <2> QED BY <2>1, <2>2 DEF Safe, Types, Kinds, TypeOK
<1> QED BY <1>1, AlwaysSafe, InitKinds, StepKinds, PTL DEF Spec

-----------------------------------------------------------------------------
(* The mempool *)

Disjoint(pool, chain) ==
  \A i \in DOMAIN pool, b \in DOMAIN chain : pool[i] \notin chain[b]

\* The table counts all that the chain executes.
Below(chain, table) ==
  \A b \in DOMAIN chain : \A tx \in chain[b] : tx.nonce <= table[tx.from]

InLine(k) == \E i \in DOMAIN todo : todo[i] = k

\* What the key will hold when the save is through.
Pool   == IF InLine("mempool") THEN Mempool ELSE disk.mempool
Chain  == IF InLine("blockchain") THEN Blockchain ELSE disk.blockchain
Nonces == IF InLine("nonce_table") THEN NonceTable ELSE disk.nonce_table

\* Every process has ended after it had saved, without an error.
Unharmed == cuts = 0 /\ fails = 0 /\ ~producerRan

\* In memory, a transaction that is executed and in the mempool is in the batch that
\* is being added.
MemoryClean ==
  cmd # "none" =>
    /\ Below(Blockchain, NonceTable)
    /\ \A i \in DOMAIN Mempool, b \in DOMAIN Blockchain :
         Mempool[i] \in Blockchain[b] => Mempool[i] \in batch

DiskClean == pc # "adding" => Disjoint(Pool, Chain) /\ Below(Chain, Nonces)

\* A round leaves nothing to be saved, and "start" is the producer that saves nothing.
Rounds ==
  /\ pc \in {"idle", "done"} => todo = << >>
  /\ pc # "adding" => batch = {}
  /\ pc = "adding" /\ cmd = "start" => producerRan
  /\ cmd = "none" => pc = "idle"

Clean == Rounds /\ (Unharmed => MemoryClean /\ DiskClean)

Good == Safe /\ Kinds /\ Clean

LEMMA InitClean == Init => Clean
<1> SUFFICES ASSUME Init PROVE Clean OBVIOUS
<1>1. todo = << >> /\ pc = "idle" /\ cmd = "none" /\ batch = {} BY DEF Init
<1>2. disk.mempool = << >> /\ disk.blockchain = << >> BY DEF Init
<1>3. Disjoint(Pool, Chain) /\ Below(Chain, Nonces)
  BY <1>1, <1>2 DEF Disjoint, Below, Pool, Chain, InLine
<1> QED BY <1>1, <1>3 DEF Clean, Rounds, MemoryClean, DiskClean

-----------------------------------------------------------------------------
(* Lines of keys *)

LEMMA NothingInLine ==
  ASSUME todo = << >>
  PROVE  Pool = disk.mempool /\ Chain = disk.blockchain /\ Nonces = disk.nonce_table
BY DEF Pool, Chain, Nonces, InLine

\* The whole of SaveAllData is ahead.
LEMMA AllInLine ==
  ASSUME todo = AllKeys
  PROVE  Pool = Mempool /\ Chain = Blockchain /\ Nonces = NonceTable
<1>1. /\ 2 \in DOMAIN todo /\ todo[2] = "blockchain"
      /\ 3 \in DOMAIN todo /\ todo[3] = "mempool"
      /\ 4 \in DOMAIN todo /\ todo[4] = "nonce_table"
  BY DEF AllKeys
<1>2. InLine("mempool") /\ InLine("blockchain") /\ InLine("nonce_table")
  BY <1>1 DEF InLine
<1> QED BY <1>2 DEF Pool, Chain, Nonces

\* The head of the line leaves it.
LEMMA TailLine ==
  ASSUME todo \in Seq(Keys), todo # << >>, todo' = Tail(todo), NEW k
  PROVE  InLine(k) <=> InLine(k)' \/ k = Head(todo)
<1>1. /\ Len(todo) \in Nat /\ Len(todo) >= 1 /\ DOMAIN todo = 1..Len(todo)
      /\ DOMAIN todo' = 1..(Len(todo) - 1)
      /\ \A i \in 1..(Len(todo) - 1) : todo'[i] = todo[i + 1]
      /\ Head(todo) = todo[1]
  OBVIOUS
<1>2. ASSUME NEW i \in DOMAIN todo, todo[i] = k PROVE InLine(k)' \/ k = Head(todo)
  <2>1. CASE i = 1 BY <1>1, <1>2, <2>1
  <2>2. CASE i # 1
    <3>1. i - 1 \in DOMAIN todo' /\ todo'[i - 1] = todo[i] BY <1>1, <2>2
    <3> QED BY <1>2, <3>1 DEF InLine
  <2> QED BY <2>1, <2>2
<1>3. ASSUME NEW i \in DOMAIN todo', todo'[i] = k PROVE InLine(k)
  <2>1. i + 1 \in DOMAIN todo /\ todo[i + 1] = k BY <1>1, <1>3
  <2> QED BY <2>1 DEF InLine
<1>4. ASSUME k = Head(todo) PROVE InLine(k)
  BY <1>1, <1>4 DEF InLine
<1> QED BY <1>2, <1>3, <1>4 DEF InLine

\* A Put changes nothing about what the disk will hold.
LEMMA SaveKeepsPlan ==
  ASSUME Safe, Save
  PROVE  UNCHANGED <<Pool, Chain, Nonces>>
<1> DEFINE key == Head(todo)
<1>1. /\ key \in Keys /\ disk'[key] = InMemory(key)
      /\ \A k \in Keys \ {key} : disk'[k] = disk[k]
  BY SaveEffect
<1>2. todo \in Seq(Keys) /\ todo # << >> /\ todo' = Tail(todo)
      /\ UNCHANGED <<Mempool, Blockchain, NonceTable>>
  BY DEF Safe, Types, Save, memory
<1>3. \A k : InLine(k) <=> InLine(k)' \/ k = key BY <1>2, TailLine
<1> HIDE DEF key
<1>4. Pool' = Pool
  <2>1. CASE key = "mempool" BY <1>1, <1>2, <1>3, <2>1 DEF Pool, InMemory
  <2>2. CASE key # "mempool"
    <3>1. disk'.mempool = disk.mempool BY <1>1, <2>2 DEF Keys
    <3> QED BY <1>2, <1>3, <2>2, <3>1 DEF Pool
  <2> QED BY <2>1, <2>2
<1>5. Chain' = Chain
  <2>1. CASE key = "blockchain" BY <1>1, <1>2, <1>3, <2>1 DEF Chain, InMemory
  <2>2. CASE key # "blockchain"
    <3>1. disk'.blockchain = disk.blockchain BY <1>1, <2>2 DEF Keys
    <3> QED BY <1>2, <1>3, <2>2, <3>1 DEF Chain
  <2> QED BY <2>1, <2>2
<1>6. Nonces' = Nonces
  <2>1. CASE key = "nonce_table" BY <1>1, <1>2, <1>3, <2>1 DEF Nonces, InMemory
  <2>2. CASE key # "nonce_table"
    <3>1. disk'.nonce_table = disk.nonce_table BY <1>1, <2>2 DEF Keys
    <3> QED BY <1>2, <1>3, <2>2, <3>1 DEF Nonces
  <2> QED BY <2>1, <2>2
<1> QED BY <1>4, <1>5, <1>6

-----------------------------------------------------------------------------
(* Steps of a save, of processes, of the mempool *)

LEMMA SaveClean ==
  ASSUME Good, Save
  PROVE  Clean'
<1>1. UNCHANGED <<Balances, NonceTable, Mempool, Blockchain, cmd, pc, batch, cuts, fails,
                  producerRan>>
  BY DEF Save, memory
<1>2. todo # << >> /\ todo' = Tail(todo) BY DEF Save
<1>3. pc \notin {"idle", "done"} BY <1>2 DEF Good, Clean, Rounds
<1>4. Rounds' BY <1>1, <1>3 DEF Good, Clean, Rounds
<1>5. Unharmed' => Unharmed BY <1>1 DEF Unharmed
<1>6. MemoryClean => MemoryClean' BY <1>1 DEF MemoryClean, Below
<1>7. DiskClean => DiskClean'
  BY <1>1, SaveKeepsPlan DEF Good, DiskClean, Disjoint, Below
<1> QED BY <1>4, <1>5, <1>6, <1>7 DEF Good, Clean

LEMMA SaveFailsClean ==
  ASSUME Good, SaveFails
  PROVE  Clean'
<1>1. fails' = fails + 1 /\ todo # << >> /\ UNCHANGED <<cmd, pc, batch, producerRan>>
  BY DEF SaveFails
<1>2. Rounds' BY <1>1 DEF Good, Clean, Rounds
<1>3. ~Unharmed' BY <1>1 DEF Unharmed, Good, Kinds
<1> QED BY <1>2, <1>3 DEF Clean

LEMMA FinishSaveClean ==
  ASSUME Good, FinishSave
  PROVE  Clean'
<1>1. /\ pc = "saving" /\ todo = << >> /\ pc' \in {"idle", "done"}
      /\ UNCHANGED <<NonceTable, Mempool, Blockchain, disk, cmd, todo, batch, cuts, fails,
                     producerRan>>
  BY DEF FinishSave, Saved, memory, history, grants, failures
<1>2. cmd # "none" BY <1>1 DEF Good, Clean, Rounds
<1>3. Rounds' BY <1>1, <1>2 DEF Good, Clean, Rounds
<1>4. Unharmed' => Unharmed BY <1>1 DEF Unharmed
<1>5. MemoryClean => MemoryClean' BY <1>1 DEF MemoryClean, Below
<1>6. DiskClean => DiskClean'
  BY <1>1 DEF DiskClean, Disjoint, Below, Pool, Chain, Nonces, InLine
<1> QED BY <1>3, <1>4, <1>5, <1>6 DEF Good, Clean

LEMMA LaunchClean ==
  ASSUME Good, NEW c \in Commands, Launch(c)
  PROVE  Clean'
<1>1. /\ NonceTable' = disk.nonce_table /\ Mempool' = disk.mempool
      /\ Blockchain' = disk.blockchain
      /\ todo' = << >> /\ batch' = {} /\ cmd' = c /\ pc' = "idle"
      /\ UNCHANGED <<disk, cuts, fails, producerRan>> /\ cmd = "none"
  BY DEF Launch, LoadAllData, failures
<1>2. pc = "idle" /\ todo = << >> BY <1>1 DEF Good, Clean, Rounds
<1>3. Rounds' BY <1>1 DEF Rounds
<1>4. ASSUME Unharmed' PROVE MemoryClean' /\ DiskClean'
  <2>1. Unharmed BY <1>1, <1>4 DEF Unharmed
  <2>2. Disjoint(disk.mempool, disk.blockchain) /\ Below(disk.blockchain, disk.nonce_table)
    BY <1>2, <2>1, NothingInLine DEF Good, Clean, DiskClean
  <2>3. MemoryClean' BY <1>1, <2>2 DEF MemoryClean, Disjoint, Below
  <2>4. Pool' = disk.mempool /\ Chain' = disk.blockchain /\ Nonces' = disk.nonce_table
    BY <1>1 DEF Pool, Chain, Nonces, InLine
  <2> QED BY <2>2, <2>3, <2>4 DEF DiskClean, Disjoint, Below
<1> QED BY <1>3, <1>4 DEF Clean

\* The end of a process that is not at work leaves what it has saved; any other is a cut.
LEMMA EndClean ==
  ASSUME Good, End
  PROVE  Clean'
<1>1. /\ cmd' = "none" /\ pc' = "idle" /\ todo' = << >> /\ batch' = {}
      /\ cuts' = (IF Working THEN cuts + 1 ELSE cuts)
      /\ UNCHANGED <<disk, fails, producerRan>>
  BY DEF End
<1>2. Rounds' BY <1>1 DEF Rounds
<1>3. MemoryClean' BY <1>1 DEF MemoryClean
<1>4. ASSUME Unharmed' PROVE DiskClean'
  <2>1. ~Working /\ Unharmed BY <1>1, <1>4 DEF Unharmed, Good, Kinds
  <2>2. todo = << >> /\ pc # "adding" BY <2>1 DEF Working, Good, Kinds, Clean, Rounds
  <2>3. Disjoint(disk.mempool, disk.blockchain) /\ Below(disk.blockchain, disk.nonce_table)
    BY <2>1, <2>2, NothingInLine DEF Good, Clean, DiskClean
  <2>4. Pool' = disk.mempool /\ Chain' = disk.blockchain /\ Nonces' = disk.nonce_table
    BY <1>1 DEF Pool, Chain, Nonces, InLine
  <2> QED BY <2>3, <2>4 DEF DiskClean, Disjoint, Below
<1> QED BY <1>2, <1>3, <1>4 DEF Clean

\* Whatever the disk will hold of the chain is in memory too.
LEMMA PlannedChain ==
  ASSUME Safe, cmd # "none", NEW b \in DOMAIN Chain
  PROVE  b \in DOMAIN Blockchain /\ Chain[b] = Blockchain[b]
<1>1. Extends(Blockchain, disk.blockchain) /\ Blockchain \in Blocks /\ disk.blockchain \in Blocks
  BY DEF Safe, Knows, Types
<1> QED BY <1>1 DEF Chain, Extends, Blocks

\* A new transaction is ahead of all that is executed.
LEMMA SubmitClean ==
  ASSUME Good, NEW from \in Accounts, NEW to \in Accounts, Submit(from, to)
  PROVE  Clean'
<1> DEFINE tx == [from |-> from, to |-> to, nonce |-> GetNextNonce(from)]
<1>1. /\ Mempool' = Append(Mempool, tx) /\ cmd \in {"tx", "stress"}
      /\ UNCHANGED <<NonceTable, Blockchain, disk, cmd, pc, todo, batch, cuts, fails,
                     producerRan>>
  BY DEF Submit, control, history, grants, failures
<1>2. cmd # "none" BY <1>1
<1>3. Rounds' BY <1>1 DEF Good, Clean, Rounds
<1>4. NonceTable[from] \in Nat /\ Mempool \in Seq(Tx) BY DEF Good, Safe, Types
<1>5. tx \in Tx /\ tx.from = from /\ tx.nonce = NonceTable[from] + 1
  BY <1>4 DEF Tx, GetNextNonce
<1> HIDE DEF tx
<1>6. /\ DOMAIN Mempool' = DOMAIN Mempool \cup {Len(Mempool) + 1}
      /\ \A i \in DOMAIN Mempool : Mempool'[i] = Mempool[i]
      /\ Mempool'[Len(Mempool) + 1] = tx
  BY <1>1, <1>4, <1>5
<1>7. ASSUME Unharmed' PROVE MemoryClean' /\ DiskClean'
  <2>1. Unharmed BY <1>1, <1>7 DEF Unharmed
  <2>2. MemoryClean /\ DiskClean BY <2>1 DEF Good, Clean
  <2>3. \A b \in DOMAIN Blockchain : tx \notin Blockchain[b]
    BY <1>2, <1>4, <1>5, <2>2 DEF MemoryClean, Below
  <2>4. MemoryClean' BY <1>1, <1>2, <1>6, <2>2, <2>3 DEF MemoryClean, Below
  <2>5. Chain' = Chain /\ Nonces' = Nonces BY <1>1 DEF Chain, Nonces, InLine
  <2>6. \A b \in DOMAIN Chain : tx \notin Chain[b]
    BY <1>2, <2>3, PlannedChain DEF Good
  <2>7. \A i \in DOMAIN Pool' : Pool'[i] = tx \/ (i \in DOMAIN Pool /\ Pool'[i] = Pool[i])
    <3>1. InLine("mempool")' <=> InLine("mempool") BY <1>1 DEF InLine
    <3>2. CASE InLine("mempool")
      <4>1. Pool' = Mempool' /\ Pool = Mempool BY <3>1, <3>2 DEF Pool
      <4>2. \A i \in DOMAIN Mempool' :
              Mempool'[i] = tx \/ (i \in DOMAIN Mempool /\ Mempool'[i] = Mempool[i])
        BY <1>6
      <4> QED BY <4>1, <4>2
    <3>3. CASE ~InLine("mempool")
      <4>1. Pool' = Pool BY <1>1, <3>1, <3>3 DEF Pool
      <4> QED BY <4>1
    <3> QED BY <3>2, <3>3
  <2>8. DiskClean' BY <1>1, <2>2, <2>5, <2>6, <2>7 DEF DiskClean, Disjoint, Below
  <2> QED BY <2>4, <2>8
<1> QED BY <1>3, <1>7 DEF Clean

-----------------------------------------------------------------------------
(* Blocks *)

LEMMA GenesisIsEmpty ==
  \A b \in DOMAIN <<Genesis>> : <<Genesis>>[b] = {}
<1>1. DOMAIN <<Genesis>> = 1..1 OBVIOUS
<1>2. \A b \in 1..1 : b = 1 OBVIOUS
<1>3. <<Genesis>>[1] = {} BY DEF Genesis
<1> QED BY <1>1, <1>2, <1>3

\* A batch executes the whole run of every sender, and nothing beyond it.
LEMMA BatchIsCounted ==
  ASSUME Mempool \in Seq(Tx), NonceTable \in [Accounts -> Nat], NEW B \in Batches,
         NEW i \in B
  PROVE  LET b == {Mempool[j] : j \in B}
             s == Mempool[i].from
         IN  Mempool[i].nonce <= NonceTable[s] + Cardinality(SentBy(s, b))
<1> DEFINE b == {Mempool[j] : j \in B}
           s == Mempool[i].from
           mine == {j \in B : Mempool[j].from = s}
           nonces == {Mempool[j].nonce : j \in mine}
           run == RunLength(s)
           used == NonceTable[s]
<1>1. B \subseteq DOMAIN Mempool /\ DOMAIN Mempool = 1..Len(Mempool) /\ Len(Mempool) \in Nat
  BY DEF Batches
<1>2. s \in Accounts /\ used \in Nat
  <2>1. Mempool[i] \in Tx BY <1>1, ElementOfSeq
  <2> QED BY <2>1 DEF Tx
<1>3. Cardinality(mine) = run /\ nonces = (used + 1)..(used + run)
  BY <1>2 DEF Batches
<1>4. IsFiniteSet(mine)
  <2>1. IsFiniteSet(1..Len(Mempool)) BY <1>1, FS_Interval
  <2>2. mine \in SUBSET (1..Len(Mempool)) BY <1>1
  <2> HIDE DEF mine
  <2> QED BY <2>1, <2>2, FS_Subset
<1>5. run \in Nat BY <1>3, <1>4, FS_CardinalityType
<1>6. Mempool[i].nonce \in nonces OBVIOUS
<1>7. IsFiniteSet(SentBy(s, b))
  <2> DEFINE g == [j \in mine |-> Mempool[j]]
  <2>1. g \in Surjection(mine, SentBy(s, b)) BY DEF Surjection, SentBy
  <2> HIDE DEF g, mine, b, s
  <2> QED BY <1>4, <2>1, FS_Surjection
<1>8. Cardinality(nonces) <= Cardinality(SentBy(s, b))
  <2> DEFINE h == [tx \in SentBy(s, b) |-> tx.nonce]
  <2>1. h \in Surjection(SentBy(s, b), nonces) BY DEF Surjection, SentBy
  <2> HIDE DEF h, nonces, b, s
  <2> QED BY <1>7, <2>1, FS_Surjection
<1>9. Cardinality(SentBy(s, b)) \in Nat
  <2> HIDE DEF b, s
  <2> QED BY <1>7, FS_CardinalityType
<1> HIDE DEF nonces, run, used
<1>10. Cardinality(nonces) = run
  <2>1. used + 1 \in Int /\ used + run \in Int BY <1>2, <1>5
  <2>2. Cardinality((used + 1)..(used + run))
          = IF used + 1 > used + run THEN 0 ELSE (used + run) - (used + 1) + 1
    BY <2>1, FS_Interval
  <2> QED BY <1>2, <1>3, <1>5, <2>2
<1>11. Mempool[i].nonce <= used + run BY <1>2, <1>3, <1>5, <1>6
<1> HIDE DEF b, s
<1>12. Mempool[i].nonce <= used + Cardinality(SentBy(s, b))
  <2>1. Mempool[i].nonce \in (used + 1)..(used + run) BY <1>3, <1>6
  <2> QED BY <1>2, <1>5, <1>8, <1>9, <1>10, <2>1
<1> QED BY <1>12 DEF b, s, used

LEMMA AddBlockClean ==
  ASSUME Good, AddBlock
  PROVE  Clean'
<1>1. PICK B \in Batches :
        LET b == {Mempool[i] : i \in B}
        IN  /\ batch' = b
            /\ NonceTable' =
                 [a \in Accounts |-> NonceTable[a] + Cardinality(SentBy(a, b))]
            /\ Blockchain' =
                 (IF Blockchain = << >> THEN <<Genesis>> ELSE Blockchain) \o <<b>>
  BY DEF AddBlock
<1>2. /\ pc = "idle" /\ pc' = "adding" /\ todo' = AllKeys
      /\ producerRan' = (producerRan \/ cmd = "start")
      /\ cmd \in {"start", "commit", "auto-commit", "stress"}
      /\ UNCHANGED <<Mempool, cmd, cuts, fails>>
  BY DEF AddBlock, Committing, failures
<1> DEFINE b == {Mempool[i] : i \in B}
           base == IF Blockchain = << >> THEN <<Genesis>> ELSE Blockchain
           sent_(s) == Cardinality(SentBy(s, b))
<1>3. Mempool \in Seq(Tx) /\ Blockchain \in Blocks /\ NonceTable \in [Accounts -> Nat]
  BY DEF Good, Safe, Types
<1>4. ASSUME NEW s \in Accounts PROVE sent_(s) \in Nat
  <2>1. Executes(b, s) BY <1>3, BatchFacts
  <2> HIDE DEF b
  <2> QED BY <2>1 DEF Executes
<1>5. b \subseteq Tx
  <2>1. B \subseteq DOMAIN Mempool BY DEF Batches
  <2> QED BY <1>3, <2>1, ElementOfSeq
<1>6. \A tx \in b : tx.nonce <= NonceTable[tx.from] + sent_(tx.from)
  BY <1>3, BatchIsCounted
<1>7. base \in Blocks
  <2>1. Genesis \in SUBSET Tx BY DEF Genesis
  <2>2. <<Genesis>> \in Blocks BY <2>1 DEF Blocks
  <2> QED BY <1>3, <2>2
<1>8. NonceTable' = [a \in Accounts |-> NonceTable[a] + sent_(a)]
      /\ Blockchain' = base \o <<b>> /\ batch' = b
  BY <1>1
<1>9. \A k \in DOMAIN base :
        base[k] = {} \/ (k \in DOMAIN Blockchain /\ base[k] = Blockchain[k])
  <2>1. CASE Blockchain = << >>
    <3>1. base = <<Genesis>> BY <2>1
    <3> HIDE DEF base
    <3> QED BY <3>1, GenesisIsEmpty
  <2>2. CASE Blockchain # << >>
    <3>1. base = Blockchain BY <2>2
    <3> QED BY <3>1
  <2> QED BY <2>1, <2>2
<1> HIDE DEF b, sent_, base
<1>10. \A k \in DOMAIN Blockchain' :
         Blockchain'[k] = b \/ (k \in DOMAIN base /\ Blockchain'[k] = base[k])
  <2>1. /\ Len(base) \in Nat /\ DOMAIN base = 1..Len(base)
        /\ DOMAIN Blockchain' = 1..(Len(base) + 1)
        /\ \A k \in 1..Len(base) : Blockchain'[k] = base[k]
        /\ Blockchain'[Len(base) + 1] = b
    BY <1>5, <1>7, <1>8 DEF Blocks
  <2> DEFINE n == Len(base)
  <2> HIDE DEF n
  <2>2. n \in Nat BY <2>1 DEF n
  <2>3. \A k \in 1..(n + 1) : k = n + 1 \/ k \in 1..n BY <2>2
  <2> QED BY <2>1, <2>3 DEF n
<1>11. \A k \in DOMAIN Blockchain' :
         \/ Blockchain'[k] = b
         \/ Blockchain'[k] = {}
         \/ k \in DOMAIN Blockchain /\ Blockchain'[k] = Blockchain[k]
  BY <1>9, <1>10
<1>12. Rounds' BY <1>2 DEF Rounds
<1>13. DiskClean' BY <1>2 DEF DiskClean
<1>14. ASSUME Unharmed' PROVE MemoryClean'
  <2>1. Unharmed BY <1>2, <1>14 DEF Unharmed
  <2>2. /\ Below(Blockchain, NonceTable)
        /\ \A i \in DOMAIN Mempool, k \in DOMAIN Blockchain :
             Mempool[i] \notin Blockchain[k]
    BY <1>2, <2>1 DEF Good, Clean, Rounds, MemoryClean
  <2>3. Below(Blockchain', NonceTable')
    <3> SUFFICES ASSUME NEW k \in DOMAIN Blockchain', NEW tx \in Blockchain'[k]
                 PROVE  tx.nonce <= NonceTable'[tx.from]
      BY DEF Below
    <3>1. CASE Blockchain'[k] = b
      <4>1. tx \in Tx /\ tx.from \in Accounts BY <1>5, <3>1 DEF Tx
      <4> QED BY <1>6, <1>8, <3>1, <4>1
    <3>2. CASE k \in DOMAIN Blockchain /\ Blockchain'[k] = Blockchain[k]
      <4>1. tx \in Tx
        <5>1. Blockchain[k] \in SUBSET Tx BY <1>3, <3>2 DEF Blocks
        <5> QED BY <3>2, <5>1
      <4>2. tx.from \in Accounts /\ tx.nonce \in Nat BY <4>1 DEF Tx
      <4>3. tx.nonce <= NonceTable[tx.from] BY <2>2, <3>2 DEF Below
      <4>4. NonceTable[tx.from] \in Nat /\ sent_(tx.from) \in Nat BY <1>3, <1>4, <4>2
      <4>5. NonceTable'[tx.from] = NonceTable[tx.from] + sent_(tx.from) BY <1>8, <4>2
      <4> QED BY <4>2, <4>3, <4>4, <4>5
    <3> QED BY <1>11, <3>1, <3>2
  <2> QED BY <1>2, <1>8, <1>11, <2>2, <2>3 DEF MemoryClean
<1> QED BY <1>12, <1>13, <1>14 DEF Clean

\* The clean-up takes all of the batch out of the mempool.
LEMMA RemoveClean ==
  ASSUME Good, RemoveCommittedFromMempool
  PROVE  Clean'
<1>1. /\ pc = "adding" /\ todo = << >> /\ batch' = {} /\ AfterCommit
      /\ UNCHANGED <<NonceTable, Blockchain, disk, cmd, cuts, fails, producerRan>>
  BY DEF RemoveCommittedFromMempool, Saved, history, grants, failures
<1>2. cmd # "none" BY <1>1 DEF Good, Clean, Rounds
<1>3. /\ cmd = "start" => pc' = "idle" /\ todo' = << >>
      /\ cmd # "start" => pc' = "saving" /\ todo' = AllKeys
  BY <1>1 DEF AfterCommit
<1>4. Rounds' BY <1>1, <1>2, <1>3 DEF Rounds
<1> DEFINE keep == {i \in DOMAIN Mempool : Mempool[i] \notin batch}
<1>5. PICK f \in KeepOrder(keep) : Mempool' = [i \in 1..Cardinality(keep) |-> Mempool[f[i]]]
  BY DEF RemoveCommittedFromMempool
<1>6. \A i \in DOMAIN Mempool' :
        \E j \in DOMAIN Mempool : Mempool'[i] = Mempool[j] /\ Mempool[j] \notin batch
  BY <1>5 DEF KeepOrder, Injection
<1>7. ASSUME Unharmed' PROVE MemoryClean' /\ DiskClean'
  <2>1. Unharmed BY <1>1, <1>7 DEF Unharmed
  <2>2. cmd # "start" BY <1>1, <2>1 DEF Good, Clean, Rounds, Unharmed
  <2>3. MemoryClean BY <2>1 DEF Good, Clean
  <2>4. Below(Blockchain', NonceTable') BY <1>1, <1>2, <2>3 DEF MemoryClean, Below
  <2>5. Disjoint(Mempool', Blockchain')
    BY <1>1, <1>2, <1>6, <2>3 DEF MemoryClean, Disjoint
  <2>6. MemoryClean' BY <2>4, <2>5 DEF MemoryClean, Disjoint
  <2>7. Pool' = Mempool' /\ Chain' = Blockchain' /\ Nonces' = NonceTable'
    <3>1. todo' = AllKeys BY <1>3, <2>2
    <3>2. /\ 2 \in DOMAIN todo' /\ todo'[2] = "blockchain"
          /\ 3 \in DOMAIN todo' /\ todo'[3] = "mempool"
          /\ 4 \in DOMAIN todo' /\ todo'[4] = "nonce_table"
      BY <3>1 DEF AllKeys
    <3> QED BY <3>2 DEF Pool, Chain, Nonces, InLine
  <2>8. DiskClean' BY <2>4, <2>5, <2>7 DEF DiskClean, Disjoint, Below
  <2> QED BY <2>6, <2>8
<1> QED BY <1>4, <1>7 DEF Clean

-----------------------------------------------------------------------------
(* Commands that add no block *)

\* A command at rest begins to save: what it is going to write is clean.
LEMMA BeginClean ==
  ASSUME Good, pc = "idle", pc' = "saving", cmd # "none", cmd' = cmd,
         UNCHANGED <<NonceTable, Mempool, disk, batch, cuts, fails, producerRan>>,
         Blockchain' = Blockchain \/ (Blockchain = << >> /\ Blockchain' = <<Genesis>>),
         \/ todo' \in {AllKeys, <<"balances">>}
         \/ todo' = <<"blockchain">> /\ Blockchain' = <<Genesis>>
  PROVE  Clean'
<1>1. Rounds' BY DEF Good, Clean, Rounds
<1>2. ASSUME Unharmed' PROVE MemoryClean' /\ DiskClean'
  <2>1. MemoryClean /\ DiskClean BY <1>2 DEF Unharmed, Good, Clean
  <2>2. todo = << >> /\ batch = {} BY DEF Good, Clean, Rounds
  <2>3. \A b \in DOMAIN Blockchain' :
          Blockchain'[b] = {} \/ (b \in DOMAIN Blockchain /\ Blockchain'[b] = Blockchain[b])
    <3>1. CASE Blockchain' = Blockchain BY <3>1
    <3>2. CASE Blockchain' = <<Genesis>>
      BY <3>2, GenesisIsEmpty
    <3> QED BY <3>1, <3>2
  <2>4. Below(Blockchain', NonceTable) /\ Disjoint(Mempool, Blockchain')
    BY <2>1, <2>2, <2>3 DEF MemoryClean, Below, Disjoint
  <2>5. MemoryClean' BY <2>4 DEF MemoryClean, Below, Disjoint
  <2>6. Disjoint(disk.mempool, disk.blockchain) /\ Below(disk.blockchain, disk.nonce_table)
    BY <2>1, <2>2, NothingInLine DEF DiskClean
  <2>7. CASE todo' = AllKeys
    <3>1. /\ 2 \in DOMAIN todo' /\ todo'[2] = "blockchain"
          /\ 3 \in DOMAIN todo' /\ todo'[3] = "mempool"
          /\ 4 \in DOMAIN todo' /\ todo'[4] = "nonce_table"
      BY <2>7 DEF AllKeys
    <3>2. Pool' = Mempool /\ Chain' = Blockchain' /\ Nonces' = NonceTable
      BY <3>1 DEF Pool, Chain, Nonces, InLine
    <3> QED BY <2>4, <2>5, <3>2 DEF DiskClean, Below, Disjoint
  <2>8. CASE todo' = <<"balances">>
    <3>1. \A i \in DOMAIN todo' : todo'[i] = "balances" BY <2>8
    <3>2. Pool' = disk.mempool /\ Chain' = disk.blockchain /\ Nonces' = disk.nonce_table
      BY <3>1 DEF Pool, Chain, Nonces, InLine
    <3> QED BY <2>5, <2>6, <3>2 DEF DiskClean, Below, Disjoint
  <2>9. CASE todo' = <<"blockchain">> /\ Blockchain' = <<Genesis>>
    <3>1. \A i \in DOMAIN todo' : todo'[i] = "blockchain" BY <2>9
    <3>2. 1 \in DOMAIN todo' /\ todo'[1] = "blockchain" BY <2>9
    <3>3. Pool' = disk.mempool /\ Chain' = Blockchain' /\ Nonces' = disk.nonce_table
      BY <3>1, <3>2 DEF Pool, Chain, Nonces, InLine
    <3>4. \A b \in DOMAIN Blockchain' : Blockchain'[b] = {}
      BY <2>9, GenesisIsEmpty
    <3> QED BY <2>5, <3>3, <3>4 DEF DiskClean, Below, Disjoint
  <2> QED BY <2>7, <2>8, <2>9
<1> QED BY <1>1, <1>2 DEF Clean

LEMMA GenesisClean ==
  ASSUME Good, InitLedger
  PROVE  Clean'
<1>1. /\ pc = "idle" /\ cmd = "init"
      /\ UNCHANGED <<NonceTable, Mempool, disk, cmd, batch, cuts, fails, producerRan>>
  BY DEF InitLedger, history, grants, failures
<1>2. CASE /\ Blockchain = << >> /\ Blockchain' = <<Genesis>>
           /\ pc' = "saving" /\ todo' = <<"blockchain">>
  BY <1>1, <1>2, BeginClean
<1>3. CASE pc' = "done" /\ UNCHANGED <<Blockchain, todo>>
  <2>1. Rounds' BY <1>1, <1>3 DEF Good, Clean, Rounds
  <2>2. Unharmed' => Unharmed BY <1>1 DEF Unharmed
  <2>3. MemoryClean => MemoryClean' BY <1>1, <1>3 DEF MemoryClean, Below
  <2>4. DiskClean => DiskClean'
    BY <1>1, <1>3 DEF DiskClean, Disjoint, Below, Pool, Chain, Nonces, InLine
  <2> QED BY <2>1, <2>2, <2>3, <2>4 DEF Good, Clean
<1> QED BY <1>2, <1>3 DEF InitLedger

LEMMA GrantClean ==
  ASSUME Good, Gives
  PROVE  Clean'
<1>1. PICK more \in [Accounts -> Int] : Grant(more) BY GiftIsGrant
<1>2. cmd # "none" BY GiftIsGrant
<1>3. /\ pc = "idle" /\ pc' = "saving" /\ todo' = <<"balances">>
      /\ UNCHANGED <<NonceTable, Mempool, disk, batch, cuts, fails, producerRan>>
      /\ cmd' = cmd /\ Blockchain' = Blockchain
  BY <1>1 DEF Grant, failures
<1> QED BY <1>2, <1>3, BeginClean

LEMMA SkipClean ==
  ASSUME Good, SkipCommit
  PROVE  Clean'
<1>1. /\ pc = "idle" /\ cmd # "none"
      /\ UNCHANGED <<NonceTable, Mempool, disk, batch, cuts, fails, producerRan>>
      /\ cmd' = cmd /\ Blockchain' = Blockchain
  BY DEF SkipCommit, Committing, memory, history, grants, failures
<1>2. CASE cmd # "start"
  <2>1. pc' = "saving" /\ todo' = AllKeys BY <1>2 DEF SkipCommit, AfterCommit
  <2> QED BY <1>1, <2>1, BeginClean
<1>3. CASE cmd = "start"
  <2>1. pc' = "idle" /\ todo' = todo BY <1>3 DEF SkipCommit, AfterCommit
  <2>2. Rounds' BY <1>1, <2>1 DEF Good, Clean, Rounds
  <2>3. Unharmed' => Unharmed BY <1>1 DEF Unharmed
  <2>4. MemoryClean => MemoryClean' BY <1>1 DEF MemoryClean, Below
  <2>5. DiskClean => DiskClean'
    BY <1>1, <2>1 DEF DiskClean, Disjoint, Below, Pool, Chain, Nonces, InLine
  <2> QED BY <2>2, <2>3, <2>4, <2>5 DEF Good, Clean
<1> QED BY <1>2, <1>3

-----------------------------------------------------------------------------
LEMMA StepClean == Good /\ [Next]_vars => Clean'
<1> SUFFICES ASSUME Good, [Next]_vars PROVE Clean' OBVIOUS
<1>1. CASE UNCHANGED vars
  <2>1. UNCHANGED <<NonceTable, Mempool, Blockchain, disk, cmd, pc, todo, batch, cuts, fails,
                    producerRan>>
    BY <1>1 DEF vars, memory, control, history, grants, failures
  <2>2. Rounds' BY <2>1 DEF Good, Clean, Rounds
  <2>3. Unharmed' => Unharmed BY <2>1 DEF Unharmed
  <2>4. MemoryClean => MemoryClean' BY <2>1 DEF MemoryClean, Below
  <2>5. DiskClean => DiskClean'
    BY <2>1 DEF DiskClean, Disjoint, Below, Pool, Chain, Nonces, InLine
  <2> QED BY <2>2, <2>3, <2>4, <2>5 DEF Good, Clean
<1>2. ASSUME NEW c \in Commands, Launch(c) PROVE Clean' BY <1>2, LaunchClean
<1>3. CASE Return \/ Die BY <1>3, EndClean DEF Return, Die
<1>4. CASE Run
  BY <1>4, SaveClean, SaveFailsClean, FinishSaveClean, GenesisClean, AddBlockClean,
     SkipClean, RemoveClean DEF Run
<1>5. ASSUME NEW from \in Accounts, NEW to \in Accounts, Submit(from, to) PROVE Clean'
  BY <1>5, SubmitClean
<1>6. CASE Gives BY <1>6, GrantClean
<1> QED BY <1>1, <1>2, <1>3, <1>4, <1>5, <1>6 DEF Next, Gives

\* CommittedLeavesMempool for any accounts, commands and bounds: as long as no commit is
\* cut off, no Put fails and "start" produces nothing, RemoveCommittedFromMempool reaches
\* the disk before the next process reads it.
THEOREM CommittedLeaves == Spec => []CommittedLeavesMempool
<1>1. Good => CommittedLeavesMempool
  <2> SUFFICES ASSUME Good, cmd = "none", cuts = 0, fails = 0, ~producerRan
               PROVE  Disjoint(disk.mempool, disk.blockchain)
    BY DEF CommittedLeavesMempool, Disjoint
  <2>1. DiskClean BY DEF Good, Clean, Unharmed
  <2>2. todo = << >> /\ pc # "adding" BY DEF Good, Safe, AtRest
  <2> QED BY <2>1, <2>2, NothingInLine DEF DiskClean
<1>2. Init => Good BY InitSafe, InitKinds, InitClean DEF Good
<1>3. Good /\ [Next]_vars => Good' BY StepSafe, StepKinds, StepClean DEF Good
<1> QED BY <1>1, <1>2, <1>3, PTL DEF Spec

-----------------------------------------------------------------------------
(* Where a save stands *)

ChainLine == <<"blockchain", "mempool", "nonce_table">>
PoolLine  == <<"mempool", "nonce_table">>
NonceLine == <<"nonce_table">>

Places ==
  /\ cmd = "none" => pc = "idle"
  /\ pc \in {"idle", "done"} => todo = << >>
  /\ pc = "adding" => todo \in {AllKeys, ChainLine, PoolLine, NonceLine, << >>}

\* What the block that is being added still has to reach.
BalancesDue == IF pc = "adding" /\ todo = AllKeys THEN 1 ELSE 0
ChainDue    == IF pc = "adding" /\ todo \in {AllKeys, ChainLine} THEN 1 ELSE 0
NoncesDue   == IF pc = "adding" /\ todo # << >> THEN 1 ELSE 0

LEMMA Lines ==
  /\ AllKeys # << >> /\ Head(AllKeys) = "balances" /\ Tail(AllKeys) = ChainLine
  /\ ChainLine # << >> /\ Head(ChainLine) = "blockchain" /\ Tail(ChainLine) = PoolLine
  /\ PoolLine # << >> /\ Head(PoolLine) = "mempool" /\ Tail(PoolLine) = NonceLine
  /\ NonceLine # << >> /\ Head(NonceLine) = "nonce_table" /\ Tail(NonceLine) = << >>
  /\ <<"balances">> # << >> /\ Head(<<"balances">>) = "balances"
  /\ Tail(<<"balances">>) = << >>
BY DEF AllKeys, ChainLine, PoolLine, NonceLine

LEMMA LinesDiffer ==
  /\ AllKeys \notin {ChainLine, PoolLine, NonceLine, << >>}
  /\ ChainLine \notin {PoolLine, NonceLine, << >>} /\ PoolLine \notin {NonceLine, << >>}
BY Lines

LEMMA DueType ==
  /\ BalancesDue \in 0..1 /\ ChainDue \in 0..1 /\ NoncesDue \in 0..1
  /\ BalancesDue <= ChainDue /\ (ChainDue = 1 => pc = "adding")
  /\ (NoncesDue = 1 => pc = "adding")
BY DEF BalancesDue, ChainDue, NoncesDue

\* The head leaves the line.
LEMMA NextInLine ==
  ASSUME Places, Kinds, todo # << >>, todo' = Tail(todo), pc' = pc, cmd' = cmd
  PROVE  /\ Places' /\ cmd # "none"
         /\ IF Head(todo) = "balances"
              THEN BalancesDue' = 0 /\ ChainDue' = ChainDue /\ NoncesDue' = NoncesDue
            ELSE IF Head(todo) = "blockchain"
              THEN BalancesDue' = 0 /\ ChainDue' = 0 /\ NoncesDue' = NoncesDue
            ELSE BalancesDue' = BalancesDue /\ ChainDue' = ChainDue
         /\ Head(todo) # "nonce_table" => NoncesDue' = NoncesDue
<1>1. pc \in {"adding", "saving"} /\ cmd # "none" BY DEF Places, Kinds
<1>3. CASE pc = "saving"
  <2>1. Places' BY <1>1, <1>3, Lines DEF Places
  <2>2. /\ BalancesDue = 0 /\ ChainDue = 0 /\ NoncesDue = 0
        /\ BalancesDue' = 0 /\ ChainDue' = 0 /\ NoncesDue' = 0
    BY <1>3 DEF BalancesDue, ChainDue, NoncesDue
  <2> QED BY <1>1, <1>3, <2>1, <2>2, Lines
<1>4. CASE pc = "adding"
  <2>1. todo \in {AllKeys, ChainLine, PoolLine, NonceLine}
    BY <1>4 DEF Places
  <2>2. Places' BY <1>1, <1>4, <2>1, Lines DEF Places
  <2>3. CASE todo = AllKeys
    BY <1>1, <1>4, <2>1, <2>2, <2>3, Lines, LinesDiffer DEF BalancesDue, ChainDue, NoncesDue
  <2>4. CASE todo = ChainLine
    BY <1>1, <1>4, <2>1, <2>2, <2>4, Lines, LinesDiffer DEF BalancesDue, ChainDue, NoncesDue
  <2>5. CASE todo = PoolLine
    BY <1>1, <1>4, <2>1, <2>2, <2>5, Lines, LinesDiffer DEF BalancesDue, ChainDue, NoncesDue
  <2>6. CASE todo = NonceLine
    BY <1>1, <1>4, <2>1, <2>2, <2>6, Lines, LinesDiffer DEF BalancesDue, ChainDue, NoncesDue
  <2> QED BY <2>1, <2>3, <2>4, <2>5, <2>6
<1> QED BY <1>1, <1>3, <1>4

\* The other steps put the whole of SaveAllData in line, or one key, or nothing.
LEMMA StepPlaces == Places /\ Safe /\ Kinds /\ [Next]_vars => Places'
<1> SUFFICES ASSUME Places, Safe, Kinds, [Next]_vars PROVE Places' OBVIOUS
<1>1. ASSUME UNCHANGED <<cmd, pc, todo>> PROVE Places' BY <1>1 DEF Places
<1>2. ASSUME todo' = << >>, pc' = "idle" PROVE Places' BY <1>2 DEF Places
<1>3. CASE Save \/ SaveFails BY <1>3, NextInLine DEF Save, SaveFails
<1>4. CASE FinishSave
  <2>1. pc = "saving" /\ todo' = << >> /\ cmd' = cmd /\ pc' \in {"idle", "done"}
    BY <1>4 DEF FinishSave, Saved
  <2>2. cmd # "none" BY <2>1 DEF Places
  <2> QED BY <2>1, <2>2 DEF Places
<1>5. CASE InitLedger
  BY <1>5 DEF InitLedger, Places
<1>6. CASE AddBlock BY <1>6 DEF AddBlock, Committing, Places
<1>7. CASE SkipCommit
  BY <1>7 DEF SkipCommit, Committing, AfterCommit, Places
<1>8. CASE RemoveCommittedFromMempool
  BY <1>8 DEF RemoveCommittedFromMempool, AfterCommit, Saved, Places
<1>9. CASE UNCHANGED vars BY <1>1, <1>9 DEF vars, control
<1>10. ASSUME NEW c \in Commands, Launch(c) PROVE Places' BY <1>2, <1>10 DEF Launch
<1>11. CASE Return \/ Die BY <1>2, <1>11 DEF Return, Die, End
<1>12. ASSUME NEW from \in Accounts, NEW to \in Accounts, Submit(from, to) PROVE Places'
  BY <1>1, <1>12 DEF Submit, control
<1>13. CASE Gives
  <2>1. pc' = "saving" /\ cmd' = cmd /\ cmd # "none" BY <1>13, GiftIsGrant DEF Grant
  <2> QED BY <2>1 DEF Places
<1> QED
  BY <1>3, <1>4, <1>5, <1>6, <1>7, <1>8, <1>9, <1>10, <1>11, <1>12, <1>13
  DEF Next, Run, Gives

-----------------------------------------------------------------------------
(* Replays *)

Times(chain, s, n) == Cardinality(Executions(chain, s, n))

Counted(table, s, n) == IF n <= table[s] THEN 1 ELSE 0

Harm == cuts + fails

\* Every execution of nonce n of s but the counted one is a cut or a failure.  A nonce that
\* memory counts and the disk does not has its cut or its failure already, or the table
\* is still to be written.
ReplayOf(s, n) ==
  /\ cmd = "none" =>
       Times(disk.blockchain, s, n) <= Counted(disk.nonce_table, s, n) + Harm
  /\ cmd # "none" =>
       /\ Times(Blockchain, s, n) <= Counted(NonceTable, s, n) + Harm
       /\ disk.nonce_table[s] < n /\ n <= NonceTable[s] =>
            Times(Blockchain, s, n) <= NoncesDue + Harm

Replays == \A s \in Accounts, n \in Nat \ {0} : ReplayOf(s, n)

\* No process, no memory.
Forgotten == cmd = "none" => Blockchain = << >>

Fair == Safe /\ Kinds /\ Places /\ Forgotten /\ Replays

LEMMA TimesType ==
  ASSUME NEW c \in Blocks, NEW s, NEW n
  PROVE  IsFiniteSet(Executions(c, s, n)) /\ Times(c, s, n) \in Nat
<1>1. Len(c) \in Nat /\ DOMAIN c = 1..Len(c) BY DEF Blocks
<1>2. IsFiniteSet(1..Len(c)) BY <1>1, FS_Interval
<1>3. Executions(c, s, n) \in SUBSET (1..Len(c)) BY <1>1 DEF Executions
<1>4. IsFiniteSet(Executions(c, s, n)) BY <1>2, <1>3, FS_Subset
<1> QED BY <1>4, FS_CardinalityType DEF Times

LEMMA TimesGrow ==
  ASSUME NEW c \in Blocks, NEW d \in Blocks, Extends(c, d), NEW s, NEW n
  PROVE  Times(d, s, n) <= Times(c, s, n)
<1>1. Executions(d, s, n) \in SUBSET Executions(c, s, n)
  BY DEF Executions, Extends, Blocks
<1> QED BY <1>1, TimesType, FS_Subset DEF Times

\* The genesis block executes nothing.
LEMMA TimesOfGenesis ==
  ASSUME NEW s, NEW n
  PROVE  Times(<<Genesis>>, s, n) = 0 /\ Times(<< >>, s, n) = 0
<1>1. Executions(<<Genesis>>, s, n) = {} BY GenesisIsEmpty DEF Executions
<1>2. Executions(<< >>, s, n) = {} BY DEF Executions
<1> QED BY <1>1, <1>2, FS_EmptySet DEF Times

\* A new block executes a nonce once more, if it executes it.
LEMMA TimesOfNext ==
  ASSUME NEW c \in Blocks, NEW b \in SUBSET Tx, NEW s, NEW n
  PROVE  /\ Times(c \o <<b>>, s, n) <= Times(c, s, n) + 1
         /\ (\A tx \in b : ~(tx.from = s /\ tx.nonce = n)) =>
              Times(c \o <<b>>, s, n) = Times(c, s, n)
<1> DEFINE d == c \o <<b>>  k == Len(c) + 1  E == Executions(c, s, n)
           F == Executions(d, s, n)
<1>1. /\ Len(c) \in Nat /\ DOMAIN c = 1..Len(c) /\ DOMAIN d = 1..k
      /\ \A i \in 1..Len(c) : d[i] = c[i]
      /\ d[k] = b
  BY DEF Blocks
<1> HIDE DEF d
<1>2. F = IF \E tx \in b : tx.from = s /\ tx.nonce = n THEN E \cup {k} ELSE E
  <2>1. \A i \in 1..k : i = k \/ i \in 1..Len(c) BY <1>1
  <2>2. \A i \in 1..Len(c) : i \in 1..k /\ i # k BY <1>1
  <2>3. k \in 1..k BY <1>1
  <2> HIDE DEF k
  <2> QED BY <1>1, <2>1, <2>2, <2>3 DEF Executions
<1>3. IsFiniteSet(E) /\ Cardinality(E) \in Nat BY TimesType DEF Times
<1>4. Cardinality(E \cup {k}) <= Cardinality(E) + 1
  <2> HIDE DEF E, k
  <2>1. k \notin E => Cardinality(E \cup {k}) = Cardinality(E) + 1 BY <1>3, FS_AddElement
  <2>2. k \in E => E \cup {k} = E OBVIOUS
  <2> QED BY <1>3, <2>1, <2>2
<1> QED BY <1>2, <1>3, <1>4 DEF Times, d

LEMMA InitReplays == Init => Replays
<1> SUFFICES ASSUME Init, NEW s \in Accounts, NEW n \in Nat \ {0} PROVE ReplayOf(s, n)
  BY DEF Replays
<1>1. cmd = "none" /\ disk.blockchain = << >> /\ disk.nonce_table[s] = 0 /\ cuts = 0 /\ fails = 0
  BY DEF Init
<1>2. Times(disk.blockchain, s, n) = 0 BY <1>1, TimesOfGenesis
<1> QED BY <1>1, <1>2 DEF ReplayOf, Counted, Harm

LEMMA ReplayTypes ==
  ASSUME Safe, Kinds, NEW s \in Accounts, NEW n \in Nat \ {0}
  PROVE  /\ Times(Blockchain, s, n) \in Nat /\ Times(disk.blockchain, s, n) \in Nat
         /\ NonceTable[s] \in Nat /\ disk.nonce_table[s] \in Nat
         /\ Harm \in Nat /\ NoncesDue \in 0..1
         /\ \A t : Counted(t, s, n) \in 0..1
<1>1. Times(Blockchain, s, n) \in Nat /\ Times(disk.blockchain, s, n) \in Nat
  BY TimesType DEF Safe, Types
<1>2. NonceTable[s] \in Nat /\ disk.nonce_table[s] \in Nat BY DEF Safe, Types
<1>3. Harm \in Nat BY DEF Kinds, Harm
<1>4. \A t : Counted(t, s, n) \in 0..1 BY DEF Counted
<1> QED BY <1>1, <1>2, <1>3, <1>4, DueType

\* A step that executes nothing and leaves the disk alone.
LEMMA QuietReplays ==
  ASSUME Fair, UNCHANGED <<NonceTable, disk, cmd, cuts, fails>>,
         \A s \in Accounts, n \in Nat \ {0} :
           Times(Blockchain', s, n) = Times(Blockchain, s, n),
         NoncesDue = 0 \/ NoncesDue' = NoncesDue
  PROVE  Replays'
<1> SUFFICES ASSUME NEW s \in Accounts, NEW n \in Nat \ {0} PROVE ReplayOf(s, n)'
  BY DEF Replays
<1> DEFINE t == Times(Blockchain, s, n)  h == Harm  d == NoncesDue  d1 == NoncesDue'
<1>1. ReplayOf(s, n) /\ Harm' = h BY DEF Fair, Replays, Harm
<1>2. Times(Blockchain', s, n) = t BY Zenon
<1>3. t \in Nat /\ h \in Nat /\ d \in 0..1 /\ d1 \in 0..1
  <2>1. d1 \in 0..1 BY DEF NoncesDue
  <2> QED BY <2>1, ReplayTypes DEF Fair
<1>4. t <= d + h => t <= d1 + h
  <2>1. d = 0 \/ d1 = d OBVIOUS
  <2> HIDE DEF t, h, d, d1
  <2> QED BY <1>3, <2>1
<1> HIDE DEF t, h, d, d1
<1> QED BY <1>1, <1>2, <1>4 DEF ReplayOf, Counted, t, h, d, d1


\* The nonces reach the disk, or their Put has failed.
LEMMA SaveReplays ==
  ASSUME Fair, Save \/ SaveFails
  PROVE  Replays'
<1> SUFFICES ASSUME NEW s \in Accounts, NEW n \in Nat \ {0} PROVE ReplayOf(s, n)'
  BY DEF Replays
<1> DEFINE t == Times(Blockchain, s, n)  h == Harm  h1 == Harm'
           d == NoncesDue  d1 == NoncesDue'  c == Counted(NonceTable, s, n)
           key == Head(todo)
<1>1. /\ todo # << >> /\ todo \in Seq(Keys) /\ todo' = Tail(todo)
      /\ UNCHANGED <<cmd, pc, NonceTable, Blockchain>>
  BY DEF Save, SaveFails, memory, Fair, Safe, Types
<1>2. cmd # "none" /\ cmd' # "none" /\ (key # "nonce_table" => d1 = d)
  BY <1>1, NextInLine DEF Fair
<1>3. t <= c + h /\ (disk.nonce_table[s] < n /\ n <= NonceTable[s] => t <= d + h)
  BY <1>2 DEF Fair, Replays, ReplayOf
<1>4. t \in Nat /\ h \in Nat /\ d \in 0..1 /\ d1 \in 0..1 /\ c \in 0..1
  <2>1. d1 \in 0..1 BY DEF NoncesDue
  <2> QED BY <2>1, ReplayTypes DEF Fair
<1>5. CASE Save
  <2>1. h1 = h BY <1>5 DEF Save, Harm
  <2>2. CASE key = "nonce_table"
    <3>1. disk'.nonce_table = NonceTable
      BY <1>5, <2>2, SaveEffect DEF Fair, InMemory, Keys
    <3>2. NonceTable[s] \in Nat BY ReplayTypes DEF Fair
    <3>3. ~(disk'.nonce_table[s] < n /\ n <= NonceTable[s]) BY <3>1, <3>2
    <3> QED BY <1>1, <1>2, <1>3, <2>1, <3>3 DEF ReplayOf, Counted, t, h
  <2>3. CASE key # "nonce_table"
    <3>1. disk'.nonce_table = disk.nonce_table
      BY <1>5, <2>3, SaveEffect DEF Fair, Keys
    <3> QED BY <1>1, <1>2, <1>3, <2>1, <2>3, <3>1 DEF ReplayOf, Counted
  <2> QED BY <2>2, <2>3
<1>6. CASE SaveFails
  <2>1. cuts' = cuts /\ fails' = fails + 1 /\ disk' = disk BY <1>6 DEF SaveFails
  <2>2. h1 = h + 1
    <3>1. cuts \in Nat /\ fails \in Nat BY DEF Fair, Kinds
    <3> QED BY <2>1, <3>1 DEF Harm
  <2>3. t <= c + h1 /\ (disk.nonce_table[s] < n /\ n <= NonceTable[s] => t <= d1 + h1)
    <3> HIDE DEF t, c, h, h1, d, d1
    <3> QED BY <1>3, <1>4, <2>2
  <2> QED BY <1>1, <1>2, <2>1, <2>3 DEF ReplayOf, Counted
<1> QED BY <1>5, <1>6

\* A process finds on disk what is fair, and leaves it so: what it had not written is cut.
LEMMA LaunchReplays ==
  ASSUME Fair, NEW c \in Commands, Launch(c)
  PROVE  Replays'
<1> SUFFICES ASSUME NEW s \in Accounts, NEW n \in Nat \ {0} PROVE ReplayOf(s, n)'
  BY DEF Replays
<1>1. /\ cmd = "none" /\ cmd' = c /\ NonceTable' = disk.nonce_table
      /\ Blockchain' = disk.blockchain /\ UNCHANGED <<disk, cuts, fails>>
  BY DEF Launch, LoadAllData, failures
<1>2. c # "none" BY NodeAssumption DEF AllCommands
<1>3. Times(disk.blockchain, s, n) <= Counted(disk.nonce_table, s, n) + Harm
  BY <1>1 DEF Fair, Replays, ReplayOf
<1>4. ~(disk.nonce_table[s] < n /\ n <= disk.nonce_table[s])
  <2>1. disk.nonce_table[s] \in Nat BY ReplayTypes DEF Fair
  <2> QED BY <2>1
<1> QED BY <1>1, <1>2, <1>3, <1>4 DEF ReplayOf, Counted, Harm

LEMMA EndReplays ==
  ASSUME Fair, End
  PROVE  Replays'
<1> SUFFICES ASSUME NEW s \in Accounts, NEW n \in Nat \ {0} PROVE ReplayOf(s, n)'
  BY DEF Replays
<1> DEFINE t == Times(Blockchain, s, n)  u == Times(disk.blockchain, s, n)
           h == Harm  h1 == Harm'  d == NoncesDue
           c == Counted(NonceTable, s, n)  e == Counted(disk.nonce_table, s, n)
           x == NonceTable[s]  y == disk.nonce_table[s]
<1>1. /\ cmd # "none" /\ cmd' = "none" /\ cuts' = (IF Working THEN cuts + 1 ELSE cuts)
      /\ UNCHANGED <<disk, fails>>
  BY DEF End
<1>2. t <= c + h /\ (y < n /\ n <= x => t <= d + h)
  BY <1>1 DEF Fair, Replays, ReplayOf
<1>3. /\ t \in Nat /\ u \in Nat /\ h \in Nat /\ d \in 0..1 /\ x \in Nat /\ y \in Nat
  BY ReplayTypes DEF Fair
<1>4. u <= t
  BY <1>1, TimesGrow DEF Fair, Safe, Knows, Types
<1>5. c = (IF n <= x THEN 1 ELSE 0) /\ e = (IF n <= y THEN 1 ELSE 0) BY DEF Counted
<1>6. h1 >= h + d
  <2>1. cuts \in Nat /\ fails \in Nat BY DEF Fair, Kinds
  <2>2. d = 1 => Working BY DueType DEF Working
  <2>3. h1 = (IF Working THEN cuts + 1 ELSE cuts) + fails /\ h = cuts + fails
    BY <1>1 DEF Harm
  <2> HIDE DEF h, h1, d
  <2> QED BY <1>3, <2>1, <2>2, <2>3
<1>7. h1 \in Nat
  <2>1. cuts \in Nat /\ fails \in Nat BY DEF Fair, Kinds
  <2> QED BY <1>1, <2>1 DEF Harm
<1>8. u <= e + h1
  <2> HIDE DEF t, u, h, h1, d, c, e, x, y
  <2> QED BY <1>2, <1>3, <1>4, <1>5, <1>6, <1>7
<1> QED BY <1>1, <1>8 DEF ReplayOf, Counted

LEMMA AddBlockReplays ==
  ASSUME Fair, AddBlock
  PROVE  Replays'
<1> SUFFICES ASSUME NEW s \in Accounts, NEW n \in Nat \ {0} PROVE ReplayOf(s, n)'
  BY DEF Replays
<1>1. PICK B \in Batches :
        LET b == {Mempool[i] : i \in B}
        IN  /\ NonceTable' =
                 [a \in Accounts |-> NonceTable[a] + Cardinality(SentBy(a, b))]
            /\ Blockchain' =
                 (IF Blockchain = << >> THEN <<Genesis>> ELSE Blockchain) \o <<b>>
  BY DEF AddBlock
<1>2. /\ pc = "idle" /\ pc' = "adding" /\ todo' = AllKeys /\ cmd # "none"
      /\ UNCHANGED <<disk, cmd, cuts, fails>>
  BY DEF AddBlock, Committing, failures
<1> DEFINE b == {Mempool[i] : i \in B}
           base == IF Blockchain = << >> THEN <<Genesis>> ELSE Blockchain
           k == Cardinality(SentBy(s, b))
           x == NonceTable[s]  y == disk.nonce_table[s]  x1 == NonceTable'[s]
           t == Times(Blockchain, s, n)  t1 == Times(Blockchain', s, n)  h == Harm
           here == \E tx \in b : tx.from = s /\ tx.nonce = n
<1>3. Mempool \in Seq(Tx) /\ Blockchain \in Blocks /\ NonceTable \in [Accounts -> Nat]
  BY DEF Fair, Safe, Types
<1>4. k \in Nat /\ b \subseteq Tx /\ \A m \in (x + 1)..(x + k) :
                                     \E tx \in b : tx.from = s /\ tx.nonce = m
  <2>1. NonceTable[s] \in Nat BY <1>3
  <2>2. Executes(b, s) BY <1>3, BatchFacts
  <2> HIDE DEF b
  <2> QED BY <2>1, <2>2 DEF Executes
<1>5. here => x < n /\ n <= x + k
  <2> SUFFICES ASSUME NEW i \in B, Mempool[i].from = s, Mempool[i].nonce = n
               PROVE  x < n /\ n <= x + k
    OBVIOUS
  <2>1. n <= x + k BY <1>3, BatchIsCounted
  <2> DEFINE mine == {j \in B : Mempool[j].from = s}
  <2>2. {Mempool[j].nonce : j \in mine} = (x + 1)..(x + RunLength(s)) BY DEF Batches
  <2>3. n \in {Mempool[j].nonce : j \in mine} OBVIOUS
  <2> HIDE DEF mine
  <2>4. n \in (x + 1)..(x + RunLength(s)) BY <2>2, <2>3
  <2>5. x \in Nat BY <1>3
  <2> HIDE DEF x, k
  <2>6. x < n BY <2>4, <2>5
  <2> QED BY <2>1, <2>6
<1>6. base \in Blocks /\ Times(base, s, n) = t
  <2>1. Genesis \in SUBSET Tx BY DEF Genesis
  <2>2. <<Genesis>> \in Blocks BY <2>1 DEF Blocks
  <2>3. CASE Blockchain = << >> BY <2>2, <2>3, TimesOfGenesis
  <2>4. CASE Blockchain # << >> BY <1>3, <2>4
  <2> QED BY <2>3, <2>4
<1>7. x1 = x + k /\ Blockchain' = base \o <<b>> BY <1>1
<1>8. t1 <= t + 1 /\ (~here => t1 = t)
  <2>1. b \in SUBSET Tx BY <1>4
  <2> HIDE DEF b, base
  <2>2. Times(base \o <<b>>, s, n) <= Times(base, s, n) + 1
        /\ (~here => Times(base \o <<b>>, s, n) = Times(base, s, n))
    BY <1>6, <2>1, TimesOfNext
  <2> QED BY <1>6, <1>7, <2>2
<1>9. t1 \in Nat
  <2>1. Blockchain' \in Blocks BY AddBlockSafe DEF Fair, Safe, Types
  <2> QED BY <2>1, TimesType
<1>10. NoncesDue = 0 /\ NoncesDue' = 1
  BY <1>2, Lines DEF NoncesDue
<1>11. /\ t <= (IF n <= x THEN 1 ELSE 0) + h
       /\ y < n /\ n <= x => t <= 0 + h
  BY <1>2, <1>10 DEF Fair, Replays, ReplayOf, Counted
<1>12. /\ t \in Nat /\ h \in Nat /\ x \in Nat /\ y \in Nat
  BY ReplayTypes DEF Fair
<1>13. ~here => ~(x < n /\ n <= x + k)
  <2> SUFFICES ASSUME x < n, n <= x + k PROVE here OBVIOUS
  <2>1. n \in (x + 1)..(x + k)
    <3> HIDE DEF x, k
    <3> QED BY <1>4, <1>12
  <2> QED BY <1>4, <2>1
<1>14. Harm' = h BY <1>2 DEF Harm
<1>15. /\ t1 <= (IF n <= x1 THEN 1 ELSE 0) + h
       /\ y < n /\ n <= x1 => t1 <= 1 + h
  <2>1. k \in Nat BY <1>4
  <2> HIDE DEF here, t, t1, h, x, x1, y, k
  <2> QED BY <1>5, <1>7, <1>8, <1>9, <1>11, <1>12, <1>13, <2>1
<1> QED BY <1>2, <1>10, <1>14, <1>15 DEF ReplayOf, Counted

LEMMA StepReplays == Fair /\ [Next]_vars => Replays'
<1> SUFFICES ASSUME Fair, [Next]_vars PROVE Replays' OBVIOUS
<1>1. ASSUME UNCHANGED <<NonceTable, disk, cmd, cuts, fails, Blockchain>>,
             NoncesDue = 0 \/ NoncesDue' = NoncesDue
      PROVE  Replays'
  BY <1>1, QuietReplays, Zenon
<1>2. CASE Save \/ SaveFails BY <1>2, SaveReplays
<1>3. CASE FinishSave \/ SkipCommit \/ Gives
  <2>1. UNCHANGED <<NonceTable, disk, cmd, cuts, fails, Blockchain>> /\ pc # "adding"
    BY <1>3, GiftIsGrant
    DEF FinishSave, SkipCommit, Committing, Grant, memory, history, grants, failures
  <2>2. NoncesDue = 0 BY <2>1 DEF NoncesDue
  <2> QED BY <1>1, <2>1, <2>2
<1>4. CASE InitLedger
  <2>1. /\ pc = "idle" /\ UNCHANGED <<NonceTable, disk, cmd, cuts, fails>>
        /\ \/ Blockchain = << >> /\ Blockchain' = <<Genesis>>
           \/ Blockchain' = Blockchain
    BY <1>4 DEF InitLedger, history, grants, failures
  <2>2. NoncesDue = 0 BY <2>1 DEF NoncesDue
  <2>3. \A s \in Accounts, n \in Nat \ {0} :
          Times(Blockchain', s, n) = Times(Blockchain, s, n)
    BY <2>1, TimesOfGenesis, Zenon
  <2> QED BY <2>1, <2>2, <2>3, QuietReplays
<1>5. CASE AddBlock BY <1>5, AddBlockReplays
<1>6. CASE RemoveCommittedFromMempool
  <2>1. UNCHANGED <<NonceTable, disk, cmd, cuts, fails, Blockchain>> /\ todo = << >>
    BY <1>6 DEF RemoveCommittedFromMempool, Saved, history, grants, failures
  <2>2. NoncesDue = 0 BY <2>1 DEF NoncesDue
  <2> QED BY <1>1, <2>1, <2>2
<1>7. CASE UNCHANGED vars
  <2>1. UNCHANGED <<NonceTable, disk, cmd, cuts, fails, Blockchain, pc, todo>>
    BY <1>7 DEF vars, memory, control, history, grants, failures
  <2>2. NoncesDue' = NoncesDue BY <2>1 DEF NoncesDue
  <2> QED BY <1>1, <2>1, <2>2
<1>8. ASSUME NEW c \in Commands, Launch(c) PROVE Replays' BY <1>8, LaunchReplays
<1>9. CASE Return \/ Die BY <1>9, EndReplays DEF Return, Die
<1>10. ASSUME NEW from \in Accounts, NEW to \in Accounts, Submit(from, to) PROVE Replays'
  <2>1. UNCHANGED <<NonceTable, disk, cmd, cuts, fails, Blockchain, pc, todo>>
    BY <1>10 DEF Submit, control, history, grants, failures
  <2>2. NoncesDue' = NoncesDue BY <2>1 DEF NoncesDue
  <2> QED BY <1>1, <2>1, <2>2
<1> QED BY <1>2, <1>3, <1>4, <1>5, <1>6, <1>7, <1>8, <1>9, <1>10 DEF Next, Run, Gives

LEMMA StepForgotten == Safe /\ Forgotten /\ [Next]_vars => Forgotten'
<1> SUFFICES ASSUME Safe, Forgotten, [Next]_vars, cmd' = "none" PROVE Blockchain' = << >>
  BY DEF Forgotten
<1>1. CASE UNCHANGED vars BY <1>1 DEF vars, memory, control, Forgotten
<1>2. CASE Return \/ Die BY <1>2 DEF Return, Die, End
<1>3. ASSUME NEW c \in Commands, Launch(c) PROVE FALSE
  BY <1>3, NodeAssumption DEF Launch, AllCommands
<1>4. CASE Save \/ SaveFails
  <2>1. cmd' = cmd /\ todo # << >> BY <1>4 DEF Save, SaveFails
  <2> QED BY <2>1 DEF Safe, AtRest
<1>5. CASE FinishSave \/ InitLedger \/ AddBlock \/ SkipCommit \/ RemoveCommittedFromMempool
  <2>1. cmd' = cmd /\ (cmd # "none" \/ pc # "idle")
    BY <1>5 DEF FinishSave, InitLedger, AddBlock, SkipCommit, Committing,
       RemoveCommittedFromMempool
  <2> QED BY <2>1 DEF Safe, AtRest
<1>6. ASSUME NEW from \in Accounts, NEW to \in Accounts, Submit(from, to) PROVE FALSE
  BY <1>6 DEF Submit, control
<1>7. CASE Gives
  <2>1. cmd' = cmd /\ cmd # "none" BY <1>7, GiftIsGrant DEF Grant
  <2> QED BY <2>1
<1> QED BY <1>1, <1>2, <1>3, <1>4, <1>5, <1>6, <1>7 DEF Next, Run, Gives

LEMMA InitPlaces == Init => Places
BY DEF Init, Places

\* ReplaysNeedCuts for any accounts, commands and bounds: SaveAllData writes the chain
\* before the nonces, so that only a save that is cut off or fails in between lets a
\* nonce be executed again, and lets it once.
THEOREM ReplaysAreRare == Spec => []ReplaysNeedCuts
<1>1. Fair => ReplaysNeedCuts
  <2> SUFFICES ASSUME Fair, NEW s \in Accounts, NEW n \in 1..MaxTxs
               PROVE  Times(Blockchain, s, n) <= 1 + cuts + fails
    BY DEF ReplaysNeedCuts, Times
  <2>1. n \in Nat \ {0} BY NodeAssumption
  <2>2. CASE cmd # "none"
    <3> DEFINE t == Times(Blockchain, s, n)  c == Counted(NonceTable, s, n)
    <3>1. t <= c + Harm /\ t \in Nat /\ c \in 0..1
      BY <2>1, <2>2, ReplayTypes DEF Fair, Replays, ReplayOf
    <3>2. cuts \in Nat /\ fails \in Nat /\ Harm = cuts + fails BY DEF Fair, Kinds, Harm
    <3> HIDE DEF t, c
    <3>3. t <= 1 + cuts + fails BY <3>1, <3>2
    <3> QED BY <3>3 DEF t
  <2>3. CASE cmd = "none"
    <3>1. Times(Blockchain, s, n) = 0 BY <2>3, TimesOfGenesis DEF Fair, Forgotten
    <3>2. cuts \in Nat /\ fails \in Nat BY DEF Fair, Kinds
    <3> QED BY <3>1, <3>2
  <2> QED BY <2>2, <2>3
<1>2. Init => Fair
  BY InitSafe, InitKinds, InitPlaces, InitReplays DEF Fair, Forgotten, Init
<1>3. Fair /\ [Next]_vars => Fair'
  BY StepSafe, StepKinds, StepPlaces, StepForgotten, StepReplays DEF Fair
<1> QED BY <1>1, <1>2, <1>3, PTL DEF Spec

-----------------------------------------------------------------------------
(* Money *)

\* Blocks with a reward.
Minted(chain) == IF chain = << >> THEN 0 ELSE Len(chain) - 1

Base == SumFunction(InitBalances) + granted

\* The balances in memory hold the rewards of i blocks, and what is not on disk yet of an
\* airdrop or a slash.
MemoryHolds(i) == SumFunction(Balances) = Base + grant + BlockReward * i

DiskHolds(j) == SumFunction(disk.balances) = Base + BlockReward * j

\* The rewards a process has found on disk are off by what earlier processes have done
\* (before); its own Puts of the balances (late) and of the chain (short) may have failed,
\* and the block that is being added may be in line.
Account(i, j, before, late, short) ==
  /\ MemoryHolds(i) /\ DiskHolds(j)
  /\ before + late + short <= fails
  /\ i - Minted(Blockchain) \in (-before)..(cuts + before)
  /\ i - j \in 0..(late + BalancesDue)
  /\ Minted(Blockchain) - Minted(disk.blockchain) \in ChainDue..(short + ChainDue)

Running ==
  cmd # "none" =>
    \E i, j \in Int, before, late, short \in Nat : Account(i, j, before, late, short)

AtRestHolds ==
  cmd = "none" =>
    /\ grant = 0
    /\ \E j \in Int : /\ DiskHolds(j)
                      /\ j - Minted(disk.blockchain) \in (-fails)..(cuts + fails)

Funded == Safe /\ Kinds /\ Places /\ Running /\ AtRestHolds

LEMMA MintedType ==
  ASSUME NEW c \in Blocks
  PROVE  Minted(c) \in Nat
BY EmptySeq, LenProperties DEF Blocks, Minted

LEMMA MintedGenesis == Minted(<< >>) = 0 /\ Minted(<<Genesis>>) = 0
BY DEF Minted

\* The first block after genesis, and every other one, is minted once.
LEMMA MintedNext ==
  ASSUME NEW c \in Blocks, NEW b \in SUBSET Tx
  PROVE  Minted((IF c = << >> THEN <<Genesis>> ELSE c) \o <<b>>) = Minted(c) + 1
<1> DEFINE base == IF c = << >> THEN <<Genesis>> ELSE c
<1>1. base \in Blocks /\ Len(base) \in Nat /\ Minted(c) = Len(base) - 1
  <2>1. Genesis \in SUBSET Tx BY DEF Genesis
  <2>2. <<Genesis>> \in Blocks /\ Len(<<Genesis>>) = 1 BY <2>1 DEF Blocks
  <2>3. CASE c = << >> BY <2>2, <2>3 DEF Minted
  <2>4. CASE c # << >>
    <3>1. base = c /\ Len(c) \in Nat /\ Minted(c) = Len(c) - 1
      BY <2>4 DEF Minted, Blocks
    <3> QED BY <3>1
  <2> QED BY <2>3, <2>4
<1> HIDE DEF base
<1>2. base \o <<b>> # << >> /\ Len(base \o <<b>>) = Len(base) + 1 BY <1>1 DEF Blocks
<1>3. Minted(base \o <<b>>) = Minted(c) + 1 BY <1>1, <1>2 DEF Minted
<1> QED BY <1>3 DEF base

LEMMA MintedBlocks ==
  ASSUME Safe
  PROVE  Cardinality(SavedBlocks) = Minted(disk.blockchain)
<1> DEFINE c == disk.blockchain  n == Len(c)
<1>1. c \in Blocks BY DEF Safe, Types
<1>2. n \in Nat /\ DOMAIN c = 1..n /\ (c = << >> <=> n = 0)
  BY <1>1, EmptySeq, LenProperties DEF Blocks
<1>3. Minted(c) = IF n = 0 THEN 0 ELSE n - 1 BY <1>2 DEF Minted
<1> HIDE DEF n
<1>4. SavedBlocks = 2..n BY <1>2 DEF SavedBlocks
<1>5. Cardinality(2..n) = IF 2 > n THEN 0 ELSE n - 2 + 1
  <2>1. 2 \in Int /\ n \in Int BY <1>2
  <2> QED BY <2>1, FS_Interval
<1> QED BY <1>2, <1>3, <1>4, <1>5

\* A block takes from its senders what it gives to its recipients and its proposer, and
\* the reward.
LEMMA BlockMints ==
  ASSUME Balances \in [Accounts -> Int], NEW b \in SUBSET Tx, IsFiniteSet(b),
         NEW p \in Accounts
  PROVE  SumFunction([a \in Accounts |->
           Balances[a] - (Amount + Fee) * Cardinality(SentBy(a, b))
             + Amount * Cardinality(SentTo(a, b))
             + (IF a = p THEN Fee * Cardinality(b) + BlockReward ELSE 0)])
           = SumFunction(Balances) + BlockReward
<1> DEFINE n == Cardinality(b)
           by == [a \in Accounts |-> Cardinality(SentBy(a, b))]
           to == [a \in Accounts |-> Cardinality(SentTo(a, b))]
           paid == [a \in Accounts |-> (-(Amount + Fee)) * by[a]]
           got == [a \in Accounts |-> Amount * to[a]]
           gain == Fee * n + BlockReward
           prize == [a \in Accounts |-> IF a = p THEN gain ELSE 0]
           f1 == [a \in Accounts |-> Balances[a] + paid[a]]
           f2 == [a \in Accounts |-> f1[a] + got[a]]
           f3 == [a \in Accounts |-> f2[a] + prize[a]]
           all == [a \in Accounts |->
                    Balances[a] - (Amount + Fee) * Cardinality(SentBy(a, b))
                      + Amount * Cardinality(SentTo(a, b))
                      + (IF a = p THEN Fee * Cardinality(b) + BlockReward ELSE 0)]
<1>1. /\ IsFiniteSet(Accounts) /\ Amount \in Int /\ Fee \in Int /\ BlockReward \in Int
      /\ n \in Nat
  BY NodeAssumption, FS_CardinalityType
<1>2. by \in [Accounts -> Nat] /\ SumFunction(by) = n
  <2> DEFINE own == [tx \in b |-> tx.from]
  <2>1. own \in [b -> Accounts] BY DEF Tx
  <2>2. by = [a \in Accounts |-> Cardinality({tx \in b : own[tx] = a})]
    <3>1. \A a \in Accounts : SentBy(a, b) = {tx \in b : own[tx] = a} BY DEF SentBy
    <3> QED BY <3>1
  <2> HIDE DEF own, by
  <2> QED BY <1>1, <2>1, <2>2, CountByOwner
<1>3. to \in [Accounts -> Nat] /\ SumFunction(to) = n
  <2> DEFINE own == [tx \in b |-> tx.to]
  <2>1. own \in [b -> Accounts] BY DEF Tx
  <2>2. to = [a \in Accounts |-> Cardinality({tx \in b : own[tx] = a})]
    <3>1. \A a \in Accounts : SentTo(a, b) = {tx \in b : own[tx] = a} BY DEF SentTo
    <3> QED BY <3>1
  <2> HIDE DEF own, to
  <2> QED BY <1>1, <2>1, <2>2, CountByOwner
<1>4. all = f3
  <2>1. ASSUME NEW a \in Accounts PROVE all[a] = f3[a]
    <3> DEFINE k == Cardinality(SentBy(a, b))  m == Cardinality(SentTo(a, b))
               c == Amount + Fee  u == Balances[a]  g == IF a = p THEN gain ELSE 0
    <3>1. k \in Nat /\ m \in Nat
      <4>1. by[a] = k /\ to[a] = m OBVIOUS
      <4> HIDE DEF by, to, k, m
      <4> QED BY <1>2, <1>3, <4>1
    <3>2. c \in Int /\ u \in Int /\ g \in Int
      <4>1. Fee * n \in Int BY <1>1, ProductType
      <4> HIDE DEF n
      <4> QED BY <1>1, <4>1
    <3>3. all[a] = u - c * k + Amount * m + g OBVIOUS
    <3>4. f3[a] = u + (-c) * k + Amount * m + g OBVIOUS
    <3> HIDE DEF k, m, c, u, g, all, f3
    <3>5. (-c) * k = -(c * k) /\ c * k \in Int /\ Amount * m \in Int
      BY <1>1, <3>1, <3>2
    <3> QED BY <3>2, <3>3, <3>4, <3>5
  <2> QED BY <2>1
<1>5. gain \in Int /\ Fee * n \in Int BY <1>1, ProductType
<1>6. paid \in [Accounts -> Int] /\ SumFunction(paid) = (-(Amount + Fee)) * n
  <2> DEFINE c == -(Amount + Fee)
  <2>1. c \in Int BY <1>1
  <2>2. paid = [a \in Accounts |-> c * by[a]] OBVIOUS
  <2> HIDE DEF by, c, paid
  <2>3. paid \in [Accounts -> Int] /\ by \in [Accounts -> Int]
        /\ \A a \in Accounts : paid[a] = c * by[a]
    BY <1>2, <2>1, <2>2
  <2>4. SumFunction(paid) = c * SumFunction(by) BY <1>1, <2>1, <2>3, SumTimes
  <2> QED BY <1>2, <2>3, <2>4 DEF c
<1>7. got \in [Accounts -> Int] /\ SumFunction(got) = Amount * n
  <2> HIDE DEF to
  <2>1. got \in [Accounts -> Int] /\ to \in [Accounts -> Int] /\ Amount \in Int
        /\ \A a \in Accounts : got[a] = Amount * to[a]
    BY <1>1, <1>3
  <2> HIDE DEF got
  <2>2. SumFunction(got) = Amount * SumFunction(to) BY <1>1, <2>1, SumTimes
  <2> QED BY <1>3, <2>1, <2>2
<1>8. prize \in [Accounts -> Int] /\ SumFunction(prize) = gain
  <2> HIDE DEF gain
  <2>1. prize \in [Accounts -> Int] BY <1>5
  <2>2. SumFunction(prize) = gain BY <1>1, <1>5, SumSingle
  <2> QED BY <2>1, <2>2
<1>9. Balances \in [Accounts -> Int] OBVIOUS
<1>10. f1 \in [Accounts -> Int] /\ SumFunction(f1) = SumFunction(Balances) + SumFunction(paid)
  <2> HIDE DEF paid
  <2>1. f1 \in [Accounts -> Int] /\ \A a \in Accounts : f1[a] = Balances[a] + paid[a]
    BY <1>6, <1>9
  <2> HIDE DEF f1
  <2> QED BY <1>1, <1>6, <1>9, <2>1, SumAdd
<1>11. f2 \in [Accounts -> Int] /\ SumFunction(f2) = SumFunction(f1) + SumFunction(got)
  <2> HIDE DEF f1, got
  <2>1. f2 \in [Accounts -> Int] /\ \A a \in Accounts : f2[a] = f1[a] + got[a]
    BY <1>7, <1>10
  <2> HIDE DEF f2
  <2> QED BY <1>1, <1>7, <1>10, <2>1, SumAdd
<1>12. SumFunction(f3) = SumFunction(f2) + SumFunction(prize)
  <2> HIDE DEF f2, prize
  <2>1. f3 \in [Accounts -> Int] /\ \A a \in Accounts : f3[a] = f2[a] + prize[a]
    BY <1>8, <1>11
  <2> HIDE DEF f3
  <2> QED BY <1>1, <1>8, <1>11, <2>1, SumAdd
<1>13. SumFunction(Balances) \in Int BY <1>1, <1>9, SumType
<1> DEFINE S == SumFunction(Balances)
<1>14. SumFunction(all)
         = S + (-(Amount + Fee)) * n + Amount * n + (Fee * n + BlockReward)
  <2> HIDE DEF f1, f2, f3, paid, got, prize, all, n
  <2> QED BY <1>4, <1>6, <1>7, <1>8, <1>10, <1>11, <1>12 DEF gain
<1> HIDE DEF S, n, all
<1>15. (-(Amount + Fee)) * n = -(Amount * n) - (Fee * n) BY <1>1
<1>16. Amount * n \in Int /\ Fee * n \in Int /\ S \in Int BY <1>1, <1>13, ProductType DEF S
<1>17. SumFunction(all) = S + BlockReward BY <1>1, <1>14, <1>15, <1>16
<1> QED BY <1>17 DEF S, all, n

LEMMA SumsOfMoney ==
  ASSUME Safe, Kinds
  PROVE  /\ SumFunction(Balances) \in Int /\ SumFunction(disk.balances) \in Int
         /\ SumFunction(InitBalances) \in Int /\ Base \in Int /\ grant \in Int
         /\ Minted(Blockchain) \in Nat /\ Minted(disk.blockchain) \in Nat
         /\ cuts \in Nat /\ fails \in Nat
<1>1. IsFiniteSet(Accounts) /\ InitBalances \in [Accounts -> Int] BY NodeAssumption
<1>2. SumFunction(Balances) \in Int /\ SumFunction(disk.balances) \in Int
  BY <1>1, SumType DEF Kinds
<1>3. SumFunction(InitBalances) \in Int BY <1>1, SumType
<1>4. grant \in Int /\ granted \in Int /\ cuts \in Nat /\ fails \in Nat BY DEF Kinds
<1>5. Base \in Int BY <1>3, <1>4 DEF Base
<1>6. Minted(Blockchain) \in Nat /\ Minted(disk.blockchain) \in Nat
  BY MintedType DEF Safe, Types
<1> QED BY <1>2, <1>3, <1>4, <1>5, <1>6

LEMMA InitFunds == Init => Running /\ AtRestHolds
<1> SUFFICES ASSUME Init PROVE AtRestHolds BY DEF Init, Running
<1> DEFINE s == SumFunction(InitBalances)
<1>1. s \in Int BY SumType, NodeAssumption
<1>2. SumFunction(disk.balances) = s /\ Base = s + 0 BY DEF Init, Base
<1>3. Minted(disk.blockchain) = 0 /\ cuts = 0 /\ fails = 0 /\ grant = 0
  BY MintedGenesis DEF Init
<1> HIDE DEF s
<1>4. BlockReward * 0 = 0 BY NodeAssumption
<1>5. DiskHolds(0) BY <1>1, <1>2, <1>4 DEF DiskHolds
<1>6. 0 - Minted(disk.blockchain) \in (-fails)..(cuts + fails) BY <1>3
<1> QED BY <1>3, <1>5, <1>6 DEF AtRestHolds

\* A step that neither moves money, nor adds a block, nor writes.
LEMMA QuietFunds ==
  ASSUME Funded, cmd # "none",
         UNCHANGED <<Balances, disk, cmd, cuts, fails, grant, granted>>,
         Minted(Blockchain') = Minted(Blockchain),
         BalancesDue' = BalancesDue, ChainDue' = ChainDue
  PROVE  Running' /\ AtRestHolds'
<1>1. PICK i \in Int, j \in Int, before \in Nat, late \in Nat, short \in Nat :
        Account(i, j, before, late, short)
  BY DEF Funded, Running
<1>2. MemoryHolds(i)' BY <1>1 DEF Account, MemoryHolds, Base
<1>3. DiskHolds(j)' BY <1>1 DEF Account, DiskHolds, Base
<1>4. Account(i, j, before, late, short)' BY <1>1, <1>2, <1>3 DEF Account
<1> QED BY <1>4 DEF Running, AtRestHolds

\* A Put of the balances brings the disk to what memory holds, one of the chain brings
\* it to the blocks of memory.
LEMMA SaveFunds ==
  ASSUME Funded, Save
  PROVE  Running' /\ AtRestHolds'
<1> DEFINE key == Head(todo)
           d == BalancesDue  d1 == BalancesDue'  e == ChainDue  e1 == ChainDue'
           L == Minted(Blockchain)  D == Minted(disk.blockchain)
           D1 == Minted(disk.blockchain')
<1>1. /\ todo # << >> /\ todo \in Seq(Keys) /\ todo' = Tail(todo)
      /\ UNCHANGED <<cmd, pc, Balances, Blockchain, cuts, fails>>
      /\ IF key = "balances" THEN granted' = granted + grant /\ grant' = 0
                            ELSE grant' = grant /\ granted' = granted
  BY DEF Save, memory, grants, Funded, Safe, Types
<1>2. /\ cmd # "none" /\ cmd' # "none"
      /\ IF key = "balances" THEN d1 = 0 /\ e1 = e
         ELSE IF key = "blockchain" THEN d1 = 0 /\ e1 = 0 ELSE d1 = d /\ e1 = e
  BY <1>1, NextInLine DEF Funded
<1>3. PICK i \in Int, j \in Int, before \in Nat, late \in Nat, short \in Nat :
        Account(i, j, before, late, short)
  BY <1>2 DEF Funded, Running
<1>4. /\ L \in Nat /\ D \in Nat /\ cuts \in Nat /\ fails \in Nat /\ d \in 0..1 /\ e \in 0..1
      /\ BlockReward * i \in Int /\ BlockReward * j \in Int
  BY SumsOfMoney, DueType, ProductType, NodeAssumption DEF Funded
<1>5. /\ before + late + short <= fails /\ i - L \in (-before)..(cuts + before)
      /\ i - j \in 0..(late + d) /\ L - D \in e..(short + e)
  BY <1>3 DEF Account
<1>6. CASE key = "balances"
  <2>1. disk'.balances = Balances /\ disk'.blockchain = disk.blockchain
    BY <1>6, SaveEffect DEF Funded, InMemory, Keys
  <2>2. MemoryHolds(i)' /\ DiskHolds(i)'
    <3> DEFINE s == SumFunction(Balances)  b == SumFunction(InitBalances)
               r == BlockReward * i
    <3>1. s = (b + granted) + grant + r BY <1>3 DEF Account, MemoryHolds, Base
    <3>2. granted' = granted + grant /\ grant' = 0 BY <1>1, <1>6
    <3>3. b \in Int /\ granted \in Int /\ grant \in Int /\ r \in Int
      BY <1>4, SumsOfMoney DEF Funded, Kinds
    <3> HIDE DEF s, b, r
    <3>4. s = (b + granted') + r /\ s = (b + granted') + grant' + r BY <3>1, <3>2, <3>3
    <3>5. DiskHolds(i)' BY <2>1, <3>4 DEF DiskHolds, Base, s, b, r
    <3>6. MemoryHolds(i)' BY <1>1, <3>4 DEF MemoryHolds, Base, s, b, r
    <3> QED BY <3>5, <3>6
  <2>3. i - i \in 0..(late + d1) /\ L - D \in e1..(short + e1)
    <3>1. d1 = 0 /\ e1 = e BY <1>2, <1>6
    <3> HIDE DEF d, d1, e, e1, L, D
    <3> QED BY <1>5, <3>1
  <2>4. Account(i, i, before, late, short)'
    BY <1>1, <1>5, <2>1, <2>2, <2>3 DEF Account
  <2> QED BY <1>2, <2>4 DEF Running, AtRestHolds
<1>7. CASE key # "balances"
  <2>1. disk'.balances = disk.balances
        /\ disk'.blockchain = IF key = "blockchain" THEN Blockchain ELSE disk.blockchain
    BY <1>7, SaveEffect DEF Funded, InMemory, Keys
  <2>2. grant' = grant /\ granted' = granted BY <1>1, <1>7
  <2>3. MemoryHolds(i)' /\ DiskHolds(j)'
    BY <1>1, <1>3, <2>1, <2>2 DEF Account, MemoryHolds, DiskHolds, Base
  <2>4. i - j \in 0..(late + d1) /\ L - D1 \in e1..(short + e1)
    <3>1. d1 = d \/ (d1 = 0 /\ key = "blockchain") BY <1>2, <1>7
    <3>2. \/ e1 = 0 /\ D1 = L
          \/ e1 = e /\ D1 = D
      BY <1>2, <1>7, <2>1
    <3>3. key = "blockchain" => d = 0
      <4>1. pc = "adding" => todo # AllKeys \/ key = "balances" BY Lines
      <4> QED BY <1>7, <4>1 DEF BalancesDue
    <3> HIDE DEF d, d1, e, e1, L, D, D1, key
    <3>4. d1 = d BY <3>1, <3>3
    <3> QED BY <1>4, <1>5, <3>2, <3>4
  <2>5. Account(i, j, before, late, short)'
    BY <1>1, <1>5, <2>1, <2>3, <2>4 DEF Account
  <2> QED BY <1>2, <2>5 DEF Running, AtRestHolds
<1> QED BY <1>6, <1>7

\* A Put that fails is remembered.
LEMMA SaveFailsFunds ==
  ASSUME Funded, SaveFails
  PROVE  Running' /\ AtRestHolds'
<1> DEFINE key == Head(todo)
           d == BalancesDue  d1 == BalancesDue'  e == ChainDue  e1 == ChainDue'
           L == Minted(Blockchain)  D == Minted(disk.blockchain)
<1>1. /\ todo # << >> /\ todo \in Seq(Keys) /\ todo' = Tail(todo)
      /\ UNCHANGED <<cmd, pc, Balances, Blockchain, disk, cuts, grant, granted>>
      /\ fails' = fails + 1
  BY DEF SaveFails, memory, grants, Funded, Safe, Types
<1>2. /\ cmd # "none" /\ cmd' # "none"
      /\ IF key = "balances" THEN d1 = 0 /\ e1 = e
         ELSE IF key = "blockchain" THEN d1 = 0 /\ e1 = 0 ELSE d1 = d /\ e1 = e
  BY <1>1, NextInLine DEF Funded
<1>3. PICK i \in Int, j \in Int, before \in Nat, late \in Nat, short \in Nat :
        Account(i, j, before, late, short)
  BY <1>2 DEF Funded, Running
<1>4. /\ L \in Nat /\ D \in Nat /\ cuts \in Nat /\ fails \in Nat /\ d \in 0..1 /\ e \in 0..1
      /\ d <= e
  BY SumsOfMoney, DueType DEF Funded
<1>5. /\ before + late + short <= fails /\ i - L \in (-before)..(cuts + before)
      /\ i - j \in 0..(late + d) /\ L - D \in e..(short + e)
  BY <1>3 DEF Account
<1>6. MemoryHolds(i)' /\ DiskHolds(j)'
  BY <1>1, <1>2, <1>3 DEF Account, MemoryHolds, DiskHolds, Base
<1>7. PICK l \in Nat, s \in Nat :
        /\ before + l + s <= fails' /\ i - j \in 0..(l + d1) /\ L - D \in e1..(s + e1)
  <2>1. CASE key = "balances"
    <3>1. d1 = 0 /\ e1 = e BY <1>2, <2>1
    <3> HIDE DEF d, d1, e, e1, L, D, key
    <3>2. /\ before + (late + 1) + short <= fails'
          /\ i - j \in 0..((late + 1) + d1) /\ L - D \in e1..(short + e1)
      BY <1>1, <1>4, <1>5, <3>1
    <3> QED BY <3>2
  <2>2. CASE key = "blockchain"
    <3>1. d1 = 0 /\ e1 = 0 BY <1>2, <2>2
    <3>2. d = 0
      <4>1. pc = "adding" => todo # AllKeys BY <2>2, Lines
      <4> QED BY <4>1 DEF BalancesDue
    <3> HIDE DEF d, d1, e, e1, L, D, key
    <3>3. /\ before + late + (short + 1) <= fails'
          /\ i - j \in 0..(late + d1) /\ L - D \in e1..((short + 1) + e1)
      BY <1>1, <1>4, <1>5, <3>1, <3>2
    <3> QED BY <3>3
  <2>3. CASE key \notin {"balances", "blockchain"}
    <3>1. d1 = d /\ e1 = e BY <1>2, <2>3
    <3> HIDE DEF d, d1, e, e1, L, D, key
    <3>2. /\ before + late + short <= fails'
          /\ i - j \in 0..(late + d1) /\ L - D \in e1..(short + e1)
      BY <1>1, <1>4, <1>5, <3>1
    <3> QED BY <3>2
  <2> QED BY <2>1, <2>2, <2>3
<1>8. Account(i, j, before, l, s)' BY <1>1, <1>5, <1>6, <1>7 DEF Account
<1> QED BY <1>2, <1>8 DEF Running, AtRestHolds

\* A process starts from the balances and the chain on disk.
LEMMA LaunchFunds ==
  ASSUME Funded, NEW c \in Commands, Launch(c)
  PROVE  Running' /\ AtRestHolds'
<1>1. /\ cmd = "none" /\ cmd' = c /\ pc' = "idle" /\ todo' = << >>
      /\ Balances' = disk.balances /\ Blockchain' = disk.blockchain
      /\ UNCHANGED <<disk, cuts, grant, granted, fails>>
  BY DEF Launch, LoadAllData, grants, failures
<1>2. c # "none" BY NodeAssumption DEF AllCommands
<1>3. PICK j \in Int : /\ DiskHolds(j)
                       /\ j - Minted(disk.blockchain) \in (-fails)..(cuts + fails)
  BY <1>1 DEF Funded, AtRestHolds
<1> DEFINE D == Minted(disk.blockchain)
<1>4. D \in Nat /\ cuts \in Nat /\ fails \in Nat BY SumsOfMoney DEF Funded
<1>5. BalancesDue' = 0 /\ ChainDue' = 0 BY <1>1 DEF BalancesDue, ChainDue
<1>6. MemoryHolds(j)' /\ DiskHolds(j)'
  <2>1. grant = 0 /\ Base \in Int BY <1>1, SumsOfMoney DEF Funded, AtRestHolds
  <2>2. Base + grant = Base BY <2>1
  <2>3. Base' = Base /\ grant' = grant BY <1>1 DEF Base
  <2> QED BY <1>1, <1>3, <2>2, <2>3 DEF MemoryHolds, DiskHolds
<1>7. /\ fails + 0 + 0 <= fails /\ j - D \in (-fails)..(cuts + fails)
      /\ j - j \in 0..(0 + 0) /\ D - D \in 0..(0 + 0)
  <2> HIDE DEF D
  <2>1. j - D \in (-fails)..(cuts + fails) BY <1>3 DEF D
  <2> QED BY <1>4, <2>1
<1>8. Account(j, j, fails, 0, 0)' BY <1>1, <1>5, <1>6, <1>7 DEF Account
<1>9. 0 \in Nat /\ fails' \in Nat BY <1>1, <1>4
<1> QED BY <1>1, <1>2, <1>8, <1>9 DEF Running, AtRestHolds

\* A save that is cut off between the balances and the chain is one of cuts.
LEMMA EndFunds ==
  ASSUME Funded, End
  PROVE  Running' /\ AtRestHolds'
<1> DEFINE d == BalancesDue  e == ChainDue  k == cuts  k1 == cuts'
           L == Minted(Blockchain)  D == Minted(disk.blockchain)
<1>1. /\ cmd # "none" /\ cmd' = "none" /\ k1 = (IF Working THEN k + 1 ELSE k)
      /\ grant' = 0 /\ UNCHANGED <<disk, fails, granted>>
  BY DEF End
<1>2. PICK i \in Int, j \in Int, before \in Nat, late \in Nat, short \in Nat :
        Account(i, j, before, late, short)
  BY <1>1 DEF Funded, Running
<1>3. /\ before + late + short <= fails /\ i - L \in (-before)..(k + before)
      /\ i - j \in 0..(late + d) /\ L - D \in e..(short + e)
  BY <1>2 DEF Account
<1>4. /\ L \in Nat /\ D \in Nat /\ k \in Nat /\ fails \in Nat /\ d \in 0..1 /\ e \in 0..1
      /\ d <= e /\ (e = 1 => Working)
  BY SumsOfMoney, DueType DEF Funded, Working
<1>5. DiskHolds(j)' BY <1>1, <1>2 DEF Account, DiskHolds, Base
<1>6. j - D \in (-fails)..(k1 + fails)
  <2> HIDE DEF d, e, k, k1, L, D
  <2>1. k1 >= k + e /\ k1 \in Nat BY <1>1, <1>4
  <2>2. j - D <= k1 + fails BY <1>3, <1>4, <2>1
  <2>3. -fails <= j - D BY <1>3, <1>4
  <2> QED BY <1>4, <2>1, <2>2, <2>3
<1> QED BY <1>1, <1>5, <1>6 DEF Running, AtRestHolds

LEMMA AddBlockFunds ==
  ASSUME Funded, AddBlock
  PROVE  Running' /\ AtRestHolds'
<1>1. PICK p \in Proposers, B \in Batches :
        LET b == {Mempool[x] : x \in B}
        IN  /\ Balances' = [a \in Accounts |->
                 Balances[a] - (Amount + Fee) * Cardinality(SentBy(a, b))
                   + Amount * Cardinality(SentTo(a, b))
                   + (IF a = p THEN Fee * Cardinality(b) + BlockReward ELSE 0)]
            /\ Blockchain' =
                 (IF Blockchain = << >> THEN <<Genesis>> ELSE Blockchain) \o <<b>>
  BY DEF AddBlock
<1> DEFINE b == {Mempool[x] : x \in B}  s == SumFunction(Balances)
           L == Minted(Blockchain)  D == Minted(disk.blockchain)
<1>2. /\ cmd \in {"start", "commit", "auto-commit", "stress"} /\ pc = "idle"
      /\ pc' = "adding" /\ todo' = AllKeys
      /\ UNCHANGED <<cmd, disk, cuts, fails, grant, granted>>
  BY DEF AddBlock, Committing, grants, failures
<1>3. b \in SUBSET Tx /\ IsFiniteSet(b) BY FiniteBatch DEF Funded, Safe, Types
<1>4. SumFunction(Balances') = s + BlockReward
  <2>1. p \in Accounts /\ Balances \in [Accounts -> Int]
    BY NodeAssumption DEF Funded, Kinds
  <2>2. Balances' = [a \in Accounts |->
                 Balances[a] - (Amount + Fee) * Cardinality(SentBy(a, b))
                   + Amount * Cardinality(SentTo(a, b))
                   + (IF a = p THEN Fee * Cardinality(b) + BlockReward ELSE 0)]
    BY <1>1
  <2> HIDE DEF b
  <2> QED BY <1>3, <2>1, <2>2, BlockMints
<1>5. Minted(Blockchain') = L + 1
  <2>1. Blockchain' = (IF Blockchain = << >> THEN <<Genesis>> ELSE Blockchain) \o <<b>>
    BY <1>1
  <2>2. Blockchain \in Blocks BY DEF Funded, Safe, Types
  <2> HIDE DEF b
  <2> QED BY <1>3, <2>1, <2>2, MintedNext
<1>6. PICK i \in Int, j \in Int, before \in Nat, late \in Nat, short \in Nat :
        Account(i, j, before, late, short)
  BY <1>2 DEF Funded, Running
<1>7. BalancesDue = 0 /\ ChainDue = 0 /\ BalancesDue' = 1 /\ ChainDue' = 1
  BY <1>2 DEF BalancesDue, ChainDue
<1>8. /\ L \in Nat /\ D \in Nat /\ cuts \in Nat /\ fails \in Nat
      /\ s \in Int /\ Base \in Int /\ grant \in Int /\ BlockReward \in Int
      /\ BlockReward * i \in Int
  BY SumsOfMoney, ProductType, NodeAssumption DEF Funded
<1>9. MemoryHolds(i + 1)' /\ DiskHolds(j)'
  <2> DEFINE s1 == SumFunction(Balances')  r == BlockReward * i
             q == BlockReward * (i + 1)
  <2>1. q = r + BlockReward BY <1>8, TimesMore
  <2>2. s = Base + grant + r BY <1>6 DEF Account, MemoryHolds
  <2>3. Base' = Base /\ grant' = grant BY <1>2 DEF Base
  <2>4. s1 = s + BlockReward BY <1>4
  <2> HIDE DEF s, s1, r, q
  <2>5. s1 = Base + grant + q BY <1>8, <2>1, <2>2, <2>4 DEF r
  <2>6. DiskHolds(j)' BY <1>2, <1>6, <2>3 DEF Account, DiskHolds
  <2>7. MemoryHolds(i + 1)' BY <1>2, <2>3, <2>5 DEF MemoryHolds, s1, q
  <2> QED BY <2>6, <2>7
<1>10. /\ before + late + short <= fails
       /\ (i + 1) - (L + 1) \in (-before)..(cuts + before)
       /\ (i + 1) - j \in 0..(late + 1) /\ (L + 1) - D \in 1..(short + 1)
  <2>1. /\ before + late + short <= fails /\ i - L \in (-before)..(cuts + before)
        /\ i - j \in 0..(late + 0) /\ L - D \in 0..(short + 0)
    BY <1>6, <1>7 DEF Account
  <2> HIDE DEF L, D
  <2> QED BY <1>8, <2>1
<1>11. Account(i + 1, j, before, late, short)'
  BY <1>2, <1>5, <1>7, <1>9, <1>10 DEF Account
<1>12. i + 1 \in Int OBVIOUS
<1> QED BY <1>2, <1>11, <1>12 DEF Running, AtRestHolds

LEMMA GrantFunds ==
  ASSUME Funded, cmd # "none", NEW more \in [Accounts -> Int], Grant(more)
  PROVE  Running' /\ AtRestHolds'
<1>1. /\ pc = "idle" /\ pc' = "saving" /\ todo' = <<"balances">>
      /\ Balances' = [a \in Accounts |-> Balances[a] + more[a]]
      /\ grant' = grant + SumFunction(more)
      /\ UNCHANGED <<cmd, disk, Blockchain, cuts, fails, granted>>
  BY DEF Grant, failures
<1>2. PICK i \in Int, j \in Int, before \in Nat, late \in Nat, short \in Nat :
        Account(i, j, before, late, short)
  BY DEF Funded, Running
<1>3. SumFunction(Balances') = SumFunction(Balances) + SumFunction(more)
  <2>1. IsFiniteSet(Accounts) /\ Balances \in [Accounts -> Int]
    BY NodeAssumption DEF Funded, Kinds
  <2>2. Balances' \in [Accounts -> Int] /\ \A a \in Accounts : Balances'[a] = Balances[a] + more[a]
    BY <1>1, <2>1
  <2> QED BY <1>1, <2>1, <2>2, SumAdd
<1>4. /\ BalancesDue = 0 /\ ChainDue = 0 /\ BalancesDue' = 0 /\ ChainDue' = 0
  BY <1>1 DEF BalancesDue, ChainDue
<1>5. MemoryHolds(i)' /\ DiskHolds(j)'
  <2> DEFINE s == SumFunction(Balances)  s1 == SumFunction(Balances')  r == BlockReward * i
  <2>1. s = Base + grant + r BY <1>2 DEF Account, MemoryHolds
  <2>2. Base' = Base BY <1>1 DEF Base
  <2> DEFINE m == SumFunction(more)
  <2>3. Base \in Int /\ r \in Int /\ grant \in Int /\ m \in Int
    BY SumsOfMoney, SumType, ProductType, NodeAssumption DEF Funded
  <2>4. grant' = grant + m /\ s1 = s + m BY <1>1, <1>3
  <2> HIDE DEF r, m, s, s1
  <2>6. s1 = Base + grant' + r BY <2>1, <2>3, <2>4
  <2>5. MemoryHolds(i)' BY <2>2, <2>6 DEF MemoryHolds, r, s1
  <2> QED BY <1>1, <1>2, <2>2, <2>5 DEF Account, DiskHolds
<1>6. Account(i, j, before, late, short)' BY <1>1, <1>2, <1>4, <1>5 DEF Account
<1> QED BY <1>1, <1>6 DEF Running, AtRestHolds

LEMMA StepFunds == Funded /\ [Next]_vars => Running' /\ AtRestHolds'
<1> SUFFICES ASSUME Funded, [Next]_vars PROVE Running' /\ AtRestHolds' OBVIOUS
<1>1. ASSUME cmd # "none", UNCHANGED <<Balances, disk, cmd, cuts, fails, grants>>,
             Blockchain' = Blockchain, BalancesDue' = BalancesDue, ChainDue' = ChainDue
      PROVE  Running' /\ AtRestHolds'
  <2>1. Minted(Blockchain') = Minted(Blockchain) BY <1>1
  <2>2. UNCHANGED <<Balances, disk, cmd, cuts, fails, grant, granted>> BY <1>1 DEF grants
  <2> QED BY <1>1, <2>1, <2>2, QuietFunds, Zenon
<1>2. cmd = "none" => pc = "idle" /\ todo = << >> BY DEF Funded, Safe, AtRest, Places
<1>3. CASE Save BY <1>3, SaveFunds
<1>4. CASE SaveFails BY <1>4, SaveFailsFunds
<1>5. CASE FinishSave
  <2>1. /\ UNCHANGED <<Balances, disk, cmd, cuts, fails, grants>> /\ Blockchain' = Blockchain
        /\ pc = "saving" /\ todo = << >> /\ todo' = todo /\ pc' \in {"idle", "done"}
    BY <1>5 DEF FinishSave, Saved, memory, history, failures
  <2>2. cmd # "none" BY <1>2, <2>1
  <2>3. BalancesDue' = BalancesDue /\ ChainDue' = ChainDue
    BY <2>1 DEF BalancesDue, ChainDue
  <2> QED BY <1>1, <2>1, <2>2, <2>3
<1>6. CASE InitLedger
  <2>1. /\ UNCHANGED <<Balances, disk, cmd, cuts, fails, grants>> /\ cmd = "init"
        /\ pc = "idle" /\ pc' \in {"saving", "done"}
        /\ \/ Blockchain = << >> /\ Blockchain' = <<Genesis>>
           \/ Blockchain' = Blockchain
    BY <1>6 DEF InitLedger, history, failures
  <2>2. BalancesDue' = BalancesDue /\ ChainDue' = ChainDue
    BY <2>1 DEF BalancesDue, ChainDue
  <2>3. Minted(Blockchain') = Minted(Blockchain) BY <2>1, MintedGenesis
  <2>4. cmd # "none" BY <2>1
  <2>5. UNCHANGED <<Balances, disk, cmd, cuts, fails, grant, granted>> BY <2>1 DEF grants
  <2> QED BY <2>2, <2>3, <2>4, <2>5, QuietFunds, Zenon
<1>7. CASE AddBlock BY <1>7, AddBlockFunds
<1>8. CASE SkipCommit
  <2>1. /\ UNCHANGED <<Balances, disk, cmd, cuts, fails, grants>> /\ Blockchain' = Blockchain
        /\ cmd \in {"start", "commit", "auto-commit", "stress"}
        /\ pc = "idle" /\ pc' \in {"idle", "saving"}
    BY <1>8 DEF SkipCommit, Committing, AfterCommit, memory, history, failures
  <2>2. BalancesDue' = BalancesDue /\ ChainDue' = ChainDue
    BY <2>1 DEF BalancesDue, ChainDue
  <2> QED BY <1>1, <2>1, <2>2
<1>9. CASE RemoveCommittedFromMempool
  <2>1. /\ UNCHANGED <<Balances, disk, cmd, cuts, fails, grants>> /\ Blockchain' = Blockchain
        /\ pc = "adding" /\ todo = << >> /\ pc' \in {"idle", "saving"}
    BY <1>9 DEF RemoveCommittedFromMempool, AfterCommit, Saved, history, failures
  <2>2. cmd # "none" BY <1>2, <2>1
  <2>3. AllKeys # << >> /\ ChainLine # << >> BY Lines
  <2>4. BalancesDue' = BalancesDue /\ ChainDue' = ChainDue
    BY <2>1, <2>3 DEF BalancesDue, ChainDue
  <2> QED BY <1>1, <2>1, <2>2, <2>4
<1>10. CASE UNCHANGED vars
  <2>1. /\ UNCHANGED <<Balances, disk, cmd, cuts, fails, grants>> /\ Blockchain' = Blockchain
        /\ UNCHANGED <<pc, todo>>
    BY <1>10 DEF vars, memory, control, history, failures
  <2>2. BalancesDue' = BalancesDue /\ ChainDue' = ChainDue
    BY <2>1 DEF BalancesDue, ChainDue
  <2>3. CASE cmd # "none" BY <1>1, <2>1, <2>2, <2>3
  <2>4. CASE cmd = "none"
    <3>1. AtRestHolds' BY <2>1, <2>4 DEF Funded, AtRestHolds, DiskHolds, Base, grants
    <3> QED BY <2>1, <2>4, <3>1 DEF Running
  <2> QED BY <2>3, <2>4
<1>11. ASSUME NEW c \in Commands, Launch(c) PROVE Running' /\ AtRestHolds'
  BY <1>11, LaunchFunds
<1>12. CASE Return \/ Die BY <1>12, EndFunds DEF Return, Die
<1>13. ASSUME NEW from \in Accounts, NEW to \in Accounts, Submit(from, to)
       PROVE  Running' /\ AtRestHolds'
  <2>1. /\ UNCHANGED <<Balances, disk, cmd, cuts, fails, grants>> /\ Blockchain' = Blockchain
        /\ UNCHANGED <<pc, todo>> /\ cmd # "none"
    BY <1>13 DEF Submit, control, history, failures
  <2>2. BalancesDue' = BalancesDue /\ ChainDue' = ChainDue
    BY <2>1 DEF BalancesDue, ChainDue
  <2> QED BY <1>1, <2>1, <2>2
<1>14. CASE Gives BY <1>14, GiftIsGrant, GrantFunds
<1> QED BY <1>3, <1>4, <1>5, <1>6, <1>7, <1>8, <1>9, <1>10, <1>11, <1>12, <1>13, <1>14
  DEF Next, Run, Gives

\* SavedMoneyAddsUp for any accounts, balances, commands and bounds: each save writes the
\* balances before the chain, so that a commit that is cut off in between, and a Put that
\* fails, leave the two apart by the reward of one block.
THEOREM SavedRewards == Spec => []SavedMoneyAddsUp
<1>1. Funded => SavedMoneyAddsUp
  <2> SUFFICES ASSUME Funded, cmd = "none"
               PROVE  SumFunction(disk.balances) - SumFunction(InitBalances) - granted
                        - BlockReward * Cardinality(SavedBlocks)
                      \in {BlockReward * n : n \in (-fails)..(cuts + fails)}
    BY DEF SavedMoneyAddsUp
  <2> DEFINE D == Minted(disk.blockchain)  s == SumFunction(disk.balances)
             b == SumFunction(InitBalances)
  <2>1. PICK j \in Int : DiskHolds(j) /\ j - D \in (-fails)..(cuts + fails)
    BY DEF Funded, AtRestHolds
  <2>2. Cardinality(SavedBlocks) = D BY MintedBlocks DEF Funded
  <2>3. /\ D \in Nat /\ s \in Int /\ b \in Int /\ granted \in Int
        /\ BlockReward \in Int /\ j - D \in Int
    BY SumsOfMoney, NodeAssumption DEF Funded, Kinds
  <2>4. s = (b + granted) + BlockReward * j BY <2>1 DEF DiskHolds, Base
  <2> HIDE DEF D, s, b
  <2>5. /\ BlockReward * (D + (j - D)) = BlockReward * D + BlockReward * (j - D)
        /\ D + (j - D) = j
        /\ BlockReward * D \in Int /\ BlockReward * (j - D) \in Int
    <3>1. D + (j - D) = j BY <2>3
    <3>2. BlockReward * D \in Int /\ BlockReward * (j - D) \in Int BY <2>3, ProductType
    <3>3. BlockReward * (D + (j - D)) = BlockReward * D + BlockReward * (j - D)
      BY <2>3, TimesSum
    <3> QED BY <3>1, <3>2, <3>3
  <2>6. s - b - granted - BlockReward * D = BlockReward * (j - D)
    <3> DEFINE u == BlockReward * D  v == BlockReward * (j - D)  w == BlockReward * j
    <3>1. w = u + v /\ u \in Int /\ v \in Int /\ s = (b + granted) + w BY <2>4, <2>5
    <3> HIDE DEF u, v, w
    <3>2. s - b - granted - u = v BY <2>3, <3>1
    <3> QED BY <3>2 DEF u, v
  <2>7. s - b - granted - BlockReward * D
          \in {BlockReward * n : n \in (-fails)..(cuts + fails)}
    BY <2>1, <2>6
  <2> QED BY <2>2, <2>7 DEF s, b
<1>2. Init => Funded
  BY InitSafe, InitKinds, InitPlaces, InitFunds DEF Funded
<1>3. Funded /\ [Next]_vars => Funded'
  BY StepSafe, StepKinds, StepPlaces, StepFunds DEF Funded
<1> QED BY <1>1, <1>2, <1>3, PTL DEF Spec
=============================================================================
