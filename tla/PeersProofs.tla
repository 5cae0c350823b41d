----------------------------- MODULE PeersProofs ------------------------------
(***************************************************************************)
(* Why peers.json follows the registry, for any number of goroutines, of   *)
(* calls and of processes.  A goroutine that writes the file holds the     *)
(* read lock, so its list is the registry; and whoever has changed the     *)
(* registry will write the file.                                           *)
(***************************************************************************)
EXTENDS Peers, TLAPS

-----------------------------------------------------------------------------
(* Types *)

PlaceNames == {"idle", "change", "save", "truncate", "write", "export"}
Frame == [at: PlaceNames, todo: SUBSET Change, list: Lists, id: Ids \cup {0}]

\* Another node has an address, and its flag says what it is.
GoodEntry(i, e) ==
  e \in Entry /\ (i \in Remotes => e.addr # NoAddr /\ e.boot = (i \in BootPeers))
GoodList(l) == l \in Lists /\ \A i \in DOMAIN l : GoodEntry(i, l[i])
GoodChange(c) == c \in Change /\ ("touch" \notin DOMAIN c => GoodEntry(c.id, c.entry))
GoodFrame(f) == f \in Frame /\ GoodList(f.list) /\ \A c \in f.todo : GoodChange(c)

Frames == ctx \in [Threads -> Frame] /\ \A t \in Threads : GoodFrame(ctx[t])

Typed ==
  /\ stage \in {"down", "load", "self", "listen", "up"}
  /\ nodeID \in 0..MaxStarts /\ (stage # "down" => nodeID \in 1..MaxStarts)
  /\ isBoot \in BOOLEAN
  /\ GoodList(peers)
  /\ file = Torn \/ GoodList(file)
  /\ exported = Torn \/ GoodList(exported)
  /\ Frames
  /\ starts \in 0..MaxStarts /\ ops \in 0..MaxOps /\ recorded \subseteq Ids

LEMMA ListFacts ==
  ASSUME NEW l \in Lists
  PROVE  /\ DOMAIN l \subseteq Ids /\ l = [i \in DOMAIN l |-> l[i]]
         /\ \A i \in DOMAIN l : l[i] \in Entry
<1>1. PICK S \in SUBSET Ids : l \in [S -> Entry] BY DEF Lists
<1> QED BY <1>1

LEMMA ListIntro ==
  ASSUME NEW S \in SUBSET Ids, NEW l \in [S -> Entry]
  PROVE  l \in Lists /\ DOMAIN l = S
BY DEF Lists

LEMMA NobodyGood == GoodList(Nobody) /\ DOMAIN Nobody = {}
<1>1. DOMAIN Nobody = {} /\ Nobody \in [{} -> Entry] BY DEF Nobody
<1> QED BY <1>1, ListIntro DEF GoodList

LEMMA IdleGood == GoodFrame(Idle) /\ Idle.at = "idle" /\ Idle.todo = {}
<1>1. Nobody \in Lists BY NobodyGood DEF GoodList
<1>2. Idle \in Frame BY <1>1 DEF Idle, Frame, PlaceNames
<1> QED BY <1>2, NobodyGood DEF GoodFrame, Idle

\* Writing l over k.
LEMMA OverGood ==
  ASSUME NEW k, NEW l, GoodList(k), GoodList(l)
  PROVE  GoodList(Over(l, k)) /\ DOMAIN Over(l, k) = DOMAIN l \cup DOMAIN k
<1> DEFINE S == DOMAIN l \cup DOMAIN k
           m == Over(l, k)
<1>1. S \in SUBSET Ids BY ListFacts DEF GoodList
<1>2. m = [i \in S |-> IF i \in DOMAIN l THEN l[i] ELSE k[i]] BY DEF Over
<1> HIDE DEF m
<1>3. \A i \in S : GoodEntry(i, m[i]) BY <1>2 DEF GoodList
<1>4. m \in [S -> Entry] BY <1>2, <1>3 DEF GoodEntry
<1>5. m \in Lists /\ DOMAIN m = S BY <1>1, <1>4, ListIntro
<1>6. GoodList(m) BY <1>3, <1>5 DEF GoodList
<1> QED BY <1>5, <1>6 DEF m

LEMMA OneGood ==
  ASSUME NEW i \in Ids, NEW e, GoodEntry(i, e)
  PROVE  GoodList([x \in {i} |-> e])
<1> DEFINE m == [x \in {i} |-> e]
<1>1. m \in [{i} -> Entry] BY DEF GoodEntry
<1>2. {i} \in SUBSET Ids OBVIOUS
<1>3. m \in Lists BY <1>1, <1>2, ListIntro
<1> QED BY <1>3 DEF GoodList

LEMMA SetFrame ==
  ASSUME Frames, NEW t \in Threads, NEW f, GoodFrame(f), ctx' = [ctx EXCEPT ![t] = f]
  PROVE  Frames' /\ ctx'[t] = f /\ \A u \in Threads \ {t} : ctx'[u] = ctx[u]
<1>1. ctx' \in [Threads -> Frame] BY DEF Frames, GoodFrame
<1>2. ctx'[t] = f /\ \A u \in Threads \ {t} : ctx'[u] = ctx[u] BY DEF Frames
<1> QED BY <1>1, <1>2 DEF Frames

-----------------------------------------------------------------------------
(* The invariant *)

Saving == {"save", "truncate", "write"}
Before == {"down", "load"}

AtRest == stage \in Before => \A t \in Threads : ctx[t] = Idle

\* The list of a goroutine that is writing the file is the registry.
Readers == \A t \in Threads : HasReadLock(t) => ctx[t].list = peers

\* The file holds the registry, or somebody is about to write it; at the start, the
\* registration of the node itself will.
Current ==
  stage \notin Before =>
    \/ \E t \in Threads : ctx[t].at \in Saving
    \/ file = peers
    \/ stage = "self" /\ ctx[Main].at = "change"

\* The node is in the registry, or about to be; its address is touched only later.
Registered ==
  /\ stage = "self" =>
       \/ nodeID \in DOMAIN peers
       \/ /\ ctx[Main].at = "change"
          /\ \A c \in ctx[Main].todo : "touch" \notin DOMAIN c /\ c.id = nodeID
  /\ stage \in {"listen", "up"} => nodeID \in DOMAIN peers
  /\ \A t \in Threads : \A c \in ctx[t].todo : "touch" \in DOMAIN c => stage = "up"

\* What has been registered is in the registry and, unless a write was cut, in the file.
Kept ==
  /\ stage \notin Before => recorded \subseteq DOMAIN peers
  /\ file # Torn => recorded \subseteq DOMAIN file
  /\ stage \in Before /\ file = Torn => recorded = {}
  /\ \A t \in Threads : ctx[t].at \in Saving => ctx[t].id \in DOMAIN peers

Inv == Typed /\ AtRest /\ Readers /\ Current /\ Registered /\ Kept

LEMMA InitInv == Init => Inv
<1> SUFFICES ASSUME Init PROVE Inv OBVIOUS
<1>1. Typed
  <2>1. Frames BY IdleGood DEF Init, Frames, GoodFrame
  <2>2. 0 \in 0..MaxStarts /\ 0 \in 0..MaxOps BY PeersAssumption
  <2> QED BY <2>1, <2>2, NobodyGood DEF Init, Typed
<1>2. AtRest /\ Readers /\ Current /\ Registered /\ Kept
  BY IdleGood, PeersAssumption
  DEF Init, AtRest, Readers, HasReadLock, Current, Registered, Kept, Before, Saving
<1> QED BY <1>1, <1>2 DEF Inv

-----------------------------------------------------------------------------
(* Changing and saving *)

LEMMA ChangeFacts ==
  ASSUME NEW c, GoodChange(c)
  PROVE  /\ "touch" \in DOMAIN c => c.touch \in Addrs
         /\ "touch" \notin DOMAIN c => c.id \in Ids /\ GoodEntry(c.id, c.entry)
BY DEF GoodChange, Change

LEMMA NodeFacts ==
  ASSUME Typed, stage # "down"
  PROVE  nodeID \in Ids /\ nodeID \notin Remotes
BY PeersAssumption DEF Typed, Ids

\* A new address in an entry of the node itself.
LEMMA TouchGood ==
  ASSUME GoodList(peers), NEW i \in DOMAIN peers, i \notin Remotes, NEW a \in Addrs
  PROVE  GoodList([peers EXCEPT ![i].addr = a]) /\ DOMAIN [peers EXCEPT ![i].addr = a] = DOMAIN peers
<1> DEFINE m == [peers EXCEPT ![i].addr = a]
           e == [peers[i] EXCEPT !.addr = a]
<1>1. peers = [x \in DOMAIN peers |-> peers[x]] /\ DOMAIN peers \subseteq Ids
  BY ListFacts DEF GoodList
<1>2. \A x \in DOMAIN peers : GoodEntry(x, peers[x]) BY DEF GoodList
<1>3. e \in Entry BY <1>2 DEF GoodEntry, Entry
<1>4. /\ DOMAIN m = DOMAIN peers /\ m[i] = e
      /\ \A x \in DOMAIN peers \ {i} : m[x] = peers[x]
      /\ m = [x \in DOMAIN peers |-> m[x]]
  BY <1>1
<1> HIDE DEF m, e
<1>5. \A x \in DOMAIN peers : GoodEntry(x, m[x]) BY <1>2, <1>3, <1>4 DEF GoodEntry
<1>6. m \in [DOMAIN peers -> Entry] BY <1>4, <1>5 DEF GoodEntry
<1>7. m \in Lists BY <1>1, <1>6, ListIntro
<1> QED BY <1>4, <1>5, <1>7 DEF GoodList, m

LEMMA ChangeInv ==
  ASSUME Inv, NEW t \in Threads, ChangeRegistry(t)
  PROVE  Inv'
<1> DEFINE Id(c) == IF "touch" \in DOMAIN c THEN nodeID ELSE c.id
           Changed(c) == IF "touch" \notin DOMAIN c THEN Over([i \in {Id(c)} |-> c.entry], peers)
                         ELSE IF Id(c) \in DOMAIN peers
                              THEN [peers EXCEPT ![Id(c)].addr = c.touch]
                              ELSE peers
           After(c) == [ctx[t] EXCEPT !.at = "save", !.todo = @ \ {c}, !.id = Id(c)]
<1>0. PICK c \in ctx[t].todo :
        /\ peers' = Changed(c)
        /\ ctx' = [ctx EXCEPT ![t].at = "save", ![t].todo = @ \ {c}, ![t].id = Id(c)]
  BY Zenon DEF ChangeRegistry
<1>1. peers' = Changed(c) /\ ctx' = [ctx EXCEPT ![t] = After(c)]
  <2> HIDE DEF Changed, Id
  <2>1. ctx \in [Threads -> Frame] BY DEF Inv, Typed, Frames
  <2> QED BY <1>0, <2>1
<1>2. /\ ctx[t].at = "change" /\ \A u \in Threads : ~HasReadLock(u)
      /\ UNCHANGED <<stage, nodeID, isBoot, file, exported, starts, ops, recorded>>
  BY DEF ChangeRegistry
<1>3. Typed /\ Frames /\ GoodFrame(ctx[t]) /\ ctx[t] \in Frame
  BY DEF Inv, Typed, Frames, GoodFrame
<1>4. GoodChange(c) BY <1>3 DEF GoodFrame
<1>5. stage \notin Before BY <1>2, IdleGood DEF Inv, AtRest
<1>6. nodeID \in Ids /\ nodeID \notin Remotes BY <1>3, <1>5, NodeFacts DEF Before
<1>7. Id(c) \in Ids BY <1>4, <1>6, ChangeFacts
<1>8. "touch" \in DOMAIN c => stage = "up" /\ nodeID \in DOMAIN peers
  BY <1>1 DEF Inv, Registered
<1>9. /\ GoodList(Changed(c)) /\ Id(c) \in DOMAIN Changed(c)
      /\ DOMAIN peers \subseteq DOMAIN Changed(c)
  <2>1. CASE "touch" \in DOMAIN c
    <3>1. c.touch \in Addrs BY <1>4, <2>1, ChangeFacts
    <3>2. Changed(c) = [peers EXCEPT ![nodeID].addr = c.touch] /\ Id(c) = nodeID
      BY <1>8, <2>1
    <3>3. GoodList(peers) BY <1>3 DEF Typed
    <3> DEFINE m == [peers EXCEPT ![nodeID].addr = c.touch]
    <3> HIDE DEF Changed, Id
    <3>4. GoodList(m) /\ DOMAIN m = DOMAIN peers
      BY ONLY <1>6, <1>8, <2>1, <3>1, <3>3, TouchGood
    <3>5. Changed(c) = m BY <3>2
    <3> HIDE DEF m
    <3> QED BY ONLY <1>8, <2>1, <3>2, <3>4, <3>5
  <2>2. CASE "touch" \notin DOMAIN c
    <3> DEFINE l == [i \in {Id(c)} |-> c.entry]
    <3>1. GoodEntry(Id(c), c.entry) BY <1>4, <2>2, ChangeFacts
    <3>2. GoodList(l) BY <1>7, <3>1, OneGood
    <3>3. DOMAIN l = {Id(c)} OBVIOUS
    <3>4. GoodList(peers) BY <1>3 DEF Typed
    <3>5. Changed(c) = Over(l, peers) BY <2>2
    <3> HIDE DEF l, Changed, Id
    <3>6. GoodList(Over(l, peers)) /\ DOMAIN Over(l, peers) = {Id(c)} \cup DOMAIN peers
      BY <3>2, <3>3, <3>4, OverGood
    <3> QED BY <3>5, <3>6
  <2> QED BY <2>1, <2>2
<1> DEFINE f == After(c)
<1> HIDE DEF Changed, Id
<1>10. f \in Frame /\ f.at = "save" /\ f.todo \subseteq ctx[t].todo /\ f.id = Id(c) /\ f.list = ctx[t].list
  <2>1. ctx[t].todo \ {c} \in SUBSET Change BY <1>3 DEF Frame
  <2> QED BY <1>3, <1>7, <2>1 DEF Frame, PlaceNames
<1>11. GoodFrame(f) BY <1>3, <1>10 DEF GoodFrame
<1> HIDE DEF After, f
<1>12. ctx' = [ctx EXCEPT ![t] = f] BY <1>1 DEF f
<1>13. Frames' /\ ctx'[t] = f /\ \A u \in Threads \ {t} : ctx'[u] = ctx[u]
  BY <1>3, <1>11, <1>12, SetFrame
<1>14. /\ GoodList(peers)' /\ Id(c) \in DOMAIN peers' /\ DOMAIN peers \subseteq DOMAIN peers'
  BY <1>1, <1>9 DEF GoodList
<1>15. Typed' BY <1>2, <1>3, <1>13, <1>14 DEF Typed, GoodList
<1>16. AtRest' BY <1>2, <1>5 DEF AtRest
<1>17. Readers' BY <1>2, <1>10, <1>13 DEF Readers, HasReadLock
<1>18. Current' BY <1>10, <1>13 DEF Current, Saving
<1>19. Registered'
  <2>1. \A u \in Threads : ctx'[u].todo \subseteq ctx[u].todo BY <1>10, <1>13
  <2>2. CASE nodeID \in DOMAIN peers
    BY <1>2, <1>14, <2>1, <2>2 DEF Inv, Registered
  <2>3. CASE nodeID \notin DOMAIN peers
    <3>1. /\ stage = "self" /\ ctx[Main].at = "change"
          /\ \A d \in ctx[Main].todo : "touch" \notin DOMAIN d /\ d.id = nodeID
      BY <1>3, <1>5, <2>3 DEF Inv, Typed, Registered, Before
    <3>2. CASE t = Main
      <4>1. Id(c) = nodeID BY <1>1, <3>1, <3>2 DEF Id
      <4> QED BY <1>2, <1>14, <2>1, <4>1 DEF Inv, Registered
    <3>3. CASE t # Main
      <4>1. ctx'[Main] = ctx[Main] BY <1>13, <3>3, PeersAssumption
      <4> QED BY <1>2, <2>1, <3>1, <4>1 DEF Inv, Registered
    <3> QED BY <3>2, <3>3
  <2> QED BY <2>2, <2>3
<1>20. Kept'
  <2>1. \A u \in Threads : ctx'[u].at \in Saving => ctx'[u].id \in DOMAIN peers'
    BY <1>10, <1>13, <1>14 DEF Inv, Kept
  <2> QED BY <1>2, <1>5, <1>14, <2>1 DEF Inv, Kept
<1> QED BY <1>15, <1>16, <1>17, <1>18, <1>19, <1>20 DEF Inv

\* The other steps of a goroutine move it on; only Write changes the file.
LEMMA MoveInv ==
  ASSUME Inv, NEW t \in Threads, NEW f, GoodFrame(f), ctx' = [ctx EXCEPT ![t] = f],
         UNCHANGED <<stage, nodeID, isBoot, peers, starts, recorded>>,
         ops' \in 0..MaxOps, exported' = Torn \/ GoodList(exported'),
         stage \notin Before,
         f.at \in {"truncate", "write"} => f.list = peers,
         f.at \in Saving => f.id \in DOMAIN peers,
         ctx[t].at \in Saving => f.at \in Saving,
         ctx[t].at # "change",
         \A c \in f.todo : "touch" \in DOMAIN c => stage = "up",
         file' = file \/ (file' = Torn /\ f.at \in Saving)
  PROVE  Inv'
<1>1. Frames' /\ ctx'[t] = f /\ \A u \in Threads \ {t} : ctx'[u] = ctx[u]
  BY SetFrame DEF Inv, Typed
<1>2. Typed' BY <1>1 DEF Inv, Typed, GoodList
<1>3. AtRest' BY DEF AtRest
<1>4. Readers' BY <1>1 DEF Inv, Readers, HasReadLock
<1>5. Current' BY <1>1, PeersAssumption DEF Inv, Current
<1>6. Registered' BY <1>1, PeersAssumption DEF Inv, Registered
<1>7. Kept' BY <1>1 DEF Inv, Kept
<1> QED BY <1>2, <1>3, <1>4, <1>5, <1>6, <1>7 DEF Inv

LEMMA SaveInv ==
  ASSUME Inv, NEW t \in Threads, BeginSave(t) \/ Truncate(t)
  PROVE  Inv'
<1>1. ctx[t] \in Frame /\ GoodFrame(ctx[t]) BY DEF Inv, Typed, Frames, GoodFrame
<1>2. ctx[t].at \in {"save", "truncate"}
      /\ UNCHANGED <<stage, nodeID, isBoot, peers, exported, starts, ops, recorded>>
  BY DEF BeginSave, Truncate
<1>3. stage \notin Before BY <1>2, IdleGood DEF Inv, AtRest
<1>4. /\ \A c \in ctx[t].todo : "touch" \in DOMAIN c => stage = "up"
      /\ ctx[t].id \in DOMAIN peers
      /\ ops \in 0..MaxOps /\ (exported = Torn \/ GoodList(exported)) /\ GoodList(peers)
  BY <1>2 DEF Inv, Registered, Kept, Saving, Typed
<1>5. CASE BeginSave(t)
  <2> DEFINE f == [ctx[t] EXCEPT !.at = "truncate", !.list = peers]
  <2>1. ctx' = [ctx EXCEPT ![t] = f] /\ UNCHANGED file BY <1>5 DEF BeginSave
  <2>2. f \in Frame /\ f.at = "truncate" /\ f.list = peers /\ f.todo = ctx[t].todo /\ f.id = ctx[t].id
    BY <1>1, <1>4 DEF Frame, PlaceNames, GoodList
  <2> HIDE DEF f
  <2>3. GoodFrame(f) BY <1>1, <1>4, <2>2 DEF GoodFrame
  <2> QED BY <1>2, <1>3, <1>4, <2>1, <2>2, <2>3, MoveInv DEF Saving, GoodList
<1>6. CASE Truncate(t)
  <2> DEFINE f == [ctx[t] EXCEPT !.at = "write"]
  <2>1. ctx' = [ctx EXCEPT ![t] = f] /\ file' = Torn /\ ctx[t].at = "truncate"
    BY <1>6 DEF Truncate, Goto
  <2>2. f \in Frame /\ f.at = "write" /\ f.list = ctx[t].list /\ f.todo = ctx[t].todo /\ f.id = ctx[t].id
    BY <1>1 DEF Frame, PlaceNames
  <2> HIDE DEF f
  <2>3. GoodFrame(f) BY <1>1, <2>2 DEF GoodFrame
  <2>4. f.list = peers BY <2>1, <2>2 DEF Inv, Readers, HasReadLock
  <2> QED BY <1>2, <1>3, <1>4, <2>1, <2>2, <2>3, <2>4, MoveInv DEF Saving, GoodList
<1> QED BY <1>5, <1>6

LEMMA WriteInv ==
  ASSUME Inv, NEW t \in Threads, Write(t)
  PROVE  Inv'
<1> DEFINE f == IF ctx[t].todo = {} THEN Idle
                ELSE [ctx[t] EXCEPT !.at = "change", !.list = Nobody, !.id = 0]
<1>1. /\ ctx[t].at = "write" /\ file' = ctx[t].list
      /\ recorded' = recorded \cup {ctx[t].id} /\ ctx' = [ctx EXCEPT ![t] = f]
      /\ UNCHANGED <<stage, nodeID, isBoot, peers, exported, starts, ops>>
  BY DEF Write
<1>2. ctx[t] \in Frame /\ GoodFrame(ctx[t]) BY DEF Inv, Typed, Frames, GoodFrame
<1>3. stage \notin Before BY <1>1, IdleGood DEF Inv, AtRest
<1>4. file' = peers /\ ctx[t].id \in DOMAIN peers /\ GoodList(peers)
  BY <1>1 DEF Inv, Readers, HasReadLock, Kept, Saving, Typed
<1>5. /\ f \in Frame /\ f.at \in {"idle", "change"} /\ f.list = Nobody
      /\ f.todo \subseteq ctx[t].todo
  <2>1. Nobody \in Lists BY NobodyGood DEF GoodList
  <2> QED BY <1>2, <2>1, IdleGood DEF Frame, PlaceNames, Idle, GoodFrame
<1> HIDE DEF f
<1>6. GoodFrame(f) BY <1>2, <1>5, NobodyGood DEF GoodFrame
<1>7. Frames' /\ ctx'[t] = f /\ \A u \in Threads \ {t} : ctx'[u] = ctx[u]
  BY <1>1, <1>6, SetFrame DEF Inv, Typed
<1>8. recorded' \subseteq Ids /\ recorded' \subseteq DOMAIN peers
  BY <1>1, <1>3, <1>4, ListFacts DEF Inv, Typed, Kept, GoodList
<1>9. Typed' BY <1>1, <1>4, <1>7, <1>8 DEF Inv, Typed, GoodList
<1>10. AtRest' BY <1>1, <1>3 DEF AtRest
<1>11. Readers' BY <1>1, <1>5, <1>7 DEF Inv, Readers, HasReadLock
<1>12. Current' BY <1>1, <1>4 DEF Current
<1>13. Registered'
  <2>1. \A u \in Threads : ctx'[u].todo \subseteq ctx[u].todo BY <1>5, <1>7
  <2>2. stage = "self" => nodeID \in DOMAIN peers \/ ctx'[Main] = ctx[Main]
    BY <1>1, <1>7, PeersAssumption DEF Inv, Registered
  <2> QED BY <1>1, <2>1, <2>2 DEF Inv, Registered
<1>14. Kept' BY <1>1, <1>3, <1>4, <1>5, <1>7, <1>8 DEF Inv, Kept, Saving
<1> QED BY <1>9, <1>10, <1>11, <1>12, <1>13, <1>14 DEF Inv

-----------------------------------------------------------------------------
(* Calls *)

CallFrame(S) == [Idle EXCEPT !.at = "change", !.todo = S]

LEMMA CallGood ==
  ASSUME NEW S, \A c \in S : GoodChange(c)
  PROVE  /\ GoodFrame(CallFrame(S)) /\ CallFrame(S).at = "change"
         /\ CallFrame(S).todo = S /\ CallFrame(S).list = Nobody
<1> DEFINE f == CallFrame(S)
<1>1. S \in SUBSET Change BY DEF GoodChange
<1>2. /\ f.at = "change" /\ f.todo = S /\ f.list = Nobody
      /\ f \in Frame
  <2>1. Nobody \in Lists BY NobodyGood DEF GoodList
  <2> QED BY <1>1, <2>1 DEF CallFrame, Idle, Frame, PlaceNames
<1> HIDE DEF f
<1>3. GoodFrame(f) BY <1>2, NobodyGood DEF GoodFrame
<1> QED BY <1>2, <1>3 DEF f

LEMMA RegisterGood ==
  ASSUME NEW i \in Ids, NEW e, GoodEntry(i, e)
  PROVE  LET c == [id |-> i, entry |-> e]
         IN  GoodChange(c) /\ "touch" \notin DOMAIN c /\ c.id = i
BY DEF GoodChange, Change, GoodEntry

LEMMA CallInv ==
  ASSUME Inv, NEW t \in Threads, Call(t)
  PROVE  Inv'
<1>1. /\ stage = "up" /\ ctx[t] = Idle /\ ops < MaxOps /\ ops' = ops + 1
      /\ UNCHANGED <<stage, nodeID, isBoot, peers, file, starts, recorded>>
  BY DEF Call, RegisterPeerRemote, TouchSelfAddr, ImportPeers, ExportPeers, Called
<1>2. stage \notin Before /\ ctx[t].at = "idle" BY <1>1, IdleGood DEF Before
<1>3. ops' \in 0..MaxOps BY <1>1, PeersAssumption DEF Inv, Typed
<1>4. (exported = Torn \/ GoodList(exported)) /\ GoodList(peers) BY DEF Inv, Typed
<1>5. ASSUME NEW S, \A c \in S : GoodChange(c), Calls(t, S), UNCHANGED exported
      PROVE  Inv'
  <2>1. ctx' = [ctx EXCEPT ![t] = CallFrame(S)] BY <1>5 DEF Calls, CallFrame
  <2>2. /\ GoodFrame(CallFrame(S)) /\ CallFrame(S).at = "change" /\ CallFrame(S).todo = S
    BY <1>5, CallGood
  <2>3. exported' = Torn \/ GoodList(exported') BY <1>4, <1>5 DEF GoodList
  <2> QED BY <1>1, <1>2, <1>3, <2>1, <2>2, <2>3, MoveInv DEF Saving
<1>6. CASE \E id \in Remotes, addr \in Addrs : RegisterPeerRemote(t, id, addr)
  <2>1. PICK id \in Remotes, addr \in Addrs : RegisterPeerRemote(t, id, addr) BY <1>6
  <2> DEFINE e == [addr |-> addr, boot |-> id \in BootPeers]
             c == [id |-> id, entry |-> e]
  <2>2. Calls(t, {c}) /\ UNCHANGED exported BY <2>1 DEF RegisterPeerRemote
  <2>3. id \in Ids /\ GoodEntry(id, e) BY PeersAssumption DEF Ids, GoodEntry, Entry
  <2> HIDE DEF e
  <2>4. GoodChange(c) BY <2>3, RegisterGood
  <2> HIDE DEF c
  <2> QED BY <1>5, <2>2, <2>4
<1>7. CASE \E addr \in Addrs : TouchSelfAddr(t, addr)
  <2>1. PICK addr \in Addrs : TouchSelfAddr(t, addr) BY <1>7
  <2> DEFINE c == [touch |-> addr]
  <2>2. Calls(t, {c}) /\ UNCHANGED exported BY <2>1 DEF TouchSelfAddr
  <2>3. GoodChange(c) BY DEF GoodChange, Change
  <2> HIDE DEF c
  <2> QED BY <1>5, <2>2, <2>3
<1>8. CASE ImportPeers(t)
  <2> DEFINE S == {[id |-> i, entry |-> exported[i]] : i \in DOMAIN exported}
  <2>1. Calls(t, S) /\ UNCHANGED exported /\ exported # Torn BY <1>8 DEF ImportPeers
  <2>2. GoodList(exported) BY <1>4, <2>1
  <2>3. ASSUME NEW i \in DOMAIN exported PROVE GoodChange([id |-> i, entry |-> exported[i]])
    <3>1. i \in Ids /\ GoodEntry(i, exported[i]) BY <2>2, ListFacts DEF GoodList
    <3> QED BY <3>1, RegisterGood
  <2>4. \A c \in S : GoodChange(c) BY <2>3
  <2> HIDE DEF S
  <2> QED BY <1>5, <2>1, <2>4
<1>9. CASE ExportPeers(t)
  <2> DEFINE f == [Idle EXCEPT !.at = "export", !.list = peers]
  <2>1. ctx' = [ctx EXCEPT ![t] = f] /\ exported' = Torn BY <1>9 DEF ExportPeers
  <2>2. f \in Frame /\ f.at = "export" /\ f.list = peers /\ f.todo = {}
    BY <1>4 DEF Idle, Frame, PlaceNames, GoodList
  <2> HIDE DEF f
  <2>3. GoodFrame(f) BY <1>4, <2>2 DEF GoodFrame
  <2> QED BY <1>1, <1>2, <1>3, <2>1, <2>2, <2>3, MoveInv DEF Saving
<1> QED BY <1>6, <1>7, <1>8, <1>9 DEF Call

LEMMA EndExportInv ==
  ASSUME Inv, NEW t \in Threads, EndExport(t)
  PROVE  Inv'
<1>1. /\ ctx[t].at = "export" /\ exported' = ctx[t].list /\ ctx' = [ctx EXCEPT ![t] = Idle]
      /\ UNCHANGED <<stage, nodeID, isBoot, peers, file, starts, ops, recorded>>
  BY DEF EndExport
<1>2. stage \notin Before BY <1>1, IdleGood DEF Inv, AtRest
<1>3. GoodList(exported') BY <1>1 DEF Inv, Typed, Frames, GoodFrame, GoodList
<1>4. ops' \in 0..MaxOps BY <1>1 DEF Inv, Typed
<1> QED BY <1>1, <1>2, <1>3, <1>4, IdleGood, MoveInv DEF Saving

-----------------------------------------------------------------------------
(* The process *)

LEMMA StartInv == Inv /\ Start => Inv'
<1> SUFFICES ASSUME Inv, Start PROVE Inv' OBVIOUS
<1>1. /\ stage = "down" /\ stage' = "load" /\ nodeID' = starts + 1 /\ starts' = starts + 1
      /\ starts < MaxStarts /\ isBoot' \in BOOLEAN
      /\ UNCHANGED <<peers, file, exported, ctx, ops, recorded>>
  BY DEF Start
<1>2. nodeID' \in 1..MaxStarts /\ starts' \in 0..MaxStarts
  BY <1>1, PeersAssumption DEF Inv, Typed
<1>3. nodeID' \in 0..MaxStarts BY <1>2, PeersAssumption
<1>4. Typed' BY <1>1, <1>2, <1>3 DEF Inv, Typed, Frames, GoodList, GoodFrame
<1>5. AtRest' /\ Readers' /\ Current' /\ Kept'
  BY <1>1 DEF Inv, AtRest, Readers, HasReadLock, Current, Kept, Before
<1>6. Registered' BY <1>1, IdleGood DEF Inv, AtRest, Before, Registered
<1> QED BY <1>4, <1>5, <1>6 DEF Inv

LEMMA SelfGood ==
  ASSUME Typed, stage # "down", NEW a \in Addrs \cup {NoAddr}
  PROVE  LET c == [id |-> nodeID, entry |-> [addr |-> a, boot |-> isBoot]]
         IN  GoodChange(c) /\ "touch" \notin DOMAIN c /\ c.id = nodeID
<1>1. nodeID \in Ids /\ nodeID \notin Remotes BY NodeFacts
<1>2. GoodEntry(nodeID, [addr |-> a, boot |-> isBoot])
  BY <1>1 DEF GoodEntry, Entry, Typed
<1> QED BY <1>1, <1>2, RegisterGood

LEMMA LoadInv == Inv /\ LoadAndRegister => Inv'
<1> SUFFICES ASSUME Inv, LoadAndRegister PROVE Inv' OBVIOUS
<1> DEFINE S == {[id |-> nodeID, entry |-> [addr |-> NoAddr, boot |-> isBoot]]}
<1>1. /\ stage = "load" /\ stage' = "self"
      /\ peers' = (IF file = Torn THEN peers ELSE Over(file, peers))
      /\ ctx' = [ctx EXCEPT ![Main] = CallFrame(S)]
      /\ UNCHANGED <<nodeID, isBoot, file, exported, starts, ops, recorded>>
  BY DEF LoadAndRegister, loadPeers, registerSelf, Calls, CallFrame
<1>2. Typed /\ Main \in Threads /\ GoodList(peers) /\ (file = Torn \/ GoodList(file)) /\ Frames
  BY PeersAssumption DEF Inv, Typed
<1>3. \A c \in S : GoodChange(c) /\ "touch" \notin DOMAIN c /\ c.id = nodeID
  BY <1>1, <1>2, SelfGood
<1> HIDE DEF S
<1> DEFINE f == CallFrame(S)
<1>4. GoodFrame(f) /\ f.at = "change" /\ f.todo = S BY <1>3, CallGood
<1> HIDE DEF f
<1>5. Frames' /\ ctx'[Main] = f /\ \A u \in Threads \ {Main} : ctx'[u] = ctx[u]
  BY <1>1, <1>2, <1>4, SetFrame DEF f
<1>6. \A u \in Threads : ctx[u] = Idle BY <1>1 DEF Inv, AtRest, Before
<1>7. \A u \in Threads : ctx'[u].at \in {"idle", "change"}
  BY <1>4, <1>5, <1>6, IdleGood
<1>8. GoodList(peers') /\ (file = Torn \/ DOMAIN file \subseteq DOMAIN peers')
  BY <1>1, <1>2, OverGood
<1>9. Typed' BY <1>1, <1>5, <1>8 DEF Inv, Typed, GoodList
<1>10. AtRest' BY <1>1 DEF AtRest, Before
<1>11. Readers' BY <1>7 DEF Readers, HasReadLock
<1>12. Current' BY <1>1, <1>4, <1>5 DEF Current
<1>13. Registered' BY <1>1, <1>3, <1>4, <1>5, <1>6, IdleGood DEF Registered
<1>14. Kept' BY <1>1, <1>7, <1>8 DEF Inv, Kept, Before, Saving
<1> QED BY <1>9, <1>10, <1>11, <1>12, <1>13, <1>14 DEF Inv

LEMMA ListenInv == Inv /\ StartP2P => Inv'
<1> SUFFICES ASSUME Inv, StartP2P PROVE Inv' OBVIOUS
<1>1. /\ stage = "self" /\ stage' = "listen" /\ ctx[Main] = Idle
      /\ UNCHANGED <<nodeID, isBoot, peers, file, exported, starts, ops, recorded>>
  BY DEF StartP2P
<1>2. Typed /\ Main \in Threads /\ Frames BY PeersAssumption DEF Inv, Typed
<1>3. nodeID \in DOMAIN peers BY <1>1, IdleGood DEF Inv, Registered
<1>4. file = peers \/ \E t \in Threads \ {Main} : ctx[t].at \in Saving
  BY <1>1, IdleGood DEF Inv, Current, Before, Saving
<1>5. ASSUME Frames', \A u \in Threads \ {Main} : ctx'[u] = ctx[u],
             ctx'[Main].at \in {"idle", "change"}, \A c \in ctx'[Main].todo : "touch" \notin DOMAIN c
      PROVE  Inv'
  <2>1. Typed' BY <1>1, <1>5 DEF Inv, Typed, GoodList
  <2>2. AtRest' BY <1>1 DEF AtRest, Before
  <2>3. Readers' BY <1>1, <1>5 DEF Inv, Readers, HasReadLock
  <2>4. Current' BY <1>1, <1>4, <1>5 DEF Current
  <2>5. Registered' BY <1>1, <1>3, <1>5 DEF Inv, Registered
  <2>6. Kept' BY <1>1, <1>5 DEF Inv, Kept, Before, Saving
  <2> QED BY <2>1, <2>2, <2>3, <2>4, <2>5, <2>6 DEF Inv
<1>6. CASE UNCHANGED ctx
  <2>1. Frames' BY <1>2, <1>6 DEF Frames
  <2> QED BY <1>1, <1>5, <1>6, <2>1, IdleGood
<1>7. ASSUME NEW A \in SUBSET Addrs,
             Calls(Main, {[id |-> nodeID, entry |-> [addr |-> a, boot |-> isBoot]] : a \in A})
      PROVE  Inv'
  <2> DEFINE S == {[id |-> nodeID, entry |-> [addr |-> a, boot |-> isBoot]] : a \in A}
             f == CallFrame(S)
  <2>1. ctx' = [ctx EXCEPT ![Main] = f] BY <1>7 DEF Calls, CallFrame
  <2>2. \A c \in S : GoodChange(c) /\ "touch" \notin DOMAIN c BY <1>1, <1>2, SelfGood
  <2> HIDE DEF S
  <2>3. GoodFrame(f) /\ f.at = "change" /\ f.todo = S BY <2>2, CallGood
  <2> HIDE DEF f
  <2>4. Frames' /\ ctx'[Main] = f /\ \A u \in Threads \ {Main} : ctx'[u] = ctx[u]
    BY <1>2, <2>1, <2>3, SetFrame
  <2> QED BY <1>5, <2>2, <2>3, <2>4
<1> QED BY <1>6, <1>7 DEF StartP2P

LEMMA UpInv == Inv /\ EndInit => Inv'
<1> SUFFICES ASSUME Inv, EndInit PROVE Inv' OBVIOUS
<1>1. /\ stage = "listen" /\ stage' = "up"
      /\ UNCHANGED <<nodeID, isBoot, peers, file, exported, ctx, starts, ops, recorded>>
  BY DEF EndInit
<1>2. Typed' BY <1>1 DEF Inv, Typed, Frames, GoodFrame, GoodList
<1>3. AtRest' /\ Readers' /\ Current' /\ Registered' /\ Kept'
  BY <1>1 DEF Inv, AtRest, Readers, HasReadLock, Current, Registered, Kept, Before, Saving
<1> QED BY <1>2, <1>3 DEF Inv

LEMMA EndInv == Inv /\ End => Inv'
<1> SUFFICES ASSUME Inv, End PROVE Inv' OBVIOUS
<1>1. /\ stage' = "down" /\ peers' = Nobody /\ ctx' = [t \in Threads |-> Idle]
      /\ recorded' = (IF file = Torn THEN {} ELSE recorded)
      /\ nodeID' = 0 /\ isBoot' = FALSE
      /\ UNCHANGED <<file, exported, starts, ops>>
  BY DEF End
<1>2. Frames' BY <1>1, IdleGood DEF Frames, GoodFrame
<1>3. 0 \in 0..MaxStarts BY PeersAssumption
<1>4. Typed' BY <1>1, <1>2, <1>3, NobodyGood DEF Inv, Typed, GoodList
<1>5. AtRest' /\ Readers' /\ Current' /\ Registered' /\ Kept'
  BY <1>1, IdleGood
  DEF Inv, AtRest, Readers, HasReadLock, Current, Registered, Kept, Before, Saving
<1> QED BY <1>4, <1>5 DEF Inv

LEMMA StepInv == Inv /\ [Next]_vars => Inv'
<1> SUFFICES ASSUME Inv, [Next]_vars PROVE Inv' OBVIOUS
<1>1. ASSUME NEW t \in Threads, ThreadStep(t) PROVE Inv'
  BY <1>1, ChangeInv, SaveInv, WriteInv, EndExportInv DEF ThreadStep
<1>2. CASE UNCHANGED vars
  <2>1. Typed' BY <1>2 DEF Inv, Typed, Frames, GoodFrame, GoodList, vars
  <2>2. AtRest' /\ Readers' /\ Current' /\ Registered' /\ Kept'
    BY <1>2 DEF Inv, AtRest, Readers, HasReadLock, Current, Registered, Kept, vars
  <2> QED BY <2>1, <2>2 DEF Inv
<1> QED BY <1>1, <1>2, CallInv, StartInv, LoadInv, ListenInv, UpInv, EndInv DEF Next

LEMMA AlwaysInv == Spec => []Inv
BY InitInv, StepInv, PTL DEF Spec

\* Every variable keeps its type, the lists in all files included.
THEOREM TypeCorrect == Spec => []TypeOK
<1>1. Inv => TypeOK
  <2> SUFFICES ASSUME Inv PROVE TypeOK OBVIOUS
  <2>1. \A t \in Threads : ctx[t] \in Frame BY DEF Inv, Typed, Frames
  <2> QED BY <2>1 DEF Inv, Typed, TypeOK, GoodList, Frame, PlaceNames
<1> QED BY <1>1, AlwaysInv, PTL

\* SavedListIsCurrent for any instance: no saver with an old list is the last to write
\* peers.json, because savePeers keeps the read lock until the file is written.
THEOREM SavedListFollows == Spec => []SavedListIsCurrent
<1>1. Inv => SavedListIsCurrent
  BY DEF Inv, Current, Before, Saving, SavedListIsCurrent
<1> QED BY <1>1, AlwaysInv, PTL

\* RegisteredPeersAreKept for any number of processes: what a call has registered is in
\* the registry from then on, unless a later write of the file was cut.
THEOREM PeersAreKept == Spec => []RegisteredPeersAreKept
<1>1. Inv => RegisteredPeersAreKept
  <2> SUFFICES ASSUME Inv, stage \notin Before, NEW i \in recorded
               PROVE  i \in DOMAIN peers /\ (i \in BootPeers => peers[i].addr \in getBootstrapAddrs)
    BY DEF RegisteredPeersAreKept, Before
  <2>1. i \in DOMAIN peers BY DEF Inv, Kept
  <2>2. GoodEntry(i, peers[i]) BY <2>1 DEF Inv, Typed, GoodList
  <2>3. i \in BootPeers => peers[i].boot /\ peers[i].addr # NoAddr
    BY <2>2, PeersAssumption DEF GoodEntry
  <2> QED BY <2>1, <2>3 DEF getBootstrapAddrs
<1> QED BY <1>1, AlwaysInv, PTL
=============================================================================
