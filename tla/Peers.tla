------------------------------- MODULE Peers --------------------------------
(***************************************************************************)
(* The peer registry and its file (network/network.go, network/peer.go).   *)
(* A change is made under the write lock of the registry; savePeers then   *)
(* takes the read lock again, and keeps it until peers.json is written,    *)
(* so several savers may write at once but nothing changes meanwhile.      *)
(* os.WriteFile empties the file before it writes.  A process may end      *)
(* anywhere; the next one has another random node ID.                      *)
(*                                                                         *)
(* Node IDs are the numbers of the starts.  Of an entry the address and    *)
(* the flag Boot matter (a peer's flag says that its role is boot); a list *)
(* in a file is a function of the ID, since its order comes from a map.    *)
(***************************************************************************)
EXTENDS Integers

CONSTANTS
  Remotes,     \* IDs of other nodes
  BootPeers,   \* those among them that are boot nodes
  Addrs,       \* addresses of peers
  Threads,     \* goroutines
  Main,        \* the one that runs InitNetwork
  Torn,        \* a file without a list: absent, empty or cut
  MaxStarts,   \* bound: processes
  MaxOps       \* bound: calls

NoAddr == ""

ASSUME PeersAssumption ==
  /\ BootPeers \subseteq Remotes /\ Main \in Threads /\ NoAddr \notin Addrs
  /\ Remotes \cap 1..MaxStarts = {}
  /\ MaxStarts \in Nat /\ MaxOps \in Nat

VARIABLES
  stage,    \* of the process: "down", InitNetwork's "load", "self", "listen", or "up"
  nodeID, isBoot,
  peers,    \* the registry
  file,     \* peers.json
  exported, \* the file of ExportPeers and ImportPeers
  ctx,      \* where each goroutine stands
  starts, ops, \* processes and calls so far (for the bounds)
  recorded  \* history: IDs whose registration has returned

vars == <<stage, nodeID, isBoot, peers, file, exported, ctx, starts, ops, recorded>>

Ids == Remotes \cup 1..MaxStarts
Entry == [addr: Addrs \cup {NoAddr}, boot: BOOLEAN]
Lists == UNION {[S -> Entry] : S \in SUBSET Ids}
Nobody == [i \in {} |-> 0]
Change == [id: Ids, entry: Entry] \cup [touch: Addrs]

\* todo: changes that a call has still to make; list: what it writes; id: whom it is for.
Idle == [at |-> "idle", todo |-> {}, list |-> Nobody, id |-> 0]

Init ==
  /\ stage = "down" /\ nodeID = 0 /\ isBoot = FALSE
  /\ peers = Nobody /\ file = Torn /\ exported = Torn
  /\ ctx = [t \in Threads |-> Idle]
  /\ starts = 0 /\ ops = 0 /\ recorded = {}

-----------------------------------------------------------------------------
(* Changing and saving *)

Calls(t, changes) ==
  ctx' = [ctx EXCEPT ![t] = [Idle EXCEPT !.at = "change", !.todo = changes]]
Goto(t, place) == ctx' = [ctx EXCEPT ![t].at = place]

\* A fault: the read lock is released before the file is written.
HasReadLockUntilMarshalled(t) == FALSE

HasReadLock(t) == ctx[t].at \in {"truncate", "write"}

\* The list k after the entries of l have been assigned to it.
Over(l, k) ==
  [i \in DOMAIN l \cup DOMAIN k |-> IF i \in DOMAIN l THEN l[i] ELSE k[i]]

\* Under the write lock: peers[id] = ..., or the new address of this node if it is there.
ChangeRegistry(t) ==
  /\ ctx[t].at = "change"
  /\ \A u \in Threads : ~HasReadLock(u)
  /\ \E c \in ctx[t].todo :
       LET id == IF "touch" \in DOMAIN c THEN nodeID ELSE c.id
       IN  /\ peers' = IF "touch" \notin DOMAIN c THEN Over([i \in {id} |-> c.entry], peers)
                       ELSE IF id \in DOMAIN peers
                            THEN [peers EXCEPT ![id].addr = c.touch]
                            ELSE peers
           /\ ctx' = [ctx EXCEPT ![t].at = "save", ![t].todo = @ \ {c}, ![t].id = id]
  /\ UNCHANGED <<stage, nodeID, isBoot, file, exported, starts, ops, recorded>>

\* A fault: the write lock is kept while savePeers waits for the read lock.
MayReadUnlessChanged == \A u \in Threads : ctx[u].at # "save"

\* Nobody holds the write lock between two steps.
MayRead == TRUE

\* savePeers: RLock and the list.
BeginSave(t) ==
  /\ ctx[t].at = "save" /\ MayRead
  /\ ctx' = [ctx EXCEPT ![t] = [@ EXCEPT !.at = "truncate", !.list = peers]]
  /\ UNCHANGED <<stage, nodeID, isBoot, peers, file, exported, starts, ops, recorded>>

\* os.WriteFile opens the file and empties it, ...
Truncate(t) ==
  /\ ctx[t].at = "truncate"
  /\ file' = Torn
  /\ Goto(t, "write")
  /\ UNCHANGED <<stage, nodeID, isBoot, peers, exported, starts, ops, recorded>>

\* ... writes the list and closes it; RUnlock.  The registration has returned.
Write(t) ==
  /\ ctx[t].at = "write"
  /\ file' = ctx[t].list
  /\ recorded' = recorded \cup {ctx[t].id}
  /\ ctx' = [ctx EXCEPT ![t] =
       IF @.todo = {} THEN Idle
       ELSE [@ EXCEPT !.at = "change", !.list = Nobody, !.id = 0]]
  /\ UNCHANGED <<stage, nodeID, isBoot, peers, exported, starts, ops>>

-----------------------------------------------------------------------------
(* InitNetwork *)

Start ==
  /\ stage = "down" /\ starts < MaxStarts
  /\ stage' = "load" /\ starts' = starts + 1 /\ nodeID' = starts + 1
  /\ isBoot' \in BOOLEAN
  /\ UNCHANGED <<peers, file, exported, ctx, ops, recorded>>

registerSelf == Calls(Main, {[id |-> nodeID, entry |-> [addr |-> NoAddr, boot |-> isBoot]]})

\* Faults: what is in the file is taken as it is, or not at all.
loadPeersUnchecked == peers' = file
loadPeersNever == peers' = peers

\* A file without a list is ignored.
loadPeers == peers' = IF file = Torn THEN peers ELSE Over(file, peers)

LoadAndRegister ==
  /\ stage = "load" /\ stage' = "self"
  /\ loadPeers /\ registerSelf
  /\ UNCHANGED <<nodeID, isBoot, file, exported, starts, ops, recorded>>

\* StartP2P registers every address the host listens on; the stub none.
StartP2P ==
  /\ stage = "self" /\ ctx[Main] = Idle
  /\ stage' = "listen"
  /\ \E listening \in SUBSET Addrs :
       IF listening = {} THEN UNCHANGED ctx
       ELSE Calls(Main, {[id |-> nodeID, entry |-> [addr |-> a, boot |-> isBoot]] : a \in listening})
  /\ UNCHANGED <<nodeID, isBoot, peers, file, exported, starts, ops, recorded>>

EndInit ==
  /\ stage = "listen" /\ ctx[Main] = Idle
  /\ stage' = "up"
  /\ UNCHANGED <<nodeID, isBoot, peers, file, exported, ctx, starts, ops, recorded>>

\* The end of the process.  A list that is cut while it is written is lost with all that
\* it recorded.
End ==
  /\ stage # "down" /\ stage' = "down"
  /\ peers' = Nobody /\ ctx' = [t \in Threads |-> Idle]
  /\ recorded' = IF file = Torn THEN {} ELSE recorded
  /\ nodeID' = 0 /\ isBoot' = FALSE
  /\ UNCHANGED <<file, exported, starts, ops>>

-----------------------------------------------------------------------------
(* Calls *)

Called(t) ==
  /\ stage = "up" /\ ctx[t] = Idle
  /\ ops < MaxOps /\ ops' = ops + 1
  /\ UNCHANGED <<stage, nodeID, isBoot, peers, file, starts, recorded>>

\* ConnectPeer does the same.
RegisterPeerRemote(t, id, addr) ==
  /\ Called(t)
  /\ Calls(t, {[id |-> id, entry |-> [addr |-> addr, boot |-> id \in BootPeers]]})
  /\ UNCHANGED exported

TouchSelfAddr(t, addr) ==
  /\ Called(t)
  /\ Calls(t, {[touch |-> addr]})
  /\ UNCHANGED exported

\* Every entry of the list is registered by a call of its own; a file without a list is
\* an error.
ImportPeers(t) ==
  /\ Called(t)
  /\ exported # Torn
  /\ Calls(t, {[id |-> i, entry |-> exported[i]] : i \in DOMAIN exported})
  /\ UNCHANGED exported

\* The list is made under the read lock and written after it has been released.
ExportPeers(t) ==
  /\ Called(t)
  /\ exported' = Torn
  /\ ctx' = [ctx EXCEPT ![t] = [Idle EXCEPT !.at = "export", !.list = peers]]

EndExport(t) ==
  /\ ctx[t].at = "export"
  /\ exported' = ctx[t].list
  /\ ctx' = [ctx EXCEPT ![t] = Idle]
  /\ UNCHANGED <<stage, nodeID, isBoot, peers, file, starts, ops, recorded>>

-----------------------------------------------------------------------------
ThreadStep(t) ==
  ChangeRegistry(t) \/ BeginSave(t) \/ Truncate(t) \/ Write(t) \/ EndExport(t)

Call(t) ==
  \/ \E id \in Remotes, addr \in Addrs : RegisterPeerRemote(t, id, addr)
  \/ \E addr \in Addrs : TouchSelfAddr(t, addr)
  \/ ImportPeers(t) \/ ExportPeers(t)

Next ==
  \/ Start \/ LoadAndRegister \/ StartP2P \/ EndInit \/ End
  \/ \E t \in Threads : Call(t) \/ ThreadStep(t)

Spec == Init /\ [][Next]_vars

\* A goroutine that is inside a call goes on.
FairSpec == Spec /\ \A t \in Threads : WF_vars(ThreadStep(t))

-----------------------------------------------------------------------------
TypeOK ==
  /\ stage \in {"down", "load", "self", "listen", "up"}
  /\ nodeID \in 0..MaxStarts /\ isBoot \in BOOLEAN
  /\ peers \in Lists /\ file \in Lists \cup {Torn} /\ exported \in Lists \cup {Torn}
  /\ \A t \in Threads :
       /\ ctx[t].at \in {"idle", "change", "save", "truncate", "write", "export"}
       /\ ctx[t].todo \subseteq Change
       /\ ctx[t].list \in Lists /\ ctx[t].id \in Ids \cup {0}
  /\ starts \in 0..MaxStarts /\ ops \in 0..MaxOps /\ recorded \subseteq Ids

\* When nobody is between a change and the end of its save, peers.json is the registry:
\* of two savers the one with the older list is never the last to write, because the
\* read lock that it holds while it writes keeps the newer change waiting.
SavedListIsCurrent ==
  stage = "up" /\ (\A t \in Threads : ctx[t].at \notin {"save", "truncate", "write"}) =>
    file = peers

\* Unless HYPERLUX_BOOTSTRAP lists others.
getBootstrapAddrs ==
  {peers[i].addr : i \in {j \in DOMAIN peers : peers[j].boot /\ peers[j].addr # NoAddr}}

\* Whoever was registered is in the registry of every later process, and a boot peer
\* among the addresses it bootstraps from, unless a process ended in the middle of
\* writing the file after that.
RegisteredPeersAreKept ==
  stage \notin {"down", "load"} =>
    \A i \in recorded :
      /\ i \in DOMAIN peers
      /\ i \in BootPeers => peers[i].addr \in getBootstrapAddrs

\* No call of the registry waits for ever, for a lock it holds itself or for another's.
CallsReturn ==
  \A t \in Threads : ctx[t] # Idle ~> ctx[t] = Idle
=============================================================================
