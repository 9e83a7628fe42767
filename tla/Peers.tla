-------------------------------- MODULE Peers --------------------------------
(***************************************************************************)
(* The connections of core/p2p/network_manager.cpp and the part of          *)
(* core/node/node.cpp that follows them: the accept thread, one thread per   *)
(* connection, the table both share, bans, the record of peers, the          *)
(* synchronisation target and its loop, and how Stop takes all of it down.   *)
(*                                                                          *)
(* IsConnected() asks for the state CONNECTED, which only a verack sets, and  *)
(* verack is read only while IsConnected(): HandlePeer's loop body is never   *)
(* run, so a thread that took its connection closes it next, and broadcasts   *)
(* and requests, which go to connected peers, send nothing.  That close wakes *)
(* the accept thread is assumed; AddPeer and Stop are not called at once.     *)
(***************************************************************************)
EXTENDS Integers, Sequences, FiniteSets, Functions, FiniteSetsExt, Sums

CONSTANTS
    Peer,           \* the addresses with their ports
    MaxConnections, \* MAX_CONNECTIONS
    MaxSocket,      \* bound on the sockets open at once
    MaxThreads,     \* bound on the connection threads that run at once
    MaxOwnHeight    \* bound on the height of the chain

ASSUME PeersAssumption ==
    {MaxConnections, MaxSocket, MaxThreads, MaxOwnHeight} \subseteq Nat /\ IsFiniteSet(Peer)

VARIABLES
    open,       \* the sockets that are open; a closed one is used again
    table,      \* peers_ of the NetworkManager: the connection, known by its socket
    banned,     \* banned_peers_
    acceptor,   \* where the accept thread is, with the peer and connection it holds
    threads,    \* connection_threads_ that run, by what they do next
    stage,      \* of the node: "off", "on", or how far Stop has come
    ownHeight,  \* Node::GetHeight()
    known,      \* peers_ of the Node: the heights noted for connected peers
    syncTarget, \* sync_target_height_
    isSyncing,  \* is_syncing_
    syncLoop    \* whether the sync thread runs
peersVars == <<open, table, banned, acceptor, threads, stage,
               ownHeight, known, syncTarget, isSyncing, syncLoop>>
syncVars == <<ownHeight, known, syncTarget, isSyncing, syncLoop>>

At(where, p, c) == [at |-> where, peer |-> p, conn |-> c]
Nowhere(where) == [at |-> where, peer |-> "none", conn |-> 0]

(* How many threads dial a peer and how many will take its connection; the dialled *)
(* connections with their peers, and those that threads hold                        *)
NoThreads == [dial |-> [p \in Peer |-> 0], take |-> [p \in Peer |-> 0],
              dialled |-> {}, hold |-> {}]
Running == Cardinality(threads.dialled) + Cardinality(threads.hold)
           + Sum([p \in Peer |-> threads.dial[p] + threads.take[p]])

(* The system gives out the lowest free number *)
Socket == Min((1 .. MaxSocket) \ open)
CanOpen == open # 1 .. MaxSocket

InitPeers ==
    /\ open = {} /\ table = [p \in {} |-> 0] /\ banned = {}
    /\ acceptor = Nowhere("none") /\ threads = NoThreads /\ stage = "off"
    /\ ownHeight \in 0 .. 1 /\ known = [p \in {} |-> 0]
    /\ syncTarget = 0 /\ isSyncing = FALSE /\ syncLoop = FALSE

(* What an assignment into the table, or an erasure, destroys is disconnected *)
Dropped(p) == IF p \in DOMAIN table THEN {table[p]} ELSE {}
Without(p) == Restrict(table, DOMAIN table \ {p})
With(p, c) == [q \in DOMAIN table \cup {p} |-> IF q = p THEN c ELSE table[q]]

-----------------------------------------------------------------------------
StartNode ==
    /\ stage = "off"
    /\ stage' = "on" /\ acceptor' = Nowhere("waiting")
    /\ syncTarget' = ownHeight /\ isSyncing' = TRUE /\ syncLoop' = TRUE
    /\ UNCHANGED <<open, table, banned, threads, ownHeight, known>>

(* AcceptLoop, up to the ban, which closes the socket at once *)
Accept(p) ==
    /\ acceptor.at = "waiting" /\ stage \in {"on", "sync"}
    /\ CanOpen /\ Running < MaxThreads
    /\ p \notin banned
    /\ acceptor' = At("accepted", p, Socket) /\ open' = open \cup {Socket}
    /\ UNCHANGED <<table, banned, threads, stage, syncVars>>

AcceptInsert ==
    /\ acceptor.at = "accepted"
    /\ IF Cardinality(DOMAIN table) >= MaxConnections
       THEN /\ open' = open \ {acceptor.conn}
            /\ acceptor' = Nowhere("waiting") /\ UNCHANGED table
       ELSE /\ table' = With(acceptor.peer, acceptor.conn)
            /\ open' = open \ Dropped(acceptor.peer)
            /\ acceptor' = At("inserted", acceptor.peer, 0)
    /\ UNCHANGED <<banned, threads, stage, syncVars>>

AcceptSpawn ==
    /\ acceptor.at = "inserted"
    /\ threads' = [threads EXCEPT !.take[acceptor.peer] = @ + 1]
    /\ acceptor' = At("spawned", acceptor.peer, 0)
    /\ UNCHANGED <<open, table, banned, stage, syncVars>>

(* Mutant: the peer is ahead by what it will have told *)
NotedHeight_Ahead == ownHeight + 1

(* HandleNewPeer notes the node's own height; no message ever tells another *)
NotedHeight == ownHeight

Best(heights) == Max({ownHeight} \cup {heights[p] : p \in DOMAIN heights})

(* HandleNewPeer with RecomputeSyncTarget; nothing takes is_connected back *)
HandleNewPeer ==
    /\ acceptor.at = "spawned"
    /\ LET p == acceptor.peer
           heights == [q \in DOMAIN known \cup {p} |->
                          IF q \in DOMAIN known THEN known[q] ELSE NotedHeight]
       IN  /\ known' = heights
           /\ syncTarget' = Best(heights)
           /\ isSyncing' = (isSyncing \/ Best(heights) > ownHeight)
    /\ acceptor' = Nowhere("waiting")
    /\ UNCHANGED <<open, table, banned, threads, stage, ownHeight, syncLoop>>

(* The listening socket is closed; the loop ends *)
AcceptEnds ==
    /\ acceptor.at = "waiting" /\ stage = "accept"
    /\ acceptor' = Nowhere("done")
    /\ UNCHANGED <<open, table, banned, threads, stage, syncVars>>

-----------------------------------------------------------------------------
(* HandlePeer takes the connection out of the table: that of its own accept, or a later *)
(* one of the same peer, or none if another thread or a ban was faster                   *)
Take(p) ==
    /\ threads.take[p] > 0
    /\ threads' = [threads EXCEPT !.take[p] = @ - 1, !.hold = @ \cup Dropped(p)]
    /\ table' = Without(p)
    /\ UNCHANGED <<open, banned, acceptor, stage, syncVars>>

EndPeer(c) ==
    /\ c \in threads.hold
    /\ open' = open \ {c}
    /\ threads' = [threads EXCEPT !.hold = @ \ {c}]
    /\ UNCHANGED <<table, banned, acceptor, stage, syncVars>>

(* Node::AddPeer and NetworkManager::AddPeer; the node's record has height 0, unconnected *)
AddPeer(p) ==
    /\ stage = "on" /\ p \notin banned /\ Running < MaxThreads
    /\ threads' = [threads EXCEPT !.dial[p] = @ + 1]
    /\ UNCHANGED <<open, table, banned, acceptor, stage, syncVars>>

(* ConnectOutbound: Connect fails, or succeeds; a ban since AddPeer is not looked at *)
DialFails(p) ==
    /\ threads.dial[p] > 0
    /\ threads' = [threads EXCEPT !.dial[p] = @ - 1]
    /\ UNCHANGED <<open, table, banned, acceptor, stage, syncVars>>

Dial(p) ==
    /\ threads.dial[p] > 0 /\ CanOpen
    /\ open' = open \cup {Socket}
    /\ threads' = [threads EXCEPT !.dial[p] = @ - 1, !.dialled = @ \cup {<<p, Socket>>}]
    /\ UNCHANGED <<table, banned, acceptor, stage, syncVars>>

DialInsert(p, c) ==
    /\ <<p, c>> \in threads.dialled
    /\ table' = With(p, c)
    /\ open' = open \ Dropped(p)
    /\ threads' = [threads EXCEPT !.dialled = @ \ {<<p, c>>}, !.take[p] = @ + 1]
    /\ UNCHANGED <<banned, acceptor, stage, syncVars>>

(* BanPeer: the address first, then RemovePeer *)
BanAddress(p) ==
    /\ stage = "on" /\ p \notin banned
    /\ banned' = banned \cup {p}
    /\ UNCHANGED <<open, table, acceptor, threads, stage, syncVars>>

RemovePeer(p) ==
    /\ stage = "on" /\ p \in banned /\ p \in DOMAIN table
    /\ table' = Without(p) /\ open' = open \ {table[p]}
    /\ UNCHANGED <<banned, acceptor, threads, stage, syncVars>>

-----------------------------------------------------------------------------
(* A block was mined: ProcessBlock without a peer *)
Grow ==
    /\ stage = "on" /\ ownHeight < MaxOwnHeight
    /\ ownHeight' = ownHeight + 1
    /\ isSyncing' = (isSyncing /\ ownHeight + 1 < syncTarget)
    /\ UNCHANGED <<open, table, banned, acceptor, threads, stage, known,
                   syncTarget, syncLoop>>

(* SyncLoop: one turn that finds the target reached, and the end of the loop *)
SyncReached ==
    /\ syncLoop /\ isSyncing /\ DOMAIN known # {}
    /\ ownHeight >= syncTarget /\ syncTarget > 0
    /\ isSyncing' = FALSE
    /\ UNCHANGED <<open, table, banned, acceptor, threads, stage, ownHeight, known,
                   syncTarget, syncLoop>>

SyncEnds ==
    /\ syncLoop /\ ~isSyncing
    /\ syncLoop' = FALSE
    /\ UNCHANGED <<open, table, banned, acceptor, threads, stage, ownHeight, known,
                   syncTarget, isSyncing>>

-----------------------------------------------------------------------------
(* Node::Stop, then NetworkManager::Stop: each stage waits for the one before it *)
StopNode ==
    /\ stage = "on"
    /\ stage' = "sync" /\ isSyncing' = FALSE
    /\ UNCHANGED <<open, table, banned, acceptor, threads, ownHeight, known,
                   syncTarget, syncLoop>>

StopNetwork ==
    /\ stage = "sync" /\ ~syncLoop
    /\ stage' = "accept"
    /\ UNCHANGED <<open, table, banned, acceptor, threads, syncVars>>

(* peers_.clear() disconnects what no thread has taken yet *)
StopClear ==
    /\ stage = "accept" /\ acceptor.at = "done"
    /\ table' = [p \in {} |-> 0] /\ open' = open \ Range(table)
    /\ stage' = "join"
    /\ UNCHANGED <<banned, acceptor, threads, syncVars>>

StopJoin ==
    /\ stage = "join" /\ Running = 0
    /\ stage' = "off" /\ acceptor' = Nowhere("none")
    /\ UNCHANGED <<open, table, banned, threads, syncVars>>

PeersStep ==
    \/ StartNode \/ AcceptInsert \/ AcceptSpawn \/ HandleNewPeer \/ AcceptEnds
    \/ \E p \in Peer :
          \/ Accept(p) \/ AddPeer(p) \/ BanAddress(p) \/ RemovePeer(p)
          \/ Take(p) \/ DialFails(p) \/ Dial(p)
          \/ \E c \in 1 .. MaxSocket : DialInsert(p, c)
    \/ \E c \in 1 .. MaxSocket : EndPeer(c)
    \/ Grow \/ SyncReached \/ SyncEnds
    \/ StopNode \/ StopNetwork \/ StopClear \/ StopJoin

PeersSpec == InitPeers /\ [][PeersStep]_peersVars

-----------------------------------------------------------------------------
PeersTypeOK ==
    /\ open \subseteq 1 .. MaxSocket /\ banned \subseteq Peer
    /\ DOMAIN table \subseteq Peer /\ Range(table) \subseteq 1 .. MaxSocket
    /\ threads \in [dial : [Peer -> Nat], take : [Peer -> Nat],
                    dialled : SUBSET (Peer \X (1 .. MaxSocket)), hold : SUBSET (1 .. MaxSocket)]
    /\ stage \in {"off", "on", "sync", "accept", "join"}
    /\ DOMAIN known \subseteq Peer /\ isSyncing \in BOOLEAN /\ syncLoop \in BOOLEAN

Accepted == IF acceptor.at = "accepted" THEN {acceptor.conn} ELSE {}
Dialled == {d[2] : d \in threads.dialled}

(* Whoever overtakes whom, every open connection has one place and someone who will close  *)
(* it: the table, from which a thread still has to take it, the accept thread, or a        *)
(* connection thread; no thread closes what another holds, and a node that stopped has      *)
(* none open.  And while the node says it is syncing its loop runs: the loop is never       *)
(* started again, so no new target may turn up after it ended.                               *)
ConnectionsAreServed ==
    /\ open = Range(table) \cup Dialled \cup threads.hold \cup Accepted
    /\ IsInjective(table)
    /\ Cardinality(open) = Cardinality(DOMAIN table) + Cardinality(threads.dialled)
                          + Cardinality(threads.hold) + Cardinality(Accepted)
    /\ \A p \in DOMAIN table :
          threads.take[p] > 0 \/ (acceptor.at = "inserted" /\ acceptor.peer = p)
    /\ stage = "off" => open = {}
    /\ stage = "on" /\ isSyncing => syncLoop
=============================================================================
