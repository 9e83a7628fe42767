---------------------------- MODULE ServicesProofs ----------------------------
(***************************************************************************)
(* What is remembered of peers, how their connections are served, the         *)
(* payments off the chain, the rollups and the plasma chain, and the pool of    *)
(* transactions, for any peers, sockets, scores, durations, accounts, widths,  *)
(* transactions, blocks and bounds.                                         *)
(***************************************************************************)
EXTENDS Wire, PeerStore, Peers, Channels, Rollups, Mempool, FiniteSetTheorems, SequenceTheorems, TLAPS

(* What an entry and a collection of entries are *)
EntryType == [named : BOOLEAN, banned : BOOLEAN, until : Nat,
              score : 0 .. MaxScore, violations : 0 .. MaxViolations]
IsStore(db) == DOMAIN db \subseteq Known /\ db = [p \in DOMAIN db |-> db[p]]
               /\ \A p \in DOMAIN db : db[p] \in EntryType

(* A collection knows that a peer is banned until then *)
KnowsBan(db, p, until) ==
    p \in DOMAIN db /\ db[p].named /\ db[p].banned /\ db[p].until = until

(* The entries in memory know the bans that still run, and the file those that did at the *)
(* last Close; what is in the file has an address                                        *)
StoreInv ==
    /\ IsStore(entries) /\ IsStore(saved)
    /\ isOpen \in BOOLEAN /\ storeTime \in Nat \ {0} /\ banTold \in [Known -> Nat]
    /\ banKept \in [Known -> Nat]
    /\ \A p \in DOMAIN saved : saved[p].named
    /\ \A p \in Known : storeTime <= banTold[p] => KnowsBan(entries, p, banTold[p])
    /\ \A p \in Known : storeTime <= banKept[p] => KnowsBan(saved, p, banKept[p])

-----------------------------------------------------------------------------
(* A new store remembers nobody *)
LEMMA InitStoreInv == InitStore => StoreInv
<1> SUFFICES ASSUME InitStore PROVE StoreInv
    OBVIOUS
<1>1. /\ entries = NoEntries /\ saved = NoEntries /\ isOpen = FALSE
      /\ storeTime = 1 /\ banTold = [p \in Known |-> 0] /\ banKept = [p \in Known |-> 0]
    BY DEF InitStore
<1>2. IsStore(NoEntries) /\ DOMAIN NoEntries = {}
    BY DEF IsStore, NoEntries
<1>3. \A p \in Known : ~(storeTime <= banTold[p]) /\ ~(storeTime <= banKept[p])
    BY <1>1
<1>4. isOpen \in BOOLEAN /\ storeTime \in Nat \ {0} /\ banTold \in [Known -> Nat] /\ banKept \in [Known -> Nat]
    <2>1. isOpen \in BOOLEAN
        BY <1>1
    <2>2. storeTime \in Nat \ {0}
        BY <1>1
    <2>3. banTold \in [Known -> Nat] /\ banKept \in [Known -> Nat]
        BY <1>1
    <2> QED
        BY <2>1, <2>2, <2>3
<1>5. \A p \in DOMAIN saved : saved[p].named
    BY <1>1, <1>2
<1> QED
    BY <1>1, <1>2, <1>3, <1>4, <1>5 DEF StoreInv

(* Whatever is added to a score, it stays between its limits *)
LEMMA ClampedInRange == ASSUME NEW s \in Int PROVE Clamped(s) \in 0 .. MaxScore
BY PeerStoreAssumption DEF Clamped

(* An entry that is looked for, or made, is one *)
LEMMA EntryTyped == ASSUME StoreInv, NEW p \in Known PROVE Entry(p) \in EntryType
<1>1. Unnamed \in EntryType
    BY PeerStoreAssumption DEF Unnamed, EntryType
<1> QED
    BY <1>1 DEF StoreInv, IsStore, Entry

(* One entry is changed.  If the peer has an address and the ban on record ends when its *)
(* entry says, or if it has none and stays without, every ban is still known             *)
LEMMA RecordKeeps ==
    ASSUME StoreInv, NEW p \in Known, NEW e \in EntryType, Record(p, e),
           banTold' \in [Known -> Nat],
           \A q \in Known \ {p} : banTold'[q] = banTold[q],
           storeTime <= banTold'[p] => e.named /\ e.banned /\ e.until = banTold'[p]
    PROVE  StoreInv'
<1>1. /\ DOMAIN entries' = DOMAIN entries \cup {p} /\ entries'[p] = e
      /\ \A q \in DOMAIN entries \ {p} : entries'[q] = entries[q]
      /\ entries' = [q \in DOMAIN entries' |-> entries'[q]]
      /\ UNCHANGED <<saved, isOpen, storeTime, banKept>>
    BY DEF Record, Put
<1>2. IsStore(entries')
    <2>1. DOMAIN entries \subseteq Known /\ \A q \in DOMAIN entries : entries[q] \in EntryType
        BY DEF StoreInv, IsStore
    <2> QED
        BY <1>1, <2>1 DEF IsStore
<1>3. ASSUME NEW q \in Known, storeTime <= banTold'[q] PROVE KnowsBan(entries', q, banTold'[q])
    <2>1. CASE q = p
        BY <1>1, <1>3, <2>1 DEF KnowsBan
    <2>2. CASE q # p
        <3>1. KnowsBan(entries, q, banTold[q])
            BY <1>3, <2>2 DEF StoreInv
        <3> QED
            BY <1>1, <2>2, <3>1 DEF KnowsBan
    <2> QED
        BY <2>1, <2>2
<1> QED
    BY <1>1, <1>2, <1>3 DEF StoreInv

(* Record calls that say nothing of bans *)
LEMMA ScoreKeeps ==
    ASSUME StoreInv, NEW p \in Known, NEW delta \in Rewards, UpdateScore(p, delta)
    PROVE  StoreInv'
<1> DEFINE e == [Entry(p) EXCEPT !.score = Clamped(@ + delta)]
<1>1. Entry(p) \in EntryType
    BY EntryTyped
<1>2. Record(p, e) /\ banTold' = banTold
    BY DEF UpdateScore
<1>3. Clamped(Entry(p).score + delta) \in 0 .. MaxScore
    <2>1. delta \in Int /\ Entry(p).score \in Int
        BY <1>1, PeerStoreAssumption DEF EntryType
    <2> QED
        BY <2>1, ClampedInRange
<1>4. e \in EntryType /\ e.named = Entry(p).named /\ e.banned = Entry(p).banned /\ e.until = Entry(p).until
    BY <1>1, <1>3 DEF EntryType
<1>5. banTold' \in [Known -> Nat] /\ \A q \in Known : banTold'[q] = banTold[q]
    BY <1>2 DEF StoreInv
<1>6. storeTime <= banTold'[p] => e.named /\ e.banned /\ e.until = banTold'[p]
    BY <1>2, <1>4 DEF StoreInv, KnowsBan, Entry
<1> HIDE DEF e
<1> QED
    BY <1>2, <1>4, <1>5, <1>6, RecordKeeps

(* A ban or its end, told of a peer whose address is known *)
LEMMA ToldKeeps ==
    ASSUME StoreInv, NEW p \in Known, NEW e \in EntryType, Record(p, e), NEW until \in Nat,
           Told(p, until), e.named = Entry(p).named,
           storeTime <= until => e.banned /\ e.until = until
    PROVE  StoreInv'
<1>1. /\ banTold' \in [Known -> Nat] /\ \A q \in Known \ {p} : banTold'[q] = banTold[q]
      /\ banTold'[p] = IF Entry(p).named THEN until ELSE banTold[p]
    BY DEF Told, StoreInv
<1>2. storeTime <= banTold'[p] => e.named /\ e.banned /\ e.until = banTold'[p]
    <2>1. CASE Entry(p).named
        BY <1>1, <2>1
    <2>2. CASE ~Entry(p).named
        <3>1. ~(storeTime <= banTold[p])
            BY <2>2 DEF StoreInv, KnowsBan, Entry
        <3> QED
            BY <1>1, <2>2, <3>1
    <2> QED
        BY <2>1, <2>2
<1> QED
    BY <1>1, <1>2, RecordKeeps

(* BanPeer *)
LEMMA BanKeeps ==
    ASSUME StoreInv, NEW p \in Known, NEW duration \in BanTimes, BanPeer(p, duration)
    PROVE  StoreInv'
<1> DEFINE e == [Entry(p) EXCEPT !.banned = TRUE, !.until = storeTime + duration, !.score = 0]
<1>1. Entry(p) \in EntryType /\ storeTime \in Nat \ {0} /\ duration \in Nat
    BY EntryTyped, PeerStoreAssumption DEF StoreInv
<1>2. Record(p, e) /\ Told(p, storeTime + duration)
    BY DEF BanPeer
<1>3. 0 \in 0 .. MaxScore /\ storeTime + duration \in Nat
    BY <1>1, PeerStoreAssumption
<1>4. e \in EntryType /\ e.named = Entry(p).named /\ e.banned /\ e.until = storeTime + duration
    BY <1>1, <1>3 DEF EntryType
<1> HIDE DEF e
<1> QED
    BY <1>2, <1>3, <1>4, ToldKeeps

(* UnbanPeer *)
LEMMA UnbanKeeps ==
    ASSUME StoreInv, NEW p \in Known, UnbanPeer(p)
    PROVE  StoreInv'
<1> DEFINE e == [Entry(p) EXCEPT !.banned = FALSE, !.until = 0, !.score = LowScore]
<1>1. Entry(p) \in EntryType /\ storeTime \in Nat \ {0}
    BY EntryTyped DEF StoreInv
<1>2. Record(p, e) /\ Told(p, 0)
    BY DEF UnbanPeer
<1>3. e \in EntryType /\ e.named = Entry(p).named
    BY <1>1, PeerStoreAssumption DEF EntryType
<1>4. 0 \in Nat /\ ~(storeTime <= 0)
    BY <1>1
<1> HIDE DEF e
<1> QED
    BY <1>2, <1>3, <1>4, ToldKeeps

(* A violation, with the ban it may bring *)
LEMMA ViolationKeeps ==
    ASSUME StoreInv, NEW p \in Known, RecordProtocolViolation(p)
    PROVE  StoreInv'
<1> DEFINE old == Entry(p)
           score == Clamped(old.score - ViolationCost)
           violations == IF old.violations < MaxViolations THEN old.violations + 1 ELSE old.violations
           e == [old EXCEPT !.score = Clamped(@ - ViolationCost),
                            !.violations = IF @ < MaxViolations THEN @ + 1 ELSE @]
           f == [e EXCEPT !.banned = TRUE, !.until = storeTime + AutoBan]
           bans == e.violations >= MaxViolations
<1>1. old \in EntryType /\ storeTime \in Nat \ {0} /\ storeTime + AutoBan \in Nat
    BY EntryTyped, PeerStoreAssumption DEF StoreInv
<1>2. /\ Record(p, IF bans THEN f ELSE e)
      /\ IF bans THEN Told(p, storeTime + AutoBan) ELSE banTold' = banTold
    BY DEF RecordProtocolViolation
<1>3. score \in 0 .. MaxScore /\ violations \in 0 .. MaxViolations
    <2>1. old.score \in Int /\ ViolationCost \in Int /\ old.violations \in 0 .. MaxViolations /\ MaxViolations \in Nat
        BY <1>1, PeerStoreAssumption DEF EntryType
    <2>2. old.score - ViolationCost \in Int
        BY <2>1
    <2>3. score \in 0 .. MaxScore
        BY <2>2, ClampedInRange
    <2> QED
        BY <2>1, <2>3
<1>4. e = [old EXCEPT !.score = score, !.violations = violations]
    OBVIOUS
<1> HIDE DEF old, score, violations, e
<1>5. e \in EntryType /\ e.named = old.named /\ e.banned = old.banned /\ e.until = old.until
    BY <1>1, <1>3, <1>4 DEF EntryType
<1>6. f \in EntryType /\ f.named = old.named /\ f.banned /\ f.until = storeTime + AutoBan
    BY <1>1, <1>5 DEF EntryType
<1> HIDE DEF f
<1>7. CASE bans
    BY <1>1, <1>2, <1>6, <1>7, ToldKeeps DEF old
<1>8. CASE ~bans
    <2>1. banTold' \in [Known -> Nat] /\ \A q \in Known : banTold'[q] = banTold[q]
        BY <1>2, <1>8 DEF StoreInv
    <2>2. storeTime <= banTold'[p] => e.named /\ e.banned /\ e.until = banTold'[p]
        BY <1>2, <1>5, <1>8 DEF StoreInv, KnowsBan, Entry, old
    <2> QED
        BY <1>2, <1>5, <1>8, <2>1, <2>2, RecordKeeps
<1> QED
    BY <1>7, <1>8

(* IsBanned only lifts what ran out *)
LEMMA LiftKeeps ==
    ASSUME StoreInv, NEW p \in Known, IsBanned(p)
    PROVE  StoreInv'
<1> DEFINE e == [entries[p] EXCEPT !.banned = FALSE, !.until = 0]
<1>1. /\ p \in DOMAIN entries /\ Record(p, e) /\ banTold' = banTold
      /\ entries[p].until < storeTime
    BY DEF IsBanned, Expired
<1>2. entries[p] \in EntryType /\ storeTime \in Nat /\ banTold \in [Known -> Nat]
    BY <1>1 DEF StoreInv, IsStore
<1>3. e \in EntryType
    BY <1>2 DEF EntryType
<1>4. ~(storeTime <= banTold[p])
    <2> SUFFICES ASSUME storeTime <= banTold[p] PROVE FALSE
        OBVIOUS
    <2>1. entries[p].until = banTold[p]
        BY <1>1 DEF StoreInv, KnowsBan
    <2> QED
        BY <1>1, <1>2, <2>1
<1> HIDE DEF e
<1> QED
    BY <1>1, <1>2, <1>3, <1>4, RecordKeeps

(* An entry that AddPeer makes *)
LEMMA FreshTyped == Fresh \in EntryType /\ Unnamed \in EntryType
<1>1. Unnamed \in EntryType
    BY PeerStoreAssumption DEF Unnamed, EntryType
<1>2. StartScore \in 0 .. MaxScore
    BY PeerStoreAssumption
<1> QED
    BY <1>1, <1>2 DEF Fresh, EntryType

(* Peers that are heard of join; those on record stay as they are *)
LEMMA NewPeersKeep ==
    ASSUME StoreInv, NEW S \in SUBSET Known, entries' = WithPeers(entries, S),
           UNCHANGED <<saved, isOpen, storeTime, banTold, banKept>>
    PROVE  StoreInv'
<1>1. /\ DOMAIN entries' = DOMAIN entries \cup S
      /\ entries' = [p \in DOMAIN entries' |-> entries'[p]]
      /\ \A p \in DOMAIN entries' : entries'[p] = IF p \in DOMAIN entries THEN entries[p] ELSE Fresh
    BY DEF WithPeers
<1>2. IsStore(entries')
    BY <1>1, FreshTyped DEF StoreInv, IsStore
<1>3. \A p \in Known : storeTime <= banTold[p] => KnowsBan(entries', p, banTold[p])
    BY <1>1 DEF StoreInv, KnowsBan
<1> QED
    BY <1>2, <1>3 DEF StoreInv

(* What UpdatePeer writes is an entry, and its ban is the one on record from then on *)
LEMMA UpdateKeeps ==
    ASSUME StoreInv, NEW p \in Known, NEW info \in Held, UpdatePeer(p, info)
    PROVE  StoreInv'
<1>1. info \in EntryType
    BY FreshTyped DEF Held, Range, StoreInv, IsStore
<1>2. Record(p, info) /\ banTold' = [banTold EXCEPT ![p] = IF info.named /\ info.banned THEN info.until ELSE 0]
    BY DEF UpdatePeer
<1>3. info.until \in Nat /\ storeTime \in Nat \ {0} /\ banTold \in [Known -> Nat]
    BY <1>1 DEF EntryType, StoreInv
<1>4. /\ banTold' \in [Known -> Nat] /\ \A q \in Known \ {p} : banTold'[q] = banTold[q]
      /\ banTold'[p] = IF info.named /\ info.banned THEN info.until ELSE 0
    BY <1>2, <1>3
<1>5. storeTime <= banTold'[p] => info.named /\ info.banned /\ info.until = banTold'[p]
    BY <1>3, <1>4
<1> QED
    BY <1>1, <1>2, <1>4, <1>5, RecordKeeps

(* The file and the memory follow one another *)
LEMMA FileKeeps ==
    ASSUME StoreInv, OpenStore \/ CloseStore \/ Restart \/ StoreTick
    PROVE  StoreInv'
<1>1. CASE OpenStore
    <2>1. /\ UNCHANGED <<saved, storeTime, banKept>> /\ isOpen' = TRUE
          /\ banTold' = [p \in Known |-> IF p \in DOMAIN saved THEN banKept[p] ELSE banTold[p]]
          /\ DOMAIN entries' = DOMAIN entries \cup DOMAIN saved
          /\ entries' = [p \in DOMAIN entries' |-> entries'[p]]
          /\ \A p \in DOMAIN entries' : entries'[p] = IF p \in DOMAIN saved THEN saved[p] ELSE entries[p]
        BY <1>1 DEF OpenStore
    <2>2. IsStore(entries')
        BY <2>1 DEF StoreInv, IsStore
    <2>3. \A p \in Known : storeTime <= banTold'[p] => KnowsBan(entries', p, banTold'[p])
        BY <2>1 DEF StoreInv, KnowsBan
    <2>4. banTold' \in [Known -> Nat]
        BY <2>1 DEF StoreInv
    <2> QED
        BY <2>1, <2>2, <2>3, <2>4 DEF StoreInv
<1>2. CASE CloseStore
    <2>1. /\ UNCHANGED <<entries, storeTime, banTold>> /\ isOpen' = FALSE /\ banKept' = banTold
          /\ DOMAIN saved' = {q \in DOMAIN entries : entries[q].named}
          /\ saved' = [p \in DOMAIN saved' |-> saved'[p]]
          /\ \A p \in DOMAIN saved' : saved'[p] = entries[p]
        BY <1>2 DEF CloseStore, Written
    <2>2. IsStore(saved') /\ \A p \in DOMAIN saved' : saved'[p].named
        BY <2>1 DEF StoreInv, IsStore
    <2>3. \A p \in Known : storeTime <= banTold[p] => KnowsBan(saved', p, banTold[p])
        BY <2>1 DEF StoreInv, KnowsBan
    <2> QED
        BY <2>1, <2>2, <2>3 DEF StoreInv
<1>3. CASE Restart
    <2>1. /\ entries' = NoEntries /\ isOpen' = FALSE /\ UNCHANGED <<saved, storeTime, banKept>>
          /\ banTold' = [p \in Known |-> 0]
        BY <1>3 DEF Restart
    <2>2. IsStore(NoEntries)
        BY DEF IsStore, NoEntries
    <2>3. banTold' \in [Known -> Nat]
        BY <2>1
    <2>4. \A p \in Known : ~(storeTime <= banTold'[p])
        BY <2>1 DEF StoreInv
    <2> QED
        BY <2>1, <2>2, <2>3, <2>4 DEF StoreInv
<1>4. CASE StoreTick
    <2>1. storeTime' = storeTime + 1 /\ UNCHANGED <<entries, saved, isOpen, banTold, banKept>>
        BY <1>4 DEF StoreTick
    <2>2. storeTime \in Nat /\ banTold \in [Known -> Nat] /\ banKept \in [Known -> Nat]
        BY DEF StoreInv
    <2>3. \A p \in Known : /\ storeTime + 1 <= banTold[p] => storeTime <= banTold[p]
                           /\ storeTime + 1 <= banKept[p] => storeTime <= banKept[p]
        BY <2>2
    <2> QED
        BY <2>1, <2>2, <2>3 DEF StoreInv
<1> QED
    BY <1>1, <1>2, <1>3, <1>4

(* One case per operation *)
LEMMA StoreStepKeeps == StoreInv /\ [StoreStep]_storeVars => StoreInv'
<1> SUFFICES ASSUME StoreInv, [StoreStep]_storeVars PROVE StoreInv'
    OBVIOUS
<1>1. CASE OpenStore \/ CloseStore \/ Restart \/ StoreTick
    BY <1>1, FileKeeps
<1>2. CASE PeriodicDiscovery
    <2>1. PICK found \in SUBSET Seeds : entries' = WithPeers(entries, found \ Private)
        BY <1>2 DEF PeriodicDiscovery
    <2>2. found \ Private \in SUBSET Known
        BY PeerStoreAssumption
    <2> QED
        BY <1>2, <2>1, <2>2, NewPeersKeep DEF PeriodicDiscovery
<1>3. ASSUME NEW S \in SUBSET Known, PeerExchange(S) PROVE StoreInv'
    <2>1. S \ Private \in SUBSET Known
        OBVIOUS
    <2> QED
        BY <1>3, <2>1, NewPeersKeep DEF PeerExchange
<1>4. ASSUME NEW p \in Known, \E delta \in Rewards : UpdateScore(p, delta) PROVE StoreInv'
    BY <1>4, ScoreKeeps
<1>5. ASSUME NEW p \in Known, (\E duration \in BanTimes : BanPeer(p, duration)) PROVE StoreInv'
    BY <1>5, BanKeeps
<1>6. ASSUME NEW p \in Known, UnbanPeer(p) PROVE StoreInv'
    BY <1>6, UnbanKeeps
<1>7. ASSUME NEW p \in Known, RecordProtocolViolation(p) PROVE StoreInv'
    BY <1>7, ViolationKeeps
<1>8. ASSUME NEW p \in Known, IsBanned(p) PROVE StoreInv'
    BY <1>8, LiftKeeps
<1>9. ASSUME NEW p \in Known, (\E info \in Held : UpdatePeer(p, info)) PROVE StoreInv'
    BY <1>9, UpdateKeeps
<1>10. CASE UNCHANGED storeVars
    BY <1>10 DEF storeVars, StoreInv, IsStore, KnowsBan
<1> QED
    BY <1>1, <1>2, <1>3, <1>4, <1>5, <1>6, <1>7, <1>8, <1>9, <1>10 DEF StoreStep

(* Every state of the store keeps its invariant *)
THEOREM StoreInductive == StoreSpec => []StoreInv
<1> QED
    BY InitStoreInv, StoreStepKeeps, PTL DEF StoreSpec

(* Scores, counters and times keep their types *)
THEOREM StoreTypeCorrect == StoreSpec => []StoreTypeOK
<1>1. StoreInv => StoreTypeOK
    BY DEF StoreInv, IsStore, EntryType, StoreTypeOK
<1> QED
    BY <1>1, StoreInductive, PTL

(* A peer that was banned while its address is known stays banned and ungiven until its   *)
(* ban ends, through scores, violations, exchanges, Close and Open, unless UpdatePeer       *)
(* writes another entry or the file an older one                                          *)
THEOREM StoreBansHold == StoreSpec => []BansHold
<1>1. StoreInv => BansHold
    <2> SUFFICES ASSUME StoreInv, NEW p \in Known, storeTime <= banTold[p]
                 PROVE  Answer(p) /\ p \notin GoodPeers
        BY DEF BansHold
    <2>1. /\ p \in DOMAIN entries /\ entries[p].banned /\ entries[p].until = banTold[p]
          /\ storeTime \in Nat /\ banTold[p] \in Nat
        BY DEF StoreInv, KnowsBan
    <2>2. ~Expired(entries[p])
        BY <2>1 DEF Expired
    <2> QED
        BY <2>1, <2>2 DEF Answer, GoodPeers
<1> QED
    BY <1>1, StoreInductive, PTL

-----------------------------------------------------------------------------
Sockets == 1 .. MaxSocket

(* The open sockets are those of the four places, each in one place *)
Apart(o, T, D, H, A) ==
    /\ o = T \cup D \cup H \cup A
    /\ T \cap D = {} /\ T \cap H = {} /\ T \cap A = {}
    /\ D \cap H = {} /\ D \cap A = {} /\ H \cap A = {}

(* What the variables hold *)
ThreadsType == [dial : [Peer -> Nat], take : [Peer -> Nat],
                dialled : SUBSET (Peer \X Sockets), hold : SUBSET Sockets]
IsTableOf(t) == t \in [DOMAIN t -> Sockets] /\ DOMAIN t \subseteq Peer
AcceptorTyped ==
    /\ acceptor.at \in {"accepted", "inserted", "spawned"} => acceptor.peer \in Peer
    /\ acceptor.at = "accepted" => acceptor.conn \in Sockets

PeersTyped ==
    /\ open \subseteq Sockets /\ banned \subseteq Peer
    /\ IsTableOf(table) /\ threads \in ThreadsType /\ AcceptorTyped

(* Each socket has one place, and each place one socket *)
Placed ==
    /\ Apart(open, Range(table), Dialled, threads.hold, Accepted)
    /\ IsInjective(table)
    /\ \A d, e \in threads.dialled : d[2] = e[2] => d = e

(* What is in the table, somebody will take *)
Served ==
    \A p \in DOMAIN table :
        threads.take[p] > 0 \/ (acceptor.at = "inserted" /\ acceptor.peer = p)

(* How far Stop has come and what it left *)
StageInv ==
    /\ stage \in {"off", "on", "sync", "accept", "join"}
    /\ stage = "join" => acceptor.at = "done"
    /\ stage = "off" =>
          /\ acceptor.at = "none" /\ DOMAIN table = {}
          /\ threads.dialled = {} /\ threads.hold = {}
          /\ \A p \in Peer : threads.dial[p] = 0 /\ threads.take[p] = 0

(* No height on record is above the node's own, so that no target turns up *)
SyncInv ==
    /\ ownHeight \in Nat /\ DOMAIN known \subseteq Peer
    /\ \A p \in DOMAIN known : known[p] \in Nat /\ known[p] <= ownHeight
    /\ isSyncing \in BOOLEAN /\ syncLoop \in BOOLEAN
    /\ stage = "on" /\ isSyncing => syncLoop

PeersInv == PeersTyped /\ Placed /\ Served /\ StageInv /\ SyncInv

-----------------------------------------------------------------------------
(* A node that was not started has no connection *)
LEMMA InitPeersInv == InitPeers => PeersInv
<1> SUFFICES ASSUME InitPeers PROVE PeersInv
    OBVIOUS
<1>1. /\ open = {} /\ table = [p \in {} |-> 0] /\ banned = {} /\ acceptor = Nowhere("none")
      /\ threads = NoThreads /\ stage = "off" /\ ownHeight \in 0 .. 1 /\ known = [p \in {} |-> 0]
      /\ isSyncing = FALSE /\ syncLoop = FALSE
    BY DEF InitPeers
<1>2. DOMAIN table = {} /\ Range(table) = {} /\ acceptor.at = "none" /\ DOMAIN known = {}
    BY <1>1 DEF Range, Nowhere
<1>3. /\ threads.dialled = {} /\ threads.hold = {} /\ threads \in ThreadsType
      /\ \A p \in Peer : threads.dial[p] = 0 /\ threads.take[p] = 0
    BY <1>1 DEF NoThreads, ThreadsType
<1>4. PeersTyped
    BY <1>1, <1>2, <1>3 DEF PeersTyped, IsTableOf, AcceptorTyped
<1>5. Placed
    <2>1. Accepted = {} /\ Dialled = {}
        BY <1>2, <1>3 DEF Accepted, Dialled
    <2> QED
        BY <1>1, <1>2, <1>3, <2>1 DEF Placed, Apart, IsInjective
<1>6. Served /\ StageInv
    BY <1>1, <1>2, <1>3 DEF Served, StageInv
<1>7. SyncInv
    <2>1. isSyncing \in BOOLEAN /\ syncLoop \in BOOLEAN /\ ~isSyncing
        BY <1>1
    <2> QED
        BY <1>1, <1>2, <2>1 DEF SyncInv
<1> QED
    BY <1>4, <1>5, <1>6, <1>7 DEF PeersInv

(* The lowest free number is free, if there is one *)
LEMMA SocketIsFree ==
    ASSUME open \subseteq Sockets, CanOpen
    PROVE  Socket \in Sockets \ open
<1> DEFINE free == Sockets \ open
<1>1. free # {} /\ free \subseteq Nat
    <2>1. Sockets \subseteq Nat
        BY PeersAssumption DEF Sockets
    <2>2. free # {}
        BY DEF CanOpen, Sockets
    <2> QED
        BY <2>1, <2>2
<1>2. \E x \in free : \A y \in free : x <= y
    BY <1>1, LeastNumber
<1>3. Socket = CHOOSE x \in free : \A y \in free : x <= y
    BY DEF Socket, Min, Sockets
<1> QED
    BY <1>2, <1>3

(* A socket that is opened, by the accept thread or by one that dials *)
LEMMA ApartOpened ==
    ASSUME NEW o, NEW T, NEW D, NEW H, NEW A, Apart(o, T, D, H, A), NEW c, c \notin o
    PROVE  /\ A = {} => Apart(o \cup {c}, T, D, H, {c})
           /\ Apart(o \cup {c}, T, D \cup {c}, H, A)
BY DEF Apart

(* One that its holder closes *)
LEMMA ApartClosed ==
    ASSUME NEW o, NEW T, NEW D, NEW H, NEW A, Apart(o, T, D, H, A), NEW c
    PROVE  /\ c \in H => Apart(o \ {c}, T, D, H \ {c}, A)
           /\ A = {c} => Apart(o \ {c}, T, D, H, {})
BY DEF Apart

(* One that goes into the table, where it closes what was in its place *)
LEMMA ApartInserted ==
    ASSUME NEW o, NEW T, NEW D, NEW H, NEW A, Apart(o, T, D, H, A), NEW c, NEW Q \in SUBSET T
    PROVE  /\ A = {c} => Apart(o \ Q, (T \ Q) \cup {c}, D, H, {})
           /\ c \in D => Apart(o \ Q, (T \ Q) \cup {c}, D \ {c}, H, A)
BY DEF Apart

(* One that is taken out of the table, to be held or closed *)
LEMMA ApartTaken ==
    ASSUME NEW o, NEW T, NEW D, NEW H, NEW A, Apart(o, T, D, H, A), NEW Q \in SUBSET T
    PROVE  Apart(o, T \ Q, D, H \cup Q, A) /\ Apart(o \ Q, T \ Q, D, H, A)
BY DEF Apart

(* The table with a peer more *)
LEMMA TableWith ==
    ASSUME IsTableOf(table), IsInjective(table), NEW p \in Peer, NEW c \in Sockets, c \notin Range(table)
    PROVE  /\ IsTableOf(With(p, c)) /\ IsInjective(With(p, c))
           /\ DOMAIN With(p, c) = DOMAIN table \cup {p}
           /\ Dropped(p) \in SUBSET Range(table)
           /\ Range(With(p, c)) = (Range(table) \ Dropped(p)) \cup {c}
<1>1. /\ DOMAIN With(p, c) = DOMAIN table \cup {p} /\ With(p, c)[p] = c
      /\ \A q \in DOMAIN table \ {p} : With(p, c)[q] = table[q]
      /\ With(p, c) = [q \in DOMAIN With(p, c) |-> With(p, c)[q]]
    BY DEF With
<1>2. \A q \in DOMAIN table : table[q] \in Sockets /\ table[q] # c /\ table[q] \in Range(table)
    BY DEF IsTableOf, Range
<1>3. IsTableOf(With(p, c)) /\ IsInjective(With(p, c))
    BY <1>1, <1>2 DEF IsTableOf, IsInjective
<1>4. Dropped(p) \in SUBSET Range(table)
    BY <1>2 DEF Dropped
<1>5. \A q \in DOMAIN table : table[q] \in Dropped(p) <=> q = p
    BY DEF Dropped, IsInjective
<1>6. Range(With(p, c)) = (Range(table) \ Dropped(p)) \cup {c}
    BY <1>1, <1>2, <1>5 DEF Range
<1> QED
    BY <1>1, <1>3, <1>4, <1>6

(* The table without a peer *)
LEMMA TableWithout ==
    ASSUME IsTableOf(table), IsInjective(table), NEW p
    PROVE  /\ IsTableOf(Without(p)) /\ IsInjective(Without(p))
           /\ DOMAIN Without(p) = DOMAIN table \ {p}
           /\ Dropped(p) \in SUBSET Range(table)
           /\ Range(Without(p)) = Range(table) \ Dropped(p)
<1>1. /\ DOMAIN Without(p) = DOMAIN table \ {p}
      /\ \A q \in DOMAIN table \ {p} : Without(p)[q] = table[q]
      /\ Without(p) = [q \in DOMAIN Without(p) |-> Without(p)[q]]
    BY DEF Without, Restrict
<1>2. \A q \in DOMAIN table : table[q] \in Sockets /\ table[q] \in Range(table)
    BY DEF IsTableOf, Range
<1>3. IsTableOf(Without(p)) /\ IsInjective(Without(p))
    BY <1>1, <1>2 DEF IsTableOf, IsInjective
<1>4. Dropped(p) \in SUBSET Range(table)
    BY <1>2 DEF Dropped
<1>5. \A q \in DOMAIN table : table[q] \in Dropped(p) <=> q = p
    BY DEF Dropped, IsInjective
<1>6. Range(Without(p)) = Range(table) \ Dropped(p)
    BY <1>1, <1>2, <1>5 DEF Range
<1> QED
    BY <1>1, <1>3, <1>4, <1>6

(* The accept thread: a socket is opened *)
LEMMA AcceptKeeps ==
    ASSUME PeersInv, NEW p \in Peer, Accept(p)
    PROVE  PeersTyped' /\ Placed' /\ Served' /\ StageInv'
<1>1. /\ acceptor.at = "waiting" /\ stage \in {"on", "sync"} /\ acceptor' = At("accepted", p, Socket)
      /\ open' = open \cup {Socket} /\ UNCHANGED <<table, banned, threads, stage>>
    BY DEF Accept
<1>2. Socket \in Sockets \ open
    BY SocketIsFree DEF Accept, PeersInv, PeersTyped
<1>3. acceptor'.at = "accepted" /\ acceptor'.peer = p /\ acceptor'.conn = Socket
    BY <1>1 DEF At
<1>4. PeersTyped'
    BY <1>1, <1>2, <1>3 DEF PeersInv, PeersTyped, AcceptorTyped, IsTableOf
<1>5. Placed'
    <2>1. Accepted = {} /\ Accepted' = {Socket} /\ Dialled' = Dialled
        BY <1>1, <1>3 DEF Accepted, Dialled
    <2>2. Apart(open, Range(table), Dialled, threads.hold, Accepted)
        BY DEF PeersInv, Placed
    <2>3. Apart(open \cup {Socket}, Range(table), Dialled, threads.hold, {Socket})
        BY <1>2, <2>1, <2>2, ApartOpened
    <2> QED
        BY <1>1, <2>1, <2>3 DEF PeersInv, Placed
<1>6. Served'
    BY <1>1 DEF PeersInv, Served
<1>7. StageInv'
    BY <1>1 DEF PeersInv, StageInv
<1> QED
    BY <1>4, <1>5, <1>6, <1>7

(* and put into the table, or closed when that is full *)
LEMMA AcceptInsertKeeps ==
    ASSUME PeersInv, AcceptInsert
    PROVE  PeersTyped' /\ Placed' /\ Served' /\ StageInv'
<1> DEFINE p == acceptor.peer
           c == acceptor.conn
<1>1. acceptor.at = "accepted" /\ UNCHANGED <<banned, threads, stage>> /\ Dialled' = Dialled
    BY DEF AcceptInsert, Dialled
<1>2. p \in Peer /\ c \in Sockets /\ Accepted = {c}
    BY <1>1 DEF PeersInv, PeersTyped, AcceptorTyped, Accepted
<1>3. /\ Apart(open, Range(table), Dialled, threads.hold, Accepted)
      /\ IsTableOf(table) /\ IsInjective(table) /\ open \subseteq Sockets
    BY DEF PeersInv, Placed, PeersTyped
<1>4. \A q \in DOMAIN table : threads.take[q] > 0
    BY <1>1 DEF PeersInv, Served
<1>5. stage \notin {"off", "join"}
    BY <1>1 DEF PeersInv, StageInv
<1>6. CASE open' = open \ {c} /\ acceptor' = Nowhere("waiting") /\ table' = table
    <2>1. acceptor'.at = "waiting" /\ Accepted' = {}
        BY <1>6 DEF Nowhere, Accepted
    <2>2. Apart(open \ {c}, Range(table), Dialled, threads.hold, {})
        BY <1>2, <1>3, ApartClosed
    <2>3. PeersTyped'
        BY <1>1, <1>6, <2>1 DEF PeersInv, PeersTyped, AcceptorTyped, IsTableOf
    <2>4. Placed'
        BY <1>1, <1>6, <2>1, <2>2 DEF PeersInv, Placed
    <2>5. Served'
        BY <1>1, <1>4, <1>6 DEF Served
    <2>6. StageInv'
        BY <1>1, <1>5 DEF PeersInv, StageInv
    <2> QED
        BY <2>3, <2>4, <2>5, <2>6
<1>7. CASE table' = With(p, c) /\ open' = open \ Dropped(p) /\ acceptor' = At("inserted", p, 0)
    <2>1. acceptor'.at = "inserted" /\ acceptor'.peer = p /\ Accepted' = {}
        BY <1>7 DEF At, Accepted
    <2>2. c \notin Range(table)
        BY <1>2, <1>3 DEF Apart
    <2>3. /\ IsTableOf(With(p, c)) /\ IsInjective(With(p, c))
          /\ DOMAIN With(p, c) = DOMAIN table \cup {p} /\ Dropped(p) \in SUBSET Range(table)
          /\ Range(With(p, c)) = (Range(table) \ Dropped(p)) \cup {c}
        BY <1>2, <1>3, <2>2, TableWith
    <2>4. Apart(open \ Dropped(p), Range(With(p, c)), Dialled, threads.hold, {})
        <3>1. Apart(open, Range(table), Dialled, threads.hold, {c})
            BY <1>2, <1>3
        <3>2. Apart(open \ Dropped(p), (Range(table) \ Dropped(p)) \cup {c}, Dialled, threads.hold, {})
            BY <2>3, <3>1, ApartInserted
        <3> QED
            BY <2>3, <3>2
    <2>5. PeersTyped'
        BY <1>1, <1>2, <1>7, <2>1, <2>3 DEF PeersInv, PeersTyped, AcceptorTyped
    <2>6. Placed'
        BY <1>1, <1>7, <2>1, <2>3, <2>4 DEF PeersInv, Placed
    <2>7. Served'
        BY <1>1, <1>4, <1>7, <2>1, <2>3 DEF Served
    <2>8. StageInv'
        BY <1>1, <1>5 DEF PeersInv, StageInv
    <2> QED
        BY <2>5, <2>6, <2>7, <2>8
<1> QED
    BY <1>6, <1>7 DEF AcceptInsert

(* A step of the accept thread that moves no socket *)
LEMMA AcceptorKeeps ==
    ASSUME PeersInv, AcceptSpawn \/ HandleNewPeer \/ AcceptEnds
    PROVE  PeersTyped' /\ Placed' /\ Served' /\ StageInv'
<1>1. /\ UNCHANGED <<open, table, banned, stage>> /\ acceptor.at \in {"inserted", "spawned", "waiting"}
      /\ threads \in ThreadsType
    BY DEF AcceptSpawn, HandleNewPeer, AcceptEnds, PeersInv, PeersTyped
<1>2. stage \notin {"off", "join"}
    BY <1>1 DEF PeersInv, StageInv
<1>3. CASE AcceptSpawn
    <2> DEFINE p == acceptor.peer
    <2>1. /\ p \in Peer /\ threads' = [threads EXCEPT !.take[p] = @ + 1] /\ acceptor.at = "inserted"
          /\ acceptor' = At("spawned", p, 0)
        BY <1>3 DEF AcceptSpawn, PeersInv, PeersTyped, AcceptorTyped
    <2>2. /\ threads' \in ThreadsType /\ threads'.dialled = threads.dialled /\ threads'.hold = threads.hold
          /\ threads'.take[p] = threads.take[p] + 1 /\ \A q \in Peer \ {p} : threads'.take[q] = threads.take[q]
          /\ threads.take \in [Peer -> Nat]
        BY <1>1, <2>1 DEF ThreadsType
    <2>3. acceptor'.at = "spawned" /\ acceptor'.peer = p
        BY <2>1 DEF At
    <2>4. PeersTyped'
        BY <1>1, <2>1, <2>2, <2>3 DEF PeersInv, PeersTyped, AcceptorTyped, IsTableOf
    <2>5. Placed'
        BY <1>1, <2>1, <2>2, <2>3 DEF PeersInv, Placed, Accepted, Dialled
    <2>6. Served'
        <3>1. \A q \in DOMAIN table : q \in Peer /\ (threads.take[q] > 0 \/ q = p)
            BY DEF PeersInv, PeersTyped, IsTableOf, Served
        <3>2. \A q \in DOMAIN table : threads'.take[q] > 0
            BY <2>2, <3>1
        <3> QED
            BY <1>1, <3>2 DEF Served
    <2>7. StageInv'
        BY <1>1, <1>2 DEF PeersInv, StageInv
    <2> QED
        BY <2>4, <2>5, <2>6, <2>7
<1>4. CASE HandleNewPeer \/ AcceptEnds
    <2>1. threads' = threads /\ acceptor.at \in {"spawned", "waiting"} /\ acceptor'.at \in {"waiting", "done"}
        BY <1>4 DEF HandleNewPeer, AcceptEnds, Nowhere
    <2>2. PeersTyped'
        BY <1>1, <2>1 DEF PeersInv, PeersTyped, AcceptorTyped, IsTableOf
    <2>3. Placed'
        BY <1>1, <2>1 DEF PeersInv, Placed, Accepted, Dialled
    <2>4. Served'
        BY <1>1, <2>1 DEF PeersInv, Served
    <2>5. StageInv'
        BY <1>1, <1>2 DEF PeersInv, StageInv
    <2> QED
        BY <2>2, <2>3, <2>4, <2>5
<1> QED
    BY <1>3, <1>4

(* A step that counts the threads which dial or will take: the sockets stay where they are *)
LEMMA CountKeeps ==
    ASSUME PeersInv, NEW p \in Peer, AddPeer(p) \/ DialFails(p)
    PROVE  PeersTyped' /\ Placed' /\ Served' /\ StageInv'
<1>1. /\ UNCHANGED <<open, table, banned, acceptor, stage>> /\ threads \in ThreadsType
      /\ DOMAIN table \subseteq Peer /\ threads.dial[p] \in Nat
    BY DEF AddPeer, DialFails, PeersInv, PeersTyped, IsTableOf, ThreadsType
<1>2. /\ threads' \in ThreadsType /\ threads'.dialled = threads.dialled /\ threads'.hold = threads.hold
      /\ threads'.take = threads.take
    <2>1. CASE AddPeer(p)
        BY <1>1, <2>1 DEF AddPeer, ThreadsType
    <2>2. CASE DialFails(p)
        <3>1. threads' = [threads EXCEPT !.dial[p] = @ - 1] /\ threads.dial[p] - 1 \in Nat
            BY <1>1, <2>2 DEF DialFails
        <3> QED
            BY <1>1, <3>1 DEF ThreadsType
    <2> QED
        BY <2>1, <2>2
<1>3. stage # "off"
    BY DEF AddPeer, DialFails, PeersInv, StageInv
<1>4. PeersTyped'
    BY <1>1, <1>2 DEF PeersInv, PeersTyped, AcceptorTyped, IsTableOf
<1>5. Placed'
    BY <1>1, <1>2 DEF PeersInv, Placed, Accepted, Dialled
<1>6. Served'
    BY <1>1, <1>2 DEF PeersInv, Served
<1>7. StageInv'
    BY <1>1, <1>3 DEF PeersInv, StageInv
<1> QED
    BY <1>4, <1>5, <1>6, <1>7

(* The connections of one more thread that dialled *)
LEMMA OneMoreDialled ==
    ASSUME NEW S, NEW p, NEW c
    PROVE  {d[2] : d \in S \cup {<<p, c>>}} = {d[2] : d \in S} \cup {c}
<1>1. <<p, c>>[2] = c
    OBVIOUS
<1>2. ASSUME NEW e, NEW x, x[2] = e
      PROVE  {d[2] : d \in S \cup {x}} = {d[2] : d \in S} \cup {e}
    BY <1>2, Zenon
<1> QED
    BY <1>1, <1>2

(* A thread that dialled has a connection *)
LEMMA DialKeeps ==
    ASSUME PeersInv, NEW p \in Peer, Dial(p)
    PROVE  PeersTyped' /\ Placed' /\ Served' /\ StageInv'
<1> DEFINE c == Socket
<1>1. /\ open' = open \cup {c} /\ UNCHANGED <<table, banned, acceptor, stage>> /\ threads.dial[p] > 0
      /\ threads' = [threads EXCEPT !.dial[p] = @ - 1, !.dialled = @ \cup {<<p, c>>}]
    BY DEF Dial
<1>2. c \in Sockets \ open
    BY SocketIsFree DEF Dial, PeersInv, PeersTyped
<1> HIDE DEF c
<1>3. threads \in ThreadsType /\ threads.dial[p] - 1 \in Nat
    BY <1>1 DEF PeersInv, PeersTyped, ThreadsType
<1>4. /\ threads' \in ThreadsType /\ threads'.hold = threads.hold /\ threads'.take = threads.take
      /\ threads'.dialled = threads.dialled \cup {<<p, c>>}
    <2> DEFINE dial == [threads.dial EXCEPT ![p] = @ - 1]
               dialled == threads.dialled \cup {<<p, c>>}
    <2>1. threads' = [threads EXCEPT !.dial = dial, !.dialled = dialled]
        BY <1>1
    <2>2. dial \in [Peer -> Nat] /\ dialled \in SUBSET (Peer \X Sockets)
        BY <1>2, <1>3 DEF ThreadsType
    <2> HIDE DEF dial, dialled
    <2>3. /\ threads' \in ThreadsType /\ threads'.hold = threads.hold /\ threads'.take = threads.take
          /\ threads'.dialled = dialled
        BY <1>3, <2>1, <2>2 DEF ThreadsType
    <2> QED
        BY <2>3 DEF dialled
<1>5. stage # "off"
    BY <1>1 DEF PeersInv, StageInv
<1>6. Dialled' = Dialled \cup {c} /\ Accepted' = Accepted
    <2>1. Dialled' = {d[2] : d \in threads.dialled \cup {<<p, c>>}}
        BY <1>4 DEF Dialled
    <2>2. {d[2] : d \in threads.dialled \cup {<<p, c>>}} = {d[2] : d \in threads.dialled} \cup {c}
        BY OneMoreDialled
    <2> QED
        BY <1>1, <2>1, <2>2 DEF Dialled, Accepted
<1>7. Apart(open, Range(table), Dialled, threads.hold, Accepted)
    BY DEF PeersInv, Placed
<1>8. Apart(open \cup {c}, Range(table), Dialled \cup {c}, threads.hold, Accepted)
    BY <1>2, <1>7, ApartOpened
<1>9. \A d, e \in threads'.dialled : d[2] = e[2] => d = e
    <2>1. \A d \in threads.dialled : d[2] # c
        BY <1>2, <1>7 DEF Apart, Dialled
    <2>2. \A d, e \in threads.dialled : d[2] = e[2] => d = e
        BY DEF PeersInv, Placed
    <2> QED
        BY <1>4, <2>1, <2>2
<1>10. PeersTyped'
    BY <1>1, <1>2, <1>4 DEF PeersInv, PeersTyped, AcceptorTyped, IsTableOf
<1>11. Placed'
    BY <1>1, <1>4, <1>6, <1>8, <1>9 DEF PeersInv, Placed
<1>12. Served'
    BY <1>1, <1>4 DEF PeersInv, Served
<1>13. StageInv'
    BY <1>1, <1>5 DEF PeersInv, StageInv
<1> QED
    BY <1>10, <1>11, <1>12, <1>13

(* which goes into the table *)
LEMMA DialInsertKeeps ==
    ASSUME PeersInv, NEW p \in Peer, NEW c \in Sockets, DialInsert(p, c)
    PROVE  PeersTyped' /\ Placed' /\ Served' /\ StageInv'
<1>1. /\ <<p, c>> \in threads.dialled /\ table' = With(p, c) /\ open' = open \ Dropped(p)
      /\ threads' = [threads EXCEPT !.dialled = @ \ {<<p, c>>}, !.take[p] = @ + 1]
      /\ UNCHANGED <<banned, acceptor, stage>>
    BY DEF DialInsert
<1>2. /\ Apart(open, Range(table), Dialled, threads.hold, Accepted) /\ IsInjective(table)
      /\ \A d, e \in threads.dialled : d[2] = e[2] => d = e
      /\ IsTableOf(table) /\ threads \in ThreadsType /\ open \subseteq Sockets
    BY DEF PeersInv, PeersTyped, Placed
<1>3. c \in Dialled /\ c \notin Range(table)
    BY <1>1, <1>2 DEF Dialled, Apart
<1>4. /\ IsTableOf(table') /\ IsInjective(table') /\ DOMAIN table' = DOMAIN table \cup {p}
      /\ Dropped(p) \in SUBSET Range(table)
      /\ Range(table') = (Range(table) \ Dropped(p)) \cup {c}
    BY <1>1, <1>2, <1>3, TableWith
<1>5. /\ threads' \in ThreadsType /\ threads'.hold = threads.hold
      /\ threads'.dialled = threads.dialled \ {<<p, c>>}
      /\ threads'.take[p] = threads.take[p] + 1 /\ threads.take[p] \in Nat
      /\ \A q \in Peer \ {p} : threads'.take[q] = threads.take[q]
    <2> DEFINE take == [threads.take EXCEPT ![p] = @ + 1]
               dialled == threads.dialled \ {<<p, c>>}
    <2>1. threads' = [threads EXCEPT !.dialled = dialled, !.take = take]
        BY <1>1
    <2>2. dialled \in SUBSET (Peer \X Sockets) /\ threads.take \in [Peer -> Nat]
        BY <1>2 DEF ThreadsType
    <2>3. /\ take \in [Peer -> Nat] /\ take[p] = threads.take[p] + 1 /\ threads.take[p] \in Nat
          /\ \A q \in Peer \ {p} : take[q] = threads.take[q]
        BY <2>2
    <2> HIDE DEF take, dialled
    <2>4. /\ threads' \in ThreadsType /\ threads'.hold = threads.hold
          /\ threads'.dialled = dialled /\ threads'.take = take
        BY <1>2, <2>1, <2>2, <2>3 DEF ThreadsType
    <2> QED
        BY <2>3, <2>4 DEF dialled
<1>6. Dialled' = Dialled \ {c} /\ Accepted' = Accepted
    <2>1. \A d \in threads.dialled : d[2] = c <=> d = <<p, c>>
        <3>1. \A d \in threads.dialled : d[2] = <<p, c>>[2] => d = <<p, c>>
            BY ONLY <1>1, <1>2
        <3> QED
            BY ONLY <3>1
    <2>2. Dialled' = {d[2] : d \in threads.dialled \ {<<p, c>>}}
        BY <1>5 DEF Dialled
    <2>3. {d[2] : d \in threads.dialled \ {<<p, c>>}} = {d[2] : d \in threads.dialled} \ {c}
        BY ONLY <2>1
    <2> QED
        BY <1>1, <2>2, <2>3 DEF Dialled, Accepted
<1>7. Apart(open', Range(table'), Dialled', threads'.hold, Accepted')
    <2>1. Apart(open \ Dropped(p), (Range(table) \ Dropped(p)) \cup {c}, Dialled \ {c}, threads.hold, Accepted)
        BY <1>2, <1>3, <1>4, ApartInserted
    <2> QED
        BY <1>1, <1>4, <1>5, <1>6, <2>1
<1>8. stage # "off"
    BY <1>1 DEF PeersInv, StageInv
<1>9. PeersTyped'
    BY <1>1, <1>2, <1>4, <1>5 DEF PeersInv, PeersTyped, AcceptorTyped
<1>10. Placed'
    BY <1>2, <1>4, <1>5, <1>7 DEF Placed
<1>11. Served'
    <2>1. ASSUME NEW q \in DOMAIN table'
          PROVE  threads'.take[q] > 0 \/ (acceptor'.at = "inserted" /\ acceptor'.peer = q)
        <3>1. CASE q = p
            BY <1>5, <3>1
        <3>2. CASE q # p
            <4>1. q \in DOMAIN table /\ q \in Peer
                BY <1>2, <1>4, <3>2 DEF IsTableOf
            <4> QED
                BY <1>1, <1>5, <3>2, <4>1 DEF PeersInv, Served
        <3> QED
            BY <3>1, <3>2
    <2> QED
        BY <2>1 DEF Served
<1>12. StageInv'
    BY <1>1, <1>8 DEF PeersInv, StageInv
<1> QED
    BY <1>9, <1>10, <1>11, <1>12

(* and is taken out of it by a thread that closes it next *)
LEMMA TakeKeeps ==
    ASSUME PeersInv, NEW p \in Peer, Take(p)
    PROVE  PeersTyped' /\ Placed' /\ Served' /\ StageInv'
<1>1. /\ threads.take[p] > 0 /\ table' = Without(p) /\ UNCHANGED <<open, banned, acceptor, stage>>
      /\ threads' = [threads EXCEPT !.take[p] = @ - 1, !.hold = @ \cup Dropped(p)]
    BY DEF Take
<1>2. /\ Apart(open, Range(table), Dialled, threads.hold, Accepted) /\ IsInjective(table)
      /\ \A d, e \in threads.dialled : d[2] = e[2] => d = e
      /\ IsTableOf(table) /\ threads \in ThreadsType /\ open \subseteq Sockets
    BY DEF PeersInv, PeersTyped, Placed
<1>3. /\ IsTableOf(table') /\ IsInjective(table') /\ DOMAIN table' = DOMAIN table \ {p}
      /\ Dropped(p) \in SUBSET Range(table) /\ Range(table') = Range(table) \ Dropped(p)
    BY <1>1, <1>2, TableWithout
<1>4. threads.take[p] - 1 \in Nat /\ Dropped(p) \subseteq Sockets
    BY <1>1, <1>2, <1>3 DEF ThreadsType, Apart
<1>5. /\ threads' \in ThreadsType /\ threads'.hold = threads.hold \cup Dropped(p)
      /\ threads'.dialled = threads.dialled
      /\ \A q \in Peer \ {p} : threads'.take[q] = threads.take[q]
    <2> DEFINE take == [threads.take EXCEPT ![p] = @ - 1]
               hold == threads.hold \cup Dropped(p)
    <2>1. threads' = [threads EXCEPT !.take = take, !.hold = hold]
        BY <1>1
    <2>2. hold \in SUBSET Sockets /\ threads.take \in [Peer -> Nat]
        BY <1>2, <1>4 DEF ThreadsType
    <2>3. take \in [Peer -> Nat] /\ \A q \in Peer \ {p} : take[q] = threads.take[q]
        BY <1>4, <2>2
    <2> HIDE DEF take, hold
    <2>4. /\ threads' \in ThreadsType /\ threads'.hold = hold
          /\ threads'.dialled = threads.dialled /\ threads'.take = take
        BY <1>2, <2>1, <2>2, <2>3 DEF ThreadsType
    <2> QED
        BY <2>3, <2>4 DEF hold
<1>6. Dialled' = Dialled /\ Accepted' = Accepted
    BY <1>1, <1>5 DEF Dialled, Accepted
<1>7. Apart(open', Range(table'), Dialled', threads'.hold, Accepted')
    <2>1. Apart(open, Range(table) \ Dropped(p), Dialled, threads.hold \cup Dropped(p), Accepted)
        BY <1>2, <1>3, ApartTaken
    <2> QED
        BY <1>1, <1>3, <1>5, <1>6, <2>1
<1>8. stage # "off"
    BY <1>1 DEF PeersInv, StageInv
<1>9. PeersTyped'
    BY <1>1, <1>2, <1>3, <1>5 DEF PeersInv, PeersTyped, AcceptorTyped
<1>10. Placed'
    BY <1>2, <1>3, <1>5, <1>7 DEF Placed
<1>11. Served'
    <2>1. \A q \in DOMAIN table' : q \in DOMAIN table /\ q \in Peer \ {p}
        BY <1>2, <1>3 DEF IsTableOf
    <2> QED
        BY <1>1, <1>5, <2>1 DEF PeersInv, Served
<1>12. StageInv'
    BY <1>1, <1>8 DEF PeersInv, StageInv
<1> QED
    BY <1>9, <1>10, <1>11, <1>12

(* A connection a thread holds is closed *)
LEMMA EndPeerKeeps ==
    ASSUME PeersInv, NEW c \in Sockets, EndPeer(c)
    PROVE  PeersTyped' /\ Placed' /\ Served' /\ StageInv'
<1>1. /\ c \in threads.hold /\ open' = open \ {c} /\ threads' = [threads EXCEPT !.hold = @ \ {c}]
      /\ UNCHANGED <<table, banned, acceptor, stage>>
    BY DEF EndPeer
<1>2. /\ Apart(open, Range(table), Dialled, threads.hold, Accepted)
      /\ threads \in ThreadsType /\ open \subseteq Sockets
    BY DEF PeersInv, PeersTyped, Placed
<1>3. /\ threads' \in ThreadsType /\ threads'.hold = threads.hold \ {c}
      /\ threads'.dialled = threads.dialled /\ threads'.take = threads.take
    BY <1>1, <1>2 DEF ThreadsType
<1>4. Dialled' = Dialled /\ Accepted' = Accepted
    BY <1>1, <1>3 DEF Dialled, Accepted
<1>5. Apart(open', Range(table), Dialled', threads'.hold, Accepted')
    BY <1>1, <1>2, <1>3, <1>4, ApartClosed
<1>6. stage # "off"
    BY <1>1 DEF PeersInv, StageInv
<1>7. PeersTyped'
    BY <1>1, <1>2, <1>3 DEF PeersInv, PeersTyped, AcceptorTyped, IsTableOf
<1>8. Placed'
    BY <1>1, <1>3, <1>5 DEF PeersInv, Placed
<1>9. Served'
    BY <1>1, <1>3 DEF PeersInv, Served
<1>10. StageInv'
    BY <1>1, <1>6 DEF PeersInv, StageInv
<1> QED
    BY <1>7, <1>8, <1>9, <1>10

(* A ban is noted first; later the connection leaves the table and is closed *)
LEMMA BanningKeeps ==
    ASSUME PeersInv, NEW p \in Peer, BanAddress(p) \/ RemovePeer(p)
    PROVE  PeersTyped' /\ Placed' /\ Served' /\ StageInv'
<1>1. UNCHANGED <<acceptor, threads, stage>> /\ stage = "on"
    BY DEF BanAddress, RemovePeer
<1>2. /\ Apart(open, Range(table), Dialled, threads.hold, Accepted) /\ IsInjective(table)
      /\ IsTableOf(table) /\ open \subseteq Sockets
    BY DEF PeersInv, PeersTyped, Placed
<1>3. Dialled' = Dialled /\ Accepted' = Accepted
    BY <1>1 DEF Dialled, Accepted
<1>4. /\ banned' \subseteq Peer /\ IsTableOf(table') /\ IsInjective(table') /\ open' \subseteq Sockets
      /\ DOMAIN table' \subseteq DOMAIN table
      /\ Apart(open', Range(table'), Dialled, threads.hold, Accepted)
    <2>1. CASE BanAddress(p)
        BY <1>2, <2>1 DEF BanAddress, PeersInv, PeersTyped
    <2>2. CASE RemovePeer(p)
        <3>1. /\ p \in DOMAIN table /\ table' = Without(p) /\ open' = open \ {table[p]} /\ banned' = banned
            BY <2>2 DEF RemovePeer
        <3>2. Dropped(p) = {table[p]}
            BY <3>1 DEF Dropped
        <3>3. /\ IsTableOf(table') /\ IsInjective(table') /\ DOMAIN table' = DOMAIN table \ {p}
              /\ Dropped(p) \in SUBSET Range(table) /\ Range(table') = Range(table) \ Dropped(p)
            BY <1>2, <3>1, TableWithout
        <3>4. Apart(open \ Dropped(p), Range(table) \ Dropped(p), Dialled, threads.hold, Accepted)
            BY <1>2, <3>3, ApartTaken
        <3>5. Apart(open', Range(table'), Dialled, threads.hold, Accepted)
            BY <3>1, <3>2, <3>3, <3>4
        <3> QED
            BY <1>2, <3>1, <3>3, <3>5 DEF PeersInv, PeersTyped
    <2> QED
        BY <2>1, <2>2
<1>5. PeersTyped'
    BY <1>1, <1>4 DEF PeersInv, PeersTyped, AcceptorTyped
<1>6. Placed'
    BY <1>1, <1>3, <1>4 DEF PeersInv, Placed
<1>7. Served'
    <2>1. \A q \in DOMAIN table' : q \in DOMAIN table
        BY <1>4
    <2> QED
        BY <1>1, <2>1 DEF PeersInv, Served
<1>8. StageInv'
    BY <1>1 DEF PeersInv, StageInv
<1> QED
    BY <1>5, <1>6, <1>7, <1>8

(* Where no connection moves, none is lost *)
LEMMA SamePlaces ==
    ASSUME PeersInv, UNCHANGED <<open, table, banned, acceptor, threads>>
    PROVE  PeersTyped' /\ Placed' /\ Served'
<1>1. PeersTyped'
    BY DEF PeersInv, PeersTyped, AcceptorTyped, IsTableOf
<1>2. Placed'
    BY DEF PeersInv, Placed, Accepted, Dialled
<1>3. Served'
    BY DEF PeersInv, Served
<1> QED
    BY <1>1, <1>2, <1>3

(* Start, a block, the synchronisation loop and the first two stages of Stop *)
LEMMA StageKeeps ==
    ASSUME PeersInv, StartNode \/ Grow \/ SyncReached \/ SyncEnds \/ StopNode \/ StopNetwork
    PROVE  PeersTyped' /\ Placed' /\ Served' /\ StageInv'
<1>1. UNCHANGED <<open, table, banned, threads>>
    BY DEF StartNode, Grow, SyncReached, SyncEnds, StopNode, StopNetwork
<1>2. CASE StartNode
    <2>1. stage = "off" /\ acceptor.at = "none" /\ acceptor'.at = "waiting" /\ stage' = "on"
        BY <1>2 DEF StartNode, Nowhere, PeersInv, StageInv
    <2>2. PeersTyped'
        BY <1>1, <2>1 DEF PeersInv, PeersTyped, AcceptorTyped, IsTableOf
    <2>3. Placed'
        BY <1>1, <2>1 DEF PeersInv, Placed, Accepted, Dialled
    <2>4. Served'
        BY <1>1, <2>1 DEF PeersInv, Served
    <2>5. StageInv'
        BY <2>1 DEF StageInv
    <2> QED
        BY <2>2, <2>3, <2>4, <2>5
<1>3. CASE Grow \/ SyncReached \/ SyncEnds \/ StopNode \/ StopNetwork
    <2>1. acceptor' = acceptor /\ (stage' = stage \/ stage' \in {"sync", "accept"})
        BY <1>3 DEF Grow, SyncReached, SyncEnds, StopNode, StopNetwork
    <2>2. PeersTyped' /\ Placed' /\ Served'
        BY <1>1, <2>1, SamePlaces
    <2>3. StageInv'
        BY <1>1, <2>1 DEF PeersInv, StageInv
    <2> QED
        BY <2>2, <2>3
<1> QED
    BY <1>2, <1>3

(* Stop clears the table and closes what it held *)
LEMMA ClearKeeps ==
    ASSUME PeersInv, StopClear
    PROVE  PeersTyped' /\ Placed' /\ Served' /\ StageInv'
<1>1. /\ table' = [p \in {} |-> 0] /\ open' = open \ Range(table) /\ stage' = "join"
      /\ acceptor.at = "done" /\ UNCHANGED <<banned, acceptor, threads>>
    BY DEF StopClear
<1>2. DOMAIN table' = {} /\ Range(table') = {} /\ IsTableOf(table') /\ IsInjective(table')
    BY <1>1 DEF Range, IsTableOf, IsInjective
<1>3. Apart(open', Range(table'), Dialled', threads'.hold, Accepted')
    <2>1. Apart(open, Range(table), Dialled, threads.hold, Accepted)
        BY DEF PeersInv, Placed
    <2>2. Apart(open \ Range(table), Range(table) \ Range(table), Dialled, threads.hold, Accepted)
        BY <2>1, ApartTaken
    <2>3. Dialled' = Dialled /\ Accepted' = Accepted /\ Range(table) \ Range(table) = {}
        BY <1>1 DEF Dialled, Accepted
    <2> QED
        BY <1>1, <1>2, <2>2, <2>3
<1>4. PeersTyped'
    BY <1>1, <1>2 DEF PeersInv, PeersTyped, AcceptorTyped
<1>5. Placed'
    BY <1>1, <1>2, <1>3 DEF PeersInv, Placed
<1>6. Served'
    BY <1>2 DEF Served
<1>7. StageInv'
    BY <1>1 DEF StageInv
<1> QED
    BY <1>4, <1>5, <1>6, <1>7

(* The threads can be counted *)
LEMMA ThreadsFinite ==
    ASSUME PeersTyped
    PROVE  IsFiniteSet(threads.dialled) /\ IsFiniteSet(threads.hold) /\ IsFiniteSet(DOMAIN table)
<1>1. IsFiniteSet(Sockets)
    BY PeersAssumption, FS_Interval DEF Sockets
<1>2. IsFiniteSet(Peer \X Sockets)
    BY <1>1, PeersAssumption, FS_Product
<1>3. /\ threads.dialled \in SUBSET (Peer \X Sockets) /\ threads.hold \in SUBSET Sockets
      /\ DOMAIN table \in SUBSET Peer
    BY DEF PeersTyped, ThreadsType, IsTableOf
<1> QED
    BY <1>1, <1>2, <1>3, PeersAssumption, FS_Subset

(* When Stop has joined every thread, none dials, takes or holds a connection *)
LEMMA NoneRuns ==
    ASSUME PeersTyped, Running = 0
    PROVE  /\ threads.dialled = {} /\ threads.hold = {}
           /\ \A p \in Peer : threads.dial[p] = 0 /\ threads.take[p] = 0
<1> DEFINE n == [p \in Peer |-> threads.dial[p] + threads.take[p]]
           d == Cardinality(threads.dialled)
           h == Cardinality(threads.hold)
<1>1. \A p \in Peer : threads.dial[p] \in Nat /\ threads.take[p] \in Nat
    BY DEF PeersTyped, ThreadsType
<1>2. DOMAIN n = Peer /\ \A p \in Peer : n[p] = threads.dial[p] + threads.take[p] /\ n[p] \in Nat
    BY <1>1
<1>3. d \in Nat /\ h \in Nat
    BY ThreadsFinite, FS_CardinalityType
<1>4. d + h + Sum(n) = 0
    BY DEF Running
<1> HIDE DEF n
<1>5. IsFiniteSet(Units(n)) /\ Sum(n) \in Nat
    BY <1>2, PeersAssumption, FiniteUnits
<1> HIDE DEF d, h
<1>6. d = 0 /\ h = 0 /\ Sum(n) = 0
    <2>1. \A i, j, k \in Nat : i + j + k = 0 => i = 0 /\ j = 0 /\ k = 0
        OBVIOUS
    <2> QED
        BY ONLY <1>3, <1>4, <1>5, <2>1
<1>7. threads.dialled = {} /\ threads.hold = {}
    BY <1>6, ThreadsFinite, FS_EmptySet DEF d, h
<1>8. ASSUME NEW p \in Peer PROVE threads.dial[p] = 0 /\ threads.take[p] = 0
    <2>1. n[p] <= Sum(n)
        BY <1>2, <1>5, AmountWithinSum
    <2> QED
        BY <1>1, <1>2, <1>6, <2>1
<1> QED
    BY <1>7, <1>8

(* Stop ends with no connection in any place *)
LEMMA JoinKeeps ==
    ASSUME PeersInv, StopJoin
    PROVE  PeersTyped' /\ Placed' /\ Served' /\ StageInv'
<1>1. /\ stage = "join" /\ Running = 0 /\ stage' = "off" /\ acceptor' = Nowhere("none")
      /\ UNCHANGED <<open, table, banned, threads>>
    BY DEF StopJoin
<1>2. acceptor'.at = "none" /\ acceptor.at = "done"
    BY <1>1 DEF Nowhere, PeersInv, StageInv
<1>3. /\ threads.dialled = {} /\ threads.hold = {}
      /\ \A p \in Peer : threads.dial[p] = 0 /\ threads.take[p] = 0
    BY <1>1, NoneRuns DEF PeersInv
<1>4. DOMAIN table = {}
    <2> SUFFICES ASSUME NEW p \in DOMAIN table PROVE FALSE
        OBVIOUS
    <2>1. p \in Peer /\ threads.take[p] > 0
        BY <1>2 DEF PeersInv, Served, PeersTyped, IsTableOf
    <2>2. threads.take[p] = 0
        BY <1>3, <2>1
    <2> QED
        BY <2>1, <2>2
<1>5. PeersTyped'
    BY <1>1, <1>2 DEF PeersInv, PeersTyped, AcceptorTyped, IsTableOf
<1>6. Placed'
    BY <1>1, <1>2 DEF PeersInv, Placed, Accepted, Dialled
<1>7. Served'
    BY <1>1, <1>4 DEF Served
<1>8. StageInv'
    BY <1>1, <1>2, <1>3, <1>4 DEF StageInv
<1> QED
    BY <1>5, <1>6, <1>7, <1>8

-----------------------------------------------------------------------------
(* No noted height is above the node's own, so its own is the best *)
LEMMA OwnIsBest ==
    ASSUME ownHeight \in Nat, NEW heights,
           \A p \in DOMAIN heights : heights[p] \in Nat /\ heights[p] <= ownHeight
    PROVE  Best(heights) = ownHeight
<1> DEFINE S == {ownHeight} \cup {heights[p] : p \in DOMAIN heights}
<1>1. ownHeight \in S /\ \A y \in S : y \in Nat /\ ownHeight >= y
    OBVIOUS
<1>2. Best(heights) = CHOOSE x \in S : \A y \in S : x >= y
    BY DEF Best, Max
<1> HIDE DEF S
<1>3. Best(heights) \in S /\ \A y \in S : Best(heights) >= y
    BY <1>1, <1>2
<1>4. Best(heights) \in Nat /\ Best(heights) >= ownHeight /\ ownHeight >= Best(heights)
    BY <1>1, <1>3
<1> QED
    BY <1>4

(* While the node runs, its record of heights and its loop are those of the target *)
LEMMA SyncKeeps ==
    ASSUME PeersInv, PeersStep
    PROVE  SyncInv'
<1>1. /\ ownHeight \in Nat /\ DOMAIN known \subseteq Peer
      /\ \A p \in DOMAIN known : known[p] \in Nat /\ known[p] <= ownHeight
      /\ isSyncing \in BOOLEAN /\ syncLoop \in BOOLEAN
      /\ (stage = "on" /\ isSyncing) => syncLoop
    BY DEF PeersInv, SyncInv
<1>2. ASSUME UNCHANGED syncVars, stage' = stage \/ stage' # "on" PROVE SyncInv'
    <2>1. UNCHANGED <<ownHeight, known, isSyncing, syncLoop>>
        BY <1>2 DEF syncVars
    <2> QED
        BY <1>1, <1>2, <2>1 DEF SyncInv
<1>3. CASE StartNode
    <2>1. UNCHANGED <<ownHeight, known>> /\ isSyncing' = TRUE /\ syncLoop' = TRUE
        BY <1>3 DEF StartNode
    <2> QED
        BY <1>1, <2>1 DEF SyncInv
<1>4. CASE HandleNewPeer
    <2> DEFINE p == acceptor.peer
               heights == [q \in DOMAIN known \cup {p} |-> IF q \in DOMAIN known THEN known[q] ELSE NotedHeight]
    <2>1. /\ known' = heights /\ isSyncing' = (isSyncing \/ Best(heights) > ownHeight)
          /\ UNCHANGED <<stage, ownHeight, syncLoop>> /\ acceptor.at = "spawned"
        BY <1>4 DEF HandleNewPeer
    <2>2. p \in Peer
        BY <2>1 DEF PeersInv, PeersTyped, AcceptorTyped
    <2>3. /\ DOMAIN heights \subseteq Peer
          /\ \A q \in DOMAIN heights : heights[q] \in Nat /\ heights[q] <= ownHeight
        BY <1>1, <2>2 DEF NotedHeight
    <2> HIDE DEF heights
    <2>4. Best(heights) = ownHeight /\ ~(ownHeight > ownHeight)
        BY <1>1, <2>3, OwnIsBest
    <2>5. isSyncing' = isSyncing
        BY <1>1, <2>1, <2>4
    <2> QED
        BY <1>1, <2>1, <2>3, <2>5 DEF SyncInv
<1>5. CASE Grow
    <2>1. /\ ownHeight' = ownHeight + 1 /\ isSyncing' = (isSyncing /\ ownHeight + 1 < syncTarget)
          /\ UNCHANGED <<stage, known, syncLoop>>
        BY <1>5 DEF Grow
    <2>2. ownHeight' \in Nat /\ \A p \in DOMAIN known : known[p] <= ownHeight'
        BY <1>1, <2>1
    <2>3. isSyncing' \in BOOLEAN /\ (isSyncing' => isSyncing)
        BY <2>1
    <2> QED
        BY <1>1, <2>1, <2>2, <2>3 DEF SyncInv
<1>6. CASE SyncReached \/ SyncEnds \/ StopNode
    <2>1. UNCHANGED <<ownHeight, known>> /\ isSyncing' = FALSE /\ (syncLoop' = syncLoop \/ syncLoop' = FALSE)
        <3>1. CASE SyncReached \/ StopNode
            BY <3>1 DEF SyncReached, StopNode
        <3>2. CASE SyncEnds
            BY <1>1, <3>2 DEF SyncEnds
        <3> QED
            BY <1>6, <3>1, <3>2
    <2> QED
        BY <1>1, <2>1 DEF SyncInv
<1>7. CASE AcceptInsert \/ AcceptSpawn \/ AcceptEnds \/ StopNetwork \/ StopClear \/ StopJoin
    BY <1>2, <1>7 DEF AcceptInsert, AcceptSpawn, AcceptEnds, StopNetwork, StopClear, StopJoin
<1>8. ASSUME NEW p \in Peer,
             Accept(p) \/ AddPeer(p) \/ BanAddress(p) \/ RemovePeer(p) \/ Take(p) \/ DialFails(p) \/ Dial(p)
      PROVE  SyncInv'
    BY <1>2, <1>8 DEF Accept, AddPeer, BanAddress, RemovePeer, Take, DialFails, Dial
<1>9. ASSUME NEW p \in Peer, NEW c \in Sockets, DialInsert(p, c) PROVE SyncInv'
    BY <1>2, <1>9 DEF DialInsert
<1>10. ASSUME NEW c \in Sockets, EndPeer(c) PROVE SyncInv'
    BY <1>2, <1>10 DEF EndPeer
<1> QED
    BY <1>3, <1>4, <1>5, <1>6, <1>7, <1>8, <1>9, <1>10 DEF PeersStep, Sockets

(* One case per operation *)
LEMMA PlacesKeep ==
    ASSUME PeersInv, PeersStep
    PROVE  PeersTyped' /\ Placed' /\ Served' /\ StageInv'
<1>1. CASE StartNode \/ Grow \/ SyncReached \/ SyncEnds \/ StopNode \/ StopNetwork
    BY <1>1, StageKeeps
<1>2. CASE AcceptInsert
    BY <1>2, AcceptInsertKeeps
<1>3. CASE AcceptSpawn \/ HandleNewPeer \/ AcceptEnds
    BY <1>3, AcceptorKeeps
<1>4. CASE StopClear
    BY <1>4, ClearKeeps
<1>5. CASE StopJoin
    BY <1>5, JoinKeeps
<1>6. ASSUME NEW p \in Peer, Accept(p) PROVE PeersTyped' /\ Placed' /\ Served' /\ StageInv'
    BY <1>6, AcceptKeeps
<1>7. ASSUME NEW p \in Peer, AddPeer(p) \/ DialFails(p)
      PROVE  PeersTyped' /\ Placed' /\ Served' /\ StageInv'
    BY <1>7, CountKeeps
<1>8. ASSUME NEW p \in Peer, BanAddress(p) \/ RemovePeer(p)
      PROVE  PeersTyped' /\ Placed' /\ Served' /\ StageInv'
    BY <1>8, BanningKeeps
<1>9. ASSUME NEW p \in Peer, Take(p) PROVE PeersTyped' /\ Placed' /\ Served' /\ StageInv'
    BY <1>9, TakeKeeps
<1>10. ASSUME NEW p \in Peer, Dial(p) PROVE PeersTyped' /\ Placed' /\ Served' /\ StageInv'
    BY <1>10, DialKeeps
<1>11. ASSUME NEW p \in Peer, NEW c \in Sockets, DialInsert(p, c)
       PROVE  PeersTyped' /\ Placed' /\ Served' /\ StageInv'
    BY <1>11, DialInsertKeeps
<1>12. ASSUME NEW c \in Sockets, EndPeer(c) PROVE PeersTyped' /\ Placed' /\ Served' /\ StageInv'
    BY <1>12, EndPeerKeeps
<1> QED
    BY <1>1, <1>2, <1>3, <1>4, <1>5, <1>6, <1>7, <1>8, <1>9, <1>10, <1>11, <1>12 DEF PeersStep, Sockets

(* and a step that changes nothing *)
LEMMA PeersStepKeeps == PeersInv /\ [PeersStep]_peersVars => PeersInv'
<1> SUFFICES ASSUME PeersInv, [PeersStep]_peersVars PROVE PeersInv'
    OBVIOUS
<1>1. CASE PeersStep
    BY <1>1, PlacesKeep, SyncKeeps DEF PeersInv
<1>2. CASE UNCHANGED peersVars
    <2>1. UNCHANGED <<open, table, banned, acceptor, threads, stage, ownHeight, known, isSyncing, syncLoop>>
        BY <1>2 DEF peersVars
    <2>2. PeersTyped' /\ Placed' /\ Served'
        BY <2>1, SamePlaces
    <2>3. StageInv'
        BY <2>1 DEF PeersInv, StageInv
    <2>4. SyncInv'
        BY <2>1 DEF PeersInv, SyncInv
    <2> QED
        BY <2>2, <2>3, <2>4 DEF PeersInv
<1> QED
    BY <1>1, <1>2

(* Every state of the connections keeps their invariant *)
THEOREM PeersInductive == PeersSpec => []PeersInv
<1> QED
    BY InitPeersInv, PeersStepKeeps, PTL DEF PeersSpec

(* The values an injective function gives are as many as its arguments *)
LEMMA InjectiveCount ==
    ASSUME NEW S, IsFiniteSet(S), NEW T, NEW f \in [S -> T], \A x, y \in S : f[x] = f[y] => x = y,
           NEW R, R = {f[x] : x \in S}
    PROVE  IsFiniteSet(R) /\ Cardinality(R) = Cardinality(S)
<1>1. f \in [S -> R]
    OBVIOUS
<1>2. f \in Injection(S, R)
    BY <1>1 DEF Injection, IsInjective
<1>3. f \in Surjection(S, R)
    BY <1>1 DEF Surjection
<1> QED
    BY <1>2, <1>3, FS_Surjection

(* Every open connection has one place and one who will close it *)
LEMMA OnePlaceEach ==
    ASSUME PeersInv
    PROVE  Cardinality(open) = Cardinality(DOMAIN table) + Cardinality(threads.dialled)
                               + Cardinality(threads.hold) + Cardinality(Accepted)
<1> DEFINE T == Range(table)
           H == threads.hold
<1>1. /\ Apart(open, T, Dialled, H, Accepted) /\ IsInjective(table)
      /\ \A d, e \in threads.dialled : d[2] = e[2] => d = e
      /\ table \in [DOMAIN table -> Sockets] /\ threads.dialled \subseteq Peer \X Sockets
    BY DEF PeersInv, Placed, PeersTyped, IsTableOf, ThreadsType
<1>2. IsFiniteSet(threads.dialled) /\ IsFiniteSet(H) /\ IsFiniteSet(DOMAIN table)
    BY ThreadsFinite DEF PeersInv
<1>3. IsFiniteSet(T) /\ Cardinality(T) = Cardinality(DOMAIN table)
    <2>1. \A x, y \in DOMAIN table : table[x] = table[y] => x = y
        BY <1>1 DEF IsInjective
    <2>2. T = {table[x] : x \in DOMAIN table}
        BY DEF Range
    <2> QED
        BY <1>1, <1>2, <2>1, <2>2, InjectiveCount
<1>4. IsFiniteSet(Dialled) /\ Cardinality(Dialled) = Cardinality(threads.dialled)
    <2> DEFINE f == [d \in threads.dialled |-> d[2]]
    <2>1. f \in [threads.dialled -> Sockets]
        BY <1>1
    <2>2. \A d, e \in threads.dialled : f[d] = f[e] => d = e
        BY <1>1
    <2>3. Dialled = {f[d] : d \in threads.dialled}
        BY DEF Dialled
    <2> HIDE DEF f
    <2> QED
        BY <1>2, <2>1, <2>2, <2>3, InjectiveCount
<1>5. IsFiniteSet(Accepted)
    BY FS_EmptySet, FS_Singleton DEF Accepted
<1> HIDE DEF T, H
<1>6. T \cap Dialled = {} /\ (T \cup Dialled) \cap H = {} /\ (T \cup Dialled \cup H) \cap Accepted = {}
      /\ open = T \cup Dialled \cup H \cup Accepted
    BY <1>1 DEF Apart
<1>7. IsFiniteSet(T \cup Dialled) /\ Cardinality(T \cup Dialled) = Cardinality(T) + Cardinality(Dialled)
    BY <1>3, <1>4, <1>6, UnitsAddUp
<1>8. /\ IsFiniteSet(T \cup Dialled \cup H)
      /\ Cardinality(T \cup Dialled \cup H) = Cardinality(T \cup Dialled) + Cardinality(H)
    BY <1>2, <1>6, <1>7, UnitsAddUp
<1>9. Cardinality(open) = Cardinality(T \cup Dialled \cup H) + Cardinality(Accepted)
    BY <1>5, <1>6, <1>8, UnitsAddUp
<1> QED
    BY <1>3, <1>4, <1>7, <1>8, <1>9 DEF H

(* Whoever overtakes whom, every open connection has one place and one that will close it, *)
(* a stopped node has none open, and while the node says that it is syncing its loop runs   *)
THEOREM PeersAreServed == PeersSpec => []ConnectionsAreServed
<1>1. PeersInv => ConnectionsAreServed
    <2> SUFFICES ASSUME PeersInv PROVE ConnectionsAreServed
        OBVIOUS
    <2>1. Apart(open, Range(table), Dialled, threads.hold, Accepted) /\ IsInjective(table)
        BY DEF PeersInv, Placed
    <2>2. stage = "off" => open = {}
        <3> SUFFICES ASSUME stage = "off" PROVE open = {}
            OBVIOUS
        <3>1. acceptor.at = "none" /\ DOMAIN table = {} /\ threads.dialled = {} /\ threads.hold = {}
            BY DEF PeersInv, StageInv
        <3>2. Range(table) = {} /\ Dialled = {} /\ Accepted = {}
            BY <3>1 DEF Range, Dialled, Accepted
        <3> QED
            BY <2>1, <3>1, <3>2 DEF Apart
    <2>3. open = Range(table) \cup Dialled \cup threads.hold \cup Accepted
        BY <2>1 DEF Apart
    <2>4. (stage = "on" /\ isSyncing) => syncLoop
        BY DEF PeersInv, SyncInv
    <2> QED
        BY <2>1, <2>2, <2>3, <2>4, OnePlaceEach DEF ConnectionsAreServed, PeersInv, Served
<1> QED
    BY <1>1, PeersInductive, PTL

-----------------------------------------------------------------------------
(* Of the updates both parties signed, no two have one number and the last is in force *)
ChannelInv ==
    /\ channel.state \in {"FUNDING", "OPEN", "CLOSING", "CLOSED"}
    /\ channel.a \in [Asset -> Word] /\ channel.b \in [Asset -> Word] /\ channel.sequence \in Nat
    /\ DOMAIN channel = {"state", "sequence", "closedAt", "dispute", "a", "b"}
    /\ channel = [x \in DOMAIN channel |-> channel[x]]
    /\ \A u \in agreed : u.sequence \in Nat /\ u.sequence <= channel.sequence
    /\ \A u, v \in agreed : u.sequence = v.sequence => u = v
    /\ agreed # {} => \E u \in agreed :
          u.sequence = channel.sequence /\ channel.a = u.a /\ channel.b = u.b

(* Once a route is locked its expiries fall hop by hop; who took a payment back did so late *)
RouteInv ==
    /\ route \in Seq(Nat) /\ time \in 0 .. MaxChannelTime
    /\ locks \in [DOMAIN locks -> [claim : {"none", "preimage", "timeout"}, at : Nat]]
    /\ DOMAIN locks = {} \/ (DOMAIN locks = DOMAIN route /\ Validate)
    /\ \A i \in DOMAIN locks : locks[i].claim = "timeout" => locks[i].at >= route[i]

(* Balances are words; up to their width they sum to what came in without what went out *)
PaidInv ==
    /\ paid \in [balance : [Account -> Word], fees : Word, credited : Nat]
    /\ (Sum(paid.balance) + paid.fees - paid.credited) % AmountWidth = 0
WrappedInv ==
    /\ wrapped \in [balance : [Account -> Word], locked : Nat, unlocked : Nat]
    /\ (Sum(wrapped.balance) + wrapped.unlocked - wrapped.locked) % AmountWidth = 0

ChannelsInv == ChannelInv /\ RouteInv /\ PaidInv /\ WrappedInv

-----------------------------------------------------------------------------
(* An addition of words wraps at most once *)
LEMMA PlusWraps ==
    ASSUME NEW i \in Word, NEW j \in Word
    PROVE  Plus(i, j) \in Word /\ Plus(i, j) = IF i + j < AmountWidth THEN i + j ELSE i + j - AmountWidth
<1>1. AmountWidth \in Nat \ {0} /\ i \in 0 .. AmountWidth - 1 /\ j \in 0 .. AmountWidth - 1
    BY ChannelAssumption DEF Word
<1>2. (i + j) % AmountWidth = IF i + j < AmountWidth THEN i + j ELSE i + j - AmountWidth
    BY ONLY <1>1
<1> QED
    BY <1>1, <1>2 DEF Plus, Word

(* What is nothing up to the width stays so when a width is taken off *)
LEMMA WidthOff ==
    ASSUME NEW s \in Int, s % AmountWidth = 0
    PROVE  (s - AmountWidth) % AmountWidth = 0
<1>1. AmountWidth \in Nat \ {0}
    BY ChannelAssumption
<1> DEFINE W == AmountWidth
           q == s \div W
<1>2. q \in Int /\ s = W * q + (s % W)
    BY ONLY <1>1
<1>3. \A k \in Int : (W * k + 0) % W = 0
    BY ONLY <1>1
<1> HIDE DEF q
<1>4. s - W = W * (q - 1) + 0 /\ q - 1 \in Int
    BY ONLY <1>1, <1>2, s % AmountWidth = 0
<1> QED
    BY <1>3, <1>4

(* The total of balances is a number *)
LEMMA BalancesAddUp ==
    ASSUME NEW f \in [Account -> Word]
    PROVE  /\ IsFiniteSet(Units(f)) /\ Sum(f) \in Nat
           /\ \A x \in Account : f[x] \in Nat
<1>1. \A x \in Account : f[x] \in Nat
    BY ChannelAssumption DEF Word
<1> QED
    BY <1>1, ChannelAssumption, FiniteUnits

(* A balance that takes in an amount *)
LEMMA BalanceTakesIn ==
    ASSUME NEW f \in [Account -> Word], NEW g \in [Account -> Word], NEW x \in Account, NEW amount \in Word,
           g[x] = Plus(f[x], amount), \A y \in Account \ {x} : g[y] = f[y]
    PROVE  Sum(g) = Sum(f) + amount \/ Sum(g) = Sum(f) + amount - AmountWidth
<1>1. g[x] = f[x] + amount \/ g[x] = f[x] + amount - AmountWidth
    BY PlusWraps
<1>2. DOMAIN f = Account /\ DOMAIN g = Account
    OBVIOUS
<1>3. Sum(g) \in Nat /\ Sum(f) \in Nat /\ f[x] \in Nat /\ g[x] \in Nat /\ IsFiniteSet(Units(f))
    BY BalancesAddUp
<1>4. Sum(g) + f[x] = Sum(f) + g[x]
    <2>1. x \in DOMAIN f /\ \A y \in DOMAIN f : y # x => g[y] = f[y]
        BY <1>2
    <2> QED
        BY ONLY <1>2, <1>3, <2>1, SumChange
<1>5. amount \in Int /\ AmountWidth \in Int
    BY ChannelAssumption DEF Word
<1> QED
    BY ONLY <1>1, <1>3, <1>4, <1>5

(* and one that gives out what it has *)
LEMMA BalanceGivesOut ==
    ASSUME NEW f \in [Account -> Word], NEW g \in [Account -> Word], NEW x \in Account, NEW amount \in Word,
           g[x] = f[x] - amount, \A y \in Account \ {x} : g[y] = f[y]
    PROVE  Sum(g) = Sum(f) - amount
<1>1. amount \in Int
    BY ChannelAssumption DEF Word
<1>2. DOMAIN f = Account /\ DOMAIN g = Account
    OBVIOUS
<1>3. Sum(g) \in Nat /\ Sum(f) \in Nat /\ f[x] \in Nat /\ g[x] \in Nat /\ IsFiniteSet(Units(f))
    BY BalancesAddUp
<1>4. Sum(g) + f[x] = Sum(f) + g[x]
    <2>1. x \in DOMAIN f /\ \A y \in DOMAIN f : y # x => g[y] = f[y]
        BY <1>2
    <2> QED
        BY ONLY <1>2, <1>3, <2>1, SumChange
<1> QED
    BY ONLY <1>1, <1>3, <1>4, g[x] = f[x] - amount

(* A channel that is funded, no route, and accounts without balances *)
LEMMA InitChannelsInv == InitChannels => ChannelsInv
<1> SUFFICES ASSUME InitChannels PROVE ChannelsInv
    OBVIOUS
<1>1. /\ channel = [state |-> "FUNDING", sequence |-> 0, closedAt |-> 0, dispute |-> 0,
                    a |-> [x \in Asset |-> Funding[x][1]], b |-> [x \in Asset |-> Funding[x][2]]]
      /\ agreed = {} /\ route = <<>> /\ locks = <<>> /\ time = 0
      /\ paid = [balance |-> [x \in Account |-> 0], fees |-> 0, credited |-> 0]
      /\ wrapped = [balance |-> [x \in Account |-> 0], locked |-> 0, unlocked |-> 0]
    BY DEF InitChannels
<1>2. \A x \in Asset : Funding[x][1] \in Word /\ Funding[x][2] \in Word
    BY ChannelAssumption DEF Asset, Word
<1>3. ChannelInv
    <2>1. /\ channel.state = "FUNDING" /\ channel.sequence = 0
          /\ channel.a = [x \in Asset |-> Funding[x][1]] /\ channel.b = [x \in Asset |-> Funding[x][2]]
          /\ DOMAIN channel = {"state", "sequence", "closedAt", "dispute", "a", "b"}
          /\ channel = [x \in DOMAIN channel |-> channel[x]]
        BY <1>1
    <2>2. channel.a \in [Asset -> Word] /\ channel.b \in [Asset -> Word]
        BY <1>2, <2>1
    <2> QED
        BY <1>1, <2>1, <2>2 DEF ChannelInv
<1>4. RouteInv
    <2>1. 0 \in 0 .. MaxChannelTime
        BY ChannelAssumption
    <2>2. route \in Seq(Nat) /\ DOMAIN locks = {} /\ locks = [i \in DOMAIN locks |-> locks[i]]
        BY <1>1
    <2>3. locks \in [DOMAIN locks -> [claim : {"none", "preimage", "timeout"}, at : Nat]]
        BY <2>2
    <2> QED
        BY <1>1, <2>1, <2>2, <2>3 DEF RouteInv
<1>5. /\ [x \in Account |-> 0] \in [Account -> Word] /\ 0 \in Word
      /\ Sum([x \in Account |-> 0]) = 0 /\ (0 + 0 - 0) % AmountWidth = 0
    <2>1. AmountWidth \in Nat \ {0}
        BY ChannelAssumption
    <2>2. 0 \in Word
        BY <2>1 DEF Word
    <2>3. (0 + 0 - 0) % AmountWidth = 0
        BY ONLY <2>1
    <2>4. Sum([x \in Account |-> 0]) = 0
        BY SumOfNothing
    <2> QED
        BY <2>2, <2>3, <2>4
<1>6. PaidInv
    BY <1>1, <1>5 DEF PaidInv
<1>7. WrappedInv
    BY <1>1, <1>5 DEF WrappedInv
<1> QED
    BY <1>3, <1>4, <1>6, <1>7 DEF ChannelsInv

(* The channel's own operations *)
LEMMA ChannelKeeps ==
    ASSUME ChannelInv,
           \/ Open \/ FinalizeClose \/ \E dispute \in Disputes : InitiateClose(dispute)
           \/ \E a, b \in [Asset -> Word] : \E s \in 1 .. MaxSequence : UpdateState(a, b, s)
    PROVE  ChannelInv' /\ UNCHANGED <<route, locks, paid, wrapped, time>>
<1>1. CASE Open \/ FinalizeClose \/ \E dispute \in Disputes : InitiateClose(dispute)
    <2>1. /\ channel'.state \in {"OPEN", "CLOSED", "CLOSING"}
          /\ channel'.a = channel.a /\ channel'.b = channel.b /\ channel'.sequence = channel.sequence
          /\ DOMAIN channel' = DOMAIN channel /\ channel' = [x \in DOMAIN channel' |-> channel'[x]]
          /\ UNCHANGED <<agreed, route, locks, paid, wrapped, time>>
        <3>1. /\ DOMAIN channel = {"state", "sequence", "closedAt", "dispute", "a", "b"}
              /\ channel = [x \in DOMAIN channel |-> channel[x]]
            BY DEF ChannelInv
        <3>2. CASE Open
            BY <3>1, <3>2 DEF Open
        <3>3. CASE FinalizeClose
            BY <3>1, <3>3 DEF FinalizeClose
        <3>4. ASSUME NEW dispute \in Disputes, InitiateClose(dispute)
              PROVE  /\ channel'.state \in {"OPEN", "CLOSED", "CLOSING"}
                     /\ channel'.a = channel.a /\ channel'.b = channel.b /\ channel'.sequence = channel.sequence
                     /\ DOMAIN channel' = DOMAIN channel /\ channel' = [x \in DOMAIN channel' |-> channel'[x]]
                     /\ UNCHANGED <<agreed, route, locks, paid, wrapped, time>>
            BY <3>1, <3>4 DEF InitiateClose
        <3> QED
            BY <1>1, <3>2, <3>3, <3>4
    <2> QED
        BY <2>1 DEF ChannelInv
<1>2. ASSUME NEW a \in [Asset -> Word], NEW b \in [Asset -> Word], NEW s \in 1 .. MaxSequence, UpdateState(a, b, s)
      PROVE  ChannelInv' /\ UNCHANGED <<route, locks, paid, wrapped, time>>
    <2> DEFINE u == [sequence |-> s, a |-> a, b |-> b]
    <2>1. /\ s > channel.sequence /\ s \in Nat /\ agreed' = agreed \cup {u}
          /\ channel' = [channel EXCEPT !.a = a, !.b = b, !.sequence = s]
          /\ UNCHANGED <<route, locks, paid, wrapped, time>>
        <3>1. s \in Nat
            BY ChannelAssumption
        <3> QED
            BY <1>2, <3>1 DEF UpdateState, Newer
    <2>2. u.sequence = s /\ u.a = a /\ u.b = b
        OBVIOUS
    <2> HIDE DEF u
    <2>3. /\ channel'.state = channel.state /\ channel'.a = a /\ channel'.b = b /\ channel'.sequence = s
          /\ DOMAIN channel' = DOMAIN channel /\ channel' = [x \in DOMAIN channel' |-> channel'[x]]
        BY <2>1 DEF ChannelInv
    <2>4. \A v \in agreed : v.sequence \in Nat /\ v.sequence < s
        BY <2>1 DEF ChannelInv
    <2>5. \A v \in agreed' : v.sequence \in Nat /\ v.sequence <= s
        BY <2>1, <2>2, <2>4
    <2>6. \A v, w \in agreed' : v.sequence = w.sequence => v = w
        <3> SUFFICES ASSUME NEW v \in agreed', NEW w \in agreed', v.sequence = w.sequence PROVE v = w
            OBVIOUS
        <3>1. CASE v \in agreed /\ w \in agreed
            BY <3>1 DEF ChannelInv
        <3>2. CASE v = u \/ w = u
            <4>1. v \notin agreed /\ w \notin agreed
                BY <2>2, <2>4, <3>2
            <4> QED
                BY <2>1, <4>1
        <3> QED
            BY <2>1, <3>1, <3>2
    <2>7. \E v \in agreed' : v.sequence = channel'.sequence /\ channel'.a = v.a /\ channel'.b = v.b
        BY <2>1, <2>2, <2>3
    <2> QED
        BY <2>1, <2>3, <2>5, <2>6, <2>7 DEF ChannelInv
<1> QED
    BY <1>1, <1>2

(* A route is locked when its expiries fall; a hop is claimed at the time of the clock *)
LEMMA RouteKeeps ==
    ASSUME RouteInv,
           \/ \E e \in Expiries : AddHop(e)
           \/ LockRoute \/ Clock
           \/ \E i \in DOMAIN locks : ClaimWithPreimage(i) \/ ClaimWithTimeout(i)
    PROVE  RouteInv' /\ UNCHANGED <<channel, agreed, paid, wrapped>>
<1>1. /\ route \in Seq(Nat) /\ time \in Nat
      /\ locks \in [DOMAIN locks -> [claim : {"none", "preimage", "timeout"}, at : Nat]]
    BY ChannelAssumption DEF RouteInv
<1>2. ASSUME NEW e \in Expiries, AddHop(e) PROVE RouteInv' /\ UNCHANGED <<channel, agreed, paid, wrapped>>
    <2>1. e \in Nat
        BY ChannelAssumption
    <2>2. route' = Append(route, e) /\ locks = <<>> /\ UNCHANGED <<channel, agreed, locks, paid, wrapped, time>>
        BY <1>2 DEF AddHop
    <2>3. route' \in Seq(Nat) /\ DOMAIN locks = {}
        BY <1>1, <2>1, <2>2
    <2> QED
        BY <2>2, <2>3 DEF RouteInv
<1>3. CASE LockRoute
    <2>1. /\ Validate /\ locks' = [i \in 1 .. Len(route) |-> [claim |-> "none", at |-> 0]]
          /\ UNCHANGED <<channel, agreed, route, paid, wrapped, time>>
        BY <1>3 DEF LockRoute
    <2>2. DOMAIN locks' = DOMAIN route /\ \A i \in DOMAIN locks' : locks'[i].claim = "none"
        BY <1>1, <2>1
    <2>3. locks' \in [DOMAIN locks' -> [claim : {"none", "preimage", "timeout"}, at : Nat]]
        BY <2>1
    <2>4. Validate'
        BY <2>1 DEF Validate
    <2> QED
        BY <2>1, <2>2, <2>3, <2>4 DEF RouteInv
<1>4. CASE Clock
    <2>1. time' = time + 1 /\ time < MaxChannelTime /\ UNCHANGED <<channel, agreed, route, locks, paid, wrapped>>
        BY <1>4 DEF Clock
    <2>2. time' \in 0 .. MaxChannelTime
        BY <1>1, <2>1, ChannelAssumption
    <2>3. Validate' <=> Validate
        BY <2>1 DEF Validate
    <2> QED
        BY <2>1, <2>2, <2>3 DEF RouteInv
<1>5. ASSUME NEW i \in DOMAIN locks, ClaimWithPreimage(i) \/ ClaimWithTimeout(i)
      PROVE  RouteInv' /\ UNCHANGED <<channel, agreed, paid, wrapped>>
    <2>1. PICK claim \in {"preimage", "timeout"} :
              /\ locks' = [locks EXCEPT ![i] = [claim |-> claim, at |-> time]]
              /\ claim = "timeout" => time >= route[i]
        BY <1>5 DEF ClaimWithPreimage, ClaimWithTimeout
    <2>2. UNCHANGED <<channel, agreed, route, paid, wrapped, time>>
        BY <1>5 DEF ClaimWithPreimage, ClaimWithTimeout
    <2> DEFINE made == [claim |-> claim, at |-> time]
    <2>3. made \in [claim : {"none", "preimage", "timeout"}, at : Nat] /\ made.claim = claim /\ made.at = time
        BY <1>1
    <2>4. locks' = [locks EXCEPT ![i] = made]
        BY <2>1
    <2> HIDE DEF made
    <2>5. /\ DOMAIN locks' = DOMAIN locks /\ locks'[i] = made
          /\ \A j \in DOMAIN locks : j # i => locks'[j] = locks[j]
          /\ locks' \in [DOMAIN locks' -> [claim : {"none", "preimage", "timeout"}, at : Nat]]
        BY <1>1, <2>3, <2>4
    <2>6. \A j \in DOMAIN locks' : locks'[j].claim = "timeout" => locks'[j].at >= route[j]
        <3> SUFFICES ASSUME NEW j \in DOMAIN locks', locks'[j].claim = "timeout" PROVE locks'[j].at >= route[j]
            OBVIOUS
        <3>1. CASE j = i
            BY <2>1, <2>3, <2>5, <3>1
        <3>2. CASE j # i
            BY <2>5, <3>2 DEF RouteInv
        <3> QED
            BY <3>1, <3>2
    <2>7. Validate' <=> Validate
        BY <2>2 DEF Validate
    <2> QED
        BY <2>2, <2>5, <2>6, <2>7 DEF RouteInv
<1> QED
    BY <1>2, <1>3, <1>4, <1>5

(* What is credited or locked is in the balances, up to the width *)
LEMMA InKeepsSum ==
    ASSUME NEW t \in Int, NEW s \in Int, NEW amount \in Int, NEW r \in Int,
           (s + r) % AmountWidth = 0, t = s + amount \/ t = s + amount - AmountWidth
    PROVE  (t + r - amount) % AmountWidth = 0
<1>1. AmountWidth \in Int
    BY ChannelAssumption
<1>2. CASE t = s + amount
    <2>1. t + r - amount = s + r
        BY <1>2
    <2> QED
        BY <2>1
<1>3. CASE t = s + amount - AmountWidth
    <2>1. t + r - amount = (s + r) - AmountWidth /\ s + r \in Int
        BY <1>1, <1>3
    <2> QED
        BY <2>1, WidthOff
<1> QED
    BY <1>2, <1>3

(* A transfer's debit does not wrap, since it is not below the amount *)
LEMMA TransferKeeps ==
    ASSUME PaidInv, NEW x \in Account, NEW y \in Account, NEW amount \in Word, NEW fee \in Word,
           Transfer(x, y, amount, fee)
    PROVE  PaidInv'
<1> DEFINE f == paid.balance
           debit == Plus(amount, fee)
           g == [f EXCEPT ![x] = @ - debit]
           h == [g EXCEPT ![y] = Plus(@, amount)]
           fees == Plus(paid.fees, fee)
<1>1. /\ f \in [Account -> Word] /\ paid.fees \in Word /\ paid.credited \in Nat
      /\ (Sum(f) + paid.fees - paid.credited) % AmountWidth = 0
    BY DEF PaidInv
<1>2. x # y /\ debit >= amount /\ f[x] >= debit
    BY DEF Transfer
<1>3. /\ AmountWidth \in Nat \ {0} /\ amount \in Nat /\ fee \in Nat /\ fee < AmountWidth
      /\ paid.fees \in Nat
    BY <1>1, ChannelAssumption DEF Word
<1>4. debit \in Word /\ (debit = amount + fee \/ debit = amount + fee - AmountWidth)
    BY PlusWraps
<1>5. fees \in Word /\ (fees = paid.fees + fee \/ fees = paid.fees + fee - AmountWidth)
    BY <1>1, PlusWraps
<1>6. paid' = [balance |-> h, fees |-> fees, credited |-> paid.credited]
    <2>1. paid' = [paid EXCEPT !.balance[x] = @ - debit, !.balance[y] = Plus(@, amount), !.fees = Plus(@, fee)]
        BY DEF Transfer
    <2>2. paid = [balance |-> f, fees |-> paid.fees, credited |-> paid.credited]
        BY DEF PaidInv
    <2> HIDE DEF debit
    <2> DEFINE k == [f EXCEPT ![x] = @ - debit, ![y] = Plus(@, amount)]
    <2>3. paid' = [paid EXCEPT !.balance = k, !.fees = fees]
        BY <2>1
    <2>4. k = h
        BY <1>1, <1>2
    <2> HIDE DEF k, h, fees
    <2> QED
        BY ONLY <2>2, <2>3, <2>4
<1> HIDE DEF debit, fees
<1>7. debit = amount + fee
    BY <1>2, <1>3, <1>4
<1>8. g \in [Account -> Word] /\ Sum(g) = Sum(f) - debit
    <2>1. f[x] - debit \in Word
        BY <1>1, <1>2, <1>4, ChannelAssumption DEF Word
    <2>2. g \in [Account -> Word] /\ g[x] = f[x] - debit /\ \A z \in Account \ {x} : g[z] = f[z]
        BY <1>1, <2>1
    <2>3. x \in Account
        OBVIOUS
    <2> HIDE DEF f, g
    <2> QED
        BY ONLY <1>1, <1>4, <2>2, <2>3, BalanceGivesOut
<1> HIDE DEF f, g
<1>9. h \in [Account -> Word] /\ (Sum(h) = Sum(g) + amount \/ Sum(h) = Sum(g) + amount - AmountWidth)
    <2>1. y \in Account /\ amount \in Word /\ g[y] \in Word
        BY <1>8
    <2>2. Plus(g[y], amount) \in Word
        BY <2>1, PlusWraps
    <2>3. h \in [Account -> Word] /\ h[y] = Plus(g[y], amount) /\ \A z \in Account \ {y} : h[z] = g[z]
        BY <1>8, <2>2
    <2> HIDE DEF h
    <2> QED
        BY ONLY <1>8, <2>1, <2>3, BalanceTakesIn
<1> HIDE DEF h
<1>10. Sum(f) \in Nat /\ Sum(g) \in Nat /\ Sum(h) \in Nat /\ fees \in Int
    BY <1>1, <1>3, <1>5, <1>8, <1>9, BalancesAddUp
<1>11. (Sum(h) + fees - paid.credited) % AmountWidth = 0
    <2> DEFINE old == Sum(f) + paid.fees - paid.credited
               new == Sum(h) + fees - paid.credited
    <2>1. old \in Int /\ old % AmountWidth = 0
        BY <1>1, <1>3, <1>10
    <2>2. (old - AmountWidth) % AmountWidth = 0
        BY <2>1, WidthOff
    <2>3. old - AmountWidth \in Int
        BY <1>3, <2>1
    <2>4. (old - AmountWidth - AmountWidth) % AmountWidth = 0
        BY <2>2, <2>3, WidthOff
    <2>5. new = old \/ new = old - AmountWidth \/ new = old - AmountWidth - AmountWidth
        <3>1. /\ Sum(h) = Sum(f) - fee \/ Sum(h) = Sum(f) - fee - AmountWidth
              /\ Sum(h) \in Int /\ Sum(f) \in Int /\ fee \in Int /\ fees \in Int /\ paid.fees \in Int
              /\ paid.credited \in Int /\ AmountWidth \in Int
            BY <1>1, <1>3, <1>7, <1>8, <1>9, <1>10
        <3>2. fees - paid.fees = fee \/ fees - paid.fees = fee - AmountWidth
            BY <1>5, <3>1
        <3>3. \A i, j, m, n, o, c, w \in Int :
                  (i = j - o \/ i = j - o - w) /\ (m - n = o \/ m - n = o - w) =>
                      \/ i + m - c = j + n - c \/ i + m - c = j + n - c - w \/ i + m - c = j + n - c - w - w
            OBVIOUS
        <3> QED
            BY ONLY <3>1, <3>2, <3>3 DEF old, new
    <2> HIDE DEF old, new
    <2>6. new % AmountWidth = 0
        BY <2>1, <2>2, <2>4, <2>5
    <2> QED
        BY <2>6 DEF new
<1>12. paid' \in [balance : [Account -> Word], fees : Word, credited : Nat]
       /\ paid'.balance = h /\ paid'.fees = fees /\ paid'.credited = paid.credited
    BY <1>1, <1>5, <1>6, <1>9
<1> QED
    BY <1>11, <1>12 DEF PaidInv

(* An amount is credited, or the asset locked that is wrapped *)
LEMMA CreditKeeps ==
    ASSUME PaidInv, NEW x \in Account, NEW amount \in Word, Credit(x, amount)
    PROVE  PaidInv'
<1> DEFINE f == paid.balance
           g == [f EXCEPT ![x] = Plus(@, amount)]
<1>1. /\ f \in [Account -> Word] /\ paid.fees \in Word /\ paid.credited \in Nat
      /\ (Sum(f) + paid.fees - paid.credited) % AmountWidth = 0
      /\ paid = [balance |-> f, fees |-> paid.fees, credited |-> paid.credited]
    BY DEF PaidInv
<1>2. paid' = [paid EXCEPT !.balance = g, !.credited = @ + amount]
    BY DEF Credit
<1>3. amount \in Nat /\ paid.fees \in Nat
    BY <1>1, ChannelAssumption DEF Word
<1>4. g \in [Account -> Word] /\ (Sum(g) = Sum(f) + amount \/ Sum(g) = Sum(f) + amount - AmountWidth)
    <2>1. x \in Account /\ amount \in Word /\ f[x] \in Word
        BY <1>1
    <2>2. Plus(f[x], amount) \in Word
        BY <2>1, PlusWraps
    <2>3. g \in [Account -> Word] /\ g[x] = Plus(f[x], amount) /\ \A z \in Account \ {x} : g[z] = f[z]
        BY <1>1, <2>2
    <2> HIDE DEF f, g
    <2> QED
        BY ONLY <1>1, <2>1, <2>3, BalanceTakesIn
<1> HIDE DEF f, g
<1>5. Sum(f) \in Nat /\ Sum(g) \in Nat
    BY <1>1, <1>4, BalancesAddUp
<1>6. (Sum(f) + (paid.fees - paid.credited)) % AmountWidth = 0
    <2>1. Sum(f) + (paid.fees - paid.credited) = Sum(f) + paid.fees - paid.credited
        BY <1>1, <1>3, <1>5
    <2> QED
        BY <1>1, <2>1
<1>7. (Sum(g) + (paid.fees - paid.credited) - amount) % AmountWidth = 0
    BY <1>1, <1>3, <1>4, <1>5, <1>6, InKeepsSum
<1>8. paid'.balance = g /\ paid'.fees = paid.fees /\ paid'.credited = paid.credited + amount
      /\ paid' \in [balance : [Account -> Word], fees : Word, credited : Nat]
    <2>1. paid' = [balance |-> g, fees |-> paid.fees, credited |-> paid.credited + amount]
        BY ONLY <1>1, <1>2
    <2>2. paid.credited + amount \in Nat
        BY <1>1, <1>3
    <2> QED
        BY <1>1, <1>4, <2>1, <2>2
<1>9. Sum(g) + (paid.fees - paid.credited) - amount = Sum(g) + paid.fees - (paid.credited + amount)
    BY <1>1, <1>3, <1>5
<1> QED
    BY <1>7, <1>8, <1>9 DEF PaidInv

(* The same for what is wrapped *)
LEMMA LockKeeps ==
    ASSUME WrappedInv, NEW x \in Account, NEW amount \in Word, LockAsset(x, amount)
    PROVE  WrappedInv'
<1> DEFINE f == wrapped.balance
           g == [f EXCEPT ![x] = Plus(@, amount)]
<1>1. /\ f \in [Account -> Word] /\ wrapped.locked \in Nat /\ wrapped.unlocked \in Nat
      /\ (Sum(f) + wrapped.unlocked - wrapped.locked) % AmountWidth = 0
      /\ wrapped = [balance |-> f, locked |-> wrapped.locked, unlocked |-> wrapped.unlocked]
    BY DEF WrappedInv
<1>2. wrapped' = [wrapped EXCEPT !.balance = g, !.locked = @ + amount]
    BY DEF LockAsset
<1>3. amount \in Nat
    BY ChannelAssumption DEF Word
<1>4. g \in [Account -> Word] /\ (Sum(g) = Sum(f) + amount \/ Sum(g) = Sum(f) + amount - AmountWidth)
    <2>1. x \in Account /\ amount \in Word /\ f[x] \in Word
        BY <1>1
    <2>2. Plus(f[x], amount) \in Word
        BY <2>1, PlusWraps
    <2>3. g \in [Account -> Word] /\ g[x] = Plus(f[x], amount) /\ \A z \in Account \ {x} : g[z] = f[z]
        BY <1>1, <2>2
    <2> HIDE DEF f, g
    <2> QED
        BY ONLY <1>1, <2>1, <2>3, BalanceTakesIn
<1> HIDE DEF f, g
<1>5. Sum(f) \in Nat /\ Sum(g) \in Nat
    BY <1>1, <1>4, BalancesAddUp
<1>6. (Sum(f) + (wrapped.unlocked - wrapped.locked)) % AmountWidth = 0
    <2>1. Sum(f) + (wrapped.unlocked - wrapped.locked) = Sum(f) + wrapped.unlocked - wrapped.locked
        BY <1>1, <1>5
    <2> QED
        BY <1>1, <2>1
<1>7. (Sum(g) + (wrapped.unlocked - wrapped.locked) - amount) % AmountWidth = 0
    BY <1>1, <1>3, <1>4, <1>5, <1>6, InKeepsSum
<1>8. wrapped'.balance = g /\ wrapped'.unlocked = wrapped.unlocked /\ wrapped'.locked = wrapped.locked + amount
      /\ wrapped' \in [balance : [Account -> Word], locked : Nat, unlocked : Nat]
    <2>1. wrapped' = [balance |-> g, locked |-> wrapped.locked + amount, unlocked |-> wrapped.unlocked]
        BY ONLY <1>1, <1>2
    <2>2. wrapped.locked + amount \in Nat
        BY <1>1, <1>3
    <2> QED
        BY <1>1, <1>4, <2>1, <2>2
<1>9. Sum(g) + (wrapped.unlocked - wrapped.locked) - amount = Sum(g) + wrapped.unlocked - (wrapped.locked + amount)
    BY <1>1, <1>3, <1>5
<1> QED
    BY <1>7, <1>8, <1>9 DEF WrappedInv

(* What is unlocked was owned *)
LEMMA UnlockKeeps ==
    ASSUME WrappedInv, NEW x \in Account, NEW amount \in Word, UnlockAsset(x, amount)
    PROVE  WrappedInv'
<1> DEFINE f == wrapped.balance
           g == [f EXCEPT ![x] = @ - amount]
<1>1. /\ f \in [Account -> Word] /\ wrapped.locked \in Nat /\ wrapped.unlocked \in Nat
      /\ (Sum(f) + wrapped.unlocked - wrapped.locked) % AmountWidth = 0
      /\ wrapped = [balance |-> f, locked |-> wrapped.locked, unlocked |-> wrapped.unlocked]
    BY DEF WrappedInv
<1>2. wrapped' = [wrapped EXCEPT !.balance = g, !.unlocked = @ + amount] /\ f[x] >= amount
    BY DEF UnlockAsset
<1>3. amount \in Nat
    BY ChannelAssumption DEF Word
<1>4. g \in [Account -> Word] /\ Sum(g) = Sum(f) - amount
    <2>1. x \in Account /\ amount \in Word /\ f[x] - amount \in Word
        BY <1>1, <1>2, ChannelAssumption DEF Word
    <2>2. g \in [Account -> Word] /\ g[x] = f[x] - amount /\ \A z \in Account \ {x} : g[z] = f[z]
        BY <1>1, <2>1
    <2> HIDE DEF f, g
    <2> QED
        BY ONLY <1>1, <2>1, <2>2, BalanceGivesOut
<1> HIDE DEF f, g
<1>5. Sum(f) \in Nat
    BY <1>1, BalancesAddUp
<1>6. wrapped'.balance = g /\ wrapped'.unlocked = wrapped.unlocked + amount /\ wrapped'.locked = wrapped.locked
      /\ wrapped' \in [balance : [Account -> Word], locked : Nat, unlocked : Nat]
    <2>1. wrapped' = [balance |-> g, locked |-> wrapped.locked, unlocked |-> wrapped.unlocked + amount]
        BY ONLY <1>1, <1>2
    <2>2. wrapped.unlocked + amount \in Nat
        BY <1>1, <1>3
    <2> QED
        BY <1>1, <1>4, <2>1, <2>2
<1>7. Sum(g) + (wrapped.unlocked + amount) - wrapped.locked = Sum(f) + wrapped.unlocked - wrapped.locked
    BY <1>1, <1>3, <1>4, <1>5
<1> QED
    BY <1>1, <1>6, <1>7 DEF WrappedInv

(* One case per operation; what an operation leaves alone keeps its part *)
LEMMA ChannelsStepKeeps ==
    ChannelsInv /\ [ChannelStep \/ RouteStep \/ AccountStep]_channelVars => ChannelsInv'
<1> SUFFICES ASSUME ChannelsInv, [ChannelStep \/ RouteStep \/ AccountStep]_channelVars PROVE ChannelsInv'
    OBVIOUS
<1>1. ChannelInv /\ RouteInv /\ PaidInv /\ WrappedInv
    BY DEF ChannelsInv
<1>2. UNCHANGED <<channel, agreed>> => ChannelInv'
    BY <1>1 DEF ChannelInv
<1>3. UNCHANGED <<route, locks, time>> => RouteInv'
    BY <1>1 DEF RouteInv, Validate
<1>4. UNCHANGED paid => PaidInv'
    BY <1>1 DEF PaidInv
<1>5. UNCHANGED wrapped => WrappedInv'
    BY <1>1 DEF WrappedInv
<1>6. CASE \/ Open \/ FinalizeClose \/ \E dispute \in Disputes : InitiateClose(dispute)
           \/ \E a, b \in [Asset -> Word] : \E s \in 1 .. MaxSequence : UpdateState(a, b, s)
    BY <1>1, <1>3, <1>4, <1>5, <1>6, ChannelKeeps DEF ChannelsInv
<1>7. CASE \/ \E e \in Expiries : AddHop(e)
           \/ LockRoute \/ Clock
           \/ \E i \in DOMAIN locks : ClaimWithPreimage(i) \/ ClaimWithTimeout(i)
    BY <1>1, <1>2, <1>4, <1>5, <1>7, RouteKeeps DEF ChannelsInv
<1>8. CASE AccountStep
    <2>1. UNCHANGED <<channel, agreed, route, locks, time>>
        BY <1>8 DEF AccountStep, Credit, LockAsset, UnlockAsset, Transfer
    <2>2. \A t \in Transfers : t[1] \in Word /\ t[2] \in Word
        BY ChannelAssumption DEF Word
    <2>3. ASSUME NEW x \in Account, NEW t \in Transfers, Credit(x, t[1]) PROVE PaidInv' /\ WrappedInv'
        <3>1. wrapped' = wrapped
            BY <2>3 DEF Credit
        <3> QED
            BY <1>1, <1>5, <2>2, <2>3, <3>1, CreditKeeps
    <2>4. ASSUME NEW x \in Account, NEW t \in Transfers, LockAsset(x, t[1]) \/ UnlockAsset(x, t[1])
          PROVE  PaidInv' /\ WrappedInv'
        <3>1. paid' = paid
            BY <2>4 DEF LockAsset, UnlockAsset
        <3> QED
            BY <1>1, <1>4, <2>2, <2>4, <3>1, LockKeeps, UnlockKeeps
    <2>5. ASSUME NEW x \in Account, NEW y \in Account, NEW t \in Transfers, Transfer(x, y, t[1], t[2])
          PROVE  PaidInv' /\ WrappedInv'
        <3>1. wrapped' = wrapped
            BY <2>5 DEF Transfer
        <3> QED
            BY <1>1, <1>5, <2>2, <2>5, <3>1, TransferKeeps
    <2>6. PaidInv' /\ WrappedInv'
        BY <1>8, <2>3, <2>4, <2>5 DEF AccountStep
    <2> QED
        BY <1>2, <1>3, <2>1, <2>6 DEF ChannelsInv
<1>9. CASE UNCHANGED channelVars
    BY <1>2, <1>3, <1>4, <1>5, <1>9 DEF channelVars, ChannelsInv
<1> QED
    BY <1>6, <1>7, <1>8, <1>9 DEF ChannelStep, RouteStep

(* Every state of the payments off the chain keeps their invariant *)
THEOREM ChannelsInductive == ChannelsSpec => []ChannelsInv
<1> QED
    BY InitChannelsInv, ChannelsStepKeeps, PTL DEF ChannelsSpec

(* Balances of a channel are words, and its locks are those of its route *)
THEOREM ChannelsTypeCorrect == ChannelsSpec => []ChannelsTypeOK
<1>1. ChannelsInv => ChannelsTypeOK
    BY DEF ChannelsInv, ChannelInv, RouteInv, ChannelsTypeOK
<1> QED
    BY <1>1, ChannelsInductive, PTL

(* Each party can rely on what it signed or holds: the last update is the one in force, an *)
(* intermediary has time between the hops, and no balance is made or lost                    *)
THEOREM ChannelsSettle == ChannelsSpec => []ClaimsSettle
<1>1. ChannelsInv => ClaimsSettle
    <2> SUFFICES ASSUME ChannelsInv PROVE ClaimsSettle
        OBVIOUS
    <2>1. ChannelInv /\ RouteInv /\ PaidInv /\ WrappedInv
        BY DEF ChannelsInv
    <2>2. \A u, v \in agreed : u.sequence = v.sequence => u = v
        BY <2>1 DEF ChannelInv
    <2>3. agreed # {} => \E u \in agreed :
              /\ \A v \in agreed : v.sequence <= u.sequence
              /\ channel.a = u.a /\ channel.b = u.b
        BY <2>1 DEF ChannelInv
    <2>4. ASSUME NEW i \in 1 .. Len(locks) - 1, locks[i].claim = "timeout",
                 locks[i + 1].claim = "preimage", locks[i + 1].at < route[i + 1]
          PROVE  locks[i].at > locks[i + 1].at + 1
        <3>1. route \in Seq(Nat) /\ locks \in [DOMAIN locks -> [claim : {"none", "preimage", "timeout"}, at : Nat]]
            BY <2>1 DEF RouteInv
        <3>2. DOMAIN locks = 1 .. Len(route) /\ Validate
            <4>1. CASE DOMAIN locks = {}
                <5>1. locks = <<>>
                    BY <3>1, <4>1
                <5> QED
                    BY <5>1
            <4>2. CASE DOMAIN locks = DOMAIN route /\ Validate
                BY <3>1, <4>2
            <4> QED
                BY <2>1, <4>1, <4>2 DEF RouteInv
        <3>3. Len(locks) = Len(route)
            <4>1. locks = [j \in 1 .. Len(route) |-> locks[j]] /\ Len(route) \in Nat
                BY <3>1, <3>2
            <4> QED
                BY <4>1
        <3>4. i \in DOMAIN locks /\ i + 1 \in DOMAIN locks /\ i + 1 \in 2 .. Len(route)
            BY <3>1, <3>2, <3>3
        <3>5. route[i + 1] < route[i] /\ route[i] \in Nat /\ route[i + 1] \in Nat
            <4>1. i + 1 - 1 = i
                OBVIOUS
            <4>2. route[i + 1] < route[i + 1 - 1]
                BY <3>2, <3>4 DEF Validate
            <4>3. \A j \in 1 .. Len(route) : route[j] \in Nat
                BY ONLY <3>1
            <4>4. route[i] \in Nat /\ route[i + 1] \in Nat
                BY ONLY <3>2, <3>4, <4>3
            <4> QED
                BY ONLY <4>1, <4>2, <4>4
        <3>6. locks[i].at >= route[i] /\ locks[i].at \in Nat /\ locks[i + 1].at \in Nat
            BY <2>1, <2>4, <3>1, <3>4 DEF RouteInv
        <3> QED
            BY <2>4, <3>5, <3>6
    <2>5. /\ (Sum(paid.balance) + paid.fees - paid.credited) % AmountWidth = 0
          /\ (Sum(wrapped.balance) + wrapped.unlocked - wrapped.locked) % AmountWidth = 0
        BY <2>1 DEF PaidInv, WrappedInv
    <2> QED
        BY <2>2, <2>3, <2>4, <2>5 DEF ClaimsSettle
<1> QED
    BY <1>1, ChannelsInductive, PTL

-----------------------------------------------------------------------------
(* The layers of a Merkle tree, the places of a path and the nodes on it exist *)
IsLayers(g, A, N) == g = [n \in 0 .. N |-> IF n = 0 THEN Leaves(A) ELSE Above(g[n - 1])]
IsWay(g, r, N) == g = [n \in 0 .. N |-> IF n = 0 THEN r ELSE g[n - 1] \div 2]
IsClimb(g, a, p, N) ==
    g = [n \in 0 .. N |-> IF n = 0 THEN <<a>>
            ELSE IF p[n].right THEN <<g[n - 1], p[n].node>> ELSE <<p[n].node, g[n - 1]>>]

(* There are as many layers as are asked for *)
LEMMA LayersExist ==
    ASSUME NEW A, NEW N \in Nat
    PROVE  \E g : IsLayers(g, A, N)
<1> DEFINE T == {m \in 0 .. N : \E g : IsLayers(g, A, m)}
<1>1. 0 \in T
    <2> DEFINE g == [n \in 0 .. 0 |-> Leaves(A)]
    <2>1. g = [n \in 0 .. 0 |-> IF n = 0 THEN Leaves(A) ELSE Above(g[n - 1])]
        OBVIOUS
    <2> HIDE DEF g
    <2>2. IsLayers(g, A, 0)
        BY <2>1 DEF IsLayers
    <2> QED
        BY <2>2
<1>2. ASSUME NEW m \in 1 .. N, m - 1 \in T PROVE m \in T
    <2>1. PICK g : IsLayers(g, A, m - 1)
        BY <1>2
    <2> DEFINE w == [n \in 0 .. m |-> IF n = m THEN Above(g[m - 1]) ELSE g[n]]
    <2>2. ASSUME NEW n \in 0 .. m PROVE w[n] = IF n = 0 THEN Leaves(A) ELSE Above(w[n - 1])
        <3>1. CASE n = m
            BY <3>1
        <3>2. CASE n # m
            <4>1. n \in 0 .. m - 1 /\ w[n] = g[n]
                BY <3>2
            <4>2. n # 0 => w[n - 1] = g[n - 1]
                BY <3>2
            <4>3. g[n] = IF n = 0 THEN Leaves(A) ELSE Above(g[n - 1])
                BY <2>1, <4>1 DEF IsLayers
            <4> QED
                BY <4>1, <4>2, <4>3
        <3> QED
            BY <3>1, <3>2
    <2>3. IsLayers(w, A, m)
        BY <2>2 DEF IsLayers
    <2> HIDE DEF w
    <2> QED
        BY <2>3
<1>3. 0 .. N \subseteq T
    <2> HIDE DEF T
    <2> QED
        BY <1>1, <1>2, CountUp
<1> QED
    BY <1>3

(* A place can be halved as often as is asked for *)
LEMMA WayExists ==
    ASSUME NEW r, NEW N \in Nat
    PROVE  \E g : IsWay(g, r, N)
<1> DEFINE T == {m \in 0 .. N : \E g : IsWay(g, r, m)}
<1>1. 0 \in T
    <2> DEFINE g == [n \in 0 .. 0 |-> r]
    <2>1. g = [n \in 0 .. 0 |-> IF n = 0 THEN r ELSE g[n - 1] \div 2]
        OBVIOUS
    <2> HIDE DEF g
    <2>2. IsWay(g, r, 0)
        BY <2>1 DEF IsWay
    <2> QED
        BY <2>2
<1>2. ASSUME NEW m \in 1 .. N, m - 1 \in T PROVE m \in T
    <2>1. PICK g : IsWay(g, r, m - 1)
        BY <1>2
    <2> DEFINE w == [n \in 0 .. m |-> IF n = m THEN g[m - 1] \div 2 ELSE g[n]]
    <2>2. ASSUME NEW n \in 0 .. m PROVE w[n] = IF n = 0 THEN r ELSE w[n - 1] \div 2
        <3>1. CASE n = m
            BY <3>1
        <3>2. CASE n # m
            <4>1. n \in 0 .. m - 1 /\ w[n] = g[n]
                BY <3>2
            <4>2. n # 0 => w[n - 1] = g[n - 1]
                BY <3>2
            <4>3. g[n] = IF n = 0 THEN r ELSE g[n - 1] \div 2
                BY <2>1, <4>1 DEF IsWay
            <4> QED
                BY <4>1, <4>2, <4>3
        <3> QED
            BY <3>1, <3>2
    <2>3. IsWay(w, r, m)
        BY <2>2 DEF IsWay
    <2> HIDE DEF w
    <2> QED
        BY <2>3
<1>3. 0 .. N \subseteq T
    <2> HIDE DEF T
    <2> QED
        BY <1>1, <1>2, CountUp
<1> QED
    BY <1>3

(* A path can be climbed as far as it goes *)
LEMMA ClimbExists ==
    ASSUME NEW a, NEW p, NEW N \in Nat
    PROVE  \E g : IsClimb(g, a, p, N)
<1> DEFINE T == {m \in 0 .. N : \E g : IsClimb(g, a, p, m)}
           Up(node, n) == IF p[n].right THEN <<node, p[n].node>> ELSE <<p[n].node, node>>
<1>1. 0 \in T
    <2> DEFINE g == [n \in 0 .. 0 |-> <<a>>]
    <2>1. g = [n \in 0 .. 0 |-> IF n = 0 THEN <<a>> ELSE Up(g[n - 1], n)]
        <3> HIDE DEF Up
        <3> QED
            OBVIOUS
    <2> HIDE DEF g
    <2>2. IsClimb(g, a, p, 0)
        BY <2>1 DEF IsClimb
    <2> QED
        BY <2>2
<1>2. ASSUME NEW m \in 1 .. N, m - 1 \in T PROVE m \in T
    <2>1. PICK g : IsClimb(g, a, p, m - 1)
        BY <1>2
    <2> DEFINE w == [n \in 0 .. m |-> IF n = m THEN Up(g[m - 1], m) ELSE g[n]]
    <2>2. ASSUME NEW n \in 0 .. m PROVE w[n] = IF n = 0 THEN <<a>> ELSE Up(w[n - 1], n)
        <3>0. g = [k \in 0 .. m - 1 |-> IF k = 0 THEN <<a>> ELSE Up(g[k - 1], k)]
            BY <2>1 DEF IsClimb
        <3> HIDE DEF Up
        <3>1. CASE n = m
            BY <3>1
        <3>2. CASE n # m
            <4>1. n \in 0 .. m - 1 /\ w[n] = g[n]
                BY <3>2
            <4>2. n # 0 => w[n - 1] = g[n - 1]
                BY <3>2
            <4>3. g[n] = IF n = 0 THEN <<a>> ELSE Up(g[n - 1], n)
                BY <3>0, <4>1
            <4> QED
                BY <4>1, <4>2, <4>3
        <3> QED
            BY <3>1, <3>2
    <2>3. IsClimb(w, a, p, m)
        <3>1. w = [n \in 0 .. m |-> IF n = 0 THEN <<a>> ELSE Up(w[n - 1], n)]
            <4> HIDE DEF Up
            <4> QED
                BY <2>2
        <3> HIDE DEF w
        <3> QED
            BY <3>1 DEF IsClimb
    <2> HIDE DEF w
    <2> QED
        BY <2>3
<1>3. 0 .. N \subseteq T
    <2> HIDE DEF T
    <2> QED
        BY <1>1, <1>2, CountUp
<1> QED
    BY <1>3

-----------------------------------------------------------------------------
(* What the layers, places and nodes are, one from the other *)
LEMMA MerkleTurns ==
    ASSUME NEW A, IsFiniteSet(A), NEW a
    PROVE  /\ Cardinality(A) \in Nat
           /\ Layers(A)[0] = Leaves(A)
           /\ \A n \in 1 .. Cardinality(A) : Layers(A)[n] = Above(Layers(A)[n - 1])
           /\ Indices(a, A)[0] = Rank(a, A)
           /\ \A n \in 1 .. Cardinality(A) : Indices(a, A)[n] = Indices(a, A)[n - 1] \div 2
<1> DEFINE K == Cardinality(A)
<1>1. K \in Nat
    BY FS_CardinalityType
<1>2. IsLayers(Layers(A), A, K)
    <2>1. \E g : IsLayers(g, A, K)
        BY <1>1, LayersExist
    <2> QED
        BY <2>1, Zenon DEF Layers, IsLayers
<1>3. IsWay(Indices(a, A), Rank(a, A), K)
    <2>1. \E g : IsWay(g, Rank(a, A), K)
        BY <1>1, WayExists
    <2> QED
        BY <2>1, Zenon DEF Indices, IsWay
<1> HIDE DEF K
<1>5. ASSUME NEW N \in Nat PROVE /\ 0 \in 0 .. N /\ \A n \in 1 .. N : n \in 0 .. N /\ n # 0
    OBVIOUS
<1>6. /\ Layers(A)[0] = Leaves(A)
      /\ \A n \in 1 .. K : Layers(A)[n] = Above(Layers(A)[n - 1])
    <2>1. \A n \in 0 .. K : Layers(A)[n] = IF n = 0 THEN Leaves(A) ELSE Above(Layers(A)[n - 1])
        BY <1>2 DEF IsLayers
    <2>2. Layers(A)[0] = IF 0 = 0 THEN Leaves(A) ELSE Above(Layers(A)[0 - 1])
        BY ONLY <1>1, <1>5, <2>1, Zenon
    <2> QED
        BY <1>1, <1>5, <2>1, <2>2
<1>7. /\ Indices(a, A)[0] = Rank(a, A)
      /\ \A n \in 1 .. K : Indices(a, A)[n] = Indices(a, A)[n - 1] \div 2
    <2>1. \A n \in 0 .. K : Indices(a, A)[n] = IF n = 0 THEN Rank(a, A) ELSE Indices(a, A)[n - 1] \div 2
        BY <1>3 DEF IsWay
    <2>2. Indices(a, A)[0] = IF 0 = 0 THEN Rank(a, A) ELSE Indices(a, A)[0 - 1] \div 2
        BY ONLY <1>1, <1>5, <2>1, Zenon
    <2> QED
        BY <1>1, <1>5, <2>1, <2>2
<1> QED
    BY <1>1, <1>6, <1>7 DEF K

(* The nodes on a path, one from the other *)
Turns(g, a, p, h) ==
    /\ g[0] = <<a>>
    /\ \A n \in 1 .. h : g[n] = IF p[n].right THEN <<g[n - 1], p[n].node>> ELSE <<p[n].node, g[n - 1]>>

(* What a climb passes, step by step *)
LEMMA ClimbTurns ==
    ASSUME NEW a, NEW p, Len(p) \in Nat
    PROVE  \E g : Climbed(a, p) = g[Len(p)] /\ Turns(g, a, p, Len(p))
<1>1. PICK g : IsClimb(g, a, p, Len(p)) /\ Climbed(a, p) = g[Len(p)]
    <2> DEFINE g == CHOOSE g : IsClimb(g, a, p, Len(p))
    <2>1. IsClimb(g, a, p, Len(p))
        <3>1. \E f : IsClimb(f, a, p, Len(p))
            BY ClimbExists
        <3> QED
            BY <3>1, Zenon
    <2>2. Climbed(a, p) = g[Len(p)]
        BY DEF Climbed, IsClimb
    <2> HIDE DEF g
    <2> QED
        BY <2>1, <2>2
<1>2. /\ 0 \in 0 .. Len(p) /\ \A n \in 1 .. Len(p) : n \in 0 .. Len(p) /\ n # 0
    OBVIOUS
<1>3. /\ g[0] = <<a>>
      /\ \A n \in 1 .. Len(p) : g[n] = IF p[n].right THEN <<g[n - 1], p[n].node>> ELSE <<p[n].node, g[n - 1]>>
    <2> DEFINE Up(node, n) == IF p[n].right THEN <<node, p[n].node>> ELSE <<p[n].node, node>>
    <2>1. \A n \in 0 .. Len(p) : g[n] = IF n = 0 THEN <<a>> ELSE Up(g[n - 1], n)
        BY <1>1 DEF IsClimb
    <2>2. \A n \in 1 .. Len(p) : g[n] = Up(g[n - 1], n)
        <3> HIDE DEF Up
        <3> QED
            BY <1>2, <2>1
    <2>3. g[0] = <<a>>
        <3> HIDE DEF Up
        <3>1. g[0] = IF 0 = 0 THEN <<a>> ELSE Up(g[0 - 1], 0)
            BY ONLY <1>2, <2>1, Zenon
        <3> QED
            BY <3>1
    <2> QED
        BY <2>2, <2>3
<1>4. Turns(g, a, p, Len(p))
    BY <1>3 DEF Turns
<1> QED
    BY <1>1, <1>4

(* A leaf stands at the place its account has among all *)
LEMMA LeafOfAccount ==
    ASSUME NEW A, IsFiniteSet(A), A \subseteq Nat, NEW a \in A
    PROVE  /\ Rank(a, A) \in 0 .. Cardinality(A) - 1
           /\ Leaves(A)[Rank(a, A) + 1] = <<a>>
<1> DEFINE Less(b) == {c \in A : c < b}
<1>1. ASSUME NEW b \in A
      PROVE  IsFiniteSet(Less(b)) /\ Rank(b, A) = Cardinality(Less(b)) /\ Rank(b, A) \in Nat
    <2>1. IsFiniteSet(Less(b))
        BY FS_Subset
    <2> QED
        BY <2>1, FS_CardinalityType DEF Rank
<1>2. ASSUME NEW b \in A, NEW S, IsFiniteSet(S), Less(b) \cup {b} \subseteq S
      PROVE  Rank(b, A) + 1 <= Cardinality(S) /\ Cardinality(S) \in Nat
    <2>1. b \notin Less(b)
        OBVIOUS
    <2>2. Cardinality(Less(b) \cup {b}) = Cardinality(Less(b)) + 1
        BY <1>1, <2>1, FS_AddElement
    <2>3. Cardinality(Less(b) \cup {b}) <= Cardinality(S) /\ Cardinality(S) \in Nat
        BY <1>2, FS_Subset, FS_CardinalityType
    <2> QED
        BY <1>1, <2>2, <2>3
<1>3. Rank(a, A) \in 0 .. Cardinality(A) - 1
    <2>1. Less(a) \cup {a} \subseteq A
        OBVIOUS
    <2>2. Rank(a, A) + 1 <= Cardinality(A) /\ Cardinality(A) \in Nat
        BY <1>2, <2>1
    <2> HIDE DEF Less
    <2> QED
        BY <1>1, <2>2
<1>4. ASSUME NEW b \in A, NEW c \in A, b < c PROVE Rank(b, A) < Rank(c, A)
    <2>1. Less(b) \cup {b} \subseteq Less(c)
        <3>1. b \in Nat /\ c \in Nat /\ \A d \in A : d \in Nat
            OBVIOUS
        <3>2. \A d \in A : d < b => d < c
            BY <1>4, <3>1
        <3> QED
            BY <1>4, <3>2
    <2>2. Rank(b, A) + 1 <= Cardinality(Less(c))
        BY <1>1, <1>2, <2>1
    <2> HIDE DEF Less
    <2> QED
        BY <1>1, <2>2
<1>5. \A b \in A : Rank(b, A) = Rank(a, A) => b = a
    <2> TAKE b \in A
    <2> HAVE Rank(b, A) = Rank(a, A)
    <2>1. b \in Nat /\ a \in Nat /\ ~(b < a) /\ ~(a < b)
        <3>1. Rank(a, A) \in Nat
            BY <1>1
        <3> QED
            BY <1>4, <3>1
    <2> QED
        BY <2>1
<1>6. Leaves(A)[Rank(a, A) + 1] = <<CHOOSE b \in A : Rank(b, A) = (Rank(a, A) + 1) - 1>>
    <2>1. Rank(a, A) + 1 \in 1 .. Cardinality(A)
        <3>1. Cardinality(A) \in Nat
            BY FS_CardinalityType
        <3> QED
            BY <1>3, <3>1
    <2> QED
        BY <2>1 DEF Leaves
<1>7. (Rank(a, A) + 1) - 1 = Rank(a, A)
    BY <1>3
<1>8. (CHOOSE b \in A : Rank(b, A) = Rank(a, A)) = a
    BY <1>5
<1> QED
    BY <1>3, <1>6, <1>7, <1>8

-----------------------------------------------------------------------------
(* The layer above pairs the nodes, the last with itself if it has no other *)
LEMMA AboveAll ==
    ASSUME NEW S, NEW layer \in Seq(S), Len(layer) # 0
    PROVE  /\ Len(layer) \in Nat /\ Len(Above(layer)) = (Len(layer) + 1) \div 2
           /\ Above(layer) \in Seq(S \X S)
           /\ \A k \in 1 .. Len(layer) : Padded(layer)[k] = layer[k]
           /\ \A i \in 1 .. Len(Above(layer)) :
                 Above(layer)[i] = <<Padded(layer)[2 * i - 1], Padded(layer)[2 * i]>>
<1> DEFINE p == Padded(layer)
<1>1. Len(layer) \in Nat \ {0} /\ layer[Len(layer)] \in S
    OBVIOUS
<1>2. /\ p \in Seq(S) /\ Len(p) = 2 * ((Len(layer) + 1) \div 2)
      /\ \A k \in 1 .. Len(layer) : p[k] = layer[k]
    <2>1. CASE Len(layer) % 2 = 1
        <3>1. p = Append(layer, layer[Len(layer)])
            BY <2>1 DEF Padded
        <3>2. p \in Seq(S) /\ Len(p) = Len(layer) + 1 /\ \A k \in 1 .. Len(layer) : p[k] = layer[k]
            BY <1>1, <3>1
        <3>3. Len(layer) + 1 = 2 * ((Len(layer) + 1) \div 2)
            BY <1>1, <2>1
        <3> QED
            BY <3>2, <3>3
    <2>2. CASE Len(layer) % 2 # 1
        <3>1. p = layer
            BY <2>2 DEF Padded
        <3>2. Len(layer) = 2 * ((Len(layer) + 1) \div 2)
            BY <1>1, <2>2
        <3> QED
            BY <3>1, <3>2
    <2> QED
        BY <2>1, <2>2
<1> DEFINE half == (Len(layer) + 1) \div 2
<1>3. half \in Nat /\ Len(p) \div 2 = half
    BY <1>1, <1>2
<1>4. Above(layer) = [i \in 1 .. half |-> <<p[2 * i - 1], p[2 * i]>>]
    BY <1>3 DEF Above
<1>5. ASSUME NEW i \in 1 .. half PROVE <<p[2 * i - 1], p[2 * i]>> \in S \X S
    <2>1. 2 * i - 1 \in 1 .. Len(p) /\ 2 * i \in 1 .. Len(p)
        BY <1>2, <1>3
    <2> HIDE DEF p
    <2> QED
        BY <1>2, <2>1
<1> HIDE DEF p, half
<1>6. Above(layer) \in Seq(S \X S) /\ Len(Above(layer)) = half
    BY <1>3, <1>4, <1>5
<1>7. \A i \in 1 .. half : Above(layer)[i] = <<p[2 * i - 1], p[2 * i]>>
    BY <1>4
<1> QED
    BY <1>1, <1>2, <1>6, <1>7 DEF p, half

(* Layers narrow until a single node is left, at the latest when there are as many as leaves *)
LEMMA LayersNarrow ==
    ASSUME NEW A, IsFiniteSet(A), A # {}
    PROVE  /\ Height(A) \in 0 .. Cardinality(A) /\ IsTop(Layers(A), Height(A))
           /\ \A n \in 0 .. Cardinality(A) :
                 \E S : Layers(A)[n] \in Seq(S) /\ Len(Layers(A)[n]) \in Nat \ {0}
<1> DEFINE K == Cardinality(A)
           L == Layers(A)
           T == {n \in 0 .. K : /\ \E S : L[n] \in Seq(S)
                                /\ Len(L[n]) \in Nat \ {0} /\ (Len(L[n]) = 1 \/ Len(L[n]) + n <= K)}
<1>1. K \in Nat \ {0}
    BY FS_CardinalityType, FS_EmptySet
<1>2. L[0] = Leaves(A) /\ \A n \in 1 .. K : L[n] = Above(L[n - 1])
    BY MerkleTurns
<1> HIDE DEF L
<1>3. 0 \in T
    <2> DEFINE leaf(i) == <<CHOOSE b \in A : Rank(b, A) = i - 1>>
               S == {leaf(i) : i \in 1 .. K}
    <2>1. L[0] = [i \in 1 .. K |-> leaf(i)]
        BY <1>2 DEF Leaves
    <2> HIDE DEF leaf
    <2>2. L[0] \in Seq(S) /\ Len(L[0]) = K
        <3> HIDE DEF K
        <3>1. \A i \in 1 .. K : leaf(i) \in S
            OBVIOUS
        <3> HIDE DEF S
        <3> QED
            BY <1>1, <2>1, <3>1
    <2> HIDE DEF S, K
    <2>3. 0 \in 0 .. K
        BY <1>1
    <2> QED
        BY <1>1, <2>2, <2>3
<1>4. ASSUME NEW n \in 1 .. K, n - 1 \in T PROVE n \in T
    <2>1. PICK S : L[n - 1] \in Seq(S)
        BY <1>4
    <2>2. Len(L[n - 1]) \in Nat \ {0} /\ (Len(L[n - 1]) = 1 \/ Len(L[n - 1]) + (n - 1) <= K)
        BY <1>4
    <2>3. L[n] \in Seq(S \X S) /\ Len(L[n]) = (Len(L[n - 1]) + 1) \div 2
        <3> DEFINE low == L[n - 1]
        <3>1. low \in Seq(S) /\ Len(low) # 0
            BY <2>1, <2>2
        <3>2. L[n] = Above(low)
            BY <1>2
        <3> HIDE DEF low
        <3>3. Above(low) \in Seq(S \X S) /\ Len(Above(low)) = (Len(low) + 1) \div 2
            BY <3>1, AboveAll
        <3> QED
            BY <3>2, <3>3 DEF low
    <2> DEFINE before == Len(L[n - 1])
    <2>4. (before + 1) \div 2 \in Nat \ {0}
          /\ ((before + 1) \div 2 = 1 \/ (before + 1) \div 2 + n <= K)
        <3> HIDE DEF before, K
        <3>1. before \in Nat \ {0} /\ (before = 1 \/ before + (n - 1) <= K)
            BY <2>2 DEF before
        <3>2. CASE before = 1
            BY <3>2
        <3>3. CASE before # 1
            <4>1. (before + 1) \div 2 \in Nat \ {0} /\ (before + 1) \div 2 <= before - 1
                BY <3>1, <3>3
            <4> QED
                BY <1>1, <3>1, <3>3, <4>1
        <3> QED
            BY <3>2, <3>3
    <2>5. n \in 0 .. K
        BY <1>1
    <2> HIDE DEF K
    <2> QED
        BY <2>3, <2>4, <2>5
<1>5. 0 .. K \subseteq T
    <2> HIDE DEF T, K
    <2> QED
        BY <1>1, <1>3, <1>4, CountUp
<1>6. \E h \in 0 .. K : IsTop(L, h)
    <2> DEFINE Ones == {n \in 0 .. K : Len(L[n]) = 1}
    <2>1. K \in Ones
        <3>1. K \in 0 .. K
            BY <1>1
        <3>2. Len(L[K]) \in Nat \ {0} /\ (Len(L[K]) = 1 \/ Len(L[K]) + K <= K)
            BY <1>5, <3>1
        <3> HIDE DEF K
        <3> QED
            BY <1>1, <3>1, <3>2
    <2>2. PICK h \in Ones : \A y \in Ones : h <= y
        <3>1. Ones \subseteq Nat /\ Ones # {}
            BY <2>1
        <3> HIDE DEF Ones
        <3> QED
            BY <3>1, LeastNumber
    <2>3. ASSUME NEW n \in 0 .. h - 1 PROVE Len(L[n]) > 1
        <3>1. n \in 0 .. K /\ n < h
            BY <1>1, <2>2
        <3>2. n \notin Ones
            <4>1. h \in Nat
                BY <1>1, <2>2
            <4> HIDE DEF Ones
            <4> QED
                BY <2>2, <3>1, <4>1
        <3>3. Len(L[n]) # 1
            BY <3>1, <3>2
        <3>4. Len(L[n]) \in Nat \ {0}
            BY <1>5, <3>1
        <3>5. \A k \in Nat \ {0} : k # 1 => k > 1
            OBVIOUS
        <3> QED
            BY ONLY <3>3, <3>4, <3>5, Zenon
    <2> QED
        BY <2>2, <2>3 DEF IsTop
<1>7. Height(A) \in 0 .. K /\ IsTop(L, Height(A))
    BY <1>6, Zenon DEF Height, L
<1> QED
    BY <1>5, <1>7 DEF L

(* Whatever accounts there are, the path that is made for one of them leads to their root *)
LEMMA EveryPathClimbs ==
    ASSUME NEW A, IsFiniteSet(A), A \subseteq Nat, NEW a \in A
    PROVE  VerifyExitProof(a, A)
<1> DEFINE K == Cardinality(A)
           L == Layers(A)
           h == Height(A)
           way == Indices(a, A)
           p == GetMerkleProof(a, A)
<1>1. /\ K \in Nat /\ h \in 0 .. K /\ IsTop(L, h)
      /\ \A n \in 0 .. K : \E S : L[n] \in Seq(S) /\ Len(L[n]) \in Nat \ {0}
    BY LayersNarrow, FS_CardinalityType
<1>2. /\ Len(p) = h
      /\ \A n \in 1 .. h : p[n] = [node |-> Padded(L[n - 1])[Sibling(way[n - 1]) + 1],
                                   right |-> way[n - 1] % 2 = 0]
    <2> HIDE DEF h, L, way
    <2>1. p = [n \in 1 .. h |-> [node |-> Padded(L[n - 1])[Sibling(way[n - 1]) + 1],
                                 right |-> way[n - 1] % 2 = 0]]
        BY DEF GetMerkleProof, h, L, way
    <2> HIDE DEF p
    <2> QED
        BY <1>1, <2>1
<1> HIDE DEF p
<1>3. PICK g : /\ Climbed(a, p) = g[h] /\ g[0] = <<a>>
               /\ \A n \in 1 .. h : g[n] = IF p[n].right THEN <<g[n - 1], p[n].node>>
                                           ELSE <<p[n].node, g[n - 1]>>
    <2>1. Len(p) \in Nat
        BY <1>1, <1>2
    <2>2. PICK g : Climbed(a, p) = g[Len(p)] /\ Turns(g, a, p, Len(p))
        BY ONLY <2>1, ClimbTurns
    <2> HIDE DEF h
    <2>3. Climbed(a, p) = g[h] /\ Turns(g, a, p, h)
        BY ONLY <1>2, <2>2
    <2> QED
        BY <2>3, Zenon DEF Turns
<1>4. /\ L[0] = Leaves(A) /\ \A n \in 1 .. K : L[n] = Above(L[n - 1])
      /\ way[0] = Rank(a, A) /\ \A n \in 1 .. K : way[n] = way[n - 1] \div 2
    BY MerkleTurns
<1> HIDE DEF K, L, h, way
<1> DEFINE T == {n \in 0 .. h : way[n] \in Nat /\ way[n] < Len(L[n]) /\ g[n] = L[n][way[n] + 1]}
<1>5. 0 \in T
    <2>1. way[0] \in 0 .. K - 1 /\ Leaves(A)[way[0] + 1] = <<a>>
        BY <1>4, LeafOfAccount DEF K
    <2>2. Len(L[0]) = K
        BY <1>1, <1>4 DEF Leaves, K
    <2>3. 0 \in 0 .. h
        BY <1>1
    <2>4. way[0] \in Nat /\ way[0] < Len(L[0])
        BY <1>1, <2>1, <2>2
    <2>5. g[0] = L[0][way[0] + 1]
        BY <1>3, <1>4, <2>1
    <2> QED
        BY <2>3, <2>4, <2>5
<1>6. ASSUME NEW n \in 1 .. h, n - 1 \in T PROVE n \in T
    <2> DEFINE low == L[n - 1]
               i == way[n - 1]
    <2>1. n \in 1 .. K /\ n - 1 \in 0 .. K /\ n \in 0 .. h
        BY <1>1
    <2>2. i \in Nat /\ i < Len(low) /\ g[n - 1] = low[i + 1]
        BY <1>6
    <2>3. PICK S : low \in Seq(S) /\ Len(low) \in Nat \ {0}
        BY <1>1, <2>1
    <2>4. /\ L[n] = Above(low) /\ way[n] = i \div 2
          /\ p[n] = [node |-> Padded(low)[Sibling(i) + 1], right |-> i % 2 = 0]
          /\ g[n] = IF p[n].right THEN <<g[n - 1], p[n].node>> ELSE <<p[n].node, g[n - 1]>>
        BY <1>2, <1>3, <1>4, <2>1
    <2>0. ASSUME NEW x, NEW y, p[n] = [node |-> x, right |-> y] PROVE p[n].node = x /\ p[n].right = y
        BY <2>0
    <2> HIDE DEF low, i
    <2>5. /\ Len(L[n]) = (Len(low) + 1) \div 2
          /\ \A k \in 1 .. Len(low) : Padded(low)[k] = low[k]
          /\ \A k \in 1 .. Len(L[n]) : L[n][k] = <<Padded(low)[2 * k - 1], Padded(low)[2 * k]>>
        <3>1. Len(low) # 0
            BY <2>3
        <3>2. /\ Len(Above(low)) = (Len(low) + 1) \div 2
              /\ \A k \in 1 .. Len(low) : Padded(low)[k] = low[k]
              /\ \A k \in 1 .. Len(Above(low)) :
                    Above(low)[k] = <<Padded(low)[2 * k - 1], Padded(low)[2 * k]>>
            BY <2>3, <3>1, AboveAll
        <3> QED
            BY <2>4, <3>2
    <2>6. way[n] \in Nat /\ way[n] < Len(L[n])
        BY <2>2, <2>3, <2>4, <2>5
    <2>7. L[n][way[n] + 1] = <<Padded(low)[2 * (i \div 2) + 1], Padded(low)[2 * (i \div 2) + 2]>>
        <3>1. way[n] + 1 \in 1 .. Len(L[n]) /\ 2 * (way[n] + 1) - 1 = 2 * (i \div 2) + 1
              /\ 2 * (way[n] + 1) = 2 * (i \div 2) + 2
            BY <2>2, <2>3, <2>4, <2>5, <2>6
        <3> QED
            BY <2>5, <3>1
    <2>8. Padded(low)[i + 1] = g[n - 1]
        <3>1. i + 1 \in 1 .. Len(low)
            BY ONLY <2>2, <2>3
        <3> QED
            BY ONLY <2>2, <2>5, <3>1
    <2>9. g[n] = L[n][way[n] + 1]
        <3>1. CASE i % 2 = 0
            <4>1. 2 * (i \div 2) = i /\ Sibling(i) + 1 = i + 2
                BY <2>2, <3>1 DEF Sibling
            <4>2. p[n].right /\ p[n].node = Padded(low)[i + 2]
                <5>1. p[n].node = Padded(low)[Sibling(i) + 1] /\ p[n].right = (i % 2 = 0)
                    BY <2>0, <2>4, Zenon
                <5>2. p[n].right
                    BY ONLY <5>1, <3>1, Zenon
                <5> QED
                    BY <4>1, <5>1, <5>2
            <4>3. g[n] = <<g[n - 1], Padded(low)[i + 2]>>
                BY ONLY <2>4, <4>2, Zenon
            <4> QED
                BY <2>7, <2>8, <4>1, <4>3
        <3>2. CASE i % 2 # 0
            <4>1. 2 * (i \div 2) + 1 = i /\ 2 * (i \div 2) + 2 = i + 1 /\ Sibling(i) + 1 = i
                BY <2>2, <3>2 DEF Sibling
            <4>2. ~p[n].right /\ p[n].node = Padded(low)[i]
                <5>1. p[n].node = Padded(low)[Sibling(i) + 1] /\ p[n].right = (i % 2 = 0)
                    BY <2>0, <2>4, Zenon
                <5>2. ~p[n].right
                    BY ONLY <5>1, <3>2, Zenon
                <5> QED
                    BY <4>1, <5>1, <5>2
            <4>3. g[n] = <<Padded(low)[i], g[n - 1]>>
                BY ONLY <2>4, <4>2, Zenon
            <4> QED
                BY <2>7, <2>8, <4>1, <4>3
        <3> QED
            BY <3>1, <3>2
    <2> QED
        BY <2>1, <2>6, <2>9
<1>7. 0 .. h \subseteq T
    <2>1. h \in Nat
        BY <1>1
    <2> HIDE DEF T
    <2> QED
        BY <1>5, <1>6, <2>1, CountUp
<1>8. g[h] = L[h][1]
    <2>1. h \in 0 .. h
        BY <1>1
    <2>2. Len(L[h]) = 1
        BY <1>1 DEF IsTop
    <2>3. way[h] \in Nat /\ way[h] < 1 /\ g[h] = L[h][way[h] + 1]
        BY <1>7, <2>1, <2>2
    <2>4. way[h] + 1 = 1
        BY <2>3
    <2> QED
        BY <2>3, <2>4
<1> QED
    BY <1>3, <1>8 DEF VerifyExitProof, ComputeMerkleRoot, p, L, h

-----------------------------------------------------------------------------
(* The tables of the rollups, and the optimistic rollup *)
(* Tables of entries, and what the tables of the rollups hold *)
Tables(K, V) == UNION {[D -> V] : D \in SUBSET K}

BatchIds   == 1 .. MaxBatches
Root       == Seq(RollupTx \cup {"wrong"})
BatchType  == [id : 1 .. MaxBatches, before : Root, after : Root, txs : Seq(RollupTx), signed : BOOLEAN]
KnownBatch == [batch : BatchType, submitted : {0}, finalized : BOOLEAN, challenged : BOOLEAN]
RollupType == [current : 0 .. MaxBatches, period : Nat, root : Root,
               batches : Tables(BatchIds, KnownBatch), pending : Seq(RollupTx)]

(* The batches up to the current one hash into one another; those above were challenged, and *)
(* what is final was not, so that it is not among them                                       *)
OptimisticInv(r, d) ==
    /\ r \in RollupType /\ (d = None \/ d \in BatchType)
    /\ 1 .. r.current \subseteq DOMAIN r.batches
    /\ r.current > 0 => r.root = r.batches[r.current].batch.after
    /\ \A n \in 2 .. r.current : r.batches[n].batch.before = r.batches[n - 1].batch.after
    /\ \A n \in DOMAIN r.batches : n > r.current => r.batches[n].challenged
    /\ \A n \in DOMAIN r.batches : r.batches[n].finalized => ~r.batches[n].challenged
    /\ \A n \in DOMAIN r.batches : r.batches[n].challenged => r.batches[n].batch.txs # <<>>

(* A table has some keys, and an entry for each *)
LEMMA TableIs ==
    ASSUME NEW K, NEW V, NEW f
    PROVE  f \in Tables(K, V) <=> DOMAIN f \subseteq K /\ f \in [DOMAIN f -> V]
<1>1. ASSUME f \in Tables(K, V) PROVE DOMAIN f \subseteq K /\ f \in [DOMAIN f -> V]
    <2>1. PICK D \in SUBSET K : f \in [D -> V]
        BY <1>1 DEF Tables
    <2> QED
        BY <2>1
<1>2. ASSUME DOMAIN f \subseteq K, f \in [DOMAIN f -> V] PROVE f \in Tables(K, V)
    BY <1>2 DEF Tables
<1> QED
    BY <1>1, <1>2

(* A table in which an entry is recorded *)
LEMMA TableRecorded ==
    ASSUME NEW K, NEW V, NEW f \in Tables(K, V), NEW k \in K, NEW v \in V
    PROVE  Recorded(f, k, v) \in Tables(K, V)
<1> DEFINE g == Recorded(f, k, v)
<1>1. DOMAIN f \subseteq K /\ f \in [DOMAIN f -> V]
    BY TableIs
<1>2. g = [x \in DOMAIN f \cup {k} |-> IF x = k THEN v ELSE f[x]]
    BY DEF Recorded
<1> HIDE DEF g
<1>3. DOMAIN g = DOMAIN f \cup {k} /\ g \in [DOMAIN f \cup {k} -> V]
    BY <1>1, <1>2
<1>4. g \in Tables(K, V)
    BY <1>1, <1>3, TableIs
<1> QED
    BY <1>4 DEF g

(* A table in which an entry is changed *)
LEMMA TableChanged ==
    ASSUME NEW K, NEW V, NEW f \in Tables(K, V), NEW k \in DOMAIN f, NEW v \in V
    PROVE  LET g == [f EXCEPT ![k] = v] IN
           /\ g \in Tables(K, V) /\ DOMAIN g = DOMAIN f /\ g[k] = v
           /\ \A x \in DOMAIN f : x # k => g[x] = f[x]
<1> DEFINE g == [f EXCEPT ![k] = v]
<1>1. DOMAIN f \subseteq K /\ f \in [DOMAIN f -> V]
    BY TableIs
<1>2. /\ DOMAIN g = DOMAIN f /\ g \in [DOMAIN f -> V] /\ g[k] = v
      /\ \A x \in DOMAIN f : x # k => g[x] = f[x]
    BY <1>1
<1> HIDE DEF g
<1>3. g \in Tables(K, V)
    BY <1>1, <1>2, TableIs
<1> QED
    BY <1>2, <1>3 DEF g

(* A table without one of its entries *)
LEMMA TableRemoved ==
    ASSUME NEW K, NEW V, NEW f \in Tables(K, V), NEW k \in DOMAIN f
    PROVE  Removed(f, k) \in Tables(K, V)
<1> DEFINE g == Removed(f, k)
<1>1. DOMAIN f \subseteq K /\ f \in [DOMAIN f -> V]
    BY TableIs
<1>2. g = [x \in DOMAIN f \ {k} |-> f[x]]
    BY DEF Removed
<1> HIDE DEF g
<1>3. DOMAIN g = DOMAIN f \ {k} /\ g \in [DOMAIN f \ {k} -> V]
    BY <1>1, <1>2
<1>4. g \in Tables(K, V)
    BY <1>1, <1>3, TableIs
<1> QED
    BY <1>4 DEF g

(* An empty table *)
LEMMA NoRecordsTyped == ASSUME NEW K, NEW V PROVE NoRecords \in Tables(K, V) /\ DOMAIN NoRecords = {}
<1>1. NoRecords \in [{} -> V] /\ {} \in SUBSET K
    BY DEF NoRecords
<1> QED
    BY <1>1 DEF Tables, NoRecords

(* The first period is one of them, and all are numbers *)
LEMMA PeriodsTyped == FirstPeriod \in Nat /\ \A p \in Periods : p \in Nat
BY RollupAssumption DEF FirstPeriod

(* A rollup that begins *)
LEMMA OptimisticBegins ==
    OptimisticInv([current |-> 0, period |-> FirstPeriod, root |-> <<>>, batches |-> NoRecords,
                   pending |-> <<>>], None)
<1> DEFINE r == [current |-> 0, period |-> FirstPeriod, root |-> <<>>, batches |-> NoRecords,
                 pending |-> <<>>]
<1>1. r \in RollupType
    <2>1. 0 \in 0 .. MaxBatches
        BY RollupAssumption
    <2>2. <<>> \in Root /\ <<>> \in Seq(RollupTx)
        BY DEF Root
    <2>3. NoRecords \in Tables(BatchIds, KnownBatch)
        BY NoRecordsTyped
    <2> QED
        BY <2>1, <2>2, <2>3, PeriodsTyped DEF RollupType
<1>2. r.current = 0 /\ DOMAIN r.batches = {}
    BY NoRecordsTyped
<1> HIDE DEF r
<1>3. OptimisticInv(r, None)
    BY <1>1, <1>2 DEF OptimisticInv
<1> QED
    BY <1>3 DEF r

(* Changes of the pending transactions, the period and the draft *)
LEMMA OptimisticPlain ==
    ASSUME NEW r, NEW d, OptimisticInv(r, d)
    PROVE  /\ \A t \in RollupTx : OptimisticInv([r EXCEPT !.pending = Append(@, t)], d)
           /\ \A p \in Periods : OptimisticInv([r EXCEPT !.period = p], d)
           /\ \A signed \in BOOLEAN : \A after \in {RollupStateRoot(r.root, r.pending), <<"wrong">>} :
                 r.current < MaxBatches =>
                 OptimisticInv([r EXCEPT !.pending = <<>>],
                               [id |-> r.current + 1, before |-> r.root, after |-> after,
                                txs |-> r.pending, signed |-> signed])
<1>1. r \in RollupType /\ (d = None \/ d \in BatchType)
    BY DEF OptimisticInv
<1>2. r.pending \in Seq(RollupTx) /\ r.root \in Root /\ r.current \in 0 .. MaxBatches
    BY <1>1 DEF RollupType
<1>3. ASSUME NEW s \in RollupType, NEW e, e = None \/ e \in BatchType,
             s.current = r.current, s.root = r.root, s.batches = r.batches
      PROVE  OptimisticInv(s, e)
    BY <1>3 DEF OptimisticInv
<1>4. ASSUME NEW q \in Seq(RollupTx)
      PROVE  /\ [r EXCEPT !.pending = q] \in RollupType
             /\ [r EXCEPT !.pending = q].current = r.current /\ [r EXCEPT !.pending = q].root = r.root
             /\ [r EXCEPT !.pending = q].batches = r.batches
    BY <1>1 DEF RollupType
<1>5. ASSUME NEW t \in RollupTx PROVE OptimisticInv([r EXCEPT !.pending = Append(@, t)], d)
    <2>1. Append(r.pending, t) \in Seq(RollupTx)
        BY <1>2
    <2> QED
        BY <1>1, <1>3, <1>4, <2>1
<1>6. ASSUME NEW p \in Periods PROVE OptimisticInv([r EXCEPT !.period = p], d)
    <2>1. /\ [r EXCEPT !.period = p] \in RollupType
          /\ [r EXCEPT !.period = p].current = r.current /\ [r EXCEPT !.period = p].root = r.root
          /\ [r EXCEPT !.period = p].batches = r.batches
        BY <1>1, PeriodsTyped DEF RollupType
    <2> QED
        BY <1>1, <1>3, <2>1
<1>7. ASSUME NEW signed \in BOOLEAN, NEW after \in {RollupStateRoot(r.root, r.pending), <<"wrong">>},
             r.current < MaxBatches
      PROVE  OptimisticInv([r EXCEPT !.pending = <<>>],
                           [id |-> r.current + 1, before |-> r.root, after |-> after,
                            txs |-> r.pending, signed |-> signed])
    <2>1. r.root \o r.pending \in Root /\ <<"wrong">> \in Root
        <3>1. r.pending \in Seq(RollupTx \cup {"wrong"})
            BY <1>2
        <3> QED
            BY <1>2, <3>1 DEF Root
    <2>2. after \in Root
        BY <2>1 DEF RollupStateRoot
    <2>3. r.current + 1 \in 1 .. MaxBatches
        BY <1>2, <1>7, RollupAssumption
    <2>4. [id |-> r.current + 1, before |-> r.root, after |-> after,
           txs |-> r.pending, signed |-> signed] \in BatchType
        BY <1>2, <2>2, <2>3 DEF BatchType
    <2>5. <<>> \in Seq(RollupTx)
        OBVIOUS
    <2> QED
        BY <1>3, <1>4, <2>4, <2>5
<1> QED
    BY <1>5, <1>6, <1>7

(* A submitted batch takes the place above the current one *)
LEMMA SubmitKeeps ==
    ASSUME NEW r, NEW d, OptimisticInv(r, d), d # None, d.id = r.current + 1,
           r.current > 0 => d.before = r.root
    PROVE  LET entry == [batch |-> d, submitted |-> BlockHeight, finalized |-> FALSE, challenged |-> FALSE]
               s == [r EXCEPT !.batches = Recorded(@, d.id, entry), !.current = d.id, !.root = d.after]
           IN  /\ OptimisticInv(s, d)
               /\ \A n \in DOMAIN r.batches : r.batches[n].finalized =>
                     s.batches[n] = r.batches[n] /\ n <= s.current
<1> DEFINE entry == [batch |-> d, submitted |-> BlockHeight, finalized |-> FALSE, challenged |-> FALSE]
           new == Recorded(r.batches, d.id, entry)
           s == [r EXCEPT !.batches = Recorded(@, d.id, entry), !.current = d.id, !.root = d.after]
<1>1. r \in RollupType /\ d \in BatchType
    BY DEF OptimisticInv
<1>2. /\ r.current \in Nat /\ r.batches \in Tables(BatchIds, KnownBatch)
      /\ d.id \in 1 .. MaxBatches /\ d.after \in Root
    BY <1>1 DEF RollupType, BatchType
<1>3. entry \in KnownBatch
    BY <1>1 DEF KnownBatch, BlockHeight
<1>4. entry.batch = d /\ entry.finalized = FALSE /\ entry.challenged = FALSE
    OBVIOUS
<1> HIDE DEF entry
<1>5. /\ new \in Tables(BatchIds, KnownBatch) /\ DOMAIN new = DOMAIN r.batches \cup {d.id}
      /\ new[d.id] = entry /\ \A n \in DOMAIN r.batches : n # d.id => new[n] = r.batches[n]
    <2>1. d.id \in BatchIds
        BY <1>2 DEF BatchIds
    <2>2. new \in Tables(BatchIds, KnownBatch)
        BY <1>2, <1>3, <2>1, TableRecorded
    <2>3. /\ DOMAIN new = DOMAIN r.batches \cup {d.id} /\ new[d.id] = entry
          /\ \A n \in DOMAIN r.batches : n # d.id => new[n] = r.batches[n]
        BY DEF Recorded
    <2> QED
        BY <2>2, <2>3
<1>6. /\ s \in RollupType /\ s.batches = new /\ s.current = d.id /\ s.root = d.after
    <2> HIDE DEF new
    <2>1. s = [r EXCEPT !.batches = new, !.current = d.id, !.root = d.after]
        BY DEF new
    <2>2. d.id \in 0 .. MaxBatches
        BY <1>2
    <2> HIDE DEF s
    <2> QED
        BY <1>1, <1>2, <1>5, <2>1, <2>2 DEF RollupType
<1> HIDE DEF s, new
<1>7. \A n \in DOMAIN r.batches : n \in Nat
    <2>1. DOMAIN r.batches \subseteq BatchIds
        BY <1>2, TableIs
    <2> QED
        BY <2>1 DEF BatchIds
<1>8. /\ \A n \in 1 .. r.current : n \in DOMAIN new /\ new[n] = r.batches[n]
      /\ d.id \in DOMAIN new /\ new[d.id] = entry
    <2>1. 1 .. r.current \subseteq DOMAIN r.batches
        BY DEF OptimisticInv
    <2> QED
        BY <1>2, <1>5, <2>1
<1>9. OptimisticInv(s, d)
    <2>1. 1 .. s.current \subseteq DOMAIN s.batches
        <3>1. \A n \in 1 .. d.id : n \in 1 .. r.current \/ n = d.id
            BY <1>2
        <3> QED
            BY <1>6, <1>8, <3>1
    <2>2. s.root = s.batches[s.current].batch.after
        BY <1>4, <1>6, <1>8
    <2>3. ASSUME NEW n \in 2 .. s.current PROVE s.batches[n].batch.before = s.batches[n - 1].batch.after
        <3>1. n - 1 \in 1 .. r.current /\ new[n - 1] = r.batches[n - 1]
            BY <1>2, <1>6, <1>8
        <3>2. CASE n = d.id
            <4>1. r.current > 0 /\ n - 1 = r.current
                BY <1>2, <3>1, <3>2
            <4>2. r.root = r.batches[r.current].batch.after
                BY <4>1 DEF OptimisticInv
            <4> QED
                BY <1>4, <1>6, <1>8, <3>1, <3>2, <4>1, <4>2
        <3>3. CASE n # d.id
            <4>1. n \in 2 .. r.current /\ new[n] = r.batches[n]
                BY <1>2, <1>6, <1>8, <3>3
            <4>2. r.batches[n].batch.before = r.batches[n - 1].batch.after
                BY <4>1 DEF OptimisticInv
            <4> QED
                BY <1>6, <3>1, <4>1, <4>2
        <3> QED
            BY <3>2, <3>3
    <2>4. ASSUME NEW n \in DOMAIN s.batches
          PROVE  /\ n > s.current => s.batches[n].challenged
                 /\ s.batches[n].finalized => ~s.batches[n].challenged
                 /\ s.batches[n].challenged => s.batches[n].batch.txs # <<>>
        <3>1. CASE n = d.id
            BY <1>2, <1>4, <1>6, <1>8, <3>1
        <3>2. CASE n # d.id
            <4>1. n \in DOMAIN r.batches /\ s.batches[n] = r.batches[n]
                BY <1>5, <1>6, <3>2
            <4>2. /\ n > r.current => r.batches[n].challenged
                  /\ r.batches[n].finalized => ~r.batches[n].challenged
                  /\ r.batches[n].challenged => r.batches[n].batch.txs # <<>>
                BY <4>1 DEF OptimisticInv
            <4>3. n > s.current => n > r.current
                BY <1>2, <1>6, <1>7, <4>1
            <4> QED
                BY <4>1, <4>2, <4>3
        <3> QED
            BY <3>1, <3>2
    <2> QED
        BY <1>1, <1>6, <2>1, <2>2, <2>3, <2>4 DEF OptimisticInv
<1>10. ASSUME NEW n \in DOMAIN r.batches, r.batches[n].finalized
       PROVE  s.batches[n] = r.batches[n] /\ n <= s.current
    <2>1. n <= r.current
        BY <1>2, <1>7, <1>10 DEF OptimisticInv
    <2> QED
        BY <1>2, <1>5, <1>6, <1>7, <2>1
<1> QED
    BY <1>9, <1>10 DEF s, entry

(* An entry of a table of batches that is marked *)
LEMMA MarkedBatch ==
    ASSUME NEW r, NEW d, OptimisticInv(r, d), NEW id \in DOMAIN r.batches, NEW e \in KnownBatch,
           e.batch = r.batches[id].batch, NEW c \in 0 .. MaxBatches, NEW root \in Root, NEW s \in RollupType,
           s.batches = [r.batches EXCEPT ![id] = e], s.current = c, s.root = root,
           c <= r.current, \A n \in DOMAIN r.batches : n > c /\ n # id => r.batches[n].challenged,
           id > c => e.challenged, e.finalized => ~e.challenged, e.challenged => e.batch.txs # <<>>,
           c > 0 => root = r.batches[c].batch.after
    PROVE  OptimisticInv(s, d)
<1>1. /\ r.batches \in Tables(BatchIds, KnownBatch) /\ r.current \in Nat
    BY DEF OptimisticInv, RollupType
<1>2. /\ DOMAIN s.batches = DOMAIN r.batches /\ s.batches[id] = e
      /\ \A n \in DOMAIN r.batches : n # id => s.batches[n] = r.batches[n]
    BY <1>1, TableChanged
<1>3. \A n \in DOMAIN r.batches : n \in Nat
    <2>1. DOMAIN r.batches \subseteq BatchIds
        BY <1>1, TableIs
    <2> QED
        BY <2>1 DEF BatchIds
<1>4. \A n \in DOMAIN r.batches : s.batches[n].batch = r.batches[n].batch
    BY <1>2
<1>5. 1 .. c \subseteq DOMAIN r.batches
    BY <1>1 DEF OptimisticInv
<1>6. s.current > 0 => s.root = s.batches[s.current].batch.after
    <2>1. s.current > 0 => s.current \in DOMAIN r.batches
        BY <1>5
    <2> QED
        BY <1>4, <2>1
<1>7. ASSUME NEW n \in 2 .. s.current PROVE s.batches[n].batch.before = s.batches[n - 1].batch.after
    <2>1. n \in 1 .. c /\ n - 1 \in 1 .. c /\ n \in 2 .. r.current
        BY <1>1
    <2>2. r.batches[n].batch.before = r.batches[n - 1].batch.after
        BY <2>1 DEF OptimisticInv
    <2> QED
        BY <1>4, <1>5, <2>1, <2>2
<1>8. ASSUME NEW n \in DOMAIN s.batches
      PROVE  /\ n > s.current => s.batches[n].challenged
             /\ s.batches[n].finalized => ~s.batches[n].challenged
             /\ s.batches[n].challenged => s.batches[n].batch.txs # <<>>
    <2>1. CASE n = id
        BY <1>2, <2>1
    <2>2. CASE n # id
        <3>1. /\ r.batches[n].finalized => ~r.batches[n].challenged
              /\ r.batches[n].challenged => r.batches[n].batch.txs # <<>>
            BY <1>2 DEF OptimisticInv
        <3> QED
            BY <1>2, <2>2, <3>1
    <2> QED
        BY <2>1, <2>2
<1>9. d = None \/ d \in BatchType
    BY DEF OptimisticInv
<1> QED
    BY <1>2, <1>5, <1>6, <1>7, <1>8, <1>9 DEF OptimisticInv

(* A fraud proof that convinces is one against a transaction of the batch *)
LEMMA ProofNamesTransaction ==
    ASSUME NEW b \in BatchType, NEW p \in FraudProofs(b), VerifyFraudProof(b, p)
    PROVE  b.txs # <<>>
<1>1. b.txs \in Seq(RollupTx)
    BY DEF BatchType
<1>2. CASE p = GenerateFraudProof(b)
    <2>1. b.txs = <<>> => p.index = 0 /\ Len(b.txs) = 0
        BY <1>2 DEF GenerateFraudProof
    <2> QED
        BY <2>1 DEF VerifyFraudProof
<1>3. CASE \E i \in DOMAIN b.txs : TRUE
    BY <1>1, <1>3
<1> QED
    BY <1>2, <1>3 DEF FraudProofs

(* A fraud proof marks a batch that is not final, and rolls back the current one *)
LEMMA FraudKeeps ==
    ASSUME NEW r, NEW d, OptimisticInv(r, d), NEW id \in DOMAIN r.batches, ~r.batches[id].finalized,
           r.batches[id].batch.txs # <<>>
    PROVE  LET marked == [r EXCEPT !.batches[id].challenged = TRUE]
               s == IF id # r.current THEN marked
                    ELSE [marked EXCEPT !.root = r.batches[id].batch.before, !.current = @ - 1]
           IN  /\ OptimisticInv(s, d)
               /\ \A n \in DOMAIN r.batches : r.batches[n].finalized =>
                     s.batches[n] = r.batches[n] /\ n <= s.current
<1> DEFINE old == r.batches[id]
           e == [old EXCEPT !.challenged = TRUE]
           new == [r.batches EXCEPT ![id] = e]
           marked == [r EXCEPT !.batches[id].challenged = TRUE]
           s == IF id # r.current THEN marked
                ELSE [marked EXCEPT !.root = old.batch.before, !.current = @ - 1]
<1>1. /\ r \in RollupType /\ r.batches \in Tables(BatchIds, KnownBatch)
      /\ r.current \in 0 .. MaxBatches /\ r.root \in Root /\ r.current \in Nat
    BY DEF OptimisticInv, RollupType
<1>2. /\ \A n \in DOMAIN r.batches : n \in 1 .. MaxBatches /\ n \in Nat /\ r.batches[n] \in KnownBatch
      /\ old \in KnownBatch /\ old.batch.before \in Root
    <2>1. DOMAIN r.batches \subseteq BatchIds /\ r.batches \in [DOMAIN r.batches -> KnownBatch]
        BY <1>1, TableIs
    <2>2. \A n \in DOMAIN r.batches : n \in 1 .. MaxBatches /\ n \in Nat /\ r.batches[n] \in KnownBatch
        BY <2>1 DEF BatchIds
    <2> QED
        BY <2>2 DEF KnownBatch, BatchType
<1>3. /\ e \in KnownBatch /\ e.batch = old.batch /\ e.challenged = TRUE /\ e.finalized = old.finalized
    <2> HIDE DEF old
    <2> QED
        BY <1>2 DEF KnownBatch
<1>4. marked = [r EXCEPT !.batches = new]
    BY <1>1 DEF RollupType
<1> HIDE DEF e, old
<1>5. new \in Tables(BatchIds, KnownBatch) /\ new[id] = e
      /\ \A x \in DOMAIN r.batches : x # id => new[x] = r.batches[x]
    BY <1>1, <1>3, TableChanged
<1>6. /\ marked \in RollupType /\ marked.batches = new
      /\ marked.current = r.current /\ marked.root = r.root
    <2> HIDE DEF new, marked
    <2> QED
        BY <1>1, <1>4, <1>5 DEF RollupType
<1>7. CASE id # r.current
    <2>1. s = marked
        BY <1>7
    <2>2. /\ r.current > 0 => r.root = r.batches[r.current].batch.after
          /\ \A n \in DOMAIN r.batches : n > r.current => r.batches[n].challenged
          /\ \A n \in DOMAIN r.batches : r.batches[n].finalized => ~r.batches[n].challenged
        BY DEF OptimisticInv
    <2>5. e.batch.txs # <<>>
        BY <1>3 DEF old
    <2> HIDE DEF marked, s
    <2>3. OptimisticInv(s, d)
        BY <1>1, <1>3, <1>6, <2>1, <2>2, <2>5, MarkedBatch DEF new, old
    <2>4. ASSUME NEW n \in DOMAIN r.batches, r.batches[n].finalized
          PROVE  s.batches[n] = r.batches[n] /\ n <= s.current
        <3>1. n # id
            BY <2>4
        <3>2. n <= r.current
            BY <1>1, <1>2, <2>2, <2>4
        <3> QED
            BY <1>5, <1>6, <2>1, <3>1, <3>2
    <2> QED
        BY <2>3, <2>4 DEF s, marked, old
<1>8. CASE id = r.current
    <2>1. s = [marked EXCEPT !.root = old.batch.before, !.current = @ - 1]
        BY <1>8
    <2> HIDE DEF marked, s, new
    <2>2. r.current > 0 /\ r.current - 1 \in 0 .. MaxBatches
        <3>1. r.current \in 1 .. MaxBatches /\ MaxBatches \in Nat
            BY <1>2, <1>8, RollupAssumption
        <3> QED
            BY ONLY <3>1
    <2>3. s \in RollupType /\ s.batches = new /\ s.current = r.current - 1 /\ s.root = old.batch.before
        BY <1>2, <1>6, <2>1, <2>2 DEF RollupType
    <2>4. r.current - 1 > 0 => old.batch.before = r.batches[r.current - 1].batch.after
        <3>1. r.current - 1 > 0 => r.current \in 2 .. r.current
            BY <1>1
        <3> QED
            BY <1>8, <3>1 DEF OptimisticInv, old
    <2>5. \A n \in DOMAIN r.batches : n > r.current - 1 /\ n # id => r.batches[n].challenged
        <3>1. \A n \in DOMAIN r.batches : n > r.current - 1 /\ n # id => n > r.current
            BY <1>1, <1>2, <1>8
        <3> QED
            BY <3>1 DEF OptimisticInv
    <2>6. ~e.finalized /\ e.challenged /\ r.current - 1 <= r.current /\ e.batch.txs # <<>>
        BY <1>1, <1>3 DEF old
    <2>7. OptimisticInv(s, d)
        BY <1>2, <1>3, <2>2, <2>3, <2>4, <2>5, <2>6, MarkedBatch DEF new, old
    <2>8. ASSUME NEW n \in DOMAIN r.batches, r.batches[n].finalized
          PROVE  s.batches[n] = r.batches[n] /\ n <= s.current
        <3>1. n # id
            BY <2>8
        <3>2. ~r.batches[n].challenged
            BY <2>8 DEF OptimisticInv
        <3>3. ~(n > r.current - 1)
            BY <2>5, <3>1, <3>2
        <3>4. n <= r.current - 1
            BY <1>1, <1>2, <3>3
        <3> QED
            BY <1>5, <2>3, <3>1, <3>4
    <2> QED
        BY <2>7, <2>8 DEF s, marked, old
<1> QED
    BY <1>7, <1>8

(* A batch becomes final where it stands *)
LEMMA FinalKeeps ==
    ASSUME NEW r, NEW d, OptimisticInv(r, d), NEW id \in DOMAIN r.batches, ~r.batches[id].challenged
    PROVE  LET s == [r EXCEPT !.batches[id].finalized = TRUE]
           IN  /\ OptimisticInv(s, d)
               /\ \A n \in DOMAIN r.batches : r.batches[n].finalized =>
                     s.batches[n] = r.batches[n] /\ n <= s.current
<1> DEFINE old == r.batches[id]
           e == [old EXCEPT !.finalized = TRUE]
           new == [r.batches EXCEPT ![id] = e]
           s == [r EXCEPT !.batches[id].finalized = TRUE]
<1>1. /\ r \in RollupType /\ r.batches \in Tables(BatchIds, KnownBatch)
      /\ r.current \in 0 .. MaxBatches /\ r.root \in Root /\ r.current \in Nat
    BY DEF OptimisticInv, RollupType
<1>2. \A n \in DOMAIN r.batches : n \in Nat /\ r.batches[n] \in KnownBatch
    <2>1. DOMAIN r.batches \subseteq BatchIds /\ r.batches \in [DOMAIN r.batches -> KnownBatch]
        BY <1>1, TableIs
    <2> QED
        BY <2>1 DEF BatchIds
<1>3. /\ e \in KnownBatch /\ e.batch = old.batch /\ e.finalized = TRUE /\ e.challenged = old.challenged
      /\ old.finalized => e = old
    <2>1. old \in KnownBatch
        BY <1>2
    <2> HIDE DEF old
    <2> QED
        BY <2>1 DEF KnownBatch
<1>4. s = [r EXCEPT !.batches = new]
    BY <1>1 DEF RollupType
<1> HIDE DEF e, old
<1>5. new \in Tables(BatchIds, KnownBatch) /\ new[id] = e
      /\ \A x \in DOMAIN r.batches : x # id => new[x] = r.batches[x]
    BY <1>1, <1>3, TableChanged
<1>6. s \in RollupType /\ s.batches = new /\ s.current = r.current /\ s.root = r.root
    <2> HIDE DEF new, s
    <2> QED
        BY <1>1, <1>4, <1>5 DEF RollupType
<1>7. /\ r.current > 0 => r.root = r.batches[r.current].batch.after
      /\ \A n \in DOMAIN r.batches : n > r.current => r.batches[n].challenged
      /\ \A n \in DOMAIN r.batches : r.batches[n].finalized => ~r.batches[n].challenged
    BY DEF OptimisticInv
<1> HIDE DEF s
<1>8. OptimisticInv(s, d)
    <2>1. ~e.challenged /\ ~(id > r.current) /\ r.current <= r.current
        BY <1>1, <1>3, <1>7 DEF old
    <2> QED
        BY <1>1, <1>3, <1>6, <1>7, <2>1, MarkedBatch DEF new, old
<1>9. ASSUME NEW n \in DOMAIN r.batches, r.batches[n].finalized
      PROVE  s.batches[n] = r.batches[n] /\ n <= s.current
    <2>1. n <= r.current
        BY <1>1, <1>2, <1>7, <1>9
    <2>2. s.batches[n] = r.batches[n]
        BY <1>3, <1>5, <1>6, <1>9 DEF old
    <2> QED
        BY <1>6, <2>1, <2>2
<1> QED
    BY <1>8, <1>9 DEF s

-----------------------------------------------------------------------------
(* The zk rollup *)
Marked     == {"pending", "processed"}
ZkInputs   == [id : Nat, before : SUBSET Nat, after : SUBSET Nat, txs : Seq(ZkTx), signed : BOOLEAN]
ZkBatch    == [id : Nat, before : SUBSET Nat, after : SUBSET Nat, txs : Seq(ZkTx), signed : BOOLEAN,
               proof : ZkInputs \cup {None}]
KnownZk    == [batch : ZkBatch, finalized : BOOLEAN]
ZkType     == [current : 0 .. MaxZkBatches, root : SUBSET Nat, batches : Tables(Nat, KnownZk),
               pending : Seq(ZkTx), exits : Tables(Nat, Marked)]

(* The state only grows, from what a batch before left to what this one leaves; a draft was  *)
(* made from the state, and no batch came between, if it is still the next                   *)
ZkInv(z, d) ==
    /\ z \in ZkType /\ IsFiniteSet(z.root)
    /\ DOMAIN z.batches = 1 .. z.current
    /\ \A n \in 1 .. z.current : z.batches[n].batch.after \subseteq z.root
    /\ \A n \in 2 .. z.current : z.batches[n - 1].batch.after \subseteq z.batches[n].batch.before
    /\ d = None \/ /\ d \in ZkBatch /\ 0 < d.id /\ d.id <= MaxZkBatches
                   /\ d.id = z.current + 1 /\ z.current > 0 =>
                         z.batches[z.current].batch.after \subseteq d.before

(* A zk rollup that begins *)
LEMMA ZkBegins ==
    ZkInv([current |-> 0, root |-> {}, batches |-> NoRecords, pending |-> <<>>, exits |-> NoRecords], None)
<1> DEFINE z == [current |-> 0, root |-> {}, batches |-> NoRecords, pending |-> <<>>, exits |-> NoRecords]
<1>1. z \in ZkType
    <2>1. 0 \in 0 .. MaxZkBatches
        BY RollupAssumption
    <2>2. <<>> \in Seq(ZkTx)
        OBVIOUS
    <2>3. NoRecords \in Tables(Nat, KnownZk) /\ NoRecords \in Tables(Nat, Marked)
        BY NoRecordsTyped
    <2> QED
        BY <2>1, <2>2, <2>3 DEF ZkType
<1>2. z.current = 0 /\ DOMAIN z.batches = {} /\ z.root = {}
    BY NoRecordsTyped
<1> HIDE DEF z
<1>3. ZkInv(z, None)
    BY <1>1, <1>2, FS_EmptySet DEF ZkInv
<1> QED
    BY <1>3 DEF z

(* The accounts of finitely many transactions are finitely many *)
LEMMA AppliedFinite ==
    ASSUME NEW accounts \in SUBSET Nat, IsFiniteSet(accounts), NEW txs \in Seq(ZkTx)
    PROVE  /\ ApplyTransactions(accounts, txs) \in SUBSET Nat
           /\ IsFiniteSet(ApplyTransactions(accounts, txs))
           /\ accounts \subseteq ApplyTransactions(accounts, txs)
<1> DEFINE F == {t.nullifier : t \in Range(txs)}
           g == [i \in 1 .. Len(txs) |-> txs[i].nullifier]
<1>1. /\ Len(txs) \in Nat /\ DOMAIN txs = 1 .. Len(txs)
      /\ \A i \in 1 .. Len(txs) : txs[i] \in ZkTx
    OBVIOUS
<1>2. Range(txs) = {txs[i] : i \in 1 .. Len(txs)}
    BY <1>1 DEF Range
<1>3. F = {g[i] : i \in 1 .. Len(txs)}
    BY <1>2
<1>4. IsFiniteSet(F)
    <2>1. IsFiniteSet(1 .. Len(txs))
        BY <1>1, FS_Interval
    <2>2. g \in Surjection(1 .. Len(txs), F)
        BY <1>3 DEF Surjection
    <2> HIDE DEF F, g
    <2> QED
        BY <2>1, <2>2, FS_Surjection
<1>5. \A S \in F : IsFiniteSet(S) /\ S \subseteq Nat
    BY <1>1, <1>2, RollupAssumption
<1> HIDE DEF F
<1>6. IsFiniteSet(UNION F)
    BY <1>4, <1>5, FS_UNION
<1>7. IsFiniteSet(accounts \cup UNION F)
    BY <1>6, FS_Union
<1> QED
    BY <1>5, <1>7 DEF ApplyTransactions, F

(* A transaction waits; a draft is completed; a batch is final; an exit is asked for or done *)
LEMMA ZkPlain ==
    ASSUME NEW z, NEW d, ZkInv(z, d), NEW s \in ZkType,
           s.current = z.current, s.root = z.root, DOMAIN s.batches = DOMAIN z.batches,
           \A n \in DOMAIN z.batches : s.batches[n].batch = z.batches[n].batch,
           NEW e, e = d \/ /\ d # None /\ e \in ZkBatch /\ e.id = d.id /\ e.before = d.before
    PROVE  ZkInv(s, e)
<1>1. z.current \in Nat
    BY DEF ZkInv, ZkType
<1>2. IsFiniteSet(s.root) /\ DOMAIN s.batches = 1 .. s.current
    BY DEF ZkInv
<1>3. \A n \in 1 .. s.current : s.batches[n].batch.after \subseteq s.root
    BY DEF ZkInv
<1>4. ASSUME NEW n \in 2 .. s.current
      PROVE  s.batches[n - 1].batch.after \subseteq s.batches[n].batch.before
    <2>1. n \in DOMAIN z.batches /\ n - 1 \in DOMAIN z.batches
        BY <1>1 DEF ZkInv
    <2>2. z.batches[n - 1].batch.after \subseteq z.batches[n].batch.before
        BY DEF ZkInv
    <2> QED
        BY <2>1, <2>2
<1>5. e = None \/ /\ e \in ZkBatch /\ 0 < e.id /\ e.id <= MaxZkBatches
                  /\ e.id = s.current + 1 /\ s.current > 0 =>
                        s.batches[s.current].batch.after \subseteq e.before
    <2>1. z.current > 0 => z.current \in DOMAIN z.batches
        BY <1>1 DEF ZkInv
    <2> QED
        BY <2>1 DEF ZkInv
<1> QED
    BY <1>2, <1>3, <1>4, <1>5 DEF ZkInv

(* A draft is made and the state moves on *)
LEMMA ZkCreateKeeps ==
    ASSUME NEW z, NEW d, ZkInv(z, d), z.current < MaxZkBatches
    PROVE  LET after == ApplyTransactions(z.root, z.pending)
               e == [id |-> z.current + 1, before |-> z.root, after |-> after, txs |-> z.pending,
                     signed |-> FALSE, proof |-> None]
           IN  ZkInv([z EXCEPT !.root = after, !.pending = <<>>], e)
<1> DEFINE after == ApplyTransactions(z.root, z.pending)
           e == [id |-> z.current + 1, before |-> z.root, after |-> after, txs |-> z.pending,
                 signed |-> FALSE, proof |-> None]
           s == [z EXCEPT !.root = after, !.pending = <<>>]
<1>1. z \in ZkType /\ IsFiniteSet(z.root)
    BY DEF ZkInv
<1>2. z.root \in SUBSET Nat /\ z.pending \in Seq(ZkTx) /\ z.current \in Nat /\ MaxZkBatches \in Nat
    BY <1>1, RollupAssumption DEF ZkType
<1>3. after \in SUBSET Nat /\ IsFiniteSet(after) /\ z.root \subseteq after
    BY <1>1, <1>2, AppliedFinite
<1> HIDE DEF after
<1>4. s \in ZkType /\ s.current = z.current /\ s.root = after /\ s.batches = z.batches
    <2>1. <<>> \in Seq(ZkTx)
        OBVIOUS
    <2> QED
        BY <1>1, <1>3, <2>1 DEF ZkType
<1>5. e \in ZkBatch /\ e.id = z.current + 1 /\ e.before = z.root
    BY <1>2, <1>3 DEF ZkBatch
<1> HIDE DEF s, e
<1>6. ASSUME NEW n \in 1 .. s.current PROVE s.batches[n].batch.after \subseteq s.root
    <2>1. z.batches[n].batch.after \subseteq z.root
        BY <1>4 DEF ZkInv
    <2> QED
        BY <1>3, <1>4, <2>1
<1>7. s.current > 0 => s.batches[s.current].batch.after \subseteq e.before
    <2>1. z.current > 0 => z.current \in 1 .. z.current
        BY <1>2
    <2> QED
        BY <1>4, <1>5, <2>1 DEF ZkInv
<1>8. 0 < e.id /\ e.id <= MaxZkBatches
    BY <1>2, <1>5
<1>9. DOMAIN s.batches = 1 .. s.current
      /\ \A n \in 2 .. s.current : s.batches[n - 1].batch.after \subseteq s.batches[n].batch.before
    BY <1>4 DEF ZkInv
<1> QED
    BY <1>3, <1>4, <1>5, <1>6, <1>7, <1>8, <1>9 DEF ZkInv, s, e, after

(* The next batch joins the others *)
LEMMA ZkSubmitKeeps ==
    ASSUME NEW z, NEW d, ZkInv(z, d), d # None, d.id = z.current + 1, d.after = z.root
    PROVE  LET entry == [batch |-> d, finalized |-> FALSE]
           IN  ZkInv([z EXCEPT !.batches = Recorded(@, d.id, entry), !.current = d.id], d)
<1> DEFINE entry == [batch |-> d, finalized |-> FALSE]
           new == Recorded(z.batches, d.id, entry)
           s == [z EXCEPT !.batches = Recorded(@, d.id, entry), !.current = d.id]
<1>1. z \in ZkType /\ d \in ZkBatch /\ 0 < d.id /\ d.id <= MaxZkBatches
    BY DEF ZkInv
<1>2. z.batches \in Tables(Nat, KnownZk) /\ z.current \in Nat /\ d.id \in Nat /\ MaxZkBatches \in Nat
    BY <1>1, RollupAssumption DEF ZkType, ZkBatch
<1>3. entry \in KnownZk /\ entry.batch = d
    BY <1>1 DEF KnownZk
<1> HIDE DEF entry
<1>4. new \in Tables(Nat, KnownZk)
    BY <1>2, <1>3, TableRecorded
<1>5. /\ DOMAIN new = DOMAIN z.batches \cup {d.id} /\ new[d.id] = entry
      /\ \A n \in DOMAIN z.batches : n # d.id => new[n] = z.batches[n]
    BY DEF Recorded
<1>6. s \in ZkType /\ s.batches = new /\ s.current = d.id /\ s.root = z.root
    <2>1. s = [z EXCEPT !.batches = new, !.current = d.id]
        OBVIOUS
    <2>2. d.id \in 0 .. MaxZkBatches
        BY <1>1, <1>2
    <2> HIDE DEF new, s
    <2> QED
        BY <1>1, <1>4, <2>1, <2>2 DEF ZkType
<1> HIDE DEF new, s
<1>7. DOMAIN z.batches = 1 .. z.current
    BY DEF ZkInv
<1>8. DOMAIN s.batches = 1 .. s.current /\ \A n \in 1 .. z.current : new[n] = z.batches[n]
    <2>1. 1 .. d.id = (1 .. z.current) \cup {d.id}
        BY <1>2
    <2>2. \A n \in 1 .. z.current : n # d.id
        BY <1>2
    <2> QED
        BY <1>5, <1>6, <1>7, <2>1, <2>2
<1>9. ASSUME NEW n \in 1 .. s.current PROVE s.batches[n].batch.after \subseteq s.root
    <2>1. CASE n = d.id
        BY <1>3, <1>5, <1>6, <2>1
    <2>2. CASE n # d.id
        <3>1. n \in 1 .. z.current
            BY <1>2, <1>6, <2>2
        <3>2. z.batches[n].batch.after \subseteq z.root
            BY <3>1 DEF ZkInv
        <3> QED
            BY <1>6, <1>8, <3>1, <3>2
    <2> QED
        BY <2>1, <2>2
<1>10. ASSUME NEW n \in 2 .. s.current
       PROVE  s.batches[n - 1].batch.after \subseteq s.batches[n].batch.before
    <2>1. n - 1 \in 1 .. z.current /\ new[n - 1] = z.batches[n - 1]
        BY <1>2, <1>6, <1>8
    <2>2. CASE n = d.id
        <3>1. n - 1 = z.current /\ z.current > 0
            BY <1>2, <2>1, <2>2
        <3>2. z.batches[z.current].batch.after \subseteq d.before
            BY <3>1 DEF ZkInv
        <3> QED
            BY <1>3, <1>5, <1>6, <2>1, <2>2, <3>1, <3>2
    <2>3. CASE n # d.id
        <3>1. n \in 2 .. z.current /\ n \in 1 .. z.current
            BY <1>2, <1>6, <2>3
        <3>2. z.batches[n - 1].batch.after \subseteq z.batches[n].batch.before
            BY <3>1 DEF ZkInv
        <3> QED
            BY <1>6, <1>8, <2>1, <3>1, <3>2
    <2> QED
        BY <2>2, <2>3
<1>11. ~(d.id = s.current + 1)
    BY <1>2, <1>6
<1>12. IsFiniteSet(s.root)
    BY <1>6 DEF ZkInv
<1> QED
    BY <1>1, <1>6, <1>8, <1>9, <1>10, <1>11, <1>12 DEF ZkInv, s, entry

-----------------------------------------------------------------------------
(* The plasma chain *)
PlasmaKeys == UNION PlasmaTxs
PlasmaExit == [block : Nat, end : Nat, challenged : BOOLEAN]
Asked      == [requests : Nat, payouts : Nat, from : Nat, wait : Nat, answered : BOOLEAN]
PlasmaType == [current : Nat, period : Nat, blocks : Tables(Nat, PlasmaTxs),
               exits : Tables(PlasmaKeys, PlasmaExit)]

(* An exit that is waiting is the last request, which is not paid, and waits for the blocks and *)
(* carries the challenge of that request                                                       *)
Waiting(x, a) == a.payouts < a.requests /\ x.end = a.from + a.wait /\ x.challenged = a.answered
PlasmaInv(p, w) ==
    /\ p \in PlasmaType /\ w \in [PlasmaKeys -> Asked]
    /\ DOMAIN p.blocks = 1 .. p.current
    /\ \A t \in PlasmaKeys : w[t].payouts <= w[t].requests
    /\ \A t \in DOMAIN p.exits : Waiting(p.exits[t], w[t])

(* What the table of exits and the counts are made of *)
LEMMA PlasmaParts ==
    ASSUME NEW p, NEW w, PlasmaInv(p, w)
    PROVE  /\ p \in PlasmaType /\ p.current \in Nat /\ p.period \in Nat
           /\ p.blocks \in Tables(Nat, PlasmaTxs) /\ p.exits \in Tables(PlasmaKeys, PlasmaExit)
           /\ DOMAIN w = PlasmaKeys /\ \A t \in PlasmaKeys : w[t] \in Asked
           /\ \A n \in DOMAIN p.blocks : p.blocks[n] \in PlasmaTxs
           /\ \A t \in DOMAIN p.exits : t \in PlasmaKeys /\ p.exits[t] \in PlasmaExit
<1>1. p \in PlasmaType /\ w \in [PlasmaKeys -> Asked]
    BY DEF PlasmaInv
<1>2. /\ p.current \in Nat /\ p.period \in Nat
      /\ p.blocks \in Tables(Nat, PlasmaTxs) /\ p.exits \in Tables(PlasmaKeys, PlasmaExit)
    BY <1>1 DEF PlasmaType
<1>3. p.blocks \in [DOMAIN p.blocks -> PlasmaTxs]
    BY <1>2, TableIs
<1>4. DOMAIN p.exits \subseteq PlasmaKeys /\ p.exits \in [DOMAIN p.exits -> PlasmaExit]
    BY <1>2, TableIs
<1> QED
    BY <1>1, <1>2, <1>3, <1>4

(* A plasma chain that begins *)
LEMMA PlasmaBegins ==
    PlasmaInv([current |-> 0, period |-> FirstPeriod, blocks |-> NoRecords, exits |-> NoRecords],
              [t \in UNION PlasmaTxs |->
                  [requests |-> 0, payouts |-> 0, from |-> 0, wait |-> 0, answered |-> FALSE]])
<1> DEFINE p == [current |-> 0, period |-> FirstPeriod, blocks |-> NoRecords, exits |-> NoRecords]
           none == [requests |-> 0, payouts |-> 0, from |-> 0, wait |-> 0, answered |-> FALSE]
           w == [t \in UNION PlasmaTxs |-> none]
<1>1. p \in PlasmaType
    <2>1. NoRecords \in Tables(Nat, PlasmaTxs) /\ NoRecords \in Tables(PlasmaKeys, PlasmaExit)
        BY NoRecordsTyped
    <2> QED
        BY <2>1, PeriodsTyped DEF PlasmaType
<1>2. p.current = 0 /\ DOMAIN p.blocks = {} /\ DOMAIN p.exits = {}
    BY NoRecordsTyped
<1>3. none \in Asked /\ none.payouts = 0 /\ none.requests = 0
    BY DEF Asked
<1> HIDE DEF none, p
<1>4. w \in [PlasmaKeys -> Asked] /\ \A t \in PlasmaKeys : w[t] = none
    BY <1>3 DEF PlasmaKeys
<1> HIDE DEF w
<1>5. PlasmaInv(p, w)
    BY <1>1, <1>2, <1>3, <1>4 DEF PlasmaInv
<1> QED
    BY <1>5 DEF p, w, none

(* A block, or another period: no exit is touched *)
LEMMA BlocksKeep ==
    ASSUME NEW p, NEW w, PlasmaInv(p, w)
    PROVE  /\ \A txs \in PlasmaTxs :
                 PlasmaInv([p EXCEPT !.blocks = Recorded(@, p.current + 1, txs), !.current = @ + 1], w)
           /\ \A q \in Periods : PlasmaInv([p EXCEPT !.period = q], w)
<1>1. /\ p \in PlasmaType /\ p.current \in Nat
      /\ p.blocks \in Tables(Nat, PlasmaTxs) /\ DOMAIN p.blocks = 1 .. p.current
    BY PlasmaParts DEF PlasmaInv
<1>2. ASSUME NEW s \in PlasmaType, s.exits = p.exits, DOMAIN s.blocks = 1 .. s.current
      PROVE  PlasmaInv(s, w)
    BY <1>2 DEF PlasmaInv
<1>3. ASSUME NEW txs \in PlasmaTxs
      PROVE  PlasmaInv([p EXCEPT !.blocks = Recorded(@, p.current + 1, txs), !.current = @ + 1], w)
    <2> DEFINE new == Recorded(p.blocks, p.current + 1, txs)
               s == [p EXCEPT !.blocks = Recorded(@, p.current + 1, txs), !.current = @ + 1]
    <2>0. p.current + 1 \in Nat
        BY <1>1
    <2>1. new \in Tables(Nat, PlasmaTxs)
        BY <1>1, <2>0, TableRecorded
    <2>2. DOMAIN new = DOMAIN p.blocks \cup {p.current + 1}
        BY DEF Recorded
    <2>3. s = [p EXCEPT !.blocks = new, !.current = p.current + 1]
        BY <1>1 DEF PlasmaType
    <2> HIDE DEF new, s
    <2>4. s \in PlasmaType /\ s.exits = p.exits /\ s.blocks = new /\ s.current = p.current + 1
        BY <1>1, <2>0, <2>1, <2>3 DEF PlasmaType
    <2>5. 1 .. p.current + 1 = (1 .. p.current) \cup {p.current + 1}
        BY <1>1
    <2>6. PlasmaInv(s, w)
        BY <1>1, <1>2, <2>2, <2>4, <2>5
    <2> QED
        BY <2>6 DEF s
<1>4. ASSUME NEW q \in Periods PROVE PlasmaInv([p EXCEPT !.period = q], w)
    <2> DEFINE s == [p EXCEPT !.period = q]
    <2>1. s \in PlasmaType /\ s.exits = p.exits /\ s.blocks = p.blocks /\ s.current = p.current
        BY <1>1, PeriodsTyped DEF PlasmaType
    <2> HIDE DEF s
    <2>2. PlasmaInv(s, w)
        BY <1>1, <1>2, <2>1
    <2> QED
        BY <2>2 DEF s
<1> QED
    BY <1>3, <1>4

(* The exits and the counts change at one transaction *)
LEMMA ExitsChange ==
    ASSUME NEW p, NEW w, PlasmaInv(p, w), NEW t \in PlasmaKeys, NEW a \in Asked, a.payouts <= a.requests,
           NEW new \in Tables(PlasmaKeys, PlasmaExit),
           \A u \in DOMAIN new : IF u = t THEN Waiting(new[u], a) ELSE u \in DOMAIN p.exits /\ new[u] = p.exits[u]
    PROVE  PlasmaInv([p EXCEPT !.exits = new], [w EXCEPT ![t] = a])
<1> DEFINE s == [p EXCEPT !.exits = new]
           v == [w EXCEPT ![t] = a]
<1>1. p \in PlasmaType /\ w \in [PlasmaKeys -> Asked]
    BY DEF PlasmaInv
<1>2. s \in PlasmaType /\ s.exits = new /\ s.blocks = p.blocks /\ s.current = p.current
    BY <1>1 DEF PlasmaType
<1>3. /\ v \in [PlasmaKeys -> Asked] /\ v[t] = a
      /\ \A u \in PlasmaKeys : u # t => v[u] = w[u]
    BY <1>1
<1> HIDE DEF s, v
<1>4. ASSUME NEW u \in PlasmaKeys PROVE v[u].payouts <= v[u].requests
    <2>1. CASE u = t
        BY <1>3, <2>1
    <2>2. CASE u # t
        <3>1. w[u].payouts <= w[u].requests
            BY DEF PlasmaInv
        <3> QED
            BY <1>3, <2>2, <3>1
    <2> QED
        BY <2>1, <2>2
<1>5. ASSUME NEW u \in DOMAIN s.exits PROVE Waiting(s.exits[u], v[u])
    <2>1. CASE u = t
        BY <1>2, <1>3, <2>1
    <2>2. CASE u # t
        <3>1. u \in DOMAIN p.exits /\ new[u] = p.exits[u]
            BY <1>2, <2>2
        <3>2. u \in PlasmaKeys
            BY <3>1, PlasmaParts
        <3>3. Waiting(p.exits[u], w[u])
            BY <3>1 DEF PlasmaInv
        <3> QED
            BY <1>2, <1>3, <2>2, <3>1, <3>2, <3>3
    <2> QED
        BY <2>1, <2>2
<1>6. DOMAIN s.blocks = 1 .. s.current
    BY <1>2 DEF PlasmaInv
<1>7. PlasmaInv(s, v)
    BY <1>2, <1>3, <1>4, <1>5, <1>6 DEF PlasmaInv
<1> QED
    BY <1>7 DEF s, v

(* A request replaces the one before it *)
LEMMA RequestKeeps ==
    ASSUME NEW p, NEW w, PlasmaInv(p, w), NEW t \in PlasmaKeys, NEW n \in DOMAIN p.blocks
    PROVE  LET x == [block |-> n, end |-> p.current + p.period, challenged |-> FALSE]
               v == [w EXCEPT ![t] = [requests |-> @.requests + 1, payouts |-> @.payouts,
                                      from |-> p.current, wait |-> p.period, answered |-> FALSE]]
           IN  PlasmaInv([p EXCEPT !.exits = Recorded(@, t, x)], v) /\ v[t].payouts = w[t].payouts
<1> DEFINE x == [block |-> n, end |-> p.current + p.period, challenged |-> FALSE]
           old == w[t]
           a == [requests |-> old.requests + 1, payouts |-> old.payouts, from |-> p.current,
                 wait |-> p.period, answered |-> FALSE]
           v == [w EXCEPT ![t] = [requests |-> @.requests + 1, payouts |-> @.payouts,
                                  from |-> p.current, wait |-> p.period, answered |-> FALSE]]
           new == Recorded(p.exits, t, x)
<1>1. /\ p.current \in Nat /\ p.period \in Nat /\ n \in Nat /\ old \in Asked
      /\ p.exits \in Tables(PlasmaKeys, PlasmaExit)
    <2>1. n \in Nat
        BY PlasmaParts DEF PlasmaInv
    <2> QED
        BY <2>1, PlasmaParts
<1>2. x \in PlasmaExit /\ x.end = p.current + p.period /\ x.challenged = FALSE
    BY <1>1 DEF PlasmaExit
<1>3. old.payouts <= old.requests
    BY DEF PlasmaInv
<1>13. v = [w EXCEPT ![t] = a]
    OBVIOUS
<1> HIDE DEF old, x, v
<1>5. old.payouts \in Nat /\ old.requests \in Nat /\ old.requests + 1 \in Nat
    BY <1>1 DEF Asked
<1>4. /\ a \in Asked /\ a.requests = old.requests + 1 /\ a.payouts = old.payouts
      /\ a.from = p.current /\ a.wait = p.period /\ a.answered = FALSE
    BY <1>1, <1>5 DEF Asked
<1> HIDE DEF a
<1>6. Waiting(x, a) /\ a.payouts <= a.requests
    <2>1. a.payouts < a.requests /\ a.payouts <= a.requests
        BY <1>3, <1>4, <1>5
    <2> QED
        BY <1>2, <1>4, <2>1 DEF Waiting
<1>7. new \in Tables(PlasmaKeys, PlasmaExit)
    BY <1>1, <1>2, TableRecorded
<1>8. \A u \in DOMAIN new : IF u = t THEN Waiting(new[u], a) ELSE u \in DOMAIN p.exits /\ new[u] = p.exits[u]
    BY <1>6 DEF Recorded
<1>9. p \in PlasmaType /\ w \in [PlasmaKeys -> Asked]
    BY DEF PlasmaInv
<1>10. [p EXCEPT !.exits = Recorded(@, t, x)] = [p EXCEPT !.exits = new]
    OBVIOUS
<1> HIDE DEF new
<1>11. PlasmaInv([p EXCEPT !.exits = new], [w EXCEPT ![t] = a])
    BY <1>4, <1>6, <1>7, <1>8, ExitsChange
<1>12. [w EXCEPT ![t] = a][t] = a
    BY <1>9
<1> QED
    BY <1>4, <1>10, <1>11, <1>12, <1>13 DEF v, old, x

(* A challenge marks the exit and the request *)
LEMMA ChallengeKeeps ==
    ASSUME NEW p, NEW w, PlasmaInv(p, w), NEW t \in DOMAIN p.exits
    PROVE  LET v == [w EXCEPT ![t].answered = TRUE]
           IN  PlasmaInv([p EXCEPT !.exits[t].challenged = TRUE], v) /\ v[t].payouts = w[t].payouts
<1> DEFINE old == p.exits[t]
           x == [old EXCEPT !.challenged = TRUE]
           asked == w[t]
           a == [asked EXCEPT !.answered = TRUE]
           new == [p.exits EXCEPT ![t] = x]
<1>1. /\ t \in PlasmaKeys /\ old \in PlasmaExit /\ asked \in Asked
      /\ p.exits \in Tables(PlasmaKeys, PlasmaExit)
    BY PlasmaParts
<1>2. Waiting(old, asked)
    BY DEF PlasmaInv
<1>3. [p EXCEPT !.exits[t].challenged = TRUE] = [p EXCEPT !.exits = new]
    OBVIOUS
<1>4. [w EXCEPT ![t].answered = TRUE] = [w EXCEPT ![t] = a]
    OBVIOUS
<1> HIDE DEF old, asked
<1>5. x \in PlasmaExit /\ x.end = old.end /\ x.challenged = TRUE
    BY <1>1 DEF PlasmaExit
<1>6. /\ a \in Asked /\ a.requests = asked.requests /\ a.payouts = asked.payouts
      /\ a.from = asked.from /\ a.wait = asked.wait /\ a.answered = TRUE
    BY <1>1 DEF Asked
<1> HIDE DEF x, a
<1>7. Waiting(x, a)
    BY <1>2, <1>5, <1>6 DEF Waiting
<1>8. a.payouts <= a.requests
    <2>1. asked.payouts \in Nat /\ asked.requests \in Nat
        BY <1>1 DEF Asked
    <2> QED
        BY <1>2, <1>6, <2>1 DEF Waiting
<1>9. /\ new \in Tables(PlasmaKeys, PlasmaExit) /\ DOMAIN new = DOMAIN p.exits /\ new[t] = x
      /\ \A u \in DOMAIN p.exits : u # t => new[u] = p.exits[u]
    BY <1>1, <1>5, TableChanged
<1> HIDE DEF new
<1>10. \A u \in DOMAIN new : IF u = t THEN Waiting(new[u], a) ELSE u \in DOMAIN p.exits /\ new[u] = p.exits[u]
    BY <1>7, <1>9
<1>11. PlasmaInv([p EXCEPT !.exits = new], [w EXCEPT ![t] = a])
    BY <1>1, <1>6, <1>8, <1>9, <1>10, ExitsChange
<1>12. [w EXCEPT ![t] = a][t] = a
    BY <1>1 DEF PlasmaInv
<1> QED
    BY <1>3, <1>4, <1>6, <1>11, <1>12 DEF asked

(* An exit that is over is paid unless it was challenged, and is due when it is paid *)
LEMMA FinalizeKeeps ==
    ASSUME NEW p, NEW w, PlasmaInv(p, w), NEW t \in DOMAIN p.exits, p.current >= p.exits[t].end
    PROVE  LET v == IF p.exits[t].challenged THEN w ELSE [w EXCEPT ![t].payouts = @ + 1]
           IN  /\ PlasmaInv([p EXCEPT !.exits = Removed(@, t)], v)
               /\ \A u \in PlasmaKeys : v[u].payouts # w[u].payouts =>
                     /\ w[u].payouts < w[u].requests
                     /\ ~w[u].answered /\ p.current >= w[u].from + w[u].wait
<1> DEFINE old == p.exits[t]
           asked == w[t]
           a == IF old.challenged THEN asked ELSE [asked EXCEPT !.payouts = @ + 1]
           new == Removed(p.exits, t)
           v == IF old.challenged THEN w ELSE [w EXCEPT ![t].payouts = @ + 1]
<1>1. /\ t \in PlasmaKeys /\ old \in PlasmaExit /\ asked \in Asked
      /\ p.exits \in Tables(PlasmaKeys, PlasmaExit)
    BY PlasmaParts
<1>2. Waiting(old, asked)
    BY DEF PlasmaInv
<1>3. w \in [PlasmaKeys -> Asked]
    BY DEF PlasmaInv
<1>4. v = [w EXCEPT ![t] = a]
    <2>1. CASE old.challenged
        <3>1. a = w[t] /\ v = w
            BY <2>1
        <3> QED
            BY <1>1, <1>3, <3>1
    <2>2. CASE ~old.challenged
        BY <2>2
    <2> QED
        BY <2>1, <2>2
<1>5. [p EXCEPT !.exits = Removed(@, t)] = [p EXCEPT !.exits = new]
    OBVIOUS
<1>6. v[t] = a /\ \A u \in PlasmaKeys : u # t => v[u] = w[u]
    <2> HIDE DEF v, a
    <2> QED
        BY <1>1, <1>3, <1>4
<1> HIDE DEF v, old, asked
<1>7. asked.payouts \in Nat /\ asked.requests \in Nat /\ asked.payouts < asked.requests
    BY <1>1, <1>2 DEF Asked, Waiting
<1>8. a \in Asked /\ a.payouts <= a.requests
    <2>1. CASE old.challenged
        BY <1>1, <1>7, <2>1
    <2>2. CASE ~old.challenged
        <3>1. a = [asked EXCEPT !.payouts = @ + 1]
            BY <2>2
        <3>2. a \in Asked /\ a.payouts = asked.payouts + 1 /\ a.requests = asked.requests
            BY <1>1, <3>1 DEF Asked
        <3> QED
            BY <1>7, <3>2
    <2> QED
        BY <2>1, <2>2
<1>9. new \in Tables(PlasmaKeys, PlasmaExit)
    BY <1>1, TableRemoved
<1>10. \A u \in DOMAIN new : IF u = t THEN Waiting(new[u], a) ELSE u \in DOMAIN p.exits /\ new[u] = p.exits[u]
    BY DEF Removed
<1>11. PlasmaInv([p EXCEPT !.exits = new], v)
    <2> HIDE DEF new, a
    <2> QED
        BY <1>1, <1>4, <1>8, <1>9, <1>10, ExitsChange
<1>12. ASSUME NEW u \in PlasmaKeys, v[u].payouts # w[u].payouts
       PROVE  /\ w[u].payouts < w[u].requests
              /\ ~w[u].answered /\ p.current >= w[u].from + w[u].wait
    <2>1. u = t
        BY <1>6, <1>12
    <2>2. ~old.challenged
        <3>1. old.challenged => v[t] = w[t]
            BY <1>6 DEF asked
        <3> QED
            BY <1>12, <2>1, <3>1
    <2>3. asked.payouts < asked.requests /\ old.end = asked.from + asked.wait /\ old.challenged = asked.answered
        BY <1>2 DEF Waiting
    <2> QED
        BY <2>1, <2>2, <2>3 DEF asked, old
<1> QED
    BY <1>5, <1>11, <1>12 DEF v, old

-----------------------------------------------------------------------------
(* The three together *)
RollupsInv == OptimisticInv(rollup, draft) /\ ZkInv(zk, zkDraft) /\ PlasmaInv(plasma, withdrawn)

(* What the steps of the optimistic rollup keep; final batches stay in each *)
LEMMA RollupSteps ==
    ASSUME RollupsInv, RollupStep
    PROVE  /\ OptimisticInv(rollup, draft)' /\ FinalBatchesStay
           /\ UNCHANGED <<zk, zkDraft, plasma, withdrawn>>
<1>1. OptimisticInv(rollup, draft)
    BY DEF RollupsInv
<1>2. ASSUME rollup'.batches = rollup.batches, rollup'.current = rollup.current PROVE FinalBatchesStay
    <2>1. \A n \in DOMAIN rollup.batches : n \in Nat
        <3>1. rollup.batches \in Tables(BatchIds, KnownBatch)
            BY <1>1 DEF OptimisticInv, RollupType
        <3>2. DOMAIN rollup.batches \subseteq BatchIds
            BY <3>1, TableIs
        <3> QED
            BY <3>2 DEF BatchIds
    <2>2. rollup.current \in Nat
        BY <1>1 DEF OptimisticInv, RollupType
    <2>3. \A n \in DOMAIN rollup.batches : rollup.batches[n].finalized => ~(n > rollup.current)
        BY <1>1 DEF OptimisticInv
    <2> QED
        BY <1>2, <2>1, <2>2, <2>3 DEF FinalBatchesStay
<1>3. rollup \in RollupType
    BY <1>1 DEF OptimisticInv
<1>4. ASSUME NEW t \in RollupTx, AddRollupTransaction(t)
      PROVE  OptimisticInv(rollup, draft)' /\ FinalBatchesStay /\ UNCHANGED <<zk, zkDraft, plasma, withdrawn>>
    <2>1. rollup' = [rollup EXCEPT !.pending = Append(@, t)] /\ draft' = draft
        BY <1>4 DEF AddRollupTransaction
    <2>2. OptimisticInv([rollup EXCEPT !.pending = Append(@, t)], draft)
        BY <1>1, OptimisticPlain
    <2>3. OptimisticInv(rollup', draft')
        BY <2>1, <2>2
    <2>4. rollup'.batches = rollup.batches /\ rollup'.current = rollup.current
        BY <1>3, <2>1 DEF RollupType
    <2> QED
        BY <1>2, <1>4, <2>3, <2>4 DEF AddRollupTransaction
<1>5. ASSUME NEW signed \in BOOLEAN,
             NEW after \in {RollupStateRoot(rollup.root, rollup.pending), <<"wrong">>},
             CreateBatch(after, signed)
      PROVE  OptimisticInv(rollup, draft)' /\ FinalBatchesStay /\ UNCHANGED <<zk, zkDraft, plasma, withdrawn>>
    <2> DEFINE d == [id |-> rollup.current + 1, before |-> rollup.root, after |-> after,
                     txs |-> rollup.pending, signed |-> signed]
    <2>1. rollup' = [rollup EXCEPT !.pending = <<>>] /\ draft' = d /\ rollup.current < MaxBatches
        BY <1>5 DEF CreateBatch
    <2>2. OptimisticInv([rollup EXCEPT !.pending = <<>>], d)
        BY <1>1, <2>1, OptimisticPlain
    <2> HIDE DEF d
    <2>3. OptimisticInv(rollup', draft')
        BY <2>1, <2>2
    <2>4. rollup'.batches = rollup.batches /\ rollup'.current = rollup.current
        BY <1>3, <2>1 DEF RollupType
    <2> QED
        BY <1>2, <1>5, <2>3, <2>4 DEF CreateBatch
<1>6. ASSUME SubmitBatch
      PROVE  OptimisticInv(rollup, draft)' /\ FinalBatchesStay /\ UNCHANGED <<zk, zkDraft, plasma, withdrawn>>
    <2> DEFINE entry == [batch |-> draft, submitted |-> BlockHeight, finalized |-> FALSE, challenged |-> FALSE]
               s == [rollup EXCEPT !.batches = Recorded(@, draft.id, entry), !.current = draft.id,
                                   !.root = draft.after]
    <2>1. /\ draft # None /\ draft.id = rollup.current + 1 /\ draft' = draft
          /\ rollup.current > 0 => draft.before = rollup.root
        BY <1>6 DEF SubmitBatch
    <2>2. rollup' = s
        BY <1>6 DEF SubmitBatch
    <2>3. OptimisticInv(s, draft) /\ \A n \in DOMAIN rollup.batches : rollup.batches[n].finalized =>
                                        s.batches[n] = rollup.batches[n] /\ n <= s.current
        BY <1>1, <2>1, SubmitKeeps
    <2> HIDE DEF s
    <2> QED
        BY <1>6, <2>1, <2>2, <2>3 DEF SubmitBatch, FinalBatchesStay
<1>7. ASSUME NEW id \in DOMAIN rollup.batches, NEW p \in FraudProofs(rollup.batches[id].batch),
             SubmitFraudProof(id, p)
      PROVE  OptimisticInv(rollup, draft)' /\ FinalBatchesStay /\ UNCHANGED <<zk, zkDraft, plasma, withdrawn>>
    <2>0. rollup.batches[id].batch.txs # <<>>
        <3>1. rollup.batches \in Tables(BatchIds, KnownBatch)
            BY <1>3 DEF RollupType
        <3>2. rollup.batches[id].batch \in BatchType
            <4>1. rollup.batches[id] \in KnownBatch
                BY <3>1, TableIs
            <4> QED
                BY <4>1 DEF KnownBatch
        <3> QED
            BY <1>7, <3>2, ProofNamesTransaction DEF SubmitFraudProof
    <2> DEFINE marked == [rollup EXCEPT !.batches[id].challenged = TRUE]
               s == IF id # rollup.current THEN marked
                    ELSE [marked EXCEPT !.root = rollup.batches[id].batch.before, !.current = @ - 1]
    <2>1. ~rollup.batches[id].finalized /\ draft' = draft
        BY <1>7 DEF SubmitFraudProof, Challengeable
    <2>2. rollup' = s
        BY <1>7 DEF SubmitFraudProof
    <2>3. OptimisticInv(s, draft) /\ \A n \in DOMAIN rollup.batches : rollup.batches[n].finalized =>
                                        s.batches[n] = rollup.batches[n] /\ n <= s.current
        BY <1>1, <2>0, <2>1, FraudKeeps
    <2> HIDE DEF s
    <2> QED
        BY <1>7, <2>1, <2>2, <2>3 DEF SubmitFraudProof, FinalBatchesStay
<1>8. ASSUME NEW id \in DOMAIN rollup.batches, FinalizeBatch(id)
      PROVE  OptimisticInv(rollup, draft)' /\ FinalBatchesStay /\ UNCHANGED <<zk, zkDraft, plasma, withdrawn>>
    <2> DEFINE s == [rollup EXCEPT !.batches[id].finalized = TRUE]
    <2>1. ~rollup.batches[id].challenged /\ draft' = draft /\ rollup' = s
        BY <1>8 DEF FinalizeBatch
    <2>2. OptimisticInv(s, draft) /\ \A n \in DOMAIN rollup.batches : rollup.batches[n].finalized =>
                                        s.batches[n] = rollup.batches[n] /\ n <= s.current
        BY <1>1, <2>1, FinalKeeps
    <2> HIDE DEF s
    <2> QED
        BY <1>8, <2>1, <2>2 DEF FinalizeBatch, FinalBatchesStay
<1>9. ASSUME NEW p \in Periods, SetRollupPeriod(p)
      PROVE  OptimisticInv(rollup, draft)' /\ FinalBatchesStay /\ UNCHANGED <<zk, zkDraft, plasma, withdrawn>>
    <2>1. rollup' = [rollup EXCEPT !.period = p] /\ draft' = draft
        BY <1>9 DEF SetRollupPeriod
    <2>2. OptimisticInv([rollup EXCEPT !.period = p], draft)
        BY <1>1, OptimisticPlain
    <2>3. OptimisticInv(rollup', draft')
        BY <2>1, <2>2
    <2>4. rollup'.batches = rollup.batches /\ rollup'.current = rollup.current
        BY <1>3, <2>1 DEF RollupType
    <2> QED
        BY <1>2, <1>9, <2>3, <2>4 DEF SetRollupPeriod
<1> QED
    BY <1>4, <1>5, <1>6, <1>7, <1>8, <1>9 DEF RollupStep

(* What the steps of the zk rollup keep *)
LEMMA ZkSteps ==
    ASSUME RollupsInv, ZkStep
    PROVE  ZkInv(zk, zkDraft)' /\ UNCHANGED <<rollup, draft, plasma, withdrawn>>
<1>1. ZkInv(zk, zkDraft) /\ zk \in ZkType /\ (zkDraft = None \/ zkDraft \in ZkBatch)
    BY DEF RollupsInv, ZkInv
<1>2. /\ zk.batches \in Tables(Nat, KnownZk) /\ zk.exits \in Tables(Nat, Marked)
      /\ zk.pending \in Seq(ZkTx) /\ zk.root \in SUBSET Nat
    BY <1>1 DEF ZkType
<1>3. ASSUME zk' \in ZkType, zk'.current = zk.current, zk'.root = zk.root, zk'.batches = zk.batches,
             zkDraft' = zkDraft
      PROVE  ZkInv(zk', zkDraft')
    BY <1>1, <1>3, ZkPlain
<1>4. ASSUME NEW t \in ZkTx, NEW witness, AddZkTransaction(t, witness)
      PROVE  ZkInv(zk, zkDraft)' /\ UNCHANGED <<rollup, draft, plasma, withdrawn>>
    <2>1. zk' = [zk EXCEPT !.pending = Append(@, t)] /\ zkDraft' = zkDraft
        BY <1>4 DEF AddZkTransaction
    <2>2. Append(zk.pending, t) \in Seq(ZkTx)
        BY <1>2
    <2>3. zk' \in ZkType /\ zk'.current = zk.current /\ zk'.root = zk.root /\ zk'.batches = zk.batches
        BY <1>1, <2>1, <2>2 DEF ZkType
    <2> QED
        BY <1>3, <1>4, <2>1, <2>3 DEF AddZkTransaction
<1>5. ASSUME CreateZkBatch
      PROVE  ZkInv(zk, zkDraft)' /\ UNCHANGED <<rollup, draft, plasma, withdrawn>>
    <2> DEFINE after == ApplyTransactions(zk.root, zk.pending)
               e == [id |-> zk.current + 1, before |-> zk.root, after |-> after, txs |-> zk.pending,
                     signed |-> FALSE, proof |-> None]
               s == [zk EXCEPT !.root = after, !.pending = <<>>]
    <2>1. zk.current < MaxZkBatches /\ zkDraft' = e /\ zk' = s
        BY <1>5 DEF CreateZkBatch
    <2>2. ZkInv(s, e)
        BY <1>1, <2>1, ZkCreateKeeps
    <2> HIDE DEF s, e
    <2> QED
        BY <1>5, <2>1, <2>2 DEF CreateZkBatch
<1>6. ASSUME SubmitZkBatch
      PROVE  ZkInv(zk, zkDraft)' /\ UNCHANGED <<rollup, draft, plasma, withdrawn>>
    <2> DEFINE entry == [batch |-> zkDraft, finalized |-> FALSE]
               s == [zk EXCEPT !.batches = Recorded(@, zkDraft.id, entry), !.current = zkDraft.id]
    <2>1. zkDraft # None /\ zkDraft.id = zk.current + 1 /\ zkDraft.after = zk.root /\ zkDraft' = zkDraft
        BY <1>6 DEF SubmitZkBatch
    <2>2. zk' = s
        BY <1>6 DEF SubmitZkBatch
    <2>3. ZkInv(s, zkDraft)
        BY <1>1, <2>1, ZkSubmitKeeps
    <2> HIDE DEF s
    <2> QED
        BY <1>6, <2>1, <2>2, <2>3 DEF SubmitZkBatch
<1>7. ASSUME NEW signsFirst \in BOOLEAN, CompleteZkBatch(signsFirst)
      PROVE  ZkInv(zk, zkDraft)' /\ UNCHANGED <<rollup, draft, plasma, withdrawn>>
    <2> DEFINE signed == [zkDraft EXCEPT !.signed = TRUE]
               proved == BatchInputs(IF signsFirst THEN signed ELSE zkDraft)
    <2>1. zkDraft # None /\ zk' = zk /\ zkDraft' = [signed EXCEPT !.proof = proved]
        BY <1>7 DEF CompleteZkBatch
    <2>2. zkDraft \in ZkBatch
        BY <1>1, <2>1
    <2>3. signed \in ZkBatch /\ signed.id = zkDraft.id /\ signed.before = zkDraft.before
        BY <2>2 DEF ZkBatch
    <2> HIDE DEF signed
    <2>4. \A b \in ZkBatch : BatchInputs(b) \in ZkInputs
        BY DEF ZkBatch, ZkInputs, BatchInputs
    <2>5. proved \in ZkInputs
        BY <2>2, <2>3, <2>4
    <2> HIDE DEF proved
    <2>6. /\ zkDraft' \in ZkBatch /\ zkDraft'.id = zkDraft.id /\ zkDraft'.before = zkDraft.before
        BY <2>1, <2>3, <2>5 DEF ZkBatch
    <2>7. ZkInv(zk', zkDraft')
        BY <1>1, <2>1, <2>6, ZkPlain
    <2> QED
        BY <1>7, <2>7 DEF CompleteZkBatch
<1>8. ASSUME NEW id \in DOMAIN zk.batches, FinalizeZkBatch(id)
      PROVE  ZkInv(zk, zkDraft)' /\ UNCHANGED <<rollup, draft, plasma, withdrawn>>
    <2> DEFINE old == zk.batches[id]
               e == [old EXCEPT !.finalized = TRUE]
               new == [zk.batches EXCEPT ![id] = e]
    <2>1. zk' = [zk EXCEPT !.batches = new] /\ zkDraft' = zkDraft
        BY <1>8 DEF FinalizeZkBatch
    <2>2. old \in KnownZk
        <3>1. zk.batches \in [DOMAIN zk.batches -> KnownZk]
            BY <1>2, TableIs
        <3> QED
            BY <3>1
    <2> HIDE DEF old
    <2>3. e \in KnownZk /\ e.batch = old.batch
        BY <2>2 DEF KnownZk
    <2> HIDE DEF e
    <2>4. /\ new \in Tables(Nat, KnownZk) /\ DOMAIN new = DOMAIN zk.batches /\ new[id] = e
          /\ \A x \in DOMAIN zk.batches : x # id => new[x] = zk.batches[x]
        BY <1>2, <2>3, TableChanged
    <2> HIDE DEF new
    <2>5. zk' \in ZkType /\ zk'.current = zk.current /\ zk'.root = zk.root /\ zk'.batches = new
        BY <1>1, <2>1, <2>4 DEF ZkType
    <2>6. \A n \in DOMAIN zk.batches : new[n].batch = zk.batches[n].batch
        BY <2>3, <2>4 DEF old
    <2>7. DOMAIN zk'.batches = DOMAIN zk.batches
          /\ \A n \in DOMAIN zk.batches : zk'.batches[n].batch = zk.batches[n].batch
        BY <2>4, <2>5, <2>6
    <2>8. ZkInv(zk', zkDraft')
        BY <1>1, <2>1, <2>5, <2>7, ZkPlain
    <2> QED
        BY <1>8, <2>8 DEF FinalizeZkBatch
<1>9. ASSUME NEW account \in zk.root, RequestZkExit(account)
      PROVE  ZkInv(zk, zkDraft)' /\ UNCHANGED <<rollup, draft, plasma, withdrawn>>
    <2> DEFINE new == Recorded(zk.exits, account, "pending")
    <2>1. zk' = [zk EXCEPT !.exits = new] /\ zkDraft' = zkDraft
        BY <1>9 DEF RequestZkExit
    <2>2. new \in Tables(Nat, Marked)
        <3>1. "pending" \in Marked /\ account \in Nat
            BY <1>2 DEF Marked
        <3> QED
            BY <1>2, <3>1, TableRecorded
    <2> HIDE DEF new
    <2>3. zk' \in ZkType /\ zk'.current = zk.current /\ zk'.root = zk.root /\ zk'.batches = zk.batches
        BY <1>1, <2>1, <2>2 DEF ZkType
    <2> QED
        BY <1>3, <1>9, <2>1, <2>3 DEF RequestZkExit
<1>10. ASSUME NEW account \in DOMAIN zk.exits, ProcessZkExit(account)
       PROVE  ZkInv(zk, zkDraft)' /\ UNCHANGED <<rollup, draft, plasma, withdrawn>>
    <2> DEFINE new == [zk.exits EXCEPT ![account] = "processed"]
    <2>1. zk' = [zk EXCEPT !.exits = new] /\ zkDraft' = zkDraft
        BY <1>10 DEF ProcessZkExit
    <2>2. new \in Tables(Nat, Marked)
        <3>1. "processed" \in Marked
            BY DEF Marked
        <3> QED
            BY <1>2, <3>1, TableChanged
    <2> HIDE DEF new
    <2>3. zk' \in ZkType /\ zk'.current = zk.current /\ zk'.root = zk.root /\ zk'.batches = zk.batches
        BY <1>1, <2>1, <2>2 DEF ZkType
    <2> QED
        BY <1>3, <1>10, <2>1, <2>3 DEF ProcessZkExit
<1> QED
    BY <1>4, <1>5, <1>6, <1>7, <1>8, <1>9, <1>10 DEF ZkStep

(* What the steps of the plasma chain keep; a payout is due *)
LEMMA PlasmaSteps ==
    ASSUME RollupsInv, PlasmaStep
    PROVE  PlasmaInv(plasma, withdrawn)' /\ ExitsAreDue /\ UNCHANGED <<rollup, draft, zk, zkDraft>>
<1>1. PlasmaInv(plasma, withdrawn)
    BY DEF RollupsInv
<1>2. DOMAIN withdrawn = PlasmaKeys /\ withdrawn \in [PlasmaKeys -> Asked]
    BY <1>1 DEF PlasmaInv
<1>3. ASSUME \A t \in PlasmaKeys : withdrawn'[t].payouts = withdrawn[t].payouts PROVE ExitsAreDue
    BY <1>2, <1>3 DEF ExitsAreDue
<1>4. ASSUME NEW txs \in PlasmaTxs, SubmitBlock(txs)
      PROVE  PlasmaInv(plasma, withdrawn)' /\ ExitsAreDue /\ UNCHANGED <<rollup, draft, zk, zkDraft>>
    <2> DEFINE s == [plasma EXCEPT !.blocks = Recorded(@, plasma.current + 1, txs), !.current = @ + 1]
    <2>1. plasma' = s /\ withdrawn' = withdrawn
        BY <1>4 DEF SubmitBlock
    <2>2. PlasmaInv(s, withdrawn)
        BY <1>1, BlocksKeep
    <2> HIDE DEF s
    <2> QED
        BY <1>3, <1>4, <2>1, <2>2 DEF SubmitBlock
<1>5. ASSUME NEW n \in DOMAIN plasma.blocks, NEW t \in plasma.blocks[n], RequestExit(t, n)
      PROVE  PlasmaInv(plasma, withdrawn)' /\ ExitsAreDue /\ UNCHANGED <<rollup, draft, zk, zkDraft>>
    <2> DEFINE x == [block |-> n, end |-> plasma.current + plasma.period, challenged |-> FALSE]
               s == [plasma EXCEPT !.exits = Recorded(@, t, x)]
               a == [requests |-> withdrawn[t].requests + 1, payouts |-> withdrawn[t].payouts,
                     from |-> plasma.current, wait |-> plasma.period, answered |-> FALSE]
               v == [withdrawn EXCEPT ![t] = a]
    <2>1. plasma' = s /\ withdrawn' = v
        BY <1>5 DEF RequestExit
    <2>2. t \in PlasmaKeys
        <3>1. plasma.blocks[n] \in PlasmaTxs
            BY <1>1, PlasmaParts
        <3> QED
            BY <3>1 DEF PlasmaKeys
    <2>3. PlasmaInv(s, v) /\ v[t].payouts = withdrawn[t].payouts
        BY <1>1, <2>2, RequestKeeps
    <2> HIDE DEF s, a
    <2>4. \A u \in PlasmaKeys : u # t => v[u] = withdrawn[u]
        BY <1>2
    <2> HIDE DEF v
    <2> QED
        BY <1>3, <1>5, <2>1, <2>3, <2>4 DEF RequestExit
<1>6. ASSUME NEW t \in DOMAIN plasma.exits, ChallengeExit(t)
      PROVE  PlasmaInv(plasma, withdrawn)' /\ ExitsAreDue /\ UNCHANGED <<rollup, draft, zk, zkDraft>>
    <2> DEFINE s == [plasma EXCEPT !.exits[t].challenged = TRUE]
               v == [withdrawn EXCEPT ![t].answered = TRUE]
    <2>1. plasma' = s /\ withdrawn' = v
        BY <1>6 DEF ChallengeExit
    <2>2. PlasmaInv(s, v) /\ v[t].payouts = withdrawn[t].payouts
        BY <1>1, ChallengeKeeps
    <2> HIDE DEF s
    <2>3. \A u \in PlasmaKeys : u # t => v[u] = withdrawn[u]
        BY <1>2
    <2> HIDE DEF v
    <2>4. ExitsAreDue
        BY <1>3, <2>1, <2>2, <2>3
    <2>5. PlasmaInv(plasma', withdrawn')
        BY <2>1, <2>2
    <2> QED
        BY <1>6, <2>4, <2>5 DEF ChallengeExit
<1>7. ASSUME NEW t \in DOMAIN plasma.exits, FinalizeExit(t)
      PROVE  PlasmaInv(plasma, withdrawn)' /\ ExitsAreDue /\ UNCHANGED <<rollup, draft, zk, zkDraft>>
    <2> DEFINE s == [plasma EXCEPT !.exits = Removed(@, t)]
               v == IF plasma.exits[t].challenged THEN withdrawn ELSE [withdrawn EXCEPT ![t].payouts = @ + 1]
    <2>1. plasma' = s /\ withdrawn' = v /\ plasma.current >= plasma.exits[t].end
        BY <1>7 DEF FinalizeExit
    <2>2. /\ PlasmaInv(s, v)
          /\ \A u \in PlasmaKeys : v[u].payouts # withdrawn[u].payouts =>
                /\ withdrawn[u].payouts < withdrawn[u].requests
                /\ ~withdrawn[u].answered /\ plasma.current >= withdrawn[u].from + withdrawn[u].wait
        BY <1>1, <2>1, FinalizeKeeps
    <2> HIDE DEF s, v
    <2>3. ExitsAreDue
        BY <1>2, <2>1, <2>2 DEF ExitsAreDue
    <2>4. PlasmaInv(plasma', withdrawn')
        BY <2>1, <2>2
    <2> QED
        BY <1>7, <2>3, <2>4 DEF FinalizeExit
<1>8. ASSUME NEW p \in Periods, SetPlasmaPeriod(p)
      PROVE  PlasmaInv(plasma, withdrawn)' /\ ExitsAreDue /\ UNCHANGED <<rollup, draft, zk, zkDraft>>
    <2>1. plasma' = [plasma EXCEPT !.period = p] /\ withdrawn' = withdrawn
        BY <1>8 DEF SetPlasmaPeriod
    <2>2. PlasmaInv([plasma EXCEPT !.period = p], withdrawn)
        BY <1>1, BlocksKeep
    <2> QED
        BY <1>3, <1>8, <2>1, <2>2 DEF SetPlasmaPeriod
<1> QED
    BY <1>4, <1>5, <1>6, <1>7, <1>8 DEF PlasmaStep

(* A final batch that nothing touches stays, and no payout is none that is not due *)
LEMMA NothingIsLost ==
    ASSUME RollupsInv
    PROVE  /\ UNCHANGED <<rollup, draft>> => FinalBatchesStay
           /\ UNCHANGED <<plasma, withdrawn>> => ExitsAreDue
<1>1. OptimisticInv(rollup, draft)
    BY DEF RollupsInv
<1>2. \A n \in DOMAIN rollup.batches : rollup.batches[n].finalized => n <= rollup.current
    <2>1. rollup.batches \in Tables(BatchIds, KnownBatch) /\ rollup.current \in Nat
        BY <1>1 DEF OptimisticInv, RollupType
    <2>2. DOMAIN rollup.batches \subseteq BatchIds
        BY <2>1, TableIs
    <2>3. \A n \in DOMAIN rollup.batches : rollup.batches[n].finalized => ~(n > rollup.current)
        BY <1>1 DEF OptimisticInv
    <2> QED
        BY <2>1, <2>2, <2>3 DEF BatchIds
<1> QED
    BY <1>2 DEF FinalBatchesStay, ExitsAreDue

(* Every step keeps the invariant, what is final, and pays what is due *)
LEMMA RollupsStep ==
    ASSUME RollupsInv, [RollupStep \/ ZkStep \/ PlasmaStep]_rollupVars
    PROVE  RollupsInv' /\ FinalBatchesStay /\ ExitsAreDue
<1>1. CASE RollupStep
    BY <1>1, RollupSteps, NothingIsLost DEF RollupsInv
<1>2. CASE ZkStep
    BY <1>2, ZkSteps, NothingIsLost DEF RollupsInv
<1>3. CASE PlasmaStep
    BY <1>3, PlasmaSteps, NothingIsLost DEF RollupsInv
<1>4. CASE UNCHANGED rollupVars
    BY <1>4, NothingIsLost DEF RollupsInv, rollupVars
<1> QED
    BY <1>1, <1>2, <1>3, <1>4

(* The generated proof of a signed batch with a wrong root convinces the verifier exactly when *)
(* the batch has transactions; the chain of                                                    *)
(* batches and the Merkle paths are what the invariant and EveryPathClimbs say                  *)
LEMMA InvariantChains == ASSUME RollupsInv PROVE BatchesChain
<1>1. OptimisticInv(rollup, draft) /\ ZkInv(zk, zkDraft)
    BY DEF RollupsInv
<1>2. ASSUME NEW n \in DOMAIN rollup.batches, NEW b, b = rollup.batches[n].batch,
             b.signed, ~VerifyBatch(b)
      PROVE  VerifyFraudProof(b, GenerateFraudProof(b)) <=> b.txs # <<>>
    <2>1. rollup.batches \in Tables(BatchIds, KnownBatch)
        BY <1>1 DEF OptimisticInv, RollupType
    <2>2. rollup.batches[n] \in KnownBatch
        BY <2>1, TableIs
    <2>3. b \in BatchType
        BY <1>2, <2>2 DEF KnownBatch
    <2>4. b.txs \in Seq(RollupTx)
        BY <2>3 DEF BatchType
    <2>5. CASE b.txs = <<>>
        <3>1. GenerateFraudProof(b).index = 0 /\ Len(b.txs) = 0
            BY <2>5 DEF GenerateFraudProof
        <3> QED
            BY <2>5, <3>1 DEF VerifyFraudProof
    <2>6. CASE b.txs # <<>>
        <3>1. Len(b.txs) \in Nat /\ Len(b.txs) > 0
            BY <2>4, <2>6
        <3>2. SubSeq(b.txs, 1, Len(b.txs)) = b.txs
            BY <2>4
        <3>3. (Len(b.txs) - 1) + 1 = Len(b.txs) /\ Len(b.txs) - 1 < Len(b.txs)
            BY <3>1
        <3>4. RollupStateRoot(b.before, b.txs) # b.after
            BY <1>2, <2>6 DEF VerifyBatch
        <3> QED
            BY <2>6, <3>2, <3>3, <3>4 DEF VerifyFraudProof, GenerateFraudProof
    <2> QED
        BY <2>5, <2>6
<1>3. ASSUME NEW n \in 1 .. zk.current
      PROVE  /\ zk.batches[n].batch.after \subseteq zk.root
             /\ n > 1 => zk.batches[n - 1].batch.after \subseteq zk.batches[n].batch.before
    <2>1. n > 1 => n \in 2 .. zk.current
        OBVIOUS
    <2> QED
        BY <1>1, <2>1 DEF ZkInv
<1>4. \A account \in zk.root : VerifyExitProof(account, zk.root)
    <2>1. zk.root \in SUBSET Nat /\ IsFiniteSet(zk.root)
        BY <1>1 DEF ZkInv, ZkType
    <2> QED
        BY <2>1, EveryPathClimbs
<1>5. /\ 1 .. rollup.current \subseteq DOMAIN rollup.batches
      /\ rollup.current > 0 => rollup.root = rollup.batches[rollup.current].batch.after
      /\ \A n \in 2 .. rollup.current : rollup.batches[n].batch.before = rollup.batches[n - 1].batch.after
      /\ \A n \in DOMAIN rollup.batches : n > rollup.current => rollup.batches[n].challenged
      /\ \A n \in DOMAIN rollup.batches :
            rollup.batches[n].batch.txs = <<>> => ~rollup.batches[n].challenged
    BY <1>1 DEF OptimisticInv
<1> QED
    BY <1>2, <1>3, <1>4, <1>5 DEF BatchesChain

(* The invariant holds throughout: batches chain up to the current one and are challenged above, *)
(* the zk state grows from batch to batch, an exit that waits is its last request                *)
THEOREM RollupsInductive == RollupsSpec => []RollupsInv
<1>1. InitRollups => RollupsInv
    BY OptimisticBegins, ZkBegins, PlasmaBegins DEF InitRollups, RollupsInv
<1>2. RollupsInv /\ [RollupStep \/ ZkStep \/ PlasmaStep]_rollupVars => RollupsInv'
    BY RollupsStep
<1> QED
    BY <1>1, <1>2, PTL DEF RollupsSpec

(* The tables of the three chains are keyed by what was submitted *)
THEOREM RollupsTypeCorrect == RollupsSpec => []RollupsTypeOK
<1>1. ASSUME RollupsInv PROVE RollupsTypeOK
    <2>1. /\ rollup.batches \in Tables(BatchIds, KnownBatch) /\ rollup.current \in 0 .. MaxBatches
          /\ DOMAIN zk.batches = 1 .. zk.current
          /\ DOMAIN plasma.blocks = 1 .. plasma.current
          /\ plasma.exits \in Tables(PlasmaKeys, PlasmaExit)
        BY <1>1 DEF RollupsInv, OptimisticInv, RollupType, ZkInv, PlasmaInv, PlasmaType
    <2>2. DOMAIN rollup.batches \subseteq BatchIds /\ DOMAIN plasma.exits \subseteq PlasmaKeys
        BY <2>1, TableIs
    <2> QED
        BY <2>1, <2>2 DEF RollupsTypeOK, BatchIds, PlasmaKeys
<1> QED
    BY <1>1, RollupsInductive, PTL

(* Batches chain, an invalid one is open to its proof exactly if it has transactions, an empty  *)
(* one is never challenged, every account has its exit path, what is                            *)
(* final stays, and an exit is paid once per request, after its wait and unanswered             *)
THEOREM RollupsFinalStands == RollupsSpec => FinalStands
<1>1. RollupsInv => BatchesChain
    BY InvariantChains
<1>2. RollupsInv /\ [RollupStep \/ ZkStep \/ PlasmaStep]_rollupVars
          => [FinalBatchesStay /\ ExitsAreDue]_rollupVars
    BY RollupsStep
<1> QED
    BY <1>1, <1>2, RollupsInductive, PTL DEF RollupsSpec, FinalStands

-----------------------------------------------------------------------------
(* The tables of a pool agree, and the keys of its queue are numbers and tell its elements apart *)
PoolAgrees(mp) ==
    /\ Pooled(mp) \subseteq Tx /\ IsFiniteSet(Pooled(mp)) /\ IsFiniteSet(mp.queue)
    /\ \A t \in Pooled(mp) : /\ mp.entries[t].time \in 0 .. MaxTime
                             /\ mp.entries[t].ancestorFee \in Nat /\ mp.entries[t].ancestorSize \in Nat \ {0}
    /\ mp.total = Sum([t \in Pooled(mp) |-> t.size])
    /\ DOMAIN mp.spent = UNION {t.ins : t \in Pooled(mp)}
    /\ \A t \in Pooled(mp) : \A o \in t.ins : mp.spent[o] = t
    /\ \A x \in mp.queue : x.tx \in Pooled(mp) /\ x.key = Key(mp.entries[x.tx])
    /\ \A x, y \in mp.queue : x.key = y.key => x = y
    /\ mp.children \subseteq Pooled(mp) \X Pooled(mp)
    /\ mp.children \subseteq mp.parents /\ mp.parents \subseteq Tx \X Tx

PoolInv == PoolAgrees(pool) /\ leaving \subseteq Tx /\ clock \in 0 .. MaxTime

-----------------------------------------------------------------------------
(* The keys of the queue are pairs of numbers *)
LEMMA KeyNumbers ==
    ASSUME NEW mp, PoolAgrees(mp), NEW x \in mp.queue
    PROVE  x.key.rate \in Nat /\ x.key.time \in 0 .. MaxTime
<1> DEFINE e == mp.entries[x.tx]
<1>1. /\ x.key = Key(e) /\ e.time \in 0 .. MaxTime
      /\ e.ancestorFee \in Nat /\ e.ancestorSize \in Nat \ {0}
    BY DEF PoolAgrees
<1>2. e.ancestorFee \div e.ancestorSize \in Nat
    <2> HIDE DEF e
    <2> QED
        BY <1>1, Division
<1> QED
    BY <1>1, <1>2 DEF Key

(* The sizes of pooled transactions add up to a number *)
LEMMA TotalIsNumber ==
    ASSUME NEW mp, PoolAgrees(mp)
    PROVE  mp.total \in Nat
<1> DEFINE sizes == [t \in Pooled(mp) |-> t.size]
<1>1. IsFiniteSet(DOMAIN sizes) /\ \A t \in DOMAIN sizes : sizes[t] \in Nat
    BY MempoolAssumption DEF PoolAgrees
<1>2. mp.total = Sum(sizes)
    BY DEF PoolAgrees
<1> HIDE DEF sizes
<1> QED
    BY <1>1, <1>2, FiniteUnits

(* What is left of the tables when some transactions are removed *)
LEMMA LeftAfterRemoval ==
    ASSUME NEW mp, NEW S
    PROVE  LET gone == S \cap Pooled(mp)
               left == RemoveAll(mp, S)
           IN  /\ Pooled(left) = Pooled(mp) \ gone
               /\ \A t \in Pooled(left) : left.entries[t] = mp.entries[t]
               /\ left.queue = {x \in mp.queue : \A t \in gone : x.key # Key(mp.entries[t])}
               /\ DOMAIN left.spent = DOMAIN mp.spent \ UNION {t.ins : t \in gone}
               /\ \A o \in DOMAIN left.spent : left.spent[o] = mp.spent[o]
               /\ left.children = {pair \in mp.children : pair[1] \notin gone /\ pair[2] \notin gone}
               /\ left.parents = {pair \in mp.parents : pair[2] \notin gone}
               /\ left.total = mp.total - Sum([t \in gone |-> t.size])
BY DEF RemoveAll, Pooled, Restrict

(* Removing transactions leaves tables that agree *)
LEMMA RemovalAgrees ==
    ASSUME NEW mp, PoolAgrees(mp), NEW S
    PROVE  PoolAgrees(RemoveAll(mp, S))
<1> DEFINE gone == S \cap Pooled(mp)
           left == RemoveAll(mp, S)
<1>1. /\ Pooled(left) = Pooled(mp) \ gone
      /\ \A t \in Pooled(left) : left.entries[t] = mp.entries[t]
      /\ left.queue = {x \in mp.queue : \A t \in gone : x.key # Key(mp.entries[t])}
      /\ DOMAIN left.spent = DOMAIN mp.spent \ UNION {t.ins : t \in gone}
      /\ \A o \in DOMAIN left.spent : left.spent[o] = mp.spent[o]
      /\ left.children = {pair \in mp.children : pair[1] \notin gone /\ pair[2] \notin gone}
      /\ left.parents = {pair \in mp.parents : pair[2] \notin gone}
      /\ left.total = mp.total - Sum([t \in gone |-> t.size])
    BY LeftAfterRemoval
<1> HIDE DEF left
<1>2. Pooled(left) \subseteq Tx /\ IsFiniteSet(Pooled(left)) /\ IsFiniteSet(left.queue)
    <2>1. Pooled(left) \subseteq Pooled(mp) /\ left.queue \subseteq mp.queue
        BY <1>1
    <2> QED
        BY <2>1, FS_Subset DEF PoolAgrees
<1>3. \A t \in Pooled(left) : /\ left.entries[t].time \in 0 .. MaxTime
                              /\ left.entries[t].ancestorFee \in Nat /\ left.entries[t].ancestorSize \in Nat \ {0}
    BY <1>1 DEF PoolAgrees
<1>4. left.total = Sum([t \in Pooled(left) |-> t.size])
    <2> DEFINE f == [t \in Pooled(mp) |-> t.size]
    <2>1. IsFiniteSet(DOMAIN f) /\ \A t \in DOMAIN f : f[t] \in Nat
        BY MempoolAssumption DEF PoolAgrees
    <2>2. gone \in SUBSET DOMAIN f
        OBVIOUS
    <2>3. /\ Sum([t \in gone |-> f[t]]) \in Nat /\ Sum([t \in DOMAIN f \ gone |-> f[t]]) \in Nat
          /\ Sum(f) = Sum([t \in gone |-> f[t]]) + Sum([t \in DOMAIN f \ gone |-> f[t]])
        <3> HIDE DEF f, gone
        <3> QED
            BY <2>1, <2>2, SumSplit
    <2>4. [t \in gone |-> f[t]] = [t \in gone |-> t.size]
        OBVIOUS
    <2>5. [t \in DOMAIN f \ gone |-> f[t]] = [t \in Pooled(left) |-> t.size]
        BY <1>1
    <2>6. mp.total = Sum(f)
        BY DEF PoolAgrees
    <2> HIDE DEF f
    <2> QED
        BY <1>1, <2>3, <2>4, <2>5, <2>6
<1>5. DOMAIN left.spent = UNION {t.ins : t \in Pooled(left)}
    <2>1. \A t, u \in Pooled(mp) : \A o \in t.ins \cap u.ins : t = u
        BY DEF PoolAgrees
    <2>2. DOMAIN mp.spent = UNION {t.ins : t \in Pooled(mp)}
        BY DEF PoolAgrees
    <2> QED
        BY <1>1, <2>1, <2>2
<1>6. \A t \in Pooled(left) : \A o \in t.ins : left.spent[o] = t
    BY <1>1, <1>5 DEF PoolAgrees
<1>7. \A x \in left.queue : x.tx \in Pooled(left) /\ x.key = Key(left.entries[x.tx])
    <2> TAKE x \in left.queue
    <2>1. /\ x \in mp.queue /\ x.tx \in Pooled(mp) /\ x.key = Key(mp.entries[x.tx])
          /\ \A t \in gone : x.key # Key(mp.entries[t])
        BY <1>1 DEF PoolAgrees
    <2>2. x.tx \notin gone
        BY <2>1
    <2> QED
        BY <1>1, <2>1, <2>2
<1>8. \A x, y \in left.queue : x.key = y.key => x = y
    BY <1>1 DEF PoolAgrees
<1>9. /\ left.children \subseteq Pooled(left) \X Pooled(left)
      /\ left.children \subseteq left.parents /\ left.parents \subseteq Tx \X Tx
    <2>1. /\ mp.children \subseteq Pooled(mp) \X Pooled(mp)
          /\ mp.children \subseteq mp.parents /\ mp.parents \subseteq Tx \X Tx
        BY DEF PoolAgrees
    <2> QED
        BY <1>1, <2>1
<1> QED
    BY <1>2, <1>3, <1>4, <1>5, <1>6, <1>7, <1>8, <1>9 DEF PoolAgrees, left

-----------------------------------------------------------------------------
(* A transaction none of whose inputs is marked enters tables that agree, and they do afterwards *)
LEMMA EntryAgrees ==
    ASSUME NEW mp, PoolAgrees(mp), NEW t \in Tx, t \notin Pooled(mp), t.ins \cap DOMAIN mp.spent = {},
           clock \in 0 .. MaxTime
    PROVE  /\ PoolAgrees(Enter(mp, t))
           /\ Pooled(Enter(mp, t)) = Pooled(mp) \cup {t}
           /\ Enter(mp, t).total = mp.total + t.size
<1> DEFINE new     == [time |-> clock, ancestorFee |-> t.fee, ancestorSize |-> t.size]
           parents == ParentsOf(mp, t)
           links   == {<<p, t>> : p \in parents}
           fees    == [p \in parents |-> mp.entries[p].ancestorFee]
           sizes   == [p \in parents |-> mp.entries[p].ancestorSize]
           entry   == [time |-> clock, ancestorFee |-> t.fee + Sum(fees), ancestorSize |-> t.size + Sum(sizes)]
           queue   == Insert(Erase(Insert(mp.queue, t, new), new), t, entry)
           after   == Enter(mp, t)
<1>1. /\ Pooled(after) = Pooled(mp) \cup {t}
      /\ \A u \in Pooled(mp) : after.entries[u] = mp.entries[u]
      /\ after.entries[t] = entry
      /\ after.queue = queue
      /\ DOMAIN after.spent = DOMAIN mp.spent \cup t.ins
      /\ \A o \in DOMAIN after.spent : after.spent[o] = IF o \in t.ins THEN t ELSE mp.spent[o]
      /\ after.children = mp.children \cup links
      /\ after.parents = mp.parents \cup links
      /\ after.total = mp.total + t.size
    BY DEF Enter, Pooled
<1>2. /\ t.size \in Nat \ {0} /\ t.fee \in Nat
      /\ Pooled(mp) \subseteq Tx /\ IsFiniteSet(Pooled(mp)) /\ IsFiniteSet(mp.queue)
    BY MempoolAssumption DEF PoolAgrees
<1>3. Sum(fees) \in Nat /\ Sum(sizes) \in Nat
    <2>1. parents \subseteq Pooled(mp)
        BY DEF ParentsOf
    <2>2. IsFiniteSet(parents)
        BY <1>2, <2>1, FS_Subset
    <2>3. \A p \in parents : mp.entries[p].ancestorFee \in Nat /\ mp.entries[p].ancestorSize \in Nat
        BY <2>1 DEF PoolAgrees
    <2> HIDE DEF parents
    <2>4. IsFiniteSet(DOMAIN fees) /\ \A p \in DOMAIN fees : fees[p] \in Nat
        BY <2>2, <2>3
    <2>5. IsFiniteSet(DOMAIN sizes) /\ \A p \in DOMAIN sizes : sizes[p] \in Nat
        BY <2>2, <2>3
    <2> HIDE DEF fees, sizes
    <2> QED
        BY <2>4, <2>5, FiniteUnits
<1>4. /\ entry.time \in 0 .. MaxTime /\ entry.ancestorFee \in Nat /\ entry.ancestorSize \in Nat \ {0}
    <2> HIDE DEF fees, sizes
    <2> QED
        BY <1>2, <1>3
<1>5. \A x \in queue : \/ x \in mp.queue /\ x.key # Key(new)
                       \/ x = [tx |-> t, key |-> Key(entry)]
    <2> HIDE DEF entry, new
    <2> QED
        BY DEF Insert, Erase
<1>6. \A x, y \in queue : x.key = y.key => x = y
    <2> DEFINE kept == Erase(Insert(mp.queue, t, new), new)
    <2>1. \A x \in kept : x \in mp.queue
        <3> HIDE DEF new
        <3> QED
            BY DEF Insert, Erase
    <2>2. \A x, y \in kept : x.key = y.key => x = y
        <3> HIDE DEF kept
        <3> QED
            BY <2>1 DEF PoolAgrees
    <2> HIDE DEF kept, entry
    <2>3. queue = Insert(kept, t, entry)
        BY DEF kept
    <2>4. CASE \E x \in kept : x.key = Key(entry)
        <3>1. queue = kept
            BY <2>3, <2>4 DEF Insert
        <3> QED
            BY <2>2, <3>1
    <2>5. CASE ~ \E x \in kept : x.key = Key(entry)
        <3>1. queue = kept \cup {[tx |-> t, key |-> Key(entry)]}
            BY <2>3, <2>5 DEF Insert
        <3>2. \A x \in kept : x.key # Key(entry)
            BY <2>5
        <3> DEFINE k == Key(entry)
                   e == [tx |-> t, key |-> k]
        <3>3. e.key = k /\ \A x \in queue : x \in kept \/ x = e
            BY <3>1
        <3> HIDE DEF e, queue
        <3> QED
            BY <2>2, <3>2, <3>3
    <2> QED
        BY <2>4, <2>5
<1>7. IsFiniteSet(queue)
    <2>1. queue \subseteq mp.queue \cup {[tx |-> t, key |-> Key(entry)]}
        <3> HIDE DEF queue, entry
        <3> QED
            BY <1>5
    <2>2. IsFiniteSet(mp.queue \cup {[tx |-> t, key |-> Key(entry)]})
        <3> HIDE DEF entry
        <3> QED
            BY <1>2, FS_AddElement
    <2> HIDE DEF queue, entry
    <2> QED
        BY <2>1, <2>2, FS_Subset
<1> HIDE DEF after, queue, entry, links
<1>8. Pooled(after) \subseteq Tx /\ IsFiniteSet(Pooled(after)) /\ IsFiniteSet(after.queue)
    <2>1. IsFiniteSet(Pooled(mp) \cup {t})
        BY <1>2, FS_AddElement
    <2> QED
        BY <1>1, <1>2, <1>7, <2>1
<1>9. \A u \in Pooled(after) : /\ after.entries[u].time \in 0 .. MaxTime
                               /\ after.entries[u].ancestorFee \in Nat /\ after.entries[u].ancestorSize \in Nat \ {0}
    <2>1. \A u \in Pooled(mp) : /\ mp.entries[u].time \in 0 .. MaxTime
                                /\ mp.entries[u].ancestorFee \in Nat /\ mp.entries[u].ancestorSize \in Nat \ {0}
        BY DEF PoolAgrees
    <2> QED
        BY <1>1, <1>4, <2>1
<1>10. after.total = Sum([u \in Pooled(after) |-> u.size])
    <2> DEFINE f == [u \in Pooled(mp) |-> u.size]
               g == [u \in Pooled(after) |-> u.size]
    <2>1. IsFiniteSet(DOMAIN f) /\ \A u \in DOMAIN f : f[u] \in Nat
        BY MempoolAssumption DEF PoolAgrees
    <2>2. IsFiniteSet(Units(f))
        <3> HIDE DEF f
        <3> QED
            BY <2>1, FiniteUnits
    <2>3. /\ t \notin DOMAIN f /\ DOMAIN g = DOMAIN f \cup {t} /\ g[t] = t.size /\ g[t] \in Nat
          /\ \A u \in DOMAIN f : g[u] = f[u]
        BY <1>1, <1>2
    <2>4. mp.total = Sum(f)
        BY DEF PoolAgrees
    <2> HIDE DEF f, g
    <2>5. Sum(g) = Sum(f) + g[t]
        BY <2>2, <2>3, SumOneMore
    <2> QED
        BY <1>1, <2>3, <2>4, <2>5 DEF g
<1>11. DOMAIN after.spent = UNION {u.ins : u \in Pooled(after)}
    <2>1. DOMAIN mp.spent = UNION {u.ins : u \in Pooled(mp)}
        BY DEF PoolAgrees
    <2> QED
        BY <1>1, <2>1
<1>12. \A u \in Pooled(after) : \A o \in u.ins : after.spent[o] = u
    <2>1. \A u \in Pooled(mp) : \A o \in u.ins : mp.spent[o] = u /\ o \in DOMAIN mp.spent
        BY DEF PoolAgrees
    <2> QED
        BY <1>1, <2>1
<1>13. \A x \in after.queue : x.tx \in Pooled(after) /\ x.key = Key(after.entries[x.tx])
    <2> TAKE x \in after.queue
    <2>1. CASE x \in mp.queue
        <3>1. x.tx \in Pooled(mp) /\ x.key = Key(mp.entries[x.tx])
            BY <2>1 DEF PoolAgrees
        <3> QED
            BY <1>1, <3>1
    <2>2. CASE x = [tx |-> t, key |-> Key(entry)]
        BY <1>1, <2>2
    <2> QED
        BY <1>1, <1>5, <2>1, <2>2
<1>14. /\ after.children \subseteq Pooled(after) \X Pooled(after)
       /\ after.children \subseteq after.parents /\ after.parents \subseteq Tx \X Tx
    <2>1. /\ mp.children \subseteq Pooled(mp) \X Pooled(mp)
          /\ mp.children \subseteq mp.parents /\ mp.parents \subseteq Tx \X Tx
        BY DEF PoolAgrees
    <2>2. links \subseteq Pooled(mp) \X {t}
        <3>1. parents \subseteq Pooled(mp)
            BY DEF ParentsOf
        <3> HIDE DEF parents
        <3> QED
            BY <3>1 DEF links
    <2> HIDE DEF parents
    <2> QED
        BY <1>1, <1>2, <2>1, <2>2
<1>15. PoolAgrees(after)
    BY <1>1, <1>6, <1>8, <1>9, <1>10, <1>11, <1>12, <1>13, <1>14 DEF PoolAgrees
<1> QED
    BY <1>1, <1>15 DEF after

-----------------------------------------------------------------------------
(* The end of the queue is an element that is before no other *)
LEMMA LowestIsLast ==
    ASSUME NEW mp, PoolAgrees(mp), mp.queue # {}
    PROVE  Lowest(mp.queue) \in mp.queue /\ \A y \in mp.queue : ~Before(Lowest(mp.queue).key, y.key)
<1> DEFINE rates == {x.key.rate : x \in mp.queue}
<1>1. \A x \in mp.queue : x.key.rate \in Nat /\ x.key.time \in 0 .. MaxTime
    BY KeyNumbers
<1>2. PICK r \in rates : \A s \in rates : r <= s
    <2>1. rates \subseteq Nat /\ rates # {}
        BY <1>1
    <2> HIDE DEF rates
    <2> QED
        BY <2>1, LeastNumber
<1> DEFINE ages == {MaxTime - x.key.time : x \in {z \in mp.queue : z.key.rate = r}}
<1>3. PICK a \in ages : \A b \in ages : a <= b
    <2>1. ages \subseteq Nat /\ ages # {}
        BY <1>1, <1>2, MempoolAssumption
    <2> HIDE DEF ages
    <2> QED
        BY <2>1, LeastNumber
<1>4. PICK x \in mp.queue : x.key.rate = r /\ a = MaxTime - x.key.time
    BY <1>3
<1>5. ASSUME NEW y \in mp.queue PROVE ~Before(x.key, y.key)
    <2>1. r <= y.key.rate /\ r \in Nat /\ y.key.rate \in Nat
        BY <1>1, <1>2, <1>4
    <2>2. y.key.rate = r => a <= MaxTime - y.key.time
        BY <1>3
    <2>3. x.key.time \in Nat /\ y.key.time \in Nat /\ MaxTime \in Nat
        BY <1>1, MempoolAssumption
    <2> QED
        BY <1>4, <2>1, <2>2, <2>3 DEF Before
<1> QED
    BY <1>5, Zenon DEF Lowest

-----------------------------------------------------------------------------
(* The turns of an eviction *)
IsEviction(g, mp, size, N) ==
    g = [n \in 0 .. N |-> IF n = 0 THEN mp ELSE EvictLowest(g[n - 1], size)]

(* There are as many turns as are asked for *)
LEMMA EvictionExists ==
    ASSUME NEW mp, NEW size, NEW N \in Nat
    PROVE  \E g : IsEviction(g, mp, size, N)
<1> DEFINE T == {m \in 0 .. N : \E g : IsEviction(g, mp, size, m)}
<1>1. 0 \in T
    <2> DEFINE g == [n \in 0 .. 0 |-> mp]
    <2>1. g = [n \in 0 .. 0 |-> IF n = 0 THEN mp ELSE EvictLowest(g[n - 1], size)]
        OBVIOUS
    <2> HIDE DEF g
    <2>2. IsEviction(g, mp, size, 0)
        BY <2>1 DEF IsEviction
    <2> QED
        BY <2>2
<1>2. ASSUME NEW m \in 1 .. N, m - 1 \in T PROVE m \in T
    <2>1. PICK g : IsEviction(g, mp, size, m - 1)
        BY <1>2
    <2> DEFINE w == [n \in 0 .. m |-> IF n = m THEN EvictLowest(g[m - 1], size) ELSE g[n]]
    <2>2. ASSUME NEW n \in 0 .. m PROVE w[n] = IF n = 0 THEN mp ELSE EvictLowest(w[n - 1], size)
        <3>0. g = [k \in 0 .. m - 1 |-> IF k = 0 THEN mp ELSE EvictLowest(g[k - 1], size)]
            BY <2>1 DEF IsEviction
        <3>1. CASE n = m
            BY <3>1
        <3>2. CASE n # m
            <4>1. n \in 0 .. m - 1 /\ w[n] = g[n]
                BY <3>2
            <4>2. n # 0 => w[n - 1] = g[n - 1]
                BY <3>2
            <4>3. g[n] = IF n = 0 THEN mp ELSE EvictLowest(g[n - 1], size)
                BY <3>0, <4>1
            <4> QED
                BY <4>1, <4>2, <4>3
        <3> QED
            BY <3>1, <3>2
    <2>3. IsEviction(w, mp, size, m)
        <3>1. w = [n \in 0 .. m |-> IF n = 0 THEN mp ELSE EvictLowest(w[n - 1], size)]
            BY <2>2
        <3> HIDE DEF w
        <3> QED
            BY <3>1 DEF IsEviction
    <2> HIDE DEF w
    <2> QED
        BY <2>3
<1>3. 0 .. N \subseteq T
    <2> HIDE DEF T
    <2> QED
        BY <1>1, <1>2, CountUp
<1> QED
    BY <1>3

(* What a pool has become in an eviction: the queue lost what left the pool, and nothing that was *)
(* before something that is kept                                                                 *)
IsWhatIsKept(m, mp) ==
    /\ PoolAgrees(m) /\ Pooled(m) \subseteq Pooled(mp)
    /\ \A t \in Pooled(m) : m.entries[t] = mp.entries[t]
    /\ \A x : x \in m.queue <=> x \in mp.queue /\ x.tx \in Pooled(m)
    /\ \A x, y \in mp.queue : x.tx \notin Pooled(m) /\ y.tx \in Pooled(m) => ~Before(x.key, y.key)

(* One turn takes the end of what is left *)
LEMMA TurnKeepsTheRest ==
    ASSUME NEW mp, PoolAgrees(mp), NEW m, IsWhatIsKept(m, mp), NEW size
    PROVE  IsWhatIsKept(EvictLowest(m, size), mp)
<1>1. CASE m.total + size <= MaxSize \/ m.queue = {}
    BY <1>1 DEF EvictLowest
<1>2. CASE ~(m.total + size <= MaxSize \/ m.queue = {})
    <2> DEFINE last == Lowest(m.queue)
               left == RemoveAll(m, {last.tx})
    <2>1. EvictLowest(m, size) = left
        BY <1>2 DEF EvictLowest, RemoveTransaction
    <2>2. PoolAgrees(m) /\ m.queue # {}
        BY <1>2 DEF IsWhatIsKept
    <2>3. last \in m.queue /\ \A y \in m.queue : ~Before(last.key, y.key)
        BY <2>2, LowestIsLast
    <2> HIDE DEF last
    <2>4. last.tx \in Pooled(m) /\ last.key = Key(m.entries[last.tx])
        BY <2>2, <2>3 DEF PoolAgrees
    <2>5. {last.tx} \cap Pooled(m) = {last.tx}
        BY <2>4
    <2>6. /\ Pooled(left) = Pooled(m) \ {last.tx}
          /\ \A t \in Pooled(left) : left.entries[t] = m.entries[t]
          /\ left.queue = {x \in m.queue : \A t \in {last.tx} : x.key # Key(m.entries[t])}
        <3> DEFINE S == {last.tx}
                   gone == S \cap Pooled(m)
        <3>1. /\ Pooled(RemoveAll(m, S)) = Pooled(m) \ gone
              /\ \A t \in Pooled(RemoveAll(m, S)) : RemoveAll(m, S).entries[t] = m.entries[t]
              /\ RemoveAll(m, S).queue = {x \in m.queue : \A t \in gone : x.key # Key(m.entries[t])}
            BY DEF RemoveAll, Pooled, Restrict
        <3> QED
            BY <2>5, <3>1
    <2>7. PoolAgrees(left)
        BY <2>2, RemovalAgrees
    <2> HIDE DEF left
    <2>8. \A x : x \in left.queue <=> x \in m.queue /\ x.tx # last.tx
        <3>1. \A x \in m.queue : x.tx = last.tx => x.key = last.key
            BY <2>2, <2>4 DEF PoolAgrees
        <3>2. \A x \in m.queue : x.key = last.key => x = last
            BY <2>2, <2>3 DEF PoolAgrees
        <3> QED
            BY <2>4, <2>6, <3>1, <3>2
    <2>9. \A x : x \in left.queue <=> x \in mp.queue /\ x.tx \in Pooled(left)
        BY <2>6, <2>8 DEF IsWhatIsKept
    <2>10. ASSUME NEW x \in mp.queue, NEW y \in mp.queue, x.tx \notin Pooled(left), y.tx \in Pooled(left)
           PROVE  ~Before(x.key, y.key)
        <3>1. y.tx \in Pooled(m) /\ y \in m.queue
            BY <2>6, <2>10 DEF IsWhatIsKept
        <3>2. CASE x.tx \notin Pooled(m)
            BY <3>1, <3>2 DEF IsWhatIsKept
        <3>3. CASE x.tx \in Pooled(m)
            <4>1. x.tx = last.tx /\ x \in m.queue
                BY <2>6, <2>10, <3>3 DEF IsWhatIsKept
            <4>2. x = last
                BY <2>2, <2>3, <2>4, <4>1 DEF PoolAgrees
            <4> QED
                BY <2>3, <3>1, <4>2
        <3> QED
            BY <3>2, <3>3
    <2>11. Pooled(left) \subseteq Pooled(mp) /\ \A t \in Pooled(left) : left.entries[t] = mp.entries[t]
        BY <2>6 DEF IsWhatIsKept
    <2> QED
        BY <2>1, <2>7, <2>9, <2>10, <2>11 DEF IsWhatIsKept
<1> QED
    BY <1>1, <1>2

(* An eviction keeps the order of the queue *)
LEMMA EvictionKeepsTheRest ==
    ASSUME NEW mp, PoolAgrees(mp), NEW size
    PROVE  IsWhatIsKept(EvictTransactions(mp, size), mp)
<1> DEFINE N == Cardinality(mp.queue)
<1>1. N \in Nat
    BY FS_CardinalityType DEF PoolAgrees
<1>2. PICK g : IsEviction(g, mp, size, N) /\ EvictTransactions(mp, size) = g[N]
    <2> DEFINE g == CHOOSE g : IsEviction(g, mp, size, N)
    <2>1. IsEviction(g, mp, size, N)
        <3>1. \E f : IsEviction(f, mp, size, N)
            BY <1>1, EvictionExists
        <3> QED
            BY <3>1, Zenon
    <2>2. EvictTransactions(mp, size) = g[N]
        BY DEF EvictTransactions, IsEviction
    <2> HIDE DEF g
    <2> QED
        BY <2>1, <2>2
<1> HIDE DEF N
<1> DEFINE T == {n \in 0 .. N : IsWhatIsKept(g[n], mp)}
<1>3. \A n \in 0 .. N : g[n] = IF n = 0 THEN mp ELSE EvictLowest(g[n - 1], size)
    BY <1>2 DEF IsEviction
<1>4. 0 \in T
    <2>1. 0 \in 0 .. N
        BY <1>1
    <2>2. g[0] = mp
        BY <1>3, <2>1
    <2>3. IsWhatIsKept(mp, mp)
        BY DEF IsWhatIsKept, PoolAgrees
    <2> QED
        BY <2>1, <2>2, <2>3
<1>5. ASSUME NEW n \in 1 .. N, n - 1 \in T PROVE n \in T
    <2>1. n \in 0 .. N /\ n # 0
        BY <1>1
    <2>2. g[n] = EvictLowest(g[n - 1], size)
        BY <1>3, <2>1
    <2>3. IsWhatIsKept(g[n - 1], mp)
        BY <1>5
    <2>4. IsWhatIsKept(EvictLowest(g[n - 1], size), mp)
        BY <2>3, TurnKeepsTheRest
    <2> QED
        BY <2>1, <2>2, <2>4
<1>6. 0 .. N \subseteq T /\ N \in 0 .. N
    <2> HIDE DEF T
    <2> QED
        BY <1>1, <1>4, <1>5, CountUp
<1> QED
    BY <1>2, <1>6

-----------------------------------------------------------------------------
(* The conflicts of a transaction are the pooled transactions that share an input with it *)
LEMMA ConflictsShareInputs ==
    ASSUME NEW mp, PoolAgrees(mp), NEW t
    PROVE  GetConflictingTransactions(mp, t) = {u \in Pooled(mp) : u.ins \cap t.ins # {}}
<1>1. /\ DOMAIN mp.spent = UNION {u.ins : u \in Pooled(mp)}
      /\ \A u \in Pooled(mp) : \A o \in u.ins : mp.spent[o] = u
    BY DEF PoolAgrees
<1> QED
    BY <1>1 DEF GetConflictingTransactions

(* A replacement enters tables that agree *)
LEMMA ReplacementAgrees ==
    ASSUME NEW mp, PoolAgrees(mp), NEW t \in Tx, t \notin Pooled(mp), clock \in 0 .. MaxTime,
           NEW old, old = GetConflictingTransactions(mp, t)
    PROVE  /\ PoolAgrees(Enter(RemoveAll(mp, old), t))
           /\ Pooled(Enter(RemoveAll(mp, old), t)) = (Pooled(mp) \ old) \cup {t}
<1> DEFINE left == RemoveAll(mp, old)
<1>1. PoolAgrees(left)
    BY RemovalAgrees
<1>2. Pooled(left) = Pooled(mp) \ old
    BY DEF RemoveAll, Pooled, Restrict
<1>3. DOMAIN left.spent = UNION {u.ins : u \in Pooled(left)}
    BY <1>1 DEF PoolAgrees
<1>4. old = {u \in Pooled(mp) : u.ins \cap t.ins # {}}
    BY ConflictsShareInputs
<1> HIDE DEF left
<1>5. t.ins \cap DOMAIN left.spent = {} /\ t \notin Pooled(left)
    BY <1>2, <1>3, <1>4
<1>6. PoolAgrees(Enter(left, t)) /\ Pooled(Enter(left, t)) = Pooled(left) \cup {t}
    BY <1>1, <1>5, EntryAgrees
<1> QED
    BY <1>2, <1>6 DEF left

(* What fits after an eviction enters tables that agree, and the pool is within its limit *)
LEMMA FittingEntryAgrees ==
    ASSUME NEW mp, PoolAgrees(mp), NEW t \in Tx, t \notin Pooled(mp), clock \in 0 .. MaxTime,
           GetConflictingTransactions(mp, t) = {},
           NEW m, IsWhatIsKept(m, mp), ~(m.total + t.size > MaxSize)
    PROVE  /\ PoolAgrees(Enter(m, t))
           /\ Pooled(Enter(m, t)) = Pooled(m) \cup {t}
           /\ Enter(m, t).total <= MaxSize
<1>1. PoolAgrees(m) /\ Pooled(m) \subseteq Pooled(mp)
    BY DEF IsWhatIsKept
<1>2. DOMAIN m.spent = UNION {u.ins : u \in Pooled(m)}
    BY <1>1 DEF PoolAgrees
<1>3. \A u \in Pooled(mp) : u.ins \cap t.ins = {}
    BY ConflictsShareInputs
<1>4. t.ins \cap DOMAIN m.spent = {} /\ t \notin Pooled(m)
    BY <1>1, <1>2, <1>3
<1>5. /\ PoolAgrees(Enter(m, t)) /\ Pooled(Enter(m, t)) = Pooled(m) \cup {t}
      /\ Enter(m, t).total = m.total + t.size
    BY <1>1, <1>4, EntryAgrees
<1>6. m.total \in Nat /\ t.size \in Nat /\ MaxSize \in Nat
    BY <1>1, TotalIsNumber, MempoolAssumption
<1> QED
    BY <1>5, <1>6

(* A submitted transaction leaves tables that agree *)
LEMMA SubmissionAgrees ==
    ASSUME NEW mp, PoolAgrees(mp), NEW t \in Tx, clock \in 0 .. MaxTime
    PROVE  PoolAgrees(Submitted(mp, t))
<1> DEFINE old     == GetConflictingTransactions(mp, t)
           evicted == EvictTransactions(mp, t.size)
<1>1. CASE t \in Pooled(mp) \/ ~ValidateTx(t)
    BY <1>1 DEF Submitted
<1>2. CASE ~(t \in Pooled(mp) \/ ~ValidateTx(t)) /\ old # {}
    <2>1. PoolAgrees(Enter(RemoveAll(mp, old), t))
        BY <1>2, ReplacementAgrees
    <2>2. Submitted(mp, t) = IF MayReplace(mp, t, old) THEN Enter(RemoveAll(mp, old), t) ELSE mp
        BY <1>2 DEF Submitted
    <2> QED
        BY <2>1, <2>2
<1>3. CASE ~(t \in Pooled(mp) \/ ~ValidateTx(t)) /\ old = {}
    <2>1. Submitted(mp, t) = IF evicted.total + t.size > MaxSize THEN evicted ELSE Enter(evicted, t)
        BY <1>3 DEF Submitted
    <2>2. IsWhatIsKept(evicted, mp)
        BY EvictionKeepsTheRest
    <2>3. PoolAgrees(evicted)
        BY <2>2 DEF IsWhatIsKept
    <2>4. ~(evicted.total + t.size > MaxSize) => PoolAgrees(Enter(evicted, t))
        <3> HIDE DEF evicted
        <3> QED
            BY <1>3, <2>2, FittingEntryAgrees
    <2> QED
        BY <2>1, <2>3, <2>4
<1> QED
    BY <1>1, <1>2, <1>3

(* What a submission pays for: the pool's tables at first and at last *)
PaidFor(mp, next) ==
    LET new  == Pooled(next) \ Pooled(mp)
        gone == Pooled(mp) \ Pooled(next)
    IN  \A t \in new :
          LET old == {u \in gone : u.ins \cap t.ins # {}} IN
          /\ old # {} => /\ old = gone /\ \A u \in old : u.rbf
                         /\ t.fee >= RbfIncrement + Sum([u \in old |-> u.fee])
          /\ old = {} =>
                /\ next.total <= MaxSize
                /\ \A x, y \in mp.queue :
                      x.tx \in gone /\ y.tx \notin gone => ~Before(x.key, y.key)

(* A step that admits nothing has nothing to pay for *)
LEMMA NothingEnters ==
    ASSUME NEW mp, NEW next, Pooled(next) \subseteq Pooled(mp)
    PROVE  PaidFor(mp, next)
BY DEF PaidFor

(* A replacement pays for all that it conflicts with *)
LEMMA ReplacementIsPaidFor ==
    ASSUME NEW mp, PoolAgrees(mp), NEW t \in Tx, t \notin Pooled(mp), clock \in 0 .. MaxTime,
           NEW old, old = GetConflictingTransactions(mp, t), old # {}, MayReplace(mp, t, old),
           NEW next, next = Enter(RemoveAll(mp, old), t)
    PROVE  PaidFor(mp, next)
<1>1. Pooled(next) = (Pooled(mp) \ old) \cup {t}
    BY ReplacementAgrees
<1>2. old = {u \in Pooled(mp) : u.ins \cap t.ins # {}}
    BY ConflictsShareInputs
<1>3. /\ Pooled(next) \ Pooled(mp) = {t}
      /\ Pooled(mp) \ Pooled(next) = old
      /\ {u \in old : u.ins \cap t.ins # {}} = old
    BY <1>1, <1>2
<1>4. (\A u \in old : u.rbf) /\ t.fee >= RbfIncrement + Sum([u \in old |-> u.fee])
    <2> DEFINE fees == [u \in old |-> u.fee]
    <2>1. IsFiniteSet(old) /\ old \subseteq Tx
        BY <1>2, FS_Subset DEF PoolAgrees
    <2>2. IsFiniteSet(DOMAIN fees) /\ \A u \in DOMAIN fees : fees[u] \in Nat
        BY <2>1, MempoolAssumption
    <2>3. (\A u \in old : u.rbf) /\ t.fee >= Sum(fees) + RbfIncrement
        BY DEF MayReplace, SignalRbf, CalculateReplacedFees
    <2> HIDE DEF fees
    <2>4. Sum(fees) \in Nat /\ RbfIncrement \in Nat /\ t.fee \in Nat
        BY <2>2, FiniteUnits, MempoolAssumption
    <2>5. t.fee >= RbfIncrement + Sum(fees)
        BY <2>3, <2>4
    <2> QED
        BY <2>3, <2>5 DEF fees
<1> QED
    BY <1>3, <1>4 DEF PaidFor

(* What enters otherwise takes the place of those at the end of the queue *)
LEMMA FittingEntryIsPaidFor ==
    ASSUME NEW mp, PoolAgrees(mp), NEW t \in Tx, t \notin Pooled(mp), clock \in 0 .. MaxTime,
           GetConflictingTransactions(mp, t) = {},
           NEW m, IsWhatIsKept(m, mp), ~(m.total + t.size > MaxSize),
           NEW next, next = Enter(m, t)
    PROVE  PaidFor(mp, next)
<1>1. Pooled(next) = Pooled(m) \cup {t} /\ next.total <= MaxSize
    BY FittingEntryAgrees
<1>2. /\ Pooled(m) \subseteq Pooled(mp) /\ \A x \in mp.queue : x.tx \in Pooled(mp)
      /\ \A x, y \in mp.queue : x.tx \notin Pooled(m) /\ y.tx \in Pooled(m) => ~Before(x.key, y.key)
    BY DEF IsWhatIsKept, PoolAgrees
<1>3. \A u \in Pooled(mp) : u.ins \cap t.ins = {}
    BY ConflictsShareInputs
<1>4. /\ Pooled(next) \ Pooled(mp) = {t}
      /\ Pooled(mp) \ Pooled(next) = Pooled(mp) \ Pooled(m)
    BY <1>1, <1>2
<1>5. {u \in Pooled(mp) \ Pooled(m) : u.ins \cap t.ins # {}} = {}
    BY <1>3
<1>6. ASSUME NEW x \in mp.queue, NEW y \in mp.queue,
             x.tx \in Pooled(mp) \ Pooled(m), y.tx \notin Pooled(mp) \ Pooled(m)
      PROVE  ~Before(x.key, y.key)
    BY <1>2, <1>6
<1> QED
    BY <1>1, <1>4, <1>5, <1>6 DEF PaidFor

(* Every submission is paid for *)
LEMMA SubmissionIsPaidFor ==
    ASSUME NEW mp, PoolAgrees(mp), NEW t \in Tx, clock \in 0 .. MaxTime
    PROVE  PaidFor(mp, Submitted(mp, t))
<1> DEFINE old     == GetConflictingTransactions(mp, t)
           evicted == EvictTransactions(mp, t.size)
<1>0. PaidFor(mp, mp)
    BY NothingEnters
<1>1. CASE t \in Pooled(mp) \/ ~ValidateTx(t)
    BY <1>0, <1>1 DEF Submitted
<1>2. CASE ~(t \in Pooled(mp) \/ ~ValidateTx(t)) /\ old # {}
    <2>1. MayReplace(mp, t, old) => PaidFor(mp, Enter(RemoveAll(mp, old), t))
        BY <1>2, ReplacementIsPaidFor
    <2>2. Submitted(mp, t) = IF MayReplace(mp, t, old) THEN Enter(RemoveAll(mp, old), t) ELSE mp
        BY <1>2 DEF Submitted
    <2> QED
        BY <1>0, <2>1, <2>2
<1>3. CASE ~(t \in Pooled(mp) \/ ~ValidateTx(t)) /\ old = {}
    <2>1. Submitted(mp, t) = IF evicted.total + t.size > MaxSize THEN evicted ELSE Enter(evicted, t)
        BY <1>3 DEF Submitted
    <2>2. IsWhatIsKept(evicted, mp)
        BY EvictionKeepsTheRest
    <2>3. PaidFor(mp, evicted)
        BY <2>2, NothingEnters DEF IsWhatIsKept
    <2>4. ~(evicted.total + t.size > MaxSize) => PaidFor(mp, Enter(evicted, t))
        <3> HIDE DEF evicted
        <3> QED
            BY <1>3, <2>2, FittingEntryIsPaidFor
    <2> QED
        BY <2>1, <2>3, <2>4
<1> QED
    BY <1>1, <1>2, <1>3

-----------------------------------------------------------------------------
(* The empty pool agrees *)
LEMMA EmptyPoolAgrees == PoolAgrees(EmptyPool)
<1>1. /\ Pooled(EmptyPool) = {} /\ EmptyPool.queue = {} /\ DOMAIN EmptyPool.spent = {}
      /\ EmptyPool.children = {} /\ EmptyPool.parents = {} /\ EmptyPool.total = 0
    BY DEF EmptyPool, Pooled
<1>2. Sum([t \in {} |-> t.size]) = 0
    BY SumOfNothing
<1> QED
    BY <1>1, <1>2, FS_EmptySet DEF PoolAgrees

(* Every step keeps the tables in agreement and admits only what pays *)
LEMMA PoolStepIsSound ==
    ASSUME PoolInv, [MempoolStep]_poolVars
    PROVE  PoolInv' /\ PaidFor(pool, pool')
<1> USE DEF PoolInv
<1>1. ASSUME NEW t \in Tx, AddTransaction(t) PROVE PoolInv' /\ PaidFor(pool, pool')
    <2>1. pool' = Submitted(pool, t) /\ leaving' = leaving /\ clock' = clock
        BY <1>1 DEF AddTransaction
    <2>2. PoolAgrees(pool') /\ PaidFor(pool, pool')
        BY <2>1, SubmissionAgrees, SubmissionIsPaidFor
    <2> QED
        BY <2>1, <2>2
<1>2. ASSUME NEW t \in Tx, RemoveConfirmed(t) PROVE PoolInv' /\ PaidFor(pool, pool')
    <2>1. pool' = RemoveAll(pool, {t}) /\ leaving' \subseteq leaving /\ clock' = clock
        BY <1>2 DEF RemoveConfirmed, RemoveTransaction
    <2>2. PoolAgrees(pool')
        BY <2>1, RemovalAgrees
    <2>3. Pooled(pool') \subseteq Pooled(pool)
        BY <2>1 DEF RemoveAll, Pooled, Restrict
    <2> QED
        BY <2>1, <2>2, <2>3, NothingEnters
<1>3. ASSUME NEW b \in PoolBlocks, ConnectBlock(b) PROVE PoolInv' /\ PaidFor(pool, pool')
    <2>1. pool' = pool /\ leaving' = b /\ clock' = clock /\ b \subseteq Tx
        BY <1>3, MempoolAssumption DEF ConnectBlock
    <2> QED
        BY <2>1, NothingEnters
<1>4. ASSUME RemoveConflicting PROVE PoolInv' /\ PaidFor(pool, pool')
    <2> DEFINE kept == RemoveAll(pool, leaving)
    <2>1. /\ pool' = RemoveAll(kept, {t \in Pooled(kept) : ~ValidateTx(t)})
          /\ leaving' = {} /\ clock' = clock
        BY <1>4 DEF RemoveConflicting
    <2>2. PoolAgrees(kept) /\ Pooled(kept) \subseteq Pooled(pool)
        BY RemovalAgrees DEF RemoveAll, Pooled, Restrict
    <2> HIDE DEF kept
    <2>3. PoolAgrees(pool')
        BY <2>1, <2>2, RemovalAgrees
    <2>4. Pooled(pool') \subseteq Pooled(kept)
        BY <2>1 DEF RemoveAll, Pooled, Restrict
    <2> QED
        BY <2>1, <2>2, <2>3, <2>4, NothingEnters
<1>5. ASSUME ClearPool PROVE PoolInv' /\ PaidFor(pool, pool')
    <2>1. pool' = EmptyPool /\ leaving' = leaving /\ clock' = clock
        BY <1>5 DEF ClearPool
    <2>2. Pooled(EmptyPool) = {}
        BY DEF EmptyPool, Pooled
    <2> QED
        BY <2>1, <2>2, EmptyPoolAgrees, NothingEnters
<1>6. ASSUME PoolTick PROVE PoolInv' /\ PaidFor(pool, pool')
    <2>1. pool' = pool /\ leaving' = leaving /\ clock' \in 0 .. MaxTime
        BY <1>6, MempoolAssumption DEF PoolTick
    <2> QED
        BY <2>1, NothingEnters
<1>7. ASSUME UNCHANGED poolVars PROVE PoolInv' /\ PaidFor(pool, pool')
    <2>1. pool' = pool /\ leaving' = leaving /\ clock' = clock
        BY <1>7 DEF poolVars
    <2> QED
        BY <2>1, NothingEnters
<1> QED
    BY <1>1, <1>2, <1>3, <1>4, <1>5, <1>6, <1>7 DEF MempoolStep

(* The pool's tables agree in every state that the operations of Mempool and the chain beside it  *)
(* reach, whatever the transactions, the blocks and the limits are                                 *)
THEOREM MempoolInductive == MempoolSpec => []PoolInv
<1>1. InitMempool => PoolInv
    <2>1. MaxTime \in Nat /\ 0 \in 0 .. MaxTime
        BY MempoolAssumption
    <2> QED
        BY <2>1, EmptyPoolAgrees DEF InitMempool, PoolInv
<1>2. PoolInv /\ [MempoolStep]_poolVars => PoolInv'
    BY PoolStepIsSound
<1> QED
    BY <1>1, <1>2, PTL DEF MempoolSpec

(* mempool.cpp: the five tables and the chain's clock keep their types *)
THEOREM MempoolTypeCorrect == MempoolSpec => []MempoolTypeOK
<1>1. PoolInv => MempoolTypeOK
    <2> SUFFICES ASSUME PoolInv PROVE MempoolTypeOK
        OBVIOUS
    <2>1. pool.total \in Nat
        BY TotalIsNumber DEF PoolInv
    <2> QED
        BY <2>1 DEF PoolInv, PoolAgrees, MempoolTypeOK
<1> QED
    BY <1>1, MempoolInductive, PTL

(* mempool.cpp: after every operation the five tables tell one story, and what an operation admits *)
(* has paid for what it drives out or has taken the place of the cheapest                          *)
THEOREM MempoolIsSound == MempoolSpec => PoolIsSound
<1>1. PoolInv => PoolTablesAgree
    BY DEF PoolInv, PoolAgrees, PoolTablesAgree
<1>2. MempoolSpec => []PoolTablesAgree
    BY <1>1, MempoolInductive, PTL
<1>3. MempoolSpec => EntryIsPaidFor
    <2>1. PoolInv /\ [MempoolStep]_poolVars => PaidFor(pool, pool')
        BY PoolStepIsSound
    <2>2. PaidFor(pool, pool') =>
            LET new  == Pooled(pool') \ Pooled(pool)
                gone == Pooled(pool) \ Pooled(pool')
            IN  \A t \in new :
                  LET old == {u \in gone : u.ins \cap t.ins # {}} IN
                  /\ old # {} => /\ old = gone /\ \A u \in old : u.rbf
                                 /\ t.fee >= RbfIncrement + Sum([u \in old |-> u.fee])
                  /\ old = {} =>
                        /\ pool'.total <= MaxSize
                        /\ \A x, y \in pool.queue :
                              x.tx \in gone /\ y.tx \notin gone => ~Before(x.key, y.key)
        BY DEF PaidFor
    <2> QED
        BY <2>1, <2>2, MempoolInductive, PTL DEF MempoolSpec, EntryIsPaidFor
<1> QED
    BY <1>2, <1>3 DEF PoolIsSound

-----------------------------------------------------------------------------
(* One sequence and then another *)
Then(s, t) == s \o t

(* Three sequences, one after the other *)
LEMMA ThenAssociative ==
    ASSUME NEW B, NEW s \in Seq(B), NEW t \in Seq(B), NEW u \in Seq(B)
    PROVE  Then(Then(s, t), u) = Then(s, Then(t, u))
<1>1. (s \o t) \o u = s \o (t \o u)
    BY ConcatAssociative
<1> QED
    BY <1>1, Zenon DEF Then

(* Two sequences are one, and none is before or after a sequence *)
LEMMA ThenTyped ==
    ASSUME NEW B, NEW s \in Seq(B), NEW t \in Seq(B)
    PROVE  /\ Then(s, t) \in Seq(B) /\ Len(Then(s, t)) = Len(s) + Len(t)
           /\ \A i \in 1 .. Len(s) + Len(t) : Then(s, t)[i] = IF i <= Len(s) THEN s[i] ELSE t[i - Len(s)]
           /\ Then(s, <<>>) = s /\ Then(<<>>, t) = t
<1>1. /\ s \o t \in Seq(B) /\ Len(s \o t) = Len(s) + Len(t)
      /\ \A i \in 1 .. Len(s) + Len(t) : (s \o t)[i] = IF i <= Len(s) THEN s[i] ELSE t[i - Len(s)]
    BY ONLY s \in Seq(B), t \in Seq(B), ConcatProperties, Zenon
<1>2. s \o <<>> = s /\ <<>> \o t = t
    BY ONLY s \in Seq(B), t \in Seq(B), ConcatEmptySeq, Zenon
<1> QED
    BY ONLY <1>1, <1>2, Zenon DEF Then

(* The layers of a flattened sequence: the first elements joined, one more in each *)
AreJoined(g, q) == g = [i \in 1 .. Len(q) |-> IF i = 1 THEN q[i] ELSE Then(g[i - 1], q[i])]

(* They exist, are sequences, and the last one is the flattened sequence *)
LEMMA JoinedExist ==
    ASSUME NEW B, NEW q \in Seq(Seq(B)), q # <<>>
    PROVE  \E g : /\ AreJoined(g, q) /\ FlattenSeq(q) = g[Len(q)]
                  /\ \A i \in 1 .. Len(q) : g[i] \in Seq(B)
<1> DEFINE N == Len(q) - 1
           IsUpTo(g, m) == g = [i \in 1 .. m + 1 |-> IF i = 1 THEN q[i] ELSE Then(g[i - 1], q[i])]
           T == {m \in 0 .. N : \E g : IsUpTo(g, m)}
<1>0. N \in Nat /\ Len(q) = N + 1
    BY EmptySeq
<1>1. 0 \in T
    <2> DEFINE g == [i \in 1 .. 0 + 1 |-> q[1]]
    <2>1. g = [i \in 1 .. 0 + 1 |-> IF i = 1 THEN q[i] ELSE Then(g[i - 1], q[i])]
        OBVIOUS
    <2> HIDE DEF g
    <2>2. 0 \in 0 .. N
        BY <1>0
    <2> QED
        BY <2>1, <2>2
<1>2. ASSUME NEW m \in 1 .. N, m - 1 \in T PROVE m \in T
    <2>1. PICK g : IsUpTo(g, m - 1)
        BY <1>2
    <2> DEFINE w == [i \in 1 .. m + 1 |-> IF i = m + 1 THEN Then(g[m], q[m + 1]) ELSE g[i]]
    <2>2. ASSUME NEW i \in 1 .. m + 1 PROVE w[i] = IF i = 1 THEN q[i] ELSE Then(w[i - 1], q[i])
        <3>0. g = [j \in 1 .. m |-> IF j = 1 THEN q[j] ELSE Then(g[j - 1], q[j])]
            <4>1. m - 1 + 1 = m
                BY <1>2
            <4> QED
                BY <2>1, <4>1
        <3>1. CASE i = m + 1
            BY <3>1
        <3>2. CASE i # m + 1
            <4>1. i \in 1 .. m /\ w[i] = g[i]
                BY <3>2
            <4>2. i # 1 => w[i - 1] = g[i - 1]
                BY <3>2
            <4>3. g[i] = IF i = 1 THEN q[i] ELSE Then(g[i - 1], q[i])
                BY <3>0, <4>1
            <4> QED
                BY <4>1, <4>2, <4>3
        <3> QED
            BY <3>1, <3>2
    <2>3. w = [i \in 1 .. m + 1 |-> IF i = 1 THEN q[i] ELSE Then(w[i - 1], q[i])]
        BY <2>2
    <2> HIDE DEF w
    <2>4. IsUpTo(w, m) /\ m \in 0 .. N
        BY <2>3
    <2> HIDE DEF N, IsUpTo
    <2> QED
        BY <2>4
<1>3. \E g : AreJoined(g, q)
    <2>1. N \in T
        <3>1. N \in Nat
            BY <1>0
        <3> HIDE DEF T, N
        <3>2. 0 .. N \subseteq T
            BY <3>1, <1>1, <1>2, CountUp
        <3>3. N \in 0 .. N
            BY <3>1
        <3> QED
            BY <3>2, <3>3
    <2>2. PICK g : IsUpTo(g, N)
        BY <2>1
    <2> QED
        BY <1>0, <2>2 DEF AreJoined
<1>4. PICK g : AreJoined(g, q) /\ FlattenSeq(q) = g[Len(q)]
    <2> DEFINE g == CHOOSE g : AreJoined(g, q)
    <2>1. AreJoined(g, q)
        BY <1>3, Zenon
    <2>2. FlattenSeq(q) = g[Len(q)]
        BY <1>0 DEF FlattenSeq, AreJoined, Then
    <2> HIDE DEF g
    <2> QED
        BY <2>1, <2>2
<1>5. \A i \in 1 .. Len(q) : g[i] \in Seq(B)
    <2> DEFINE U == {m \in 0 .. N : g[m + 1] \in Seq(B)}
    <2>0. \A i \in 1 .. N + 1 : g[i] = IF i = 1 THEN q[i] ELSE Then(g[i - 1], q[i])
        BY <1>0, <1>4 DEF AreJoined
    <2>q. \A i \in 1 .. N + 1 : q[i] \in Seq(B)
        BY <1>0, ElementOfSeq
    <2> HIDE DEF N
    <2>1. 0 \in U
        <3>1. 1 \in 1 .. N + 1 /\ 0 \in 0 .. N
            BY <1>0
        <3>2. g[0 + 1] = q[1]
            BY <2>0, <3>1
        <3> QED
            BY <2>q, <3>1, <3>2
    <2>2. ASSUME NEW m \in 1 .. N, m - 1 \in U PROVE m \in U
        <3>1. m + 1 \in 1 .. N + 1 /\ m \in 0 .. N /\ m + 1 # 1 /\ m + 1 - 1 = m /\ m - 1 + 1 = m
            BY <1>0
        <3>2. g[m + 1] = Then(g[m], q[m + 1])
            BY <2>0, <3>1
        <3>3. g[m] \in Seq(B) /\ q[m + 1] \in Seq(B)
            BY <2>q, <2>2, <3>1
        <3>4. g[m + 1] \in Seq(B)
            BY <3>2, <3>3, ConcatProperties DEF Then
        <3> QED
            BY <3>1, <3>4
    <2>3. 0 .. N \subseteq U
        <3> HIDE DEF U
        <3> QED
            BY <1>0, <2>1, <2>2, CountUp
    <2>4. ASSUME NEW i \in 1 .. Len(q) PROVE g[i] \in Seq(B)
        <3>1. i - 1 \in 0 .. N /\ i - 1 + 1 = i
            BY <1>0
        <3>2. i - 1 \in U
            BY <2>3, <3>1
        <3> QED
            BY <3>1, <3>2
    <2> QED
        BY <2>4
<1> QED
    BY <1>4, <1>5

(* A flattened sequence is one of elements *)
LEMMA FlattenTyped ==
    ASSUME NEW B, NEW q \in Seq(Seq(B))
    PROVE  FlattenSeq(q) \in Seq(B)
<1>1. CASE q = <<>>
    BY <1>1, EmptySeq DEF FlattenSeq
<1>2. CASE q # <<>>
    <2>1. PICK g : FlattenSeq(q) = g[Len(q)] /\ \A i \in 1 .. Len(q) : g[i] \in Seq(B)
        BY <1>2, JoinedExist
    <2>2. Len(q) \in 1 .. Len(q)
        BY <1>2, EmptySeq
    <2> QED
        BY <2>1, <2>2
<1> QED
    BY <1>1, <1>2

(* What is appended comes last *)
LEMMA FlattenAppend ==
    ASSUME NEW B, NEW q \in Seq(Seq(B)), NEW b \in Seq(B)
    PROVE  FlattenSeq(Append(q, b)) = FlattenSeq(q) \o b
<1> DEFINE r == Append(q, b)
           N == Len(q)
<1>0. /\ r \in Seq(Seq(B)) /\ Len(r) = N + 1 /\ N \in Nat /\ r # <<>> /\ r[N + 1] = b
      /\ \A i \in 1 .. N : r[i] = q[i]
    BY AppendProperties
<1>1. PICK h : AreJoined(h, r) /\ FlattenSeq(r) = h[Len(r)]
    <2> HIDE DEF r
    <2> QED
        BY <1>0, JoinedExist
<1>2. \A i \in 1 .. N + 1 : h[i] = IF i = 1 THEN r[i] ELSE Then(h[i - 1], r[i])
    <2> HIDE DEF r
    <2> QED
        BY <1>0, <1>1 DEF AreJoined
<1>3. CASE q = <<>>
    <2>1. N = 0 /\ FlattenSeq(q) = <<>>
        BY <1>3, EmptySeq DEF FlattenSeq
    <2>2. h[1] = b
        <3>1. 1 \in 1 .. N + 1
            BY <2>1
        <3> HIDE DEF r
        <3> QED
            BY <1>0, <1>2, <2>1, <3>1
    <2>3. FlattenSeq(r) = b
        <3> HIDE DEF r
        <3> QED
            BY <1>0, <1>1, <2>1, <2>2
    <2>4. <<>> \o b = b
        BY ConcatEmptySeq
    <2> QED
        BY <2>1, <2>3, <2>4
<1>4. CASE q # <<>>
    <2>0. N \in Nat \ {0}
        BY <1>4, EmptySeq
    <2>1. PICK g : AreJoined(g, q) /\ FlattenSeq(q) = g[Len(q)]
        BY <1>4, JoinedExist
    <2>2. \A i \in 1 .. N : g[i] = IF i = 1 THEN q[i] ELSE Then(g[i - 1], q[i])
        BY <2>1 DEF AreJoined
    <2> DEFINE M == N - 1
               U == {m \in 0 .. M : h[m + 1] = g[m + 1]}
    <2>3. M \in Nat /\ N = M + 1
        BY <2>0
    <2> HIDE DEF N, M, r
    <2>4. 0 \in U
        <3>1. 1 \in 1 .. N /\ 1 \in 1 .. N + 1 /\ 0 \in 0 .. M
            BY <2>3
        <3>2. h[1] = r[1] /\ g[1] = q[1] /\ r[1] = q[1]
            BY <1>0, <1>2, <2>2, <3>1
        <3> QED
            BY <3>1, <3>2
    <2>5. ASSUME NEW m \in 1 .. M, m - 1 \in U PROVE m \in U
        <3>1. /\ m + 1 \in 1 .. N /\ m + 1 \in 1 .. N + 1 /\ m \in 0 .. M
              /\ m + 1 # 1 /\ m + 1 - 1 = m /\ m - 1 + 1 = m
            BY <2>3
        <3>2. h[m + 1] = Then(h[m], r[m + 1]) /\ g[m + 1] = Then(g[m], q[m + 1]) /\ r[m + 1] = q[m + 1]
            BY <1>0, <1>2, <2>2, <3>1
        <3>3. h[m] = g[m]
            BY <2>5, <3>1
        <3> QED
            BY <3>1, <3>2, <3>3
    <2>6. 0 .. M \subseteq U
        <3> HIDE DEF U
        <3> QED
            BY <2>3, <2>4, <2>5, CountUp
    <2>7. h[N] = g[N]
        <3>1. M \in 0 .. M
            BY <2>3
        <3>2. M \in U
            BY <2>6, <3>1
        <3> QED
            BY <2>3, <3>2
    <2>8. h[N + 1] = Then(h[N], b)
        <3>1. N + 1 \in 1 .. N + 1 /\ N + 1 # 1 /\ N + 1 - 1 = N
            BY <2>0
        <3> QED
            BY <1>0, <1>2, <3>1
    <2>9. FlattenSeq(q) = g[N]
        BY <2>1 DEF N
    <2>10. FlattenSeq(r) = h[N + 1]
        BY <1>0, <1>1
    <2>11. FlattenSeq(r) = FlattenSeq(q) \o b
        BY <2>7, <2>8, <2>9, <2>10 DEF Then
    <2> QED
        BY <2>11 DEF r
<1> QED
    BY <1>3, <1>4

(* The first element comes first *)
LEMMA FlattenTail ==
    ASSUME NEW B, NEW q \in Seq(Seq(B)), q # <<>>
    PROVE  FlattenSeq(q) = Head(q) \o FlattenSeq(Tail(q))
<1> DEFINE r == Tail(q)
           N == Len(r)
<1>0. /\ r \in Seq(Seq(B)) /\ N \in Nat /\ Len(q) = N + 1 /\ Head(q) = q[1] /\ Head(q) \in Seq(B)
      /\ \A i \in 1 .. N : r[i] = q[i + 1]
    BY HeadTailProperties, EmptySeq
<1>1. PICK h : AreJoined(h, q) /\ FlattenSeq(q) = h[Len(q)]
    BY JoinedExist
<1>2. \A i \in 1 .. N + 1 : h[i] = IF i = 1 THEN q[i] ELSE Then(h[i - 1], q[i])
    <2> HIDE DEF r
    <2> QED
        BY <1>0, <1>1 DEF AreJoined
<1>3. h[1] = Head(q)
    <2>1. 1 \in 1 .. N + 1
        BY <1>0
    <2> HIDE DEF r
    <2> QED
        BY <1>0, <1>2, <2>1
<1> HIDE DEF r
<1>4. CASE r = <<>>
    <2>1. N = 0 /\ FlattenSeq(r) = <<>>
        BY <1>4, EmptySeq DEF FlattenSeq
    <2>2. Head(q) \o <<>> = Head(q)
        BY <1>0, ConcatEmptySeq
    <2>3. FlattenSeq(q) = Head(q)
        BY <1>0, <1>1, <1>3, <2>1
    <2> QED
        BY <2>1, <2>2, <2>3 DEF r
<1>5. CASE r # <<>>
    <2>0. N \in Nat \ {0}
        BY <1>0, <1>5, EmptySeq
    <2>1. PICK g : /\ AreJoined(g, r) /\ FlattenSeq(r) = g[Len(r)]
                   /\ \A i \in 1 .. Len(r) : g[i] \in Seq(B)
        BY <1>0, <1>5, JoinedExist
    <2>2. \A i \in 1 .. N : g[i] = IF i = 1 THEN r[i] ELSE Then(g[i - 1], r[i])
        BY <2>1 DEF AreJoined
    <2> DEFINE M == N - 1
               U == {m \in 0 .. M : h[m + 2] = Then(Head(q), g[m + 1])}
    <2>3. M \in Nat /\ N = M + 1
        BY <2>0
    <2>t. \A i \in 1 .. N : g[i] \in Seq(B) /\ r[i] \in Seq(B)
        <3>1. \A i \in 1 .. N : r[i] \in Seq(B)
            BY <1>0, ElementOfSeq
        <3> QED
            BY <2>1, <3>1
    <2>u. FlattenSeq(r) = g[N]
        BY <2>1
    <2> HIDE DEF N, M
    <2>4. 0 \in U
        <3>1. 1 \in 1 .. N /\ 2 \in 1 .. N + 1 /\ 0 \in 0 .. M
            BY <2>3
        <3>2. h[2] = Then(h[1], q[2]) /\ g[1] = r[1] /\ r[1] = q[2]
            BY <1>0, <1>2, <2>2, <3>1
        <3> QED
            BY <1>3, <3>1, <3>2
    <2>5. ASSUME NEW m \in 1 .. M, m - 1 \in U PROVE m \in U
        <3>1. /\ m + 1 \in 1 .. N /\ m + 2 \in 1 .. N + 1 /\ m \in 0 .. M /\ m \in 1 .. N
              /\ m + 2 # 1 /\ m + 1 # 1 /\ m + 2 - 1 = m + 1 /\ m + 1 - 1 = m /\ m - 1 + 2 = m + 1
              /\ m - 1 + 1 = m /\ m + 1 + 1 = m + 2
            BY <2>3
        <3>2. h[m + 2] = Then(h[m + 1], q[m + 2]) /\ g[m + 1] = Then(g[m], r[m + 1]) /\ r[m + 1] = q[m + 2]
            BY <1>0, <1>2, <2>2, <3>1
        <3>3. h[m + 1] = Then(Head(q), g[m])
            BY <2>5, <3>1
        <3>4. Then(Then(Head(q), g[m]), r[m + 1]) = Then(Head(q), Then(g[m], r[m + 1]))
            <4> DEFINE x == Head(q)
                       y == g[m]
                       z == r[m + 1]
            <4>1. x \in Seq(B) /\ y \in Seq(B) /\ z \in Seq(B)
                BY <1>0, <2>t, <3>1
            <4> HIDE DEF x, y, z
            <4>2. Then(Then(x, y), z) = Then(x, Then(y, z))
                BY ONLY <4>1, ThenAssociative
            <4> QED
                BY <4>2 DEF x, y, z
        <3>5. h[m + 2] = Then(Head(q), g[m + 1])
            BY <3>2, <3>3, <3>4
        <3> QED
            BY <3>1, <3>5
    <2>6. 0 .. M \subseteq U
        <3> HIDE DEF U
        <3> QED
            BY <2>3, <2>4, <2>5, CountUp
    <2>7. h[N + 1] = Then(Head(q), g[N])
        <3>1. M \in 0 .. M /\ M + 2 = N + 1
            BY <2>3
        <3>2. M \in U
            BY <2>6, <3>1
        <3> QED
            BY <2>3, <3>1, <3>2
    <2>8. FlattenSeq(q) = h[N + 1]
        BY <1>0, <1>1
    <2>9. FlattenSeq(q) = Head(q) \o FlattenSeq(r)
        BY <2>7, <2>8, <2>u DEF Then
    <2> QED
        BY <2>9 DEF r
<1> QED
    BY <1>4, <1>5

-----------------------------------------------------------------------------
(* A byte tells its message and its place in it; a message has a size, and after a byte comes another *)
Byte == Nat \X Nat
Size(a, n) == HeaderSize + a[n]

(* Bytes in the order they were handed over, from the first of message f on; a has the payloads *)
IsStream(s, f, a) ==
    /\ \A i \in 1 .. Len(s) : s[i][1] \in 1 .. Len(a) /\ s[i][2] \in 1 .. Size(a, s[i][1])
    /\ Len(s) > 0 => s[1][1] = f /\ s[1][2] = 1
    /\ \A i \in 1 .. Len(s) - 1 :
          IF s[i][2] = Size(a, s[i][1]) THEN s[i + 1][1] = s[i][1] + 1 /\ s[i + 1][2] = 1
          ELSE s[i + 1][1] = s[i][1] /\ s[i + 1][2] = s[i][2] + 1

(* They end where the last message ends *)
IsWhole(s, f, a) ==
    IF Len(s) = 0 THEN f = Len(a) + 1
    ELSE s[Len(s)][1] = Len(a) /\ s[Len(s)][2] = Size(a, Len(a))

(* A message is its bytes *)
LEMMA BytesTyped ==
    ASSUME NEW n \in Nat, NEW p \in Payloads
    PROVE  /\ Bytes(n, p) \in Seq(Byte) /\ Len(Bytes(n, p)) = HeaderSize + p
           /\ HeaderSize + p \in Nat \ {0} /\ HeaderSize \in Nat \ {0} /\ p \in Nat
           /\ \A i \in 1 .. HeaderSize + p : Bytes(n, p)[i] = <<n, i>>
<1>1. HeaderSize \in Nat \ {0} /\ p \in Nat /\ HeaderSize + p \in Nat \ {0}
    BY WireAssumption
<1> DEFINE N == HeaderSize + p
           m == [i \in 1 .. N |-> <<n, i>>]
<1>2. Bytes(n, p) = m
    BY DEF Bytes
<1>3. N \in Nat
    BY <1>1
<1> HIDE DEF N
<1>4. m \in [1 .. N -> Byte]
    BY <1>3 DEF Byte
<1>5. m \in Seq(Byte) /\ Len(m) = N
    <2> HIDE DEF m
    <2> QED
        BY <1>3, <1>4
<1>6. \A i \in 1 .. N : m[i] = <<n, i>>
    OBVIOUS
<1> HIDE DEF m
<1> QED
    BY <1>1, <1>2, <1>5, <1>6 DEF N

(* The beginning of a stream is one *)
LEMMA StreamBegins ==
    ASSUME NEW s \in Seq(Byte), NEW t \in Seq(Byte), NEW f, NEW a, IsStream(Then(s, t), f, a)
    PROVE  IsStream(s, f, a)
<1> DEFINE u == Then(s, t)
<1>1. /\ Len(u) = Len(s) + Len(t) /\ Len(s) \in Nat /\ Len(t) \in Nat
      /\ \A i \in 1 .. Len(s) : i \in 1 .. Len(u) /\ u[i] = s[i]
    <2>1. Len(s) \in Nat /\ Len(t) \in Nat
        BY LenProperties
    <2>2. /\ Len(u) = Len(s) + Len(t)
          /\ \A i \in 1 .. Len(s) + Len(t) : u[i] = IF i <= Len(s) THEN s[i] ELSE t[i - Len(s)]
        BY ThenTyped
    <2> HIDE DEF u
    <2> QED
        BY <2>1, <2>2
<1>2. IsStream(u, f, a)
    OBVIOUS
<1> HIDE DEF u
<1>3. \A i \in 1 .. Len(s) : s[i][1] \in 1 .. Len(a) /\ s[i][2] \in 1 .. Size(a, s[i][1])
    BY <1>1, <1>2 DEF IsStream
<1>4. Len(s) > 0 => s[1][1] = f /\ s[1][2] = 1
    BY <1>1, <1>2 DEF IsStream
<1>5. ASSUME NEW i \in 1 .. Len(s) - 1
      PROVE  IF s[i][2] = Size(a, s[i][1]) THEN s[i + 1][1] = s[i][1] + 1 /\ s[i + 1][2] = 1
             ELSE s[i + 1][1] = s[i][1] /\ s[i + 1][2] = s[i][2] + 1
    <2>1. i \in 1 .. Len(u) - 1 /\ i \in 1 .. Len(s) /\ i + 1 \in 1 .. Len(s)
        BY <1>1
    <2>2. u[i] = s[i] /\ u[i + 1] = s[i + 1]
        BY <1>1, <2>1
    <2>3. IF u[i][2] = Size(a, u[i][1]) THEN u[i + 1][1] = u[i][1] + 1 /\ u[i + 1][2] = 1
          ELSE u[i + 1][1] = u[i][1] /\ u[i + 1][2] = u[i][2] + 1
        BY <1>2, <2>1 DEF IsStream
    <2> QED
        BY <2>2, <2>3
<1> QED
    BY <1>3, <1>4, <1>5 DEF IsStream

(* A message that is handed over continues a stream that is whole *)
LEMMA StreamContinues ==
    ASSUME NEW a \in Seq(Payloads), NEW p \in Payloads, NEW f \in Nat,
           NEW s \in Seq(Byte), IsStream(s, f, a), IsWhole(s, f, a),
           NEW b, b = Append(a, p), NEW m, m = Bytes(Len(a) + 1, p)
    PROVE  IsStream(Then(s, m), f, b) /\ IsWhole(Then(s, m), f, b)
<1> DEFINE u == Then(s, m)
           k == Len(a) + 1
           z == HeaderSize + p
<1>1. /\ Len(a) \in Nat /\ Len(b) = k /\ b[k] = p /\ \A i \in 1 .. Len(a) : b[i] = a[i]
    BY LenProperties, AppendProperties
<1>2. /\ m \in Seq(Byte) /\ Len(m) = z /\ z \in Nat \ {0} /\ HeaderSize \in Nat /\ p \in Nat
      /\ \A i \in 1 .. z : m[i][1] = k /\ m[i][2] = i
    BY <1>1, BytesTyped
<1>3. /\ Len(s) \in Nat /\ Len(u) = Len(s) + z
      /\ \A i \in 1 .. Len(s) : u[i] = s[i]
      /\ \A i \in Len(s) + 1 .. Len(s) + z : u[i] = m[i - Len(s)]
    <2>1. Len(s) \in Nat
        BY LenProperties
    <2>2. /\ Len(u) = Len(s) + Len(m)
          /\ \A i \in 1 .. Len(s) + Len(m) : u[i] = IF i <= Len(s) THEN s[i] ELSE m[i - Len(s)]
        <3>1. m \in Seq(Byte)
            BY <1>2
        <3> QED
            BY ONLY s \in Seq(Byte), <3>1, ThenTyped
    <2> HIDE DEF u, z
    <2> QED
        BY <1>2, <2>1, <2>2
<1>4. \A n \in 1 .. Len(a) : a[n] \in Nat /\ Size(b, n) = Size(a, n)
    <2>1. \A n \in 1 .. Len(a) : a[n] \in Nat
        BY ElementOfSeq, WireAssumption
    <2> QED
        BY <1>1, <2>1 DEF Size
<1>5. Size(b, k) = z
    BY <1>1 DEF Size
<1> HIDE DEF u, z, k
<1>k. k = Len(a) + 1
    BY DEF k
<1>6. ASSUME NEW i \in 1 .. Len(u)
      PROVE  u[i][1] \in 1 .. Len(b) /\ u[i][2] \in 1 .. Size(b, u[i][1])
    <2>1. CASE i \in 1 .. Len(s)
        <3>1. u[i] = s[i] /\ s[i][1] \in 1 .. Len(a) /\ s[i][2] \in 1 .. Size(a, s[i][1])
            BY <1>3, <2>1 DEF IsStream
        <3> QED
            BY <1>1, <1>4, <1>k, <3>1
    <2>2. CASE i \notin 1 .. Len(s)
        <3>1. i \in Len(s) + 1 .. Len(s) + z /\ i - Len(s) \in 1 .. z
            BY <1>2, <1>3, <2>2
        <3>2. u[i][1] = k /\ u[i][2] = i - Len(s)
            BY <1>2, <1>3, <3>1
        <3> QED
            BY <1>1, <1>5, <1>k, <3>1, <3>2
    <2> QED
        BY <2>1, <2>2
<1>7. u[1][1] = f /\ u[1][2] = 1
    <2>1. CASE Len(s) > 0
        BY <1>3, <2>1 DEF IsStream
    <2>2. CASE ~(Len(s) > 0)
        <3>1. Len(s) = 0 /\ f = k
            BY <1>3, <1>k, <2>2 DEF IsWhole
        <3>2. 1 \in Len(s) + 1 .. Len(s) + z /\ 1 - Len(s) = 1 /\ 1 \in 1 .. z
            BY <1>2, <3>1
        <3> QED
            BY <1>2, <1>3, <3>1, <3>2
    <2> QED
        BY <2>1, <2>2
<1>8. ASSUME NEW i \in 1 .. Len(u) - 1
      PROVE  IF u[i][2] = Size(b, u[i][1]) THEN u[i + 1][1] = u[i][1] + 1 /\ u[i + 1][2] = 1
             ELSE u[i + 1][1] = u[i][1] /\ u[i + 1][2] = u[i][2] + 1
    <2>0. i \in Nat
        BY <1>3
    <2>1. CASE i < Len(s)
        <3>1. i \in 1 .. Len(s) - 1 /\ i \in 1 .. Len(s) /\ i + 1 \in 1 .. Len(s)
            BY <1>3, <2>1
        <3>2. u[i] = s[i] /\ u[i + 1] = s[i + 1] /\ s[i][1] \in 1 .. Len(a)
            BY <1>3, <3>1 DEF IsStream
        <3>3. IF s[i][2] = Size(a, s[i][1]) THEN s[i + 1][1] = s[i][1] + 1 /\ s[i + 1][2] = 1
              ELSE s[i + 1][1] = s[i][1] /\ s[i + 1][2] = s[i][2] + 1
            BY <3>1 DEF IsStream
        <3> QED
            BY <1>4, <3>2, <3>3
    <2>2. CASE i = Len(s)
        <3>1. i \in 1 .. Len(s) /\ i + 1 \in Len(s) + 1 .. Len(s) + z /\ i + 1 - Len(s) = 1 /\ 1 \in 1 .. z
            BY <1>2, <1>3, <2>2
        <3>2. u[i] = s[i] /\ u[i + 1] = m[1]
            BY <1>3, <3>1
        <3>3. s[i][1] = Len(a) /\ s[i][2] = Size(a, Len(a)) /\ Len(a) \in 1 .. Len(a)
            <4>1. s[i][1] \in 1 .. Len(a)
                BY <3>1 DEF IsStream
            <4>2. s[i][1] = Len(a) /\ s[i][2] = Size(a, Len(a))
                BY <2>2, <3>1 DEF IsWhole
            <4> QED
                BY <4>1, <4>2
        <3>4. m[1][1] = k /\ m[1][2] = 1
            BY <1>2, <3>1
        <3> QED
            BY <1>4, <1>k, <3>2, <3>3, <3>4
    <2>3. CASE i > Len(s)
        <3>1. /\ i \in Len(s) + 1 .. Len(s) + z /\ i + 1 \in Len(s) + 1 .. Len(s) + z
              /\ i - Len(s) \in 1 .. z /\ i + 1 - Len(s) \in 1 .. z /\ i - Len(s) # z
              /\ i + 1 - Len(s) = i - Len(s) + 1
            <4> DEFINE n == Len(s)
            <4>1. n \in Nat /\ z \in Nat /\ i \in Nat /\ i > n /\ i < n + z
                BY <1>2, <1>3, <2>0, <2>3
            <4> HIDE DEF n
            <4>2. /\ i \in n + 1 .. n + z /\ i + 1 \in n + 1 .. n + z
                  /\ i - n \in 1 .. z /\ i + 1 - n \in 1 .. z /\ i - n # z
                  /\ i + 1 - n = i - n + 1
                BY ONLY <4>1
            <4> QED
                BY ONLY <4>2 DEF n
        <3>2. u[i] = m[i - Len(s)] /\ u[i + 1] = m[i + 1 - Len(s)]
            BY <1>3, <3>1
        <3>3. /\ m[i - Len(s)][1] = k /\ m[i - Len(s)][2] = i - Len(s)
              /\ m[i + 1 - Len(s)][1] = k /\ m[i + 1 - Len(s)][2] = i + 1 - Len(s)
            BY <1>2, <3>1
        <3> QED
            BY <1>5, <3>1, <3>2, <3>3
    <2> QED
        BY <1>3, <2>0, <2>1, <2>2, <2>3
<1>9. IsWhole(u, f, b)
    <2>1. Len(u) # 0 /\ Len(u) \in Len(s) + 1 .. Len(s) + z /\ Len(u) - Len(s) = z /\ z \in 1 .. z
        BY <1>2, <1>3
    <2>2. u[Len(u)] = m[z] /\ m[z][1] = k /\ m[z][2] = z
        BY <1>2, <1>3, <2>1
    <2> QED
        BY <1>1, <1>5, <2>1, <2>2 DEF IsWhole
<1>10. IsStream(u, f, b)
    BY <1>6, <1>7, <1>8 DEF IsStream
<1> QED
    BY <1>9, <1>10 DEF u

(* As far as it goes, a stream begins with its first message *)
LEMMA StreamStarts ==
    ASSUME NEW a \in Seq(Payloads), NEW f \in Nat, NEW s \in Seq(Byte), IsStream(s, f, a), Len(s) > 0
    PROVE  /\ f \in 1 .. Len(a) /\ a[f] \in Payloads /\ Size(a, f) \in Nat \ {0}
           /\ \A i \in 1 .. Size(a, f) : i <= Len(s) => s[i][1] = f /\ s[i][2] = i
<1> DEFINE z == Size(a, f)
           N == z - 1
           T == {n \in 0 .. N : n + 1 <= Len(s) => s[n + 1][1] = f /\ s[n + 1][2] = n + 1}
<1>1. Len(s) \in Nat /\ 1 \in 1 .. Len(s) /\ s[1][1] = f /\ s[1][2] = 1
    BY LenProperties DEF IsStream
<1>2. f \in 1 .. Len(a)
    BY <1>1 DEF IsStream
<1>3. a[f] \in Payloads
    BY <1>2, ElementOfSeq
<1>4. z \in Nat \ {0}
    <2>1. a[f] \in Nat /\ HeaderSize \in Nat \ {0}
        BY <1>3, WireAssumption
    <2> QED
        BY <2>1 DEF Size
<1> HIDE DEF z
<1>5. N \in Nat /\ z = N + 1
    BY <1>4
<1> HIDE DEF N
<1>6. 0 \in T
    BY <1>1, <1>5
<1>7. ASSUME NEW n \in 1 .. N, n - 1 \in T PROVE n \in T
    <2>1. n \in 0 .. N /\ n - 1 + 1 = n /\ n # z
        BY <1>5
    <2>2. ASSUME n + 1 <= Len(s) PROVE s[n + 1][1] = f /\ s[n + 1][2] = n + 1
        <3>1. n \in 1 .. Len(s) - 1 /\ n <= Len(s)
            BY <1>1, <2>2
        <3>2. s[n][1] = f /\ s[n][2] = n
            BY <1>7, <2>1, <3>1
        <3>3. IF s[n][2] = Size(a, s[n][1]) THEN s[n + 1][1] = s[n][1] + 1 /\ s[n + 1][2] = 1
              ELSE s[n + 1][1] = s[n][1] /\ s[n + 1][2] = s[n][2] + 1
            BY <3>1 DEF IsStream
        <3> QED
            BY <2>1, <3>2, <3>3 DEF z
    <2> QED
        BY <2>1, <2>2
<1>8. 0 .. N \subseteq T
    <2> HIDE DEF T
    <2> QED
        BY <1>5, <1>6, <1>7, CountUp
<1>9. ASSUME NEW i \in 1 .. z, i <= Len(s) PROVE s[i][1] = f /\ s[i][2] = i
    <2>1. i - 1 \in 0 .. N /\ i - 1 + 1 = i
        BY <1>5
    <2>2. i - 1 \in T
        BY <1>8, <2>1
    <2> QED
        BY <1>9, <2>1, <2>2
<1> QED
    BY <1>2, <1>3, <1>4, <1>9 DEF z

(* A stream without its first message is the stream from the next one on *)
LEMMA StreamGoesOn ==
    ASSUME NEW a \in Seq(Payloads), NEW f \in Nat, NEW x \in Seq(Byte), NEW t \in Seq(Byte),
           IsStream(Then(x, t), f, a), Len(x) = Size(a, f), Len(x) > 0
    PROVE  /\ f \in 1 .. Len(a) /\ a[f] \in Payloads /\ x = Bytes(f, a[f])
           /\ IsStream(t, f + 1, a)
           /\ IsWhole(Then(x, t), f, a) => IsWhole(t, f + 1, a)
<1> DEFINE s == Then(x, t)
           z == Len(x)
<1>1. /\ s \in Seq(Byte) /\ z \in Nat /\ Len(t) \in Nat /\ Len(s) = z + Len(t)
      /\ \A i \in 1 .. z : s[i] = x[i]
      /\ \A i \in 1 .. Len(t) : s[i + z] = t[i]
    <2>1. z \in Nat /\ Len(t) \in Nat
        BY LenProperties
    <2>2. /\ s \in Seq(Byte) /\ Len(s) = z + Len(t)
          /\ \A i \in 1 .. z + Len(t) : s[i] = IF i <= z THEN x[i] ELSE t[i - z]
        BY ONLY x \in Seq(Byte), t \in Seq(Byte), ThenTyped
    <2> HIDE DEF s, z
    <2>3. \A i \in 1 .. z : s[i] = x[i]
        BY <2>1, <2>2
    <2>4. ASSUME NEW i \in 1 .. Len(t) PROVE s[i + z] = t[i]
        <3>1. i + z \in 1 .. z + Len(t) /\ ~(i + z <= z) /\ i + z - z = i
            BY <2>1
        <3> DEFINE j == i + z
        <3>2. j \in 1 .. z + Len(t) /\ ~(j <= z) /\ j - z = i
            BY <2>1, <3>1
        <3> HIDE DEF j
        <3>3. s[j] = t[j - z]
            BY <2>2, <3>2
        <3>4. s[j] = t[i]
            BY <3>2, <3>3
        <3> QED
            BY <3>4 DEF j
    <2> QED
        BY <2>1, <2>2, <2>3, <2>4
<1>2. IsStream(s, f, a) /\ z > 0 /\ z = Size(a, f)
    OBVIOUS
<1> HIDE DEF s, z
<1>3. Len(s) > 0
    BY <1>1, <1>2
<1>4. /\ f \in 1 .. Len(a) /\ a[f] \in Payloads /\ z \in Nat \ {0}
      /\ \A i \in 1 .. z : s[i][1] = f /\ s[i][2] = i
    <2>1. /\ f \in 1 .. Len(a) /\ a[f] \in Payloads
          /\ \A i \in 1 .. z : i <= Len(s) => s[i][1] = f /\ s[i][2] = i
        BY <1>1, <1>2, <1>3, StreamStarts
    <2> QED
        BY <1>1, <1>2, <2>1
<1>5. x = Bytes(f, a[f])
    <2>1. /\ Bytes(f, a[f]) \in Seq(Byte) /\ Len(Bytes(f, a[f])) = z
          /\ \A i \in 1 .. z : Bytes(f, a[f])[i] = <<f, i>>
        BY <1>2, <1>4, BytesTyped DEF Size
    <2>2. ASSUME NEW i \in 1 .. z PROVE x[i] = <<f, i>>
        <3>1. x[i] \in Byte
            BY ElementOfSeq DEF z
        <3>2. x[i][1] = f /\ x[i][2] = i
            BY <1>1, <1>4
        <3> QED
            BY <3>1, <3>2 DEF Byte
    <2>3. Len(x) = z
        BY DEF z
    <2>4. \A i \in 1 .. Len(x) : x[i] = Bytes(f, a[f])[i]
        BY <2>1, <2>2, <2>3
    <2>5. Len(x) = Len(Bytes(f, a[f]))
        BY <2>1, <2>3
    <2> QED
        BY <2>1, <2>4, <2>5, SeqEqual
<1>6. z \in 1 .. z /\ s[z][1] = f /\ s[z][2] = Size(a, f)
    BY <1>2, <1>4
<1>7. ASSUME NEW i \in 1 .. Len(t)
      PROVE  t[i][1] \in 1 .. Len(a) /\ t[i][2] \in 1 .. Size(a, t[i][1])
    <2>1. i + z \in 1 .. Len(s)
        BY <1>1
    <2> QED
        BY <1>1, <1>2, <2>1 DEF IsStream
<1>8. ASSUME Len(t) > 0 PROVE t[1][1] = f + 1 /\ t[1][2] = 1
    <2>1. z \in 1 .. Len(s) - 1 /\ 1 \in 1 .. Len(t) /\ z + 1 = 1 + z
        BY <1>1, <1>4, <1>8
    <2>2. IF s[z][2] = Size(a, s[z][1]) THEN s[z + 1][1] = s[z][1] + 1 /\ s[z + 1][2] = 1
          ELSE s[z + 1][1] = s[z][1] /\ s[z + 1][2] = s[z][2] + 1
        BY <1>2, <2>1 DEF IsStream
    <2>3. s[z + 1] = t[1]
        BY <1>1, <2>1
    <2> QED
        BY <1>6, <2>2, <2>3
<1>9. ASSUME NEW i \in 1 .. Len(t) - 1
      PROVE  IF t[i][2] = Size(a, t[i][1]) THEN t[i + 1][1] = t[i][1] + 1 /\ t[i + 1][2] = 1
             ELSE t[i + 1][1] = t[i][1] /\ t[i + 1][2] = t[i][2] + 1
    <2>1. /\ i + z \in 1 .. Len(s) - 1 /\ i \in 1 .. Len(t) /\ i + 1 \in 1 .. Len(t)
          /\ i + z + 1 = i + 1 + z
        BY <1>1
    <2>2. IF s[i + z][2] = Size(a, s[i + z][1]) THEN s[i + z + 1][1] = s[i + z][1] + 1 /\ s[i + z + 1][2] = 1
          ELSE s[i + z + 1][1] = s[i + z][1] /\ s[i + z + 1][2] = s[i + z][2] + 1
        BY <1>2, <2>1 DEF IsStream
    <2>3. s[i + z] = t[i] /\ s[i + z + 1] = t[i + 1]
        BY <1>1, <2>1
    <2> QED
        BY <2>2, <2>3
<1>10. IsStream(t, f + 1, a)
    BY <1>7, <1>8, <1>9 DEF IsStream
<1>11. ASSUME IsWhole(s, f, a) PROVE IsWhole(t, f + 1, a)
    <2>1. s[Len(s)][1] = Len(a) /\ s[Len(s)][2] = Size(a, Len(a))
        BY <1>1, <1>3, <1>11 DEF IsWhole
    <2>2. CASE Len(t) = 0
        <3>1. Len(s) = z
            BY <1>1, <2>2
        <3> QED
            BY <1>6, <2>1, <2>2, <3>1 DEF IsWhole
    <2>3. CASE Len(t) # 0
        <3>1. Len(t) \in 1 .. Len(t) /\ Len(t) + z = Len(s)
            BY <1>1, <2>3
        <3>2. s[Len(s)] = t[Len(t)]
            BY <1>1, <3>1
        <3> QED
            BY <2>1, <2>3, <3>2 DEF IsWhole
    <2> QED
        BY <2>2, <2>3
<1> QED
    BY <1>4, <1>5, <1>10, <1>11 DEF s

(* What the sender has still to send *)
Unsent(q, off) ==
    IF q = <<>> THEN <<>> ELSE Then(SubSeq(Head(q), off + 1, Len(Head(q))), FlattenSeq(Tail(q)))

(* A part of a sequence is one *)
LEMMA PartTyped ==
    ASSUME NEW B, NEW d \in Seq(B), NEW m \in Nat \ {0}, NEW k \in Nat, m <= k + 1, k <= Len(d)
    PROVE  SubSeq(d, m, k) \in Seq(B) /\ Len(SubSeq(d, m, k)) = k - m + 1
<1>1. m \in Int /\ k \in Int /\ \A i \in m .. k : d[i] \in B
    <2>1. Len(d) \in Nat /\ \A i \in 1 .. Len(d) : d[i] \in B
        BY LenProperties, ElementOfSeq
    <2> QED
        BY <2>1
<1>2. SubSeq(d, m, k) \in Seq(B) /\ Len(SubSeq(d, m, k)) = IF m <= k THEN k - m + 1 ELSE 0
    BY <1>1, SubSeqProperties
<1>3. (IF m <= k THEN k - m + 1 ELSE 0) = k - m + 1
    OBVIOUS
<1> QED
    BY <1>2, <1>3

(* Two parts beside one another are one *)
LEMMA PartsAdjoin ==
    ASSUME NEW B, NEW d \in Seq(B), NEW m \in Nat \ {0}, NEW k \in Nat, m <= k + 1, k <= Len(d)
    PROVE  Then(SubSeq(d, m, k), SubSeq(d, k + 1, Len(d))) = SubSeq(d, m, Len(d))
<1>1. m \in 1 .. Len(d) + 1 /\ k \in m - 1 .. Len(d) /\ Len(d) \in k .. Len(d)
    <2>1. Len(d) \in Nat
        BY LenProperties
    <2> QED
        BY <2>1
<1>2. SubSeq(d, m, k) \o SubSeq(d, k + 1, Len(d)) = SubSeq(d, m, Len(d))
    BY <1>1, ConcatAdjacentSubSeq
<1> QED
    BY ONLY <1>2, Zenon DEF Then

(* The elements of a sequence from one place to another *)
Part(s, m, k) == SubSeq(s, m, k)

(* What is left of a sequence is a part of it and what is left then *)
LEMMA PartsJoin ==
    ASSUME NEW B, NEW d \in Seq(B), NEW o \in Nat, NEW n \in Nat, NEW m, NEW k, NEW p,
           o + n <= Len(d), m = o + 1, k = o + n, p = k + 1
    PROVE  /\ Part(d, m, k) \in Seq(B) /\ Len(Part(d, m, k)) = n
           /\ Part(d, p, Len(d)) \in Seq(B) /\ Len(Part(d, p, Len(d))) = Len(d) - k
           /\ Part(d, m, Len(d)) = Then(Part(d, m, k), Part(d, p, Len(d)))
<1>1. /\ m \in Nat \ {0} /\ k \in Nat /\ p \in Nat \ {0} /\ m <= k + 1 /\ k <= Len(d) /\ Len(d) \in Nat
      /\ p <= Len(d) + 1 /\ Len(d) <= Len(d) /\ k - m + 1 = n /\ Len(d) - p + 1 = Len(d) - k
    <2>1. Len(d) \in Nat
        BY LenProperties
    <2> QED
        BY <2>1
<1>p. p = k + 1
    OBVIOUS
<1>2. SubSeq(d, m, k) \in Seq(B) /\ Len(SubSeq(d, m, k)) = k - m + 1
    BY <1>1, PartTyped
<1>d. d \in Seq(B)
    OBVIOUS
<1>3. SubSeq(d, p, Len(d)) \in Seq(B) /\ Len(SubSeq(d, p, Len(d))) = Len(d) - p + 1
    BY ONLY <1>d, <1>1, PartTyped
<1>4. Then(SubSeq(d, m, k), SubSeq(d, p, Len(d))) = SubSeq(d, m, Len(d))
    <2>1. Then(SubSeq(d, m, k), SubSeq(d, k + 1, Len(d))) = SubSeq(d, m, Len(d))
        BY ONLY <1>d, <1>1, PartsAdjoin
    <2> QED
        BY ONLY <1>p, <2>1
<1>5. Len(SubSeq(d, m, k)) = n /\ Len(SubSeq(d, p, Len(d))) = Len(d) - k
    BY ONLY <1>1, <1>2, <1>3
<1> QED
    BY ONLY <1>2, <1>3, <1>4, <1>5, Zenon DEF Part

(* A sequence is its first part and the rest *)
LEMMA PartAndRest ==
    ASSUME NEW B, NEW d \in Seq(B), NEW n \in 0 .. Len(d)
    PROVE  /\ SubSeq(d, 1, n) \in Seq(B) /\ Len(SubSeq(d, 1, n)) = n
           /\ SubSeq(d, n + 1, Len(d)) \in Seq(B) /\ Len(SubSeq(d, n + 1, Len(d))) = Len(d) - n
           /\ d = Then(SubSeq(d, 1, n), SubSeq(d, n + 1, Len(d)))
<1>1. Len(d) \in Nat
    BY LenProperties
<1>2. n \in Nat /\ n <= Len(d) /\ 1 <= n + 1 /\ 1 \in Nat \ {0} /\ n - 1 + 1 = n
    BY <1>1
<1>3. SubSeq(d, 1, n) \in Seq(B) /\ Len(SubSeq(d, 1, n)) = n - 1 + 1
    BY <1>2, PartTyped
<1> DEFINE p == n + 1
<1>4. p \in Nat \ {0} /\ p <= Len(d) + 1 /\ Len(d) <= Len(d) /\ Len(d) - p + 1 = Len(d) - n
    BY <1>1, <1>2
<1>5. SubSeq(d, p, Len(d)) \in Seq(B) /\ Len(SubSeq(d, p, Len(d))) = Len(d) - p + 1
    <2> HIDE DEF p
    <2> QED
        BY <1>1, <1>4, PartTyped
<1>6. Then(SubSeq(d, 1, n), SubSeq(d, n + 1, Len(d))) = SubSeq(d, 1, Len(d))
    BY <1>2, PartsAdjoin
<1>7. SubSeq(d, 1, Len(d)) = d
    BY SubSeqFull
<1>8. Len(SubSeq(d, 1, n)) = n
    BY <1>2, <1>3
<1>9. Len(SubSeq(d, p, Len(d))) = Len(d) - n
    BY <1>4, <1>5
<1> QED
    BY <1>3, <1>5, <1>6, <1>7, <1>8, <1>9

(* What is unsent is bytes *)
LEMMA UnsentTyped ==
    ASSUME NEW q \in Seq(Seq(Byte)), NEW off \in Nat, q # <<>> => off <= Len(Head(q))
    PROVE  Unsent(q, off) \in Seq(Byte)
<1>1. CASE q = <<>>
    BY <1>1, EmptySeq DEF Unsent
<1>2. CASE q # <<>>
    <2>1. Head(q) \in Seq(Byte) /\ Tail(q) \in Seq(Seq(Byte))
        BY <1>2, HeadTailProperties
    <2>2. FlattenSeq(Tail(q)) \in Seq(Byte)
        BY <2>1, FlattenTyped
    <2>3. off \in 0 .. Len(Head(q))
        BY <1>2, <2>1, LenProperties
    <2>4. SubSeq(Head(q), off + 1, Len(Head(q))) \in Seq(Byte)
        BY <2>1, <2>3, PartAndRest
    <2>5. Then(SubSeq(Head(q), off + 1, Len(Head(q))), FlattenSeq(Tail(q))) \in Seq(Byte)
        BY <2>2, <2>4, ThenTyped
    <2> QED
        BY <1>2, <2>5 DEF Unsent
<1> QED
    BY <1>1, <1>2

(* The queue as a whole is its elements *)
LEMMA UnsentAll ==
    ASSUME NEW q \in Seq(Seq(Byte))
    PROVE  Unsent(q, 0) = FlattenSeq(q)
<1>1. CASE q = <<>>
    BY <1>1, EmptySeq DEF Unsent, FlattenSeq
<1>2. CASE q # <<>>
    <2>1. Head(q) \in Seq(Byte) /\ FlattenSeq(q) = Then(Head(q), FlattenSeq(Tail(q)))
        BY <1>2, HeadTailProperties, FlattenTail DEF Then
    <2>2. SubSeq(Head(q), 0 + 1, Len(Head(q))) = Head(q)
        <3>1. 0 + 1 = 1
            OBVIOUS
        <3> QED
            BY <2>1, <3>1, SubSeqFull
    <2> QED
        BY <1>2, <2>1, <2>2 DEF Unsent
<1> QED
    BY <1>1, <1>2

(* A message behind a queue is sent after it *)
LEMMA UnsentAppend ==
    ASSUME NEW q \in Seq(Seq(Byte)), q # <<>>, NEW off \in Nat, off <= Len(Head(q)), NEW b \in Seq(Byte)
    PROVE  Unsent(Append(q, b), off) = Then(Unsent(q, off), b)
<1>1. Head(q) \in Seq(Byte) /\ Tail(q) \in Seq(Seq(Byte))
    BY HeadTailProperties
<1>2. Head(Append(q, b)) = Head(q) /\ Tail(Append(q, b)) = Append(Tail(q), b) /\ Append(q, b) # <<>>
    BY HeadTailAppend, AppendProperties
<1> DEFINE part == SubSeq(Head(q), off + 1, Len(Head(q)))
           rest == FlattenSeq(Tail(q))
<1>3. part \in Seq(Byte) /\ rest \in Seq(Byte)
    <2>1. off \in 0 .. Len(Head(q))
        BY <1>1, LenProperties
    <2> QED
        BY <1>1, <2>1, PartAndRest, FlattenTyped
<1>4. FlattenSeq(Append(Tail(q), b)) = Then(rest, b)
    BY <1>1, FlattenAppend DEF Then
<1>5. Unsent(Append(q, b), off) = Then(part, Then(rest, b))
    BY <1>2, <1>4 DEF Unsent
<1>6. Unsent(q, off) = Then(part, rest)
    BY DEF Unsent
<1>7. Then(Then(part, rest), b) = Then(part, Then(rest, b))
    <2> HIDE DEF part, rest
    <2> QED
        BY <1>3, ThenAssociative
<1> QED
    BY <1>5, <1>6, <1>7

(* What one send takes of the first element leaves the rest of it, or the next *)
LEMMA UnsentDrains ==
    ASSUME NEW q, NEW off, NEW n, NEW part, q \in Seq(Seq(Byte)), off \in Nat, n \in Nat,
           q # <<>>, off + n <= Len(Head(q)), part = SubSeq(Head(q), off + 1, off + n)
    PROVE  /\ part \in Seq(Byte) /\ Len(part) = n
           /\ Unsent(q, off) = Then(part, Unsent(q, off + n))
           /\ off + n = Len(Head(q)) => Unsent(q, off) = Then(part, Unsent(Tail(q), 0))
<1>0. off \in Nat /\ n \in Nat
    OBVIOUS
<1>1. Head(q) \in Seq(Byte) /\ Tail(q) \in Seq(Seq(Byte)) /\ Len(Head(q)) \in Nat
    BY HeadTailProperties, LenProperties
<1> DEFINE d == Head(q)
           left == SubSeq(d, off + n + 1, Len(d))
           rest == FlattenSeq(Tail(q))
<1>2. /\ part \in Seq(Byte) /\ Len(part) = n /\ left \in Seq(Byte) /\ Len(left) = Len(d) - (off + n)
      /\ SubSeq(d, off + 1, Len(d)) = Then(part, left)
    <2>1. d \in Seq(Byte) /\ off + n <= Len(d) /\ part = SubSeq(d, off + 1, off + n)
        BY <1>1
    <2> DEFINE m == off + 1
               k == off + n
               p == k + 1
    <2>2. off + n <= Len(d) /\ m = off + 1 /\ k = off + n /\ p = k + 1
        BY <2>1
    <2> HIDE DEF d, m, k, p
    <2>3. /\ Part(d, m, k) \in Seq(Byte) /\ Len(Part(d, m, k)) = n
          /\ Part(d, p, Len(d)) \in Seq(Byte) /\ Len(Part(d, p, Len(d))) = Len(d) - k
          /\ Part(d, m, Len(d)) = Then(Part(d, m, k), Part(d, p, Len(d)))
        BY ONLY <1>0, <2>1, <2>2, PartsJoin
    <2> QED
        BY ONLY <2>1, <2>3, Zenon DEF Part, m, k, p
<1>3. rest \in Seq(Byte)
    BY <1>1, FlattenTyped
<1>4. Unsent(q, off) = Then(Then(part, left), rest) /\ Unsent(q, off + n) = Then(left, rest)
    BY <1>2 DEF Unsent
<1>5. Then(Then(part, left), rest) = Then(part, Then(left, rest))
    <2>1. part \in Seq(Byte) /\ left \in Seq(Byte)
        BY <1>2
    <2> HIDE DEF left, rest
    <2> QED
        BY ONLY <2>1, <1>3, ThenAssociative
<1>6. ASSUME off + n = Len(d) PROVE Unsent(q, off) = Then(part, Unsent(Tail(q), 0))
    <2>1. left = <<>>
        <3>1. off + n + 1 \in Int /\ Len(d) \in Int /\ Len(d) < off + n + 1
            BY <1>1, <1>6
        <3> QED
            BY <3>1, SubSeqEmpty
    <2>2. Then(<<>>, rest) = rest
        <3> HIDE DEF rest
        <3>1. <<>> \in Seq(Byte)
            BY EmptySeq
        <3> QED
            BY <1>3, <3>1, ThenTyped
    <2>3. Unsent(Tail(q), 0) = rest
        BY <1>1, UnsentAll
    <2> HIDE DEF left, rest
    <2> QED
        BY <1>4, <1>5, <2>1, <2>2, <2>3
<1> HIDE DEF left, rest, d
<1> QED
    BY <1>2, <1>4, <1>5, <1>6 DEF d

-----------------------------------------------------------------------------
(* What is on its way is a stream from the message after the last that was handled, whole while the *)
(* connection is up                                                                                  *)
WireInv ==
    /\ accepted \in Seq(Payloads) /\ handled \in Seq(Seq(Byte))
    /\ sendQueue \in Seq(Seq(Byte)) /\ \A i \in 1 .. Len(sendQueue) : Len(sendQueue[i]) > 0
    /\ socket \in Seq(Byte) /\ recvBuffer \in Seq(Byte)
    /\ offset \in Nat /\ link \in {"up", "closed", "down"} /\ Len(socket) <= Room
    /\ sendQueue = <<>> => offset = 0
    /\ sendQueue # <<>> => offset < Len(Head(sendQueue))
    /\ IsStream(InFlight, Len(handled) + 1, accepted)
    /\ link = "up" => IsWhole(InFlight, Len(handled) + 1, accepted)

(* What is on its way: received, under way, and unsent while the connection is up *)
LEMMA InFlightIs ==
    /\ link = "up" => InFlight = Then(Then(recvBuffer, socket), Unsent(sendQueue, offset))
    /\ link # "up" => InFlight = Then(Then(recvBuffer, socket), <<>>)
<1>1. \A s, t : s \o t = Then(s, t)
    BY DEF Then
<1>2. InFlight = Then(Then(recvBuffer, socket),
         IF link # "up" \/ sendQueue = <<>> THEN <<>>
         ELSE Then(SubSeq(Head(sendQueue), offset + 1, Len(Head(sendQueue))), FlattenSeq(Tail(sendQueue))))
    BY Zenon DEF InFlight, Then
<1> QED
    BY <1>2, Zenon DEF Unsent

(* The same after a step *)
LEMMA InFlightIsThen ==
    /\ link' = "up" => InFlight' = Then(Then(recvBuffer', socket'), Unsent(sendQueue', offset'))
    /\ link' # "up" => InFlight' = Then(Then(recvBuffer', socket'), <<>>)
<1>1. InFlight' = Then(Then(recvBuffer', socket'),
         IF link' # "up" \/ sendQueue' = <<>> THEN <<>>
         ELSE Then(SubSeq(Head(sendQueue'), offset' + 1, Len(Head(sendQueue'))), FlattenSeq(Tail(sendQueue'))))
    BY Zenon DEF InFlight, Then
<1> QED
    BY <1>1, Zenon DEF Unsent

(* Bytes on their way are bytes *)
LEMMA InFlightTyped ==
    ASSUME WireInv
    PROVE  /\ Unsent(sendQueue, offset) \in Seq(Byte) /\ Then(recvBuffer, socket) \in Seq(Byte)
           /\ InFlight \in Seq(Byte) /\ Len(handled) \in Nat
           /\ link # "up" => InFlight = Then(recvBuffer, socket)
<1>1. /\ sendQueue \in Seq(Seq(Byte)) /\ offset \in Nat /\ socket \in Seq(Byte) /\ recvBuffer \in Seq(Byte)
      /\ sendQueue # <<>> => offset < Len(Head(sendQueue))
      /\ handled \in Seq(Seq(Byte))
    BY DEF WireInv
<1>2. sendQueue # <<>> => offset <= Len(Head(sendQueue))
    <2>1. sendQueue # <<>> => Len(Head(sendQueue)) \in Nat
        BY <1>1, HeadTailProperties, LenProperties
    <2> QED
        BY <1>1, <2>1
<1>3. Unsent(sendQueue, offset) \in Seq(Byte)
    BY <1>1, <1>2, UnsentTyped
<1>4. Then(recvBuffer, socket) \in Seq(Byte)
    BY <1>1, ThenTyped
<1>5. /\ Then(Then(recvBuffer, socket), Unsent(sendQueue, offset)) \in Seq(Byte)
      /\ Then(Then(recvBuffer, socket), <<>>) = Then(recvBuffer, socket)
    BY <1>3, <1>4, ThenTyped
<1>6. Len(handled) \in Nat
    BY <1>1, LenProperties
<1> QED
    BY <1>3, <1>4, <1>5, <1>6, InFlightIs

(* A sequence is a beginning of itself with another *)
LEMMA BeginsWith ==
    ASSUME NEW B, NEW s \in Seq(B), NEW t \in Seq(B)
    PROVE  IsPrefix(s, Then(s, t))
<1>1. /\ Then(s, t) \in Seq(B) /\ Len(Then(s, t)) = Len(s) + Len(t)
      /\ \A i \in 1 .. Len(s) + Len(t) : Then(s, t)[i] = IF i <= Len(s) THEN s[i] ELSE t[i - Len(s)]
    BY ThenTyped
<1>2. Len(s) \in Nat /\ Len(t) \in Nat
    BY LenProperties
<1> DEFINE u == Then(s, t)
           n == Len(s)
<1>3. /\ u \in Seq(B) /\ n \in 0 .. Len(u) /\ \A i \in 1 .. n : u[i] = s[i]
      /\ n <= Len(u)
    <2> HIDE DEF u
    <2>1. Len(u) = n + Len(t)
        BY <1>1 DEF u
    <2>2. \A i \in 1 .. n : u[i] = s[i]
        BY <1>1, <1>2 DEF u
    <2> QED
        BY <1>1, <1>2, <2>1, <2>2 DEF u
<1> HIDE DEF u
<1>4. SubSeq(u, 1, n) \in Seq(B) /\ Len(SubSeq(u, 1, n)) = n
    BY <1>3, PartAndRest
<1>5. \A i \in 1 .. n : SubSeq(u, 1, n)[i] = s[i]
    <2>1. /\ 1 \in Int /\ n \in Int /\ n - 1 + 1 = n /\ \A i \in 1 .. n : 1 + i - 1 = i
        BY <1>2
    <2>2. \A i \in 1 .. n : u[i] \in B
        BY <1>3, ElementOfSeq
    <2>3. \A i \in 1 .. n - 1 + 1 : SubSeq(u, 1, n)[i] = u[1 + i - 1]
        BY <2>1, <2>2, SubSeqProperties
    <2> QED
        BY <1>3, <2>1, <2>3
<1>6. SubSeq(u, 1, n) = s
    BY <1>4, <1>5, SeqEqual
<1>7. SubSeq(s, 1, Len(s)) = s
    BY SubSeqFull
<1> QED
    BY <1>3, <1>6, <1>7 DEF IsPrefix, u

(* What is read of the socket, its first part, goes to the buffer *)
LEMMA ReadMoves ==
    ASSUME NEW B, NEW r \in Seq(B), NEW s, NEW x \in Seq(B), NEW y \in Seq(B), s = Then(x, y)
    PROVE  /\ Then(r, x) \in Seq(B) /\ Len(y) <= Len(s)
           /\ Then(Then(r, x), y) = Then(r, s)
<1>1. Then(x, y) \in Seq(B) /\ Len(Then(x, y)) = Len(x) + Len(y)
    BY ThenTyped
<1>2. Len(x) \in Nat /\ Len(y) \in Nat
    BY LenProperties
<1>3. Len(y) <= Len(s)
    BY <1>1, <1>2
<1>4. Then(Then(r, x), y) = Then(r, Then(x, y))
    BY ThenAssociative
<1>5. Then(r, x) \in Seq(B)
    BY ThenTyped
<1> QED
    BY <1>3, <1>4, <1>5

-----------------------------------------------------------------------------
wireView == <<Len(accepted), InFlight, handled, link # "up">>
FifoStep == Fifo!Send \/ Fifo!Handle \/ Fifo!End \/ UNCHANGED wireView

(* Handing over a message is the channel's Send *)
LEMMA SendIsSend ==
    ASSUME WireInv, NEW p \in Payloads, SendMessage(p)
    PROVE  WireInv' /\ FifoStep
<1> DEFINE b == Bytes(Len(accepted) + 1, p)
           flow == Then(recvBuffer, socket)
<1>1. /\ accepted \in Seq(Payloads) /\ handled \in Seq(Seq(Byte))
      /\ sendQueue \in Seq(Seq(Byte)) /\ \A i \in 1 .. Len(sendQueue) : Len(sendQueue[i]) > 0
      /\ socket \in Seq(Byte) /\ recvBuffer \in Seq(Byte)
      /\ offset \in Nat /\ link = "up" /\ Len(socket) <= Room
      /\ sendQueue = <<>> => offset = 0
      /\ sendQueue # <<>> => offset < Len(Head(sendQueue))
      /\ IsStream(InFlight, Len(handled) + 1, accepted)
      /\ IsWhole(InFlight, Len(handled) + 1, accepted)
    BY DEF WireInv, SendMessage
<1>2. /\ accepted' = Append(accepted, p)
      /\ offset' = offset /\ recvBuffer' = recvBuffer /\ handled' = handled /\ link' = link
      /\ sendQueue # <<>> => sendQueue' = Append(sendQueue, b) /\ socket' = socket
      /\ sendQueue = <<>> =>
            \E sent \in Upto(Len(b), Free) :
               /\ socket' = Then(socket, SubSeq(b, 1, sent))
               /\ sendQueue' = IF sent = Len(b) THEN <<>> ELSE <<Rest(b, sent)>>
    BY DEF SendMessage, Then
<1>3. /\ Len(accepted) \in Nat /\ b \in Seq(Byte) /\ Len(b) \in Nat \ {0}
    <2>1. Len(accepted) \in Nat /\ Len(accepted) + 1 \in Nat
        BY <1>1, LenProperties
    <2>2. b \in Seq(Byte) /\ Len(b) = HeaderSize + p /\ HeaderSize + p \in Nat \ {0}
        BY <2>1, BytesTyped
    <2> HIDE DEF b
    <2> QED
        BY <2>1, <2>2
<1>4. /\ Unsent(sendQueue, offset) \in Seq(Byte) /\ flow \in Seq(Byte) /\ InFlight \in Seq(Byte)
      /\ Len(handled) \in Nat
    BY InFlightTyped
<1>5. InFlight = Then(flow, Unsent(sendQueue, offset))
    BY <1>1, InFlightIs
<1> HIDE DEF b
<1>6. /\ InFlight' = Then(InFlight, b)
      /\ sendQueue' \in Seq(Seq(Byte)) /\ \A i \in 1 .. Len(sendQueue') : Len(sendQueue'[i]) > 0
      /\ socket' \in Seq(Byte) /\ Len(socket') <= Room
      /\ sendQueue' = <<>> => offset = 0
      /\ sendQueue' # <<>> => offset < Len(Head(sendQueue'))
    <2>1. CASE sendQueue # <<>>
        <3>1. sendQueue' = Append(sendQueue, b) /\ socket' = socket
            BY <1>2, <2>1
        <3>2. /\ Append(sendQueue, b) \in Seq(Seq(Byte)) /\ Append(sendQueue, b) # <<>>
              /\ Len(Append(sendQueue, b)) = Len(sendQueue) + 1
              /\ \A i \in 1 .. Len(sendQueue) : Append(sendQueue, b)[i] = sendQueue[i]
              /\ Append(sendQueue, b)[Len(sendQueue) + 1] = b
              /\ Head(Append(sendQueue, b)) = Head(sendQueue)
            <4>1. sendQueue \in Seq(Seq(Byte)) /\ b \in Seq(Byte)
                BY <1>1, <1>3
            <4>2. Head(Append(sendQueue, b)) = IF sendQueue = <<>> THEN b ELSE Head(sendQueue)
                BY ONLY <4>1, HeadTailAppend
            <4>3. /\ Append(sendQueue, b) \in Seq(Seq(Byte)) /\ Append(sendQueue, b) # <<>>
                  /\ Len(Append(sendQueue, b)) = Len(sendQueue) + 1
                  /\ \A i \in 1 .. Len(sendQueue) : Append(sendQueue, b)[i] = sendQueue[i]
                  /\ Append(sendQueue, b)[Len(sendQueue) + 1] = b
                BY ONLY <4>1, AppendProperties
            <4> QED
                BY ONLY <2>1, <4>2, <4>3, Zenon
        <3>3. \A i \in 1 .. Len(sendQueue) + 1 : Len(Append(sendQueue, b)[i]) > 0
            <4>1. Len(sendQueue) \in Nat
                BY <1>1, LenProperties
            <4>2. \A i \in 1 .. Len(sendQueue) + 1 : i \in 1 .. Len(sendQueue) \/ i = Len(sendQueue) + 1
                BY <4>1
            <4>3. Len(b) > 0
                BY <1>3
            <4> QED
                BY <1>1, <3>2, <4>2, <4>3
        <3>4. offset <= Len(Head(sendQueue))
            <4>1. Len(Head(sendQueue)) \in Nat
                BY <1>1, <2>1, HeadTailProperties, LenProperties
            <4> QED
                BY <1>1, <2>1, <4>1
        <3>5. Unsent(sendQueue', offset') = Then(Unsent(sendQueue, offset), b)
            BY <1>1, <1>2, <1>3, <2>1, <3>1, <3>4, UnsentAppend
        <3>6. Then(flow, Then(Unsent(sendQueue, offset), b)) = Then(Then(flow, Unsent(sendQueue, offset)), b)
            <4> HIDE DEF flow
            <4> QED
                BY <1>3, <1>4, ThenAssociative
        <3>7. InFlight' = Then(flow, Unsent(sendQueue', offset'))
            BY <1>1, <1>2, <3>1, InFlightIsThen
        <3>8. InFlight' = Then(InFlight, b)
            BY <1>5, <3>5, <3>6, <3>7
        <3> QED
            BY <1>1, <2>1, <3>1, <3>2, <3>3, <3>8
    <2>2. CASE sendQueue = <<>>
        <3>1. PICK sent \in Upto(Len(b), Free) :
                 /\ socket' = Then(socket, SubSeq(b, 1, sent))
                 /\ sendQueue' = IF sent = Len(b) THEN <<>> ELSE <<Rest(b, sent)>>
            BY <1>2, <2>2
        <3>2. sent \in 0 .. Len(b) /\ Len(socket) + sent <= Room
            <4>1. Len(socket) \in Nat /\ Room \in Nat
                BY <1>1, LenProperties, WireAssumption
            <4> QED
                BY <1>3, <3>1, <4>1 DEF Upto, Free
        <3> DEFINE part == SubSeq(b, 1, sent)
                   rest == SubSeq(b, sent + 1, Len(b))
        <3>3. part \in Seq(Byte) /\ Len(part) = sent /\ rest \in Seq(Byte) /\ Len(rest) = Len(b) - sent
              /\ b = Then(part, rest)
            BY <1>3, <3>2, PartAndRest
        <3>4. sendQueue' = IF sent = Len(b) THEN <<>> ELSE Append(<<>>, rest)
            BY <3>1 DEF Rest
        <3>5. offset' = 0
            BY <1>1, <1>2, <2>2
        <3>s. socket' = Then(socket, part)
            BY <3>1
        <3> HIDE DEF part, rest
        <3>6. Unsent(sendQueue', 0) = rest /\ sendQueue' \in Seq(Seq(Byte))
              /\ (sendQueue' # <<>> => Len(sendQueue') = 1 /\ sendQueue'[1] = rest /\ Head(sendQueue') = rest /\ Len(rest) > 0)
            <4>1. CASE sent = Len(b)
                <5>1. sendQueue' = <<>> /\ Len(rest) = 0
                    BY <1>3, <3>3, <3>4, <4>1
                <5>2. rest = <<>>
                    BY <3>3, <5>1, EmptySeq
                <5> QED
                    BY <5>1, <5>2, EmptySeq DEF Unsent
            <4>2. CASE sent # Len(b)
                <5>1. sendQueue' = Append(<<>>, rest)
                    BY <3>4, <4>2
                <5>2. /\ Append(<<>>, rest) \in Seq(Seq(Byte)) /\ Len(Append(<<>>, rest)) = 1
                      /\ Append(<<>>, rest)[1] = rest /\ Head(Append(<<>>, rest)) = rest
                    <6>1. <<>> \in Seq(Seq(Byte)) /\ Len(<<>>) = 0
                        BY EmptySeq
                    <6>2. /\ Append(<<>>, rest) \in Seq(Seq(Byte)) /\ Len(Append(<<>>, rest)) = Len(<<>>) + 1
                          /\ Append(<<>>, rest)[Len(<<>>) + 1] = rest
                        BY <3>3, <6>1, AppendProperties
                    <6>3. Head(Append(<<>>, rest)) = rest
                        BY <6>1, HeadTailAppend
                    <6>4. Len(<<>>) + 1 = 1
                        BY <6>1
                    <6> QED
                        BY <6>2, <6>3, <6>4
                <5>3. FlattenSeq(Append(<<>>, rest)) = rest
                    <6>1. FlattenSeq(Append(<<>>, rest)) = Then(FlattenSeq(<<>>), rest)
                        <7>1. <<>> \in Seq(Seq(Byte))
                            BY EmptySeq
                        <7> QED
                            BY <3>3, <7>1, FlattenAppend DEF Then
                    <6>2. FlattenSeq(<<>>) = <<>>
                        BY EmptySeq DEF FlattenSeq
                    <6>3. Then(<<>>, rest) = rest
                        <7>1. <<>> \in Seq(Byte)
                            BY EmptySeq
                        <7> QED
                            BY <3>3, <7>1, ThenTyped
                    <6> QED
                        BY <6>1, <6>2, <6>3
                <5>4. Unsent(Append(<<>>, rest), 0) = rest
                    BY <5>2, <5>3, UnsentAll
                <5>5. Len(rest) > 0
                    BY <1>3, <3>2, <3>3, <4>2
                <5> QED
                    BY <5>1, <5>2, <5>4, <5>5
            <4> QED
                BY <4>1, <4>2
        <3>7. InFlight' = Then(Then(recvBuffer, Then(socket, part)), rest)
            BY <1>1, <1>2, <3>5, <3>6, <3>s, InFlightIsThen
        <3>8. InFlight = flow
            <4>1. Unsent(sendQueue, offset) = <<>>
                BY <2>2 DEF Unsent
            <4>2. Then(flow, <<>>) = flow
                <5> HIDE DEF flow
                <5> QED
                    BY <1>4, ThenTyped
            <4> QED
                BY <1>5, <4>1, <4>2
        <3>9. Then(Then(recvBuffer, Then(socket, part)), rest) = Then(flow, b)
            <4>1. Then(recvBuffer, Then(socket, part)) = Then(flow, part)
                BY <1>1, <3>3, ThenAssociative
            <4>2. Then(Then(flow, part), rest) = Then(flow, Then(part, rest))
                <5> HIDE DEF flow
                <5> QED
                    BY <1>4, <3>3, ThenAssociative
            <4> QED
                BY <3>3, <4>1, <4>2
        <3>10. socket' \in Seq(Byte) /\ Len(socket') <= Room
            <4>1. Then(socket, part) \in Seq(Byte) /\ Len(Then(socket, part)) = Len(socket) + Len(part)
                BY <1>1, <3>3, ThenTyped
            <4> QED
                BY <3>2, <3>3, <3>s, <4>1
        <3>11. \A i \in 1 .. Len(sendQueue') : Len(sendQueue'[i]) > 0
            <4>1. sendQueue' = <<>> => Len(sendQueue') = 0
                BY EmptySeq
            <4> QED
                BY <3>6, <4>1
        <3>12. InFlight' = Then(InFlight, b)
            BY <3>7, <3>8, <3>9
        <3>13. sendQueue' # <<>> => offset < Len(Head(sendQueue'))
            BY <1>2, <3>5, <3>6
        <3>14. offset = 0
            BY <1>2, <3>5
        <3> QED
            BY <3>6, <3>10, <3>11, <3>12, <3>13, <3>14
    <2> QED
        BY <2>1, <2>2
<1>7. IsStream(InFlight', Len(handled) + 1, accepted') /\ IsWhole(InFlight', Len(handled) + 1, accepted')
    <2>1. IsStream(Then(InFlight, b), Len(handled) + 1, accepted') /\ IsWhole(Then(InFlight, b), Len(handled) + 1, accepted')
        <3>1. Len(handled) + 1 \in Nat
            BY <1>4
        <3> QED
            BY <1>1, <1>2, <1>4, <3>1, StreamContinues DEF b
    <2> QED
        BY <1>6, <2>1
<1>8. accepted' \in Seq(Payloads) /\ Len(accepted') = Len(accepted) + 1
    BY <1>1, <1>2, AppendProperties
<1>9. WireInv'
    BY <1>1, <1>2, <1>6, <1>7, <1>8 DEF WireInv
<1>10. Fifo!Send
    <2>1. InFlight' = InFlight \o Fifo!Message(Len(accepted'), p)
        <3>1. Fifo!Message(Len(accepted'), p) = b
            BY <1>8 DEF b, Fifo!Message, Bytes
        <3> QED
            BY ONLY <1>6, <3>1, Zenon DEF Then
    <2> QED
        BY <1>1, <1>2, <1>8, <2>1 DEF Fifo!Send
<1> QED
    BY <1>9, <1>10 DEF FifoStep

(* A further send() of the queue moves bytes from the queue to the socket, and their order stays *)
LEMMA DrainStutters ==
    ASSUME WireInv, Drain
    PROVE  WireInv' /\ FifoStep
<1> DEFINE data == Head(sendQueue)
           flow == Then(recvBuffer, socket)
<1>1. /\ accepted \in Seq(Payloads) /\ handled \in Seq(Seq(Byte))
      /\ sendQueue \in Seq(Seq(Byte)) /\ \A i \in 1 .. Len(sendQueue) : Len(sendQueue[i]) > 0
      /\ socket \in Seq(Byte) /\ recvBuffer \in Seq(Byte)
      /\ offset \in Nat /\ link = "up" /\ Len(socket) <= Room /\ sendQueue # <<>>
      /\ offset < Len(data)
      /\ IsStream(InFlight, Len(handled) + 1, accepted)
      /\ IsWhole(InFlight, Len(handled) + 1, accepted)
    BY DEF WireInv, Drain
<1>2. PICK sent :
         /\ sent \in Upto(Len(data) - offset, Free) \ {0}
         /\ socket' = Then(socket, SubSeq(data, offset + 1, offset + sent))
         /\ IF offset + sent = Len(data)
            THEN sendQueue' = Tail(sendQueue) /\ offset' = 0
            ELSE offset' = offset + sent /\ sendQueue' = sendQueue
    BY DEF Drain, Then
<1>3. /\ accepted' = accepted /\ recvBuffer' = recvBuffer /\ handled' = handled /\ link' = link
    BY DEF Drain
<1>4. data \in Seq(Byte) /\ Tail(sendQueue) \in Seq(Seq(Byte)) /\ Len(data) \in Nat
      /\ Len(Tail(sendQueue)) = Len(sendQueue) - 1 /\ Len(sendQueue) \in Nat \ {0}
      /\ \A i \in 1 .. Len(Tail(sendQueue)) : Tail(sendQueue)[i] = sendQueue[i + 1]
    <2>1. /\ data \in Seq(Byte) /\ Tail(sendQueue) \in Seq(Seq(Byte))
          /\ Len(Tail(sendQueue)) = Len(sendQueue) - 1
          /\ \A i \in 1 .. Len(Tail(sendQueue)) : Tail(sendQueue)[i] = sendQueue[i + 1]
        BY <1>1, HeadTailProperties
    <2>2. Len(sendQueue) \in Nat
        BY <1>1, LenProperties
    <2>3. Len(sendQueue) # 0
        BY <1>1, EmptySeq
    <2>4. Len(data) \in Nat
        BY <2>1, LenProperties
    <2> QED
        BY <2>1, <2>2, <2>3, <2>4
<1>5. sent \in Nat /\ offset + sent <= Len(data) /\ Len(socket) + sent <= Room /\ offset + sent \in Nat
    <2>1. Len(socket) \in Nat /\ Room \in Nat
        BY <1>1, LenProperties, WireAssumption
    <2> HIDE DEF data
    <2> QED
        BY <1>1, <1>2, <1>4, <2>1 DEF Upto, Free
<1> DEFINE part == SubSeq(data, offset + 1, offset + sent)
           rest == IF offset + sent = Len(data) THEN Unsent(Tail(sendQueue), 0)
                   ELSE Unsent(sendQueue, offset + sent)
<1>6. /\ part \in Seq(Byte) /\ Len(part) = sent
      /\ Unsent(sendQueue, offset) = Then(part, rest)
    <2>1. /\ part \in Seq(Byte) /\ Len(part) = sent
          /\ Unsent(sendQueue, offset) = Then(part, Unsent(sendQueue, offset + sent))
          /\ offset + sent = Len(data) => Unsent(sendQueue, offset) = Then(part, Unsent(Tail(sendQueue), 0))
        <3>1. /\ sendQueue \in Seq(Seq(Byte)) /\ sendQueue # <<>> /\ offset \in Nat /\ sent \in Nat
              /\ offset + sent <= Len(Head(sendQueue))
              /\ part = SubSeq(Head(sendQueue), offset + 1, offset + sent)
            BY <1>1, <1>5
        <3> HIDE DEF part
        <3>2. /\ part \in Seq(Byte) /\ Len(part) = sent
              /\ Unsent(sendQueue, offset) = Then(part, Unsent(sendQueue, offset + sent))
              /\ offset + sent = Len(Head(sendQueue)) => Unsent(sendQueue, offset) = Then(part, Unsent(Tail(sendQueue), 0))
            BY ONLY <3>1, UnsentDrains, Zenon
        <3> QED
            BY ONLY <3>2, Zenon
    <2> QED
        BY ONLY <2>1, Zenon
<1>7. rest \in Seq(Byte)
    <2>1. CASE offset + sent = Len(data)
        <3>1. Tail(sendQueue) # <<>> => 0 <= Len(Head(Tail(sendQueue)))
            BY <1>4, HeadTailProperties, LenProperties
        <3>2. Unsent(Tail(sendQueue), 0) \in Seq(Byte)
            BY <1>4, <3>1, UnsentTyped
        <3> QED
            BY <2>1, <3>2
    <2>2. CASE offset + sent # Len(data)
        <3>1. Unsent(sendQueue, offset + sent) \in Seq(Byte)
            BY <1>1, <1>5, UnsentTyped
        <3> QED
            BY <2>2, <3>1
    <2> QED
        BY <2>1, <2>2
<1>8. Unsent(sendQueue', offset') = rest
    BY <1>2
<1>9. socket' = Then(socket, part)
    BY <1>2
<1>10. flow \in Seq(Byte)
    BY InFlightTyped
<1>11. InFlight = Then(flow, Unsent(sendQueue, offset))
    BY <1>1, InFlightIs
<1>12. InFlight' = Then(Then(recvBuffer, Then(socket, part)), rest)
    BY <1>1, <1>3, <1>8, <1>9, InFlightIsThen
<1>13. sendQueue' \in Seq(Seq(Byte)) /\ offset' \in Nat
    <2>1. Tail(sendQueue) \in Seq(Seq(Byte)) /\ offset + sent \in Nat /\ 0 \in Nat
        BY <1>4, <1>5
    <2> QED
        BY ONLY <1>1, <1>2, <2>1
<1>14. /\ sendQueue' = <<>> => offset' = 0
       /\ sendQueue' # <<>> => offset' < Len(Head(sendQueue'))
       /\ \A i \in 1 .. Len(sendQueue') : Len(sendQueue'[i]) > 0
    <2>1. CASE offset + sent = Len(data)
        <3>1. sendQueue' = Tail(sendQueue) /\ offset' = 0
            BY <1>2, <2>1
        <3>2. \A i \in 1 .. Len(Tail(sendQueue)) : Len(Tail(sendQueue)[i]) > 0
            <4> SUFFICES ASSUME NEW i \in 1 .. Len(Tail(sendQueue)) PROVE Len(Tail(sendQueue)[i]) > 0
                OBVIOUS
            <4>1. i + 1 \in 1 .. Len(sendQueue)
                BY <1>4
            <4> QED
                BY <1>1, <1>4, <4>1
        <3>3. Tail(sendQueue) # <<>> => Head(Tail(sendQueue)) = Tail(sendQueue)[1] /\ 1 \in 1 .. Len(Tail(sendQueue))
            <4> DEFINE t == Tail(sendQueue)
            <4>1. t \in Seq(Seq(Byte))
                BY <1>4
            <4> HIDE DEF t
            <4>2. Len(t) \in Nat /\ (t # <<>> => Len(t) # 0) /\ (t # <<>> => Head(t) = t[1])
                BY <4>1, LenProperties, EmptySeq, HeadTailProperties
            <4> QED
                BY <4>2 DEF t
        <3> QED
            BY <3>1, <3>2, <3>3
    <2>2. CASE offset + sent # Len(data)
        <3>1. sendQueue' = sendQueue /\ offset' = offset + sent
            BY <1>2, <2>2
        <3>2. offset + sent < Len(data)
            <4> HIDE DEF data
            <4> QED
                BY <1>4, <1>5, <2>2
        <3> QED
            BY <1>1, <3>1, <3>2
    <2> QED
        BY <2>1, <2>2
<1> HIDE DEF part, rest
<1>15. InFlight' = InFlight
    <2>1. Then(recvBuffer, Then(socket, part)) = Then(flow, part)
        BY <1>1, <1>6, ThenAssociative
    <2>2. Then(Then(flow, part), rest) = Then(flow, Then(part, rest))
        <3> HIDE DEF flow
        <3> QED
            BY <1>6, <1>7, <1>10, ThenAssociative
    <2> QED
        BY <1>6, <1>11, <1>12, <2>1, <2>2
<1>16. socket' \in Seq(Byte) /\ Len(socket') <= Room
    <2>1. socket \in Seq(Byte) /\ part \in Seq(Byte)
        BY <1>1, <1>6
    <2>2. Then(socket, part) \in Seq(Byte) /\ Len(Then(socket, part)) = Len(socket) + Len(part)
        BY ONLY <2>1, ThenTyped
    <2> QED
        BY <1>5, <1>6, <1>9, <2>2
<1>17. WireInv'
    BY <1>1, <1>3, <1>13, <1>14, <1>15, <1>16 DEF WireInv
<1>18. UNCHANGED wireView
    BY <1>3, <1>15 DEF wireView
<1> QED
    BY <1>17, <1>18 DEF FifoStep

(* What the connection loses when it ends is the end of the stream *)
LEMMA LosingEnds ==
    ASSUME WireInv, link = "up", link' = "closed",
           NEW kept \in 0 .. Len(socket), socket' = SubSeq(socket, 1, kept),
           UNCHANGED <<accepted, sendQueue, offset, recvBuffer, handled>>
    PROVE  WireInv' /\ FifoStep
<1> DEFINE part == SubSeq(socket, 1, kept)
           rest == SubSeq(socket, kept + 1, Len(socket))
           unsent == Unsent(sendQueue, offset)
           flow == Then(recvBuffer, part)
<1>1. /\ accepted \in Seq(Payloads) /\ handled \in Seq(Seq(Byte))
      /\ sendQueue \in Seq(Seq(Byte)) /\ \A i \in 1 .. Len(sendQueue) : Len(sendQueue[i]) > 0
      /\ socket \in Seq(Byte) /\ recvBuffer \in Seq(Byte)
      /\ offset \in Nat /\ Len(socket) <= Room
      /\ sendQueue = <<>> => offset = 0
      /\ sendQueue # <<>> => offset < Len(Head(sendQueue))
      /\ IsStream(InFlight, Len(handled) + 1, accepted)
    BY DEF WireInv
<1>2. part \in Seq(Byte) /\ Len(part) = kept /\ rest \in Seq(Byte) /\ socket = Then(part, rest)
    BY <1>1, PartAndRest
<1>3. unsent \in Seq(Byte) /\ Len(handled) \in Nat
    BY InFlightTyped
<1>4. InFlight = Then(Then(recvBuffer, socket), unsent)
    BY InFlightIs
<1>5. InFlight' = Then(Then(recvBuffer, part), <<>>)
    BY InFlightIsThen
<1>6. socket' = part
    OBVIOUS
<1> HIDE DEF part, rest, unsent
<1>7. flow \in Seq(Byte) /\ Then(rest, unsent) \in Seq(Byte)
    BY <1>1, <1>2, <1>3, ThenTyped
<1>8. Then(recvBuffer, Then(part, rest)) = Then(flow, rest)
    BY <1>1, <1>2, ThenAssociative
<1> HIDE DEF flow
<1>9. Then(Then(flow, rest), unsent) = Then(flow, Then(rest, unsent)) /\ Then(flow, <<>>) = flow
    BY <1>2, <1>3, <1>7, ThenAssociative, ThenTyped
<1>10. InFlight = Then(flow, Then(rest, unsent)) /\ InFlight' = flow
    BY <1>2, <1>4, <1>5, <1>8, <1>9 DEF flow
<1>11. IsPrefix(InFlight', InFlight)
    <2>1. IsPrefix(flow, Then(flow, Then(rest, unsent)))
        BY <1>7, BeginsWith
    <2> QED
        BY <1>10, <2>1
<1>12. IsStream(InFlight', Len(handled) + 1, accepted)
    <2>1. IsStream(flow, Len(handled) + 1, accepted)
        <3>1. IsStream(Then(flow, Then(rest, unsent)), Len(handled) + 1, accepted)
            BY <1>1, <1>10
        <3> QED
            BY <1>7, <3>1, StreamBegins
    <2> QED
        BY <1>10, <2>1
<1>13. Len(socket') <= Room
    <2>1. Len(socket) \in Nat /\ Room \in Nat
        BY <1>1, LenProperties, WireAssumption
    <2> QED
        BY <1>1, <1>2, <1>6, <2>1
<1>14. WireInv'
    BY <1>1, <1>2, <1>6, <1>12, <1>13 DEF WireInv
<1>15. Fifo!End
    <2>1. Fifo!IsPrefix(InFlight', InFlight)
        BY ONLY <1>11, Zenon DEF IsPrefix, Fifo!IsPrefix
    <2> QED
        BY <2>1 DEF Fifo!End
<1> QED
    BY <1>14, <1>15 DEF FifoStep

(* Disconnecting and breaking are both the channel's End *)
LEMMA ClosingEnds ==
    ASSUME WireInv, Disconnect \/ Break
    PROVE  WireInv' /\ FifoStep
<1>1. CASE Disconnect
    <2>1. socket \in Seq(Byte)
        BY DEF WireInv
    <2>2. Len(socket) \in 0 .. Len(socket) /\ socket = SubSeq(socket, 1, Len(socket))
        <3>1. Len(socket) \in Nat
            BY <2>1, LenProperties
        <3> QED
            BY <2>1, <3>1, SubSeqFull
    <2>3. /\ link = "up" /\ link' = "closed" /\ socket' = socket
          /\ UNCHANGED <<accepted, sendQueue, offset, recvBuffer, handled>>
        BY <1>1 DEF Disconnect
    <2> QED
        BY <2>2, <2>3, LosingEnds
<1>2. CASE Break
    BY <1>2, LosingEnds DEF Break
<1> QED
    BY <1>1, <1>2

(* The receiver's end of the stream and a step that leaves the wire alone are no step of the channel *)
LEMMA RestStutters ==
    ASSUME WireInv, EndOfStream \/ UNCHANGED wireVars
    PROVE  WireInv' /\ FifoStep
<1>1. /\ accepted' = accepted /\ sendQueue' = sendQueue /\ offset' = offset /\ socket' = socket
      /\ recvBuffer' = recvBuffer /\ handled' = handled
      /\ link' \in {"up", "closed", "down"} /\ (link' # "up" <=> link # "up")
    BY DEF EndOfStream, wireVars, WireInv
<1>2. InFlight' = InFlight
    BY <1>1 DEF InFlight
<1>3. WireInv'
    BY <1>1, <1>2 DEF WireInv
<1>4. UNCHANGED wireView
    BY <1>1, <1>2 DEF wireView
<1> QED
    BY <1>3, <1>4 DEF FifoStep

-----------------------------------------------------------------------------
(* What is on its way behind the socket *)
Behind == IF link = "up" THEN Unsent(sendQueue, offset) ELSE <<>>

(* Bytes on their way are the buffer, the socket and what is behind it, before a read and after it *)
LEMMA InFlightParts ==
    ASSUME WireInv
    PROVE  /\ InFlight = Then(Then(recvBuffer, socket), Behind) /\ Behind \in Seq(Byte)
           /\ link' = link /\ UNCHANGED <<sendQueue, offset>>
                 => InFlight' = Then(Then(recvBuffer', socket'), Behind)
<1>1. Unsent(sendQueue, offset) \in Seq(Byte)
    BY InFlightTyped
<1>2. <<>> \in Seq(Byte)
    BY EmptySeq
<1>3. Behind \in Seq(Byte)
    BY <1>1, <1>2 DEF Behind
<1>4. InFlight = Then(Then(recvBuffer, socket), Behind)
    BY InFlightIs, Zenon DEF Behind
<1>5. ASSUME link' = link, UNCHANGED <<sendQueue, offset>>
      PROVE  InFlight' = Then(Then(recvBuffer', socket'), Behind)
    <2>1. link' = link /\ sendQueue' = sendQueue /\ offset' = offset
        BY <1>5
    <2> QED
        BY ONLY <2>1, InFlightIsThen, Zenon DEF Behind
<1> QED
    BY <1>3, <1>4, <1>5

(* The first bytes the receiver holds are those of the header of the next message *)
LEMMA HeaderIsNext ==
    ASSUME WireInv, NEW buffer \in Seq(Byte), NEW left \in Seq(Byte), Len(buffer) > 0,
           Then(buffer, left) = Then(recvBuffer, socket)
    PROVE  /\ IsHeader(buffer) /\ TotalSize(buffer) = Size(accepted, Len(handled) + 1)
           /\ TotalSize(buffer) \in Nat \ {0}
<1> DEFINE f == Len(handled) + 1
<1>1. accepted \in Seq(Payloads) /\ IsStream(InFlight, f, accepted)
    BY DEF WireInv
<1>2. InFlight = Then(Then(buffer, left), Behind) /\ Behind \in Seq(Byte)
    BY InFlightParts
<1>3. Then(Then(buffer, left), Behind) = Then(buffer, Then(left, Behind)) /\ Then(left, Behind) \in Seq(Byte)
    BY <1>2, ThenAssociative, ThenTyped
<1>4. IsStream(buffer, f, accepted)
    <2>1. IsStream(Then(buffer, Then(left, Behind)), f, accepted)
        BY <1>1, <1>2, <1>3
    <2> QED
        BY <1>3, <2>1, StreamBegins
<1>5. f \in Nat
    BY InFlightTyped
<1>6. Size(accepted, f) \in Nat \ {0}
    BY <1>1, <1>4, <1>5, StreamStarts
<1>7. buffer[1][1] = f /\ buffer[1][2] = 1
    BY <1>4 DEF IsStream
<1> QED
    BY <1>6, <1>7 DEF IsHeader, TotalSize, Size

(* A read that does not complete a message moves bytes from the socket to the buffer *)
LEMMA ReadStutters ==
    ASSUME WireInv, link' = link, UNCHANGED <<accepted, sendQueue, offset, handled>>,
           recvBuffer' \in Seq(Byte), socket' \in Seq(Byte), Len(socket') <= Len(socket),
           Then(recvBuffer', socket') = Then(recvBuffer, socket)
    PROVE  WireInv' /\ FifoStep
<1>1. InFlight' = InFlight
    BY InFlightParts
<1>2. Len(socket') <= Room
    <2>1. Len(socket) <= Room /\ Len(socket) \in Nat /\ Len(socket') \in Nat /\ Room \in Nat
        BY LenProperties, WireAssumption DEF WireInv
    <2> QED
        BY <2>1
<1>3. WireInv'
    BY <1>1, <1>2 DEF WireInv
<1>4. UNCHANGED wireView
    BY <1>1 DEF wireView
<1> QED
    BY <1>3, <1>4 DEF FifoStep

(* A read that completes a message is the channel's Handle *)
LEMMA ReadHandles ==
    ASSUME WireInv, link' = link, UNCHANGED <<accepted, sendQueue, offset>>,
           NEW filled \in Seq(Byte), socket' \in Seq(Byte), Len(socket') <= Len(socket),
           Then(filled, socket') = Then(recvBuffer, socket),
           NEW total, total = Size(accepted, Len(handled) + 1), total \in Nat \ {0}, total <= Len(filled),
           handled' = Append(handled, SubSeq(filled, 1, total)),
           recvBuffer' = SubSeq(filled, total + 1, Len(filled))
    PROVE  WireInv' /\ FifoStep
<1> DEFINE f == Len(handled) + 1
           x == SubSeq(filled, 1, total)
           y == SubSeq(filled, total + 1, Len(filled))
           t == Then(Then(y, socket'), Behind)
<1>1. /\ accepted \in Seq(Payloads) /\ handled \in Seq(Seq(Byte)) /\ Len(socket) <= Room
      /\ IsStream(InFlight, f, accepted)
      /\ link = "up" => IsWhole(InFlight, f, accepted)
      /\ socket \in Seq(Byte)
    BY DEF WireInv
<1>2. x \in Seq(Byte) /\ Len(x) = total /\ y \in Seq(Byte) /\ filled = Then(x, y)
    <2>1. total \in 0 .. Len(filled)
        BY LenProperties
    <2> QED
        BY <2>1, PartAndRest
<1>3. InFlight = Then(Then(filled, socket'), Behind) /\ Behind \in Seq(Byte)
    BY InFlightParts
<1>4. recvBuffer' = y /\ handled' = Append(handled, x)
    OBVIOUS
<1>5. InFlight' = t
    BY <1>4, InFlightParts
<1> HIDE DEF x, y
<1>6. Then(y, socket') \in Seq(Byte) /\ t \in Seq(Byte)
    <2>1. Then(y, socket') \in Seq(Byte)
        BY <1>2, ThenTyped
    <2> QED
        BY <1>3, <2>1, ThenTyped
<1>7. InFlight = Then(x, t)
    <2>1. Then(Then(x, y), socket') = Then(x, Then(y, socket'))
        BY <1>2, ThenAssociative
    <2>2. Then(Then(x, Then(y, socket')), Behind) = Then(x, t)
        BY <1>2, <1>3, <1>6, ThenAssociative
    <2> QED
        BY <1>2, <1>3, <2>1, <2>2
<1> HIDE DEF t
<1>8. f \in Nat /\ Len(handled) \in Nat
    BY InFlightTyped
<1>9. /\ f \in 1 .. Len(accepted) /\ accepted[f] \in Payloads /\ x = Bytes(f, accepted[f])
      /\ IsStream(t, f + 1, accepted)
      /\ IsWhole(Then(x, t), f, accepted) => IsWhole(t, f + 1, accepted)
    <2>1. IsStream(Then(x, t), f, accepted) /\ Len(x) = Size(accepted, f) /\ Len(x) > 0
        BY <1>1, <1>2, <1>7
    <2>2. accepted \in Seq(Payloads) /\ f \in Nat /\ x \in Seq(Byte) /\ t \in Seq(Byte)
        BY <1>1, <1>2, <1>6, <1>8
    <2> HIDE DEF f
    <2> QED
        BY ONLY <2>1, <2>2, StreamGoesOn
<1>10. handled' \in Seq(Seq(Byte)) /\ Len(handled') = f
    BY <1>1, <1>2, <1>4, AppendProperties
<1>11. Len(socket') <= Room
    <2>1. Len(socket) \in Nat /\ Len(socket') \in Nat /\ Room \in Nat
        BY <1>1, LenProperties, WireAssumption
    <2> QED
        BY <1>1, <2>1
<1>12. WireInv'
    <2>1. IsStream(InFlight', Len(handled') + 1, accepted')
        BY <1>5, <1>9, <1>10
    <2>2. link' = "up" => IsWhole(InFlight', Len(handled') + 1, accepted')
        BY <1>1, <1>5, <1>7, <1>9, <1>10
    <2>3. recvBuffer' \in Seq(Byte)
        BY <1>2, <1>4
    <2> QED
        BY <1>10, <1>11, <2>1, <2>2, <2>3 DEF WireInv
<1>13. Fifo!Handle
    <2>1. Fifo!Message(f, accepted[f]) = x
        BY <1>9 DEF Fifo!Message, Bytes
    <2>2. InFlight = Fifo!Message(f, accepted[f]) \o InFlight'
        BY ONLY <1>5, <1>7, <2>1, Zenon DEF Then
    <2>3. handled' = Append(handled, Fifo!Message(f, accepted[f]))
        BY ONLY <1>4, <2>1, Zenon
    <2> QED
        BY <1>9, <2>2, <2>3 DEF Fifo!Handle
<1> QED
    BY <1>12, <1>13 DEF FifoStep

(* Receiving handles the next message or only moves bytes; no correct sender makes it meet a wrong header *)
LEMMA ReceiveIsHandle ==
    ASSUME WireInv, ReceiveMessage
    PROVE  WireInv' /\ FifoStep
<1>1. recvBuffer \in Seq(Byte) /\ socket \in Seq(Byte) /\ Len(socket) \in Nat
    BY LenProperties DEF WireInv
<1>2. UNCHANGED <<accepted, sendQueue, offset>>
    BY DEF ReceiveMessage
<1> DEFINE bufferOf(n) == Then(recvBuffer, SubSeq(socket, 1, n))
           leftOf(n) == SubSeq(socket, n + 1, Len(socket))
<1>3. PICK first :
         /\ first \in Received(HeaderSize)
         /\ IF Len(bufferOf(first)) < HeaderSize
            THEN recvBuffer' = bufferOf(first) /\ socket' = leftOf(first) /\ UNCHANGED <<handled, link>>
            ELSE IF ~IsHeader(bufferOf(first))
            THEN link' = "down" /\ recvBuffer' = bufferOf(first) /\ socket' = leftOf(first) /\ UNCHANGED handled
            ELSE \E second \in IF Len(bufferOf(first)) >= TotalSize(bufferOf(first)) THEN {0} ELSE 0 .. Len(leftOf(first)) :
                 /\ socket' = SubSeq(leftOf(first), second + 1, Len(leftOf(first)))
                 /\ IF Len(Then(bufferOf(first), SubSeq(leftOf(first), 1, second))) < TotalSize(bufferOf(first))
                    THEN recvBuffer' = Then(bufferOf(first), SubSeq(leftOf(first), 1, second)) /\ UNCHANGED handled
                    ELSE /\ handled' = Append(handled, SubSeq(Then(bufferOf(first), SubSeq(leftOf(first), 1, second)), 1,
                                                              TotalSize(bufferOf(first))))
                         /\ recvBuffer' = SubSeq(Then(bufferOf(first), SubSeq(leftOf(first), 1, second)),
                                                 TotalSize(bufferOf(first)) + 1,
                                                 Len(Then(bufferOf(first), SubSeq(leftOf(first), 1, second))))
                 /\ UNCHANGED link
    BY DEF ReceiveMessage, Then
<1> DEFINE buffer == bufferOf(first)
           left == leftOf(first)
<1>4. first \in 0 .. Len(socket)
    BY <1>1, <1>3 DEF Received, Upto
<1>5. /\ buffer \in Seq(Byte) /\ left \in Seq(Byte) /\ Len(left) <= Len(socket)
      /\ Then(buffer, left) = Then(recvBuffer, socket)
    <2> DEFINE x == SubSeq(socket, 1, first)
    <2>1. x \in Seq(Byte) /\ left \in Seq(Byte) /\ socket = Then(x, left)
        BY <1>1, <1>4, PartAndRest
    <2>2. buffer = Then(recvBuffer, x)
        OBVIOUS
    <2> HIDE DEF x, left, buffer
    <2> QED
        BY ONLY <1>1, <2>1, <2>2, ReadMoves
<1>6. /\ Len(buffer) < HeaderSize => recvBuffer' = buffer /\ socket' = left /\ UNCHANGED <<handled, link>>
      /\ Len(buffer) >= HeaderSize /\ IsHeader(buffer) =>
            \E second : /\ second \in IF Len(buffer) >= TotalSize(buffer) THEN {0} ELSE 0 .. Len(left)
                        /\ socket' = SubSeq(left, second + 1, Len(left))
                        /\ IF Len(Then(buffer, SubSeq(left, 1, second))) < TotalSize(buffer)
                           THEN recvBuffer' = Then(buffer, SubSeq(left, 1, second)) /\ UNCHANGED handled
                           ELSE /\ handled' = Append(handled, SubSeq(Then(buffer, SubSeq(left, 1, second)), 1, TotalSize(buffer)))
                                /\ recvBuffer' = SubSeq(Then(buffer, SubSeq(left, 1, second)), TotalSize(buffer) + 1,
                                                        Len(Then(buffer, SubSeq(left, 1, second))))
                        /\ UNCHANGED link
    <2>1. Len(buffer) \in Nat /\ HeaderSize \in Nat
        BY <1>5, LenProperties, WireAssumption
    <2>2. Len(buffer) >= HeaderSize => ~(Len(buffer) < HeaderSize)
        <3> HIDE DEF buffer
        <3> QED
            BY <2>1
    <2> QED
        BY ONLY <1>3, <2>2, Zenon
<1> HIDE DEF buffer, left, bufferOf, leftOf
<1>7. CASE Len(buffer) < HeaderSize
    BY <1>2, <1>5, <1>6, <1>7, ReadStutters
<1>8. CASE ~(Len(buffer) < HeaderSize)
    <2>1. Len(buffer) > 0 /\ Len(buffer) >= HeaderSize /\ Len(buffer) \in Nat /\ Len(left) \in Nat
        <3>1. Len(buffer) \in Nat /\ HeaderSize \in Nat \ {0} /\ Len(left) \in Nat
            BY <1>5, LenProperties, WireAssumption
        <3> QED
            BY <1>8, <3>1
    <2>2. /\ IsHeader(buffer) /\ TotalSize(buffer) = Size(accepted, Len(handled) + 1)
          /\ TotalSize(buffer) \in Nat \ {0}
        BY <1>5, <2>1, HeaderIsNext
    <2> DEFINE total == TotalSize(buffer)
               filledBy(n) == Then(buffer, SubSeq(left, 1, n))
    <2>3. PICK second :
             /\ second \in IF Len(buffer) >= total THEN {0} ELSE 0 .. Len(left)
             /\ socket' = SubSeq(left, second + 1, Len(left))
             /\ IF Len(filledBy(second)) < total
                THEN recvBuffer' = filledBy(second) /\ UNCHANGED handled
                ELSE /\ handled' = Append(handled, SubSeq(filledBy(second), 1, total))
                     /\ recvBuffer' = SubSeq(filledBy(second), total + 1, Len(filledBy(second)))
             /\ UNCHANGED link
        BY <1>6, <2>1, <2>2
    <2> DEFINE filled == filledBy(second)
    <2>4. second \in 0 .. Len(left)
        BY <2>1, <2>3
    <2>5. /\ filled \in Seq(Byte) /\ socket' \in Seq(Byte) /\ Len(socket') <= Len(left)
          /\ Then(filled, socket') = Then(buffer, left)
        <3> DEFINE x == SubSeq(left, 1, second)
        <3>1. x \in Seq(Byte) /\ socket' \in Seq(Byte) /\ left = Then(x, socket')
            BY <1>5, <2>3, <2>4, PartAndRest
        <3>2. filled = Then(buffer, x)
            OBVIOUS
        <3> HIDE DEF x, filled
        <3> QED
            BY ONLY <1>5, <3>1, <3>2, ReadMoves
    <2>6. IF Len(filled) < total
          THEN recvBuffer' = filled /\ UNCHANGED handled
          ELSE /\ handled' = Append(handled, SubSeq(filled, 1, total))
               /\ recvBuffer' = SubSeq(filled, total + 1, Len(filled))
        BY <2>3
    <2>7. link' = link
        BY <2>3
    <2> HIDE DEF filled, filledBy, total
    <2>8. /\ Len(socket') <= Len(socket) /\ Len(filled) \in Nat
          /\ Then(filled, socket') = Then(recvBuffer, socket)
        <3>1. Len(socket') \in Nat /\ Len(filled) \in Nat
            BY <2>5, LenProperties
        <3> QED
            BY <1>1, <1>5, <2>1, <2>5, <3>1
    <2>9. total \in Nat \ {0} /\ total = Size(accepted, Len(handled) + 1)
        BY <2>2 DEF total
    <2>10. CASE Len(filled) < total
        BY <1>2, <2>5, <2>6, <2>7, <2>8, <2>10, ReadStutters
    <2>11. CASE ~(Len(filled) < total)
        <3>1. total <= Len(filled)
            BY <2>8, <2>9, <2>11
        <3>2. /\ handled' = Append(handled, SubSeq(filled, 1, total))
              /\ recvBuffer' = SubSeq(filled, total + 1, Len(filled))
            BY <2>6, <2>11
        <3> QED
            BY ONLY WireInv, <1>2, <2>5, <2>7, <2>8, <2>9, <3>1, <3>2, ReadHandles
    <2> QED
        BY <2>10, <2>11
<1> QED
    BY <1>7, <1>8

-----------------------------------------------------------------------------
(* Every step keeps the stream and is a step of the channel, or none *)
LEMMA WireStepKeeps ==
    ASSUME WireInv, [WireStep]_wireVars
    PROVE  WireInv' /\ FifoStep
BY SendIsSend, DrainStutters, ReceiveIsHandle, ClosingEnds, RestStutters DEF WireStep

(* At the start nothing is on its way *)
LEMMA WireStarts ==
    ASSUME InitWire
    PROVE  WireInv /\ Fifo!Init
<1>1. /\ accepted = <<>> /\ sendQueue = <<>> /\ offset = 0 /\ socket = <<>>
      /\ recvBuffer = <<>> /\ handled = <<>> /\ link = "up"
    BY DEF InitWire
<1>2. /\ <<>> \in Seq(Byte) /\ <<>> \in Seq(Seq(Byte)) /\ <<>> \in Seq(Payloads) /\ Len(<<>>) = 0
    BY EmptySeq
<1>3. InFlight = <<>>
    <2>1. Then(Then(<<>>, <<>>), <<>>) = <<>>
        BY <1>2, ThenTyped
    <2>2. Unsent(<<>>, 0) = <<>>
        BY DEF Unsent
    <2>3. InFlight = Then(Then(recvBuffer, socket), Unsent(sendQueue, offset))
        BY <1>1, InFlightIs
    <2> QED
        BY <1>1, <2>1, <2>2, <2>3
<1>4. IsStream(<<>>, 1, <<>>) /\ IsWhole(<<>>, 1, <<>>)
    BY <1>2 DEF IsStream, IsWhole
<1>5. 0 <= Room /\ Len(handled) + 1 = 1
    BY <1>1, <1>2, WireAssumption
<1>6. WireInv
    BY <1>1, <1>2, <1>3, <1>4, <1>5 DEF WireInv
<1>7. Fifo!Init
    BY <1>1, <1>2, <1>3 DEF Fifo!Init
<1> QED
    BY <1>6, <1>7

(* The bytes on their way are always a stream of the messages that are still to come *)
THEOREM WireInductive == WireSpec => []WireInv
<1>1. InitWire => WireInv
    BY WireStarts
<1>2. WireInv /\ [WireStep]_wireVars => WireInv'
    BY WireStepKeeps
<1> QED
    BY <1>1, <1>2, PTL DEF WireSpec

(* Type correctness of the connection: the socket holds no more than its room, a sent part is less than *)
(* the message at the head of the queue, and an empty queue has none                                   *)
THEOREM WireTypeCorrect == WireSpec => []WireTypeOK
<1>1. WireInv => WireTypeOK
    BY DEF WireInv, WireTypeOK
<1> QED
    BY <1>1, WireInductive, PTL

(* One direction of a PeerConnection is a first-in first-out channel: whatever a socket takes at a time and *)
(* however it is read, messages come out whole, once each and in the order they were accepted, and only     *)
(* the end of the stream can be lost, when the connection ends                                             *)
THEOREM WireImplementsChannel == WireSpec => ImplementsChannel
<1>1. InitWire => Fifo!Init
    BY WireStarts
<1>2. WireInv /\ [WireStep]_wireVars => [Fifo!Send \/ Fifo!Handle \/ Fifo!End]_wireView
    BY WireStepKeeps DEF FifoStep
<1> QED
    BY <1>1, <1>2, WireInductive, PTL DEF WireSpec, ImplementsChannel, Fifo!Spec, wireView
=============================================================================
