------------------------------ MODULE PeerStore ------------------------------
(***************************************************************************)
(* core/p2p/peer_database.cpp with peer_discovery.cpp: what is remembered of *)
(* peers, their score and their bans, in memory and, since the last Close, in *)
(* a file.  Only Close asks whether the store is open: the other calls, Open   *)
(* included, work on the memory at any time.                                  *)
(*                                                                          *)
(* Every Record and Ban call makes an entry for a peer it does not find; its  *)
(* address stays empty, its line in the file lacks a word, and Open skips it. *)
(* Counters and places that nothing here reads are left out.  A step of the   *)
(* score stands for several calls of the same kind.                           *)
(***************************************************************************)
EXTENDS Integers, FiniteSets, FiniteSetsExt, Functions

CONSTANTS
    Known,          \* the addresses with their ports
    Seeds,          \* those that seed nodes and DNS seeds name
    Private,        \* those ValidatePeerAddress refuses
    FewPeers,       \* 10 and 100 in PeriodicDiscovery
    StartScore, MaxScore, GoodScore, LowScore,  \* 50, 100, 25 and 25
    Rewards,        \* what successes, blocks and transactions add and failures take
    ViolationCost,  \* 10
    MaxViolations,  \* 5
    BanTimes,       \* the durations of bans
    AutoBan,        \* 86400
    MaxStoreTime    \* bound on the clock

ASSUME PeerStoreAssumption ==
    /\ Seeds \subseteq Known /\ Private \subseteq Known
    /\ {MaxScore, ViolationCost} \subseteq Nat /\ {StartScore, GoodScore, LowScore} \subseteq 0 .. MaxScore
    /\ Rewards \subseteq Int /\ BanTimes \subseteq Nat \ {0} /\ AutoBan \in Nat \ {0}
    /\ {MaxViolations, MaxStoreTime} \subseteq Nat /\ FewPeers \in Nat

VARIABLES
    entries,    \* peers_
    saved,      \* the file
    isOpen,     \* is_open_
    storeTime,  \* time(nullptr)
    banTold,    \* history: until when a peer on record was last banned, 0 for not
    banKept     \* history: what banTold was at the last Close
storeVars == <<entries, saved, isOpen, storeTime, banTold, banKept>>

Unnamed == [named |-> FALSE, banned |-> FALSE, until |-> 0, score |-> 0, violations |-> 0]
NoEntries == [p \in {} |-> Unnamed]

InitStore ==
    /\ entries = NoEntries /\ saved = NoEntries /\ isOpen = FALSE
    /\ storeTime = 1 /\ banTold = [p \in Known |-> 0] /\ banKept = [p \in Known |-> 0]

Put(db, p, e) == [q \in DOMAIN db \cup {p} |-> IF q = p THEN e ELSE db[q]]
Entry(p) == IF p \in DOMAIN entries THEN entries[p] ELSE Unnamed

(* Mutant: only the lower limit is kept *)
Clamped_Below(score) == IF score < 0 THEN 0 ELSE score

Clamped(score) == IF score < 0 THEN 0 ELSE IF score > MaxScore THEN MaxScore ELSE score

(* The calls that change one entry, all under mutex_ *)
Record(p, e) ==
    /\ entries' = Put(entries, p, e)
    /\ UNCHANGED <<saved, isOpen, storeTime, banKept>>

(* A ban of a peer whose address is known is remembered *)
Told(p, until) == banTold' = [banTold EXCEPT ![p] = IF Entry(p).named THEN until ELSE @]

-----------------------------------------------------------------------------
(* An entry of the file takes the place of one in memory *)
OpenStore ==
    /\ entries' = [p \in DOMAIN entries \cup DOMAIN saved |->
                      IF p \in DOMAIN saved THEN saved[p] ELSE entries[p]]
    /\ isOpen' = TRUE
    /\ banTold' = [p \in Known |-> IF p \in DOMAIN saved THEN banKept[p] ELSE banTold[p]]
    /\ UNCHANGED <<saved, storeTime, banKept>>

(* Mutant: the ban is not among the fields written *)
Written_Unbanned(e) == [e EXCEPT !.banned = FALSE, !.until = 0]

Written(e) == e

CloseStore ==
    /\ isOpen
    /\ saved' = [p \in {q \in DOMAIN entries : entries[q].named} |-> Written(entries[p])]
    /\ isOpen' = FALSE
    /\ banKept' = banTold
    /\ UNCHANGED <<entries, storeTime, banTold>>

(* A process ends: after Close, or without it, when all since the last Close is lost *)
Restart ==
    /\ entries' = NoEntries /\ isOpen' = FALSE
    /\ banTold' = [p \in Known |-> 0]
    /\ UNCHANGED <<saved, storeTime, banKept>>

-----------------------------------------------------------------------------
(* AddPeer of every peer of a set: an entry that exists stays as it is *)
Fresh == [Unnamed EXCEPT !.named = TRUE, !.score = StartScore]
WithPeers(db, S) == [p \in DOMAIN db \cup S |-> IF p \in DOMAIN db THEN db[p] ELSE Fresh]

(* DiscoverFromPeerExchange *)
PeerExchange(S) ==
    /\ entries' = WithPeers(entries, S \ Private)
    /\ UNCHANGED <<saved, isOpen, storeTime, banTold, banKept>>

(* PeriodicDiscovery: seed nodes and DNS below the lower limit, DNS below the upper; *)
(* a DNS seed may not answer                                                         *)
PeriodicDiscovery ==
    /\ Cardinality(DOMAIN entries) < FewPeers
    /\ \E found \in SUBSET Seeds : entries' = WithPeers(entries, found \ Private)
    /\ UNCHANGED <<saved, isOpen, storeTime, banTold, banKept>>

(* UpdatePeer writes what its caller holds: an entry GetPeer gave out, of this or another peer, now or *)
(* at the last Close, or a new one                                                                   *)
Held == {Unnamed, Fresh} \cup Range(entries) \cup Range(saved)
UpdatePeer(p, info) ==
    /\ Record(p, info)
    /\ banTold' = [banTold EXCEPT ![p] = IF info.named /\ info.banned THEN info.until ELSE 0]

UpdateScore(p, delta) ==
    /\ Record(p, [Entry(p) EXCEPT !.score = Clamped(@ + delta)])
    /\ UNCHANGED banTold

BanPeer(p, duration) ==
    /\ Record(p, [Entry(p) EXCEPT !.banned = TRUE, !.until = storeTime + duration, !.score = 0])
    /\ Told(p, storeTime + duration)

UnbanPeer(p) ==
    /\ Record(p, [Entry(p) EXCEPT !.banned = FALSE, !.until = 0, !.score = LowScore])
    /\ Told(p, 0)

(* From the limit on every violation bans anew, and may shorten a longer ban *)
RecordProtocolViolation(p) ==
    LET e == [Entry(p) EXCEPT !.score = Clamped(@ - ViolationCost),
                              !.violations = IF @ < MaxViolations THEN @ + 1 ELSE @]
        bans == e.violations >= MaxViolations
    IN  /\ Record(p, IF bans THEN [e EXCEPT !.banned = TRUE, !.until = storeTime + AutoBan] ELSE e)
        /\ IF bans THEN Told(p, storeTime + AutoBan) ELSE UNCHANGED banTold

Expired(e) == e.until > 0 /\ e.until < storeTime

(* IsBanned lifts a ban that has run out *)
IsBanned(p) ==
    /\ p \in DOMAIN entries /\ Expired(entries[p])
    /\ Record(p, [entries[p] EXCEPT !.banned = FALSE, !.until = 0])
    /\ UNCHANGED banTold

Answer(p) == p \in DOMAIN entries /\ entries[p].banned /\ ~Expired(entries[p])

StoreTick ==
    /\ storeTime < MaxStoreTime
    /\ storeTime' = storeTime + 1
    /\ UNCHANGED <<entries, saved, isOpen, banTold, banKept>>

(* GetGoodPeers, which GetInitialPeers gives out *)
GoodPeers ==
    {p \in DOMAIN entries : LET e == entries[p] IN
        ~e.banned /\ e.score > GoodScore /\ (e.until = 0 \/ Expired(e))}

StoreStep ==
    \/ OpenStore \/ CloseStore \/ Restart \/ StoreTick \/ PeriodicDiscovery
    \/ \E S \in SUBSET Known : S # {} /\ PeerExchange(S)
    \/ \E p \in Known :
          \/ \E delta \in Rewards : UpdateScore(p, delta)
          \/ \E duration \in BanTimes : BanPeer(p, duration)
          \/ \E info \in Held : UpdatePeer(p, info)
          \/ UnbanPeer(p) \/ RecordProtocolViolation(p) \/ IsBanned(p)

StoreSpec == InitStore /\ [][StoreStep]_storeVars

-----------------------------------------------------------------------------
StoreTypeOK ==
    \A db \in {entries, saved} :
       /\ DOMAIN db \subseteq Known
       /\ \A p \in DOMAIN db :
             /\ db[p].score \in 0 .. MaxScore /\ db[p].violations \in 0 .. MaxViolations
             /\ db[p].banned \in BOOLEAN /\ db[p].until \in Nat

(* A peer on record that was banned stays banned for the whole time, whatever it is heard  *)
(* doing or saying meanwhile, who else names it, and through Close and Open, and no list of  *)
(* peers to connect to has it until then, unless UpdatePeer writes another entry over it.     *)
(* (Open brings back the bans of the last Close: one given since, of a peer that is in the    *)
(* file, is lost with it, and so is one that was not closed before a restart.)               *)
BansHold ==
    \A p \in Known : storeTime <= banTold[p] => Answer(p) /\ p \notin GoodPeers
=============================================================================
