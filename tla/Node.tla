-------------------------------- MODULE Node --------------------------------
(***************************************************************************)
(* class Node: one process with its two stores.                            *)
(*                                                                         *)
(* Start checks or writes the genesis block and rebuilds the Chain object  *)
(* from the stored blocks; it leaves the ChainState object as the          *)
(* constructor made it.  ValidateAndApplyBlock runs in the thread that     *)
(* brought the block (a connection's or a miner's) and takes no lock: each *)
(* of its writes is a step here.  The process may die between any two      *)
(* steps; what is on disk stays, the rest is gone.                         *)
(*                                                                         *)
(* Two history variables: acked, the blocks ValidateAndApplyBlock returned *)
(* true for, and taint, what happened that the code has no defence for: a  *)
(* block that failed half way ("residue") and two threads in               *)
(* ValidateAndApplyBlock at once ("race").                                 *)
(***************************************************************************)
EXTENDS UtxoChain

CONSTANTS
    Thread,         \* the connection threads, one per peer, and the mining threads
    Genesis,        \* the expected genesis block of the network
    Relayable,      \* the transactions that pay the relay fee
    MaxHeight       \* bound of the model: blocks arrive below this height

ASSUME NodeAssumption ==
    /\ Genesis \in Block
    /\ Relayable \subseteq Tx
    /\ MaxHeight \in Nat

VARIABLES disk, phase, chain, tracker, pool, job, acked, taint
vars == <<disk, phase, chain, tracker, pool, job, acked, taint>>

-----------------------------------------------------------------------------
(* The two LevelDB stores, as operators on what they hold: the blocks by height, *)
(* the height of each block hash and the chain tip (BlockStorage), and the       *)
(* outputs of the UTXO set (UTXOStorage).  Each operation is one write batch,    *)
(* which LevelDB applies whole; a process that dies loses no batch it wrote      *)
(* before.                                                                       *)

(* Writing one key of a store *)
Put(f, k, v) == [x \in DOMAIN f \cup {k} |-> IF x = k THEN v ELSE f[x]]

EmptyDisk == [blocks |-> EmptyFun, index |-> EmptyFun,
              height |-> 0, best |-> ZeroHash, utxo |-> EmptyFun]

(* Mutant: heights count from zero *)
StoreBlock_ZeroBased(store, b, h) ==
    [store EXCEPT !.blocks = Put(@, h - 1, b), !.index = Put(@, b, h - 1)]

StoreBlock(store, b, h) ==
    [store EXCEPT !.blocks = Put(@, h, b), !.index = Put(@, b, h)]

(* Mutant: the best hash is left as it was *)
UpdateChainTip_HeightOnly(store, h, b) == [store EXCEPT !.height = h]

(* Mutant: the height of the next block is written *)
UpdateChainTip_Ahead(store, h, b) == [store EXCEPT !.height = h + 1, !.best = b]

UpdateChainTip(store, h, b) == [store EXCEPT !.height = h, !.best = b]

GetBlockByHeight(store, h) == IF h \in DOMAIN store.blocks THEN {store.blocks[h]} ELSE {}

(* The height and the coinbase flag of a coin are not written *)
SaveUTXOSet(store, utxo) == [store EXCEPT !.utxo = [p \in DOMAIN utxo |-> utxo[p].output]]

-----------------------------------------------------------------------------
Phases == {"down", "stopped", "genesis", "replay", "up", "refused"}
Steps  == {"idle", "connect", "apply", "store", "tip", "utxo", "pool"}
Idle   == [step |-> "idle", block |-> Genesis, height |-> 0]

Init ==
    /\ disk = EmptyDisk
    /\ phase = "down"
    /\ chain = EmptyChain
    /\ tracker = FreshTracker
    /\ pool = {}
    /\ job = [th \in Thread |-> Idle]
    /\ acked = EmptyFun
    /\ taint = {}

-----------------------------------------------------------------------------
(* Node::Start, up to the genesis block: a store with a chain must hold the *)
(* expected one, an empty store gets it in two batches.                     *)
OpenStores ==
    /\ phase \in {"down", "stopped"}
    /\ IF disk.height >= 1
       THEN /\ phase' = IF GetBlockByHeight(disk, 1) = {Genesis} THEN "replay" ELSE "refused"
            /\ UNCHANGED disk
       ELSE /\ phase' = "genesis"
            /\ disk' = StoreBlock(disk, Genesis, 1)
    /\ UNCHANGED <<chain, tracker, pool, job, acked, taint>>

GenesisTip ==
    /\ phase = "genesis"
    /\ phase' = "replay"
    /\ disk' = UpdateChainTip(disk, 1, Genesis)
    /\ UNCHANGED <<chain, tracker, pool, job, acked, taint>>

(* Mutant: the loop ends one block early *)
LastReplayed_Short(d) == d.height - 1

LastReplayed(d) == d.height

(* One turn of the loop of Node::Start: a block that is missing or does not *)
(* connect ends it                                                           *)
ReplayStep(d, s, h) ==
    IF ~s.ok \/ h \notin DOMAIN d.blocks THEN [s EXCEPT !.ok = FALSE]
    ELSE LET r == ConnectBlock(s.chain, d.blocks[h]) IN [ok |-> r.ok, chain |-> r.chain]

ReplayBlock ==
    LET r == ReplayStep(disk, [ok |-> TRUE, chain |-> chain], chain.height + 1)
    IN  /\ phase = "replay" /\ chain.height < LastReplayed(disk)
        /\ chain' = r.chain
        /\ phase' = IF r.ok THEN "replay" ELSE "refused"
        /\ UNCHANGED <<disk, tracker, pool, job, acked, taint>>

Started ==
    /\ phase = "replay" /\ chain.height >= LastReplayed(disk)
    /\ phase' = "up"
    /\ taint' = taint \ {"residue"}
    /\ UNCHANGED <<disk, chain, tracker, pool, job, acked>>

(* The process ends: a refused start, or a crash at any point.  The next one *)
(* begins with new objects.                                                  *)
ProcessEnds(how) ==
    /\ phase' = how
    /\ chain' = EmptyChain
    /\ tracker' = FreshTracker
    /\ pool' = {}
    /\ job' = [th \in Thread |-> Idle]

Crash ==
    /\ phase \notin {"down", "stopped"}
    /\ ProcessEnds("down")
    /\ UNCHANGED <<disk, acked, taint>>

AllIdle == \A th \in Thread : job[th].step = "idle"

(* Node::Stop joins the threads, saves the UTXO set and closes the stores; the *)
(* daemon exits after it                                                       *)
Stop ==
    /\ phase = "up" /\ AllIdle
    /\ disk' = SaveUTXOSet(disk, chain.utxo)
    /\ ProcessEnds("stopped")
    /\ UNCHANGED <<acked, taint>>

-----------------------------------------------------------------------------
(* Node::ValidateAndApplyBlock, the tests before anything changes.  The height *)
(* handed to ValidateAgainstUTXO is the tip's, not the block's.                 *)
Prevalidated(b) ==
    /\ ValidateBlock(tracker, b)
    /\ \A t \in Range(Tail(BlockTxs[b])) : ValidateTransaction(chain.utxo, t, chain.height)

Receive(th, b) ==
    /\ phase = "up" /\ job[th].step = "idle"
    /\ chain.height < MaxHeight
    /\ Prevalidated(b)
    /\ job' = [job EXCEPT ![th] = [Idle EXCEPT !.step = "connect", !.block = b]]
    /\ taint' = IF AllIdle THEN taint ELSE taint \cup {"race"}
    /\ UNCHANGED <<disk, phase, chain, tracker, pool, acked>>

At(th, step)   == phase = "up" /\ job[th].step = step
Goto(th, step) == job' = [job EXCEPT ![th] = [@ EXCEPT !.step = step]]

Connect(th) ==
    LET r == ConnectBlock(chain, job[th].block)
    IN  /\ At(th, "connect")
        /\ chain' = r.chain
        /\ IF r.ok
           THEN Goto(th, "apply") /\ UNCHANGED taint
           ELSE /\ job' = [job EXCEPT ![th] = Idle]
                /\ taint' = IF r.chain # chain THEN taint \cup {"residue"} ELSE taint
        /\ UNCHANGED <<disk, phase, tracker, pool, acked>>

(* A tracker that refuses the block now is only warned about *)
Apply(th) ==
    /\ At(th, "apply")
    /\ tracker' = ApplyBlock(tracker, job[th].block)
    /\ Goto(th, "store")
    /\ UNCHANGED <<disk, phase, chain, pool, acked, taint>>

(* Mutant: the height the chain had before the block *)
StoredHeight_Before(c) == c.height - 1

StoredHeight(c) == c.height

(* The height is read from the chain here, after the block was connected *)
Store(th) ==
    LET h == StoredHeight(chain)
    IN  /\ At(th, "store")
        /\ disk' = StoreBlock(disk, job[th].block, h)
        /\ job' = [job EXCEPT ![th] = [@ EXCEPT !.step = "tip", !.height = h]]
        /\ UNCHANGED <<phase, chain, tracker, pool, acked, taint>>

Tip(th) ==
    /\ At(th, "tip")
    /\ disk' = UpdateChainTip(disk, job[th].height, job[th].block)
    /\ Goto(th, "utxo")
    /\ UNCHANGED <<phase, chain, tracker, pool, acked, taint>>

SaveUtxo(th) ==
    /\ At(th, "utxo")
    /\ disk' = SaveUTXOSet(disk, chain.utxo)
    /\ Goto(th, "pool")
    /\ UNCHANGED <<phase, chain, tracker, pool, acked, taint>>

(* What the last loop of ValidateAndApplyBlock takes out of the mempool: the  *)
(* transactions of the block, not the ones that conflict with them            *)
Unpooled(b) == Range(BlockTxs[b])

Finish(th) ==
    /\ At(th, "pool")
    /\ pool' = pool \ Unpooled(job[th].block)
    /\ acked' = Put(acked, job[th].height, job[th].block)
    /\ job' = [job EXCEPT ![th] = Idle]
    /\ UNCHANGED <<disk, phase, chain, tracker, taint>>

(* HasTransaction or HasConflict.  No transaction here signals replacement. *)
Pooled(t) == \E u \in pool : Range(TxInputs[t]) \cap Range(TxInputs[u]) # {}

(* Node::SubmitTransaction, from the network or from an RPC thread *)
SubmitTransaction(t) ==
    /\ phase = "up"
    /\ t \in Relayable /\ TxIsValid(t)
    /\ ValidateTransaction(chain.utxo, t, chain.height)
    /\ ~Pooled(t)
    /\ pool' = pool \cup {t}
    /\ UNCHANGED <<disk, phase, chain, tracker, job, acked, taint>>

Next ==
    \/ OpenStores \/ GenesisTip \/ ReplayBlock \/ Started \/ Crash \/ Stop
    \/ \E th \in Thread :
          \/ \E b \in Block : Receive(th, b)
          \/ Connect(th) \/ Apply(th) \/ Store(th) \/ Tip(th) \/ SaveUtxo(th) \/ Finish(th)
    \/ \E t \in Tx : SubmitTransaction(t)

Spec == Init /\ [][Next]_vars

-----------------------------------------------------------------------------
(* The state of Node has its type *)
TypeOK ==
    /\ DOMAIN disk = DOMAIN EmptyDisk
    /\ disk.height \in Nat /\ disk.best \in Block \cup {ZeroHash}
    /\ disk.blocks \in [DOMAIN disk.blocks -> Block] /\ DOMAIN disk.blocks \subseteq Nat \ {0}
    /\ phase \in Phases
    /\ DOMAIN chain = DOMAIN EmptyChain
    /\ chain.height \in Nat /\ tracker.height \in Nat
    /\ pool \subseteq Relayable
    /\ job \in [Thread -> [step : Steps, block : Block, height : Nat]]
    /\ acked \in [DOMAIN acked -> Block] /\ DOMAIN acked \subseteq Nat \ {0}
    /\ taint \subseteq {"residue", "race"}

Undisturbed == "race" \notin taint

(* What Node::Start relies on: below the stored height no block is missing, the *)
(* first is the genesis block and the last the recorded tip, and at most one     *)
(* block is stored above it, whatever the moment of a crash.                     *)
StorageContiguous ==
    Undisturbed =>
        /\ 1 .. disk.height \subseteq DOMAIN disk.blocks
        /\ DOMAIN disk.blocks \subseteq 1 .. disk.height + 1
        /\ disk.height >= 1 => /\ disk.blocks[1] = Genesis
                               /\ disk.blocks[disk.height] = disk.best

(* A block for which ValidateAndApplyBlock returned true stays stored at its   *)
(* height through every crash, restart and later block.                         *)
AcknowledgedSurvives ==
    Undisturbed => \A h \in DOMAIN acked : h <= disk.height /\ disk.blocks[h] = acked[h]

(* The stored chain only grows: no step changes a block at or below the stored *)
(* height, and the height moves by one.                                         *)
StoredChainGrows ==
    [][Undisturbed' =>
         /\ disk'.height \in {disk.height, disk.height + 1}
         /\ \A h \in 1 .. disk.height : disk'.blocks[h] = disk.blocks[h]]_vars

(* The chain a new object reaches from the stored blocks: the turns of the loop up to a height *)
ReplayedTo(d, n) ==
    LET after[h \in 0 .. n] ==
            IF h = 0 THEN [ok |-> TRUE, chain |-> EmptyChain] ELSE ReplayStep(d, after[h - 1], h)
    IN  after[n]

Replay(d) == ReplayedTo(d, d.height)

(* Between blocks the chain in memory, with its coins, supply and index, is the *)
(* one the next start would rebuild from disk.                                   *)
RestartGivesSameChain ==
    phase = "up" /\ AllIdle /\ taint = {} => Replay(disk) = [ok |-> TRUE, chain |-> chain]

(* A start is refused only after a residue or a race, or at the genesis block itself: a genesis block *)
(* that does not connect to an empty chain refuses every start, and nothing is ever stored above it.   *)
RefusedOnlyWhenTainted ==
    phase = "refused" /\ taint = {} => disk.height = 1 /\ ~ConnectBlock(EmptyChain, Genesis).ok

(* A clean stop leaves in the UTXO store the outputs of the stored chain *)
CleanStopSavesCoins ==
    phase = "stopped" /\ taint = {} =>
        LET utxo == Replay(disk).chain.utxo
        IN  disk.utxo = [p \in DOMAIN utxo |-> utxo[p].output]

(* What a restart rebuilds, refuses and finds saved is determined by the blocks that were accepted *)
RestartIsFaithful == RestartGivesSameChain /\ RefusedOnlyWhenTainted /\ CleanStopSavesCoins

-----------------------------------------------------------------------------
(* "All subsequent blocks reference [the genesis block] directly or indirectly *)
(* through the chain of previous block hashes" (GENESIS.md).                    *)
StoredChainIsLinked ==
    Undisturbed => \A h \in 2 .. disk.height : BlockPrev[disk.blocks[h]] = disk.blocks[h - 1]

(* "On restart, verify no chainstate reconstruction errors were reported"  *)
(* (OPERATIONS_RUNBOOK.md): a node starts on what it stored itself.         *)
StartSucceeds == phase # "refused"
=============================================================================
