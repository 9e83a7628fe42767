------------------------------ MODULE Mempool ------------------------------
(***************************************************************************)
(* core/mempool/mempool.cpp: the pool with its five tables, eviction by     *)
(* effective fee rate and replacement by fee, beside a chain that confirms  *)
(* transactions in the two steps of Node::ValidateAndApplyBlock: the coins  *)
(* change first, the block's transactions leave the pool afterwards.        *)
(*                                                                          *)
(* A transaction is a record [id, ins, size, fee, rbf]; its one output is   *)
(* <<id, 0>>.  Sizes and fees are given: serialisation and amounts are       *)
(* abstracted.                                                              *)
(***************************************************************************)
EXTENDS Integers, FiniteSets, FiniteSetsExt, Functions, Sums

CONSTANTS
    Tx,             \* the transactions that are offered
    BaseCoins,      \* the outpoints unspent at the start
    PoolBlocks,     \* the sets of transactions that blocks confirm
    MaxSize,        \* max_size_
    MinRelayFee,    \* min_relay_fee_, per 1000 bytes
    RbfIncrement,   \* MIN_RBF_FEE_INCREMENT
    MaxTime         \* bound on the clock, in seconds

ASSUME MempoolAssumption ==
    /\ {MaxSize, MinRelayFee, RbfIncrement, MaxTime} \subseteq Nat
    /\ \A t \in Tx : t.size \in Nat \ {0} /\ t.fee \in Nat /\ t.ins # {}
    /\ PoolBlocks \subseteq SUBSET Tx

VARIABLES
    pool,       \* the tables of Mempool
    coins,      \* the outpoints of the node's UTXO set
    leaving,    \* the transactions of a connected block not yet removed from the pool
    clock       \* time(nullptr)
poolVars == <<pool, coins, leaving, clock>>

EmptyPool == [entries |-> [t \in {} |-> {}],    \* transactions_
              queue |-> {},                     \* priority_queue_
              spent |-> [o \in {} |-> {}],      \* spent_outpoints_
              children |-> {}, parents |-> {},  \* pairs <<parent, child>>
              total |-> 0]                      \* total_size_

InitMempool ==
    /\ pool = EmptyPool /\ coins = BaseCoins /\ leaving = {} /\ clock = 0

Pooled(mp) == DOMAIN mp.entries

-----------------------------------------------------------------------------
(* The order of priority_queue_: effective rate, then time; equal keys are one element *)
Key(e) == [rate |-> e.ancestorFee \div e.ancestorSize, time |-> e.time]
Before(k, l) == k.rate > l.rate \/ (k.rate = l.rate /\ k.time < l.time)

Insert(queue, t, e) ==
    IF \E x \in queue : x.key = Key(e) THEN queue ELSE queue \cup {[tx |-> t, key |-> Key(e)]}

Erase(queue, e) == {x \in queue : x.key # Key(e)}

ValidateTx(t) ==
    /\ t.ins \subseteq coins
    /\ (t.fee * 1000) \div t.size >= MinRelayFee

GetConflictingTransactions(mp, t) == {mp.spent[o] : o \in t.ins \cap DOMAIN mp.spent}

(* UpdateRelationships: the pooled transactions that t spends an output of *)
ParentsOf(mp, t) == {p \in Pooled(mp) : <<p.id, 0>> \in t.ins}

(* The calls of RemoveTransaction for S, in any order: those not pooled change nothing, and no  *)
(* call changes the key of another.  The element under the key of one that goes is erased,        *)
(* whose ever it is; parents_ keeps what the children of one that goes noted                     *)
RemoveAll(mp, S) ==
    LET gone == S \cap Pooled(mp) IN
    [entries  |-> Restrict(mp.entries, Pooled(mp) \ gone),
     queue    |-> {x \in mp.queue : \A t \in gone : x.key # Key(mp.entries[t])},
     spent    |-> Restrict(mp.spent, DOMAIN mp.spent \ UNION {t.ins : t \in gone}),
     children |-> {link \in mp.children : link[1] \notin gone /\ link[2] \notin gone},
     parents  |-> {link \in mp.parents : link[2] \notin gone},
     total    |-> mp.total - Sum([t \in gone |-> t.size])]

RemoveTransaction(mp, t) == RemoveAll(mp, {t})

(* The common end of AddTransaction and ReplaceTransaction: insert, mark the inputs, *)
(* UpdateRelationships, UpdateAncestorState                                          *)
Enter(mp, t) ==
    LET new     == [time |-> clock, ancestorFee |-> t.fee, ancestorSize |-> t.size]
        parents == ParentsOf(mp, t)
        links   == {<<p, t>> : p \in parents}
        entry   == [time |-> clock,
                    ancestorFee  |-> t.fee + Sum([p \in parents |-> mp.entries[p].ancestorFee]),
                    ancestorSize |-> t.size + Sum([p \in parents |-> mp.entries[p].ancestorSize])]
    IN  [entries  |-> [u \in Pooled(mp) \cup {t} |-> IF u = t THEN entry ELSE mp.entries[u]],
         queue    |-> Insert(Erase(Insert(mp.queue, t, new), new), t, entry),
         spent    |-> [o \in DOMAIN mp.spent \cup t.ins |-> IF o \in t.ins THEN t ELSE mp.spent[o]],
         children |-> mp.children \cup links,
         parents  |-> mp.parents \cup links,
         total    |-> mp.total + t.size]

(* From the end of the queue, until the new transaction fits; every turn erases one element *)
Lowest(queue) == CHOOSE x \in queue : \A y \in queue : ~Before(x.key, y.key)

EvictLowest(mp, size) ==
    IF mp.total + size <= MaxSize \/ mp.queue = {} THEN mp
    ELSE RemoveTransaction(mp, Lowest(mp.queue).tx)

EvictTransactions(mp, size) ==
    LET after[n \in 0 .. Cardinality(mp.queue)] == IF n = 0 THEN mp ELSE EvictLowest(after[n - 1], size)
    IN  after[Cardinality(mp.queue)]

(* A replaced transaction must have announced that it may be replaced *)
SignalRbf(S) == \A u \in S : u.rbf
CalculateReplacedFees(old) == Sum([u \in old |-> u.fee])

(* Mutant: the new fee is compared with the largest replaced fee only *)
MayReplace_Largest(mp, t, old) ==
    /\ SignalRbf(old \cup {t})
    /\ t.fee >= Max({u.fee : u \in old}) + RbfIncrement

MayReplace(mp, t, old) ==
    /\ SignalRbf(old \cup {t})
    /\ t.fee >= CalculateReplacedFees(old) + RbfIncrement
    /\ 10 * (t.fee \div t.size) >= 11 * Min({u.fee \div u.size : u \in old})

(* A replacement is not compared with MaxSize *)
Submitted(mp, t) ==
    LET old     == GetConflictingTransactions(mp, t)
        evicted == EvictTransactions(mp, t.size)
    IN  IF t \in Pooled(mp) \/ ~ValidateTx(t) THEN mp
        ELSE IF old # {} THEN IF MayReplace(mp, t, old) THEN Enter(RemoveAll(mp, old), t) ELSE mp
        ELSE IF evicted.total + t.size > MaxSize THEN evicted ELSE Enter(evicted, t)

-----------------------------------------------------------------------------
AddTransaction(t) ==
    /\ pool' = Submitted(pool, t)
    /\ UNCHANGED <<coins, leaving, clock>>

(* ConnectBlock: the pool is not asked and does not know yet *)
ConnectBlock(b) ==
    LET outs == {<<t.id, 0>> : t \in b} IN
    /\ leaving = {}
    /\ \A t \in b : t.ins \subseteq coins
    /\ \A t, u \in b : t # u => t.ins \cap u.ins = {}
    /\ coins' = (coins \ UNION {t.ins : t \in b}) \cup outs
    /\ leaving' = b
    /\ UNCHANGED <<pool, clock>>

RemoveConfirmed(t) ==
    /\ t \in leaving
    /\ pool' = RemoveTransaction(pool, t)
    /\ leaving' = leaving \ {t}
    /\ UNCHANGED <<coins, clock>>

(* Offered by the pool; the node removes one by one *)
RemoveConflicting ==
    /\ leaving # {}
    /\ LET kept == RemoveAll(pool, leaving)
       IN  pool' = RemoveAll(kept, {t \in Pooled(kept) : ~ValidateTx(t)})
    /\ leaving' = {}
    /\ UNCHANGED <<coins, clock>>

ClearPool ==
    /\ pool' = EmptyPool
    /\ UNCHANGED <<coins, leaving, clock>>

PoolTick ==
    /\ clock < MaxTime
    /\ clock' = clock + 1
    /\ UNCHANGED <<pool, coins, leaving>>

MempoolStep ==
    \/ \E t \in Tx : AddTransaction(t) \/ RemoveConfirmed(t)
    \/ \E b \in PoolBlocks : ConnectBlock(b)
    \/ RemoveConflicting \/ ClearPool \/ PoolTick

MempoolSpec == InitMempool /\ [][MempoolStep]_poolVars

-----------------------------------------------------------------------------
MempoolTypeOK ==
    /\ Pooled(pool) \subseteq Tx /\ pool.total \in Nat
    /\ leaving \subseteq Tx /\ clock \in 0 .. MaxTime
    /\ pool.parents \subseteq Tx \X Tx

(* The tables tell one story, whatever was evicted, replaced and confirmed: every input  *)
(* of a pooled transaction is marked with it and nothing else is marked, so that no two   *)
(* pooled transactions spend one coin; the size is the sum; every element of the queue is  *)
(* a pooled transaction under its present key, without which EvictTransactions would loop   *)
(* for ever; children of a transaction that left are forgotten.                             *)
PoolTablesAgree ==
    /\ pool.total = Sum([t \in Pooled(pool) |-> t.size])
    /\ DOMAIN pool.spent = UNION {t.ins : t \in Pooled(pool)}
    /\ \A t \in Pooled(pool) : \A o \in t.ins : pool.spent[o] = t
    /\ \A x \in pool.queue : x.tx \in Pooled(pool) /\ x.key = Key(pool.entries[x.tx])
    /\ pool.children \subseteq Pooled(pool) \X Pooled(pool)
    /\ pool.children \subseteq pool.parents

(* A transaction that enters drives out others only by paying for all it conflicts with     *)
(* and the increment, when all of these allowed it, or by taking the place of those at the   *)
(* end of the queue; only a replacement makes the pool larger than its limit.                *)
EntryIsPaidFor ==
    [][ LET new  == Pooled(pool') \ Pooled(pool)
            gone == Pooled(pool) \ Pooled(pool')
        IN  \A t \in new :
              LET old == {u \in gone : u.ins \cap t.ins # {}} IN
              /\ old # {} => /\ old = gone /\ \A u \in old : u.rbf
                             /\ t.fee >= RbfIncrement + Sum([u \in old |-> u.fee])
              /\ old = {} =>
                    /\ pool'.total <= MaxSize
                    /\ \A x, y \in pool.queue :
                          x.tx \in gone /\ y.tx \notin gone => ~Before(x.key, y.key)
      ]_poolVars

(* The tables agree after every operation, and every operation admits only what pays *)
PoolIsSound == []PoolTablesAgree /\ EntryIsPaidFor
=============================================================================
