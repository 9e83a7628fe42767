------------------------------- MODULE Chain --------------------------------
(***************************************************************************)
(* An object of class Chain and the caller that moves it: blocks are       *)
(* connected on the tip and disconnected from it, a snapshot is taken and  *)
(* restored, the chain is reset.                                           *)
(*                                                                         *)
(* The caller keeps what DisconnectBlock needs, the blocks it connected    *)
(* with their undo data (stack), and offers only children of the tip, as   *)
(* Node does after ChainState::ValidateBlock.  taint remembers what the    *)
(* code has no defence for: a block that failed half way ("residue") and a *)
(* block whose outputs replaced coins of the same outpoint ("overwrite"),  *)
(* after which the UTXO set is no longer a function of the stack, and a    *)
(* block with outputs whose sum leaves the 64-bit words ("wrap").          *)
(***************************************************************************)
EXTENDS UtxoChain

CONSTANTS MaxHeight     \* bound of the model: blocks are offered below this height

ASSUME ChainAssumption == MaxHeight \in Nat

VARIABLES chain, stack, saved, taint
vars == <<chain, stack, saved, taint>>

NoSnapshot == [chain |-> EmptyChain, stack |-> <<>>, taint |-> {}, taken |-> FALSE]

BlocksOf(st) == [i \in DOMAIN st |-> st[i].block]
Created(b)   == UNION {OutPointsOf(t) : t \in Range(BlockTxs[b])}

(* The outputs of a transaction add up within the 64-bit words.  The code limits *)
(* each output to the cap of its asset but not their number, nor their sum.       *)
AmountsFit(t) ==
    \A a \in Asset :
        LET outs == TxOutputs[t]
        IN  Sum([i \in {j \in DOMAIN outs : outs[j].asset = a} |-> outs[i].amount]) < U64

(* What a block that connects leaves behind in the history *)
Marks(c, b) ==
    (IF Created(b) \cap DOMAIN c.utxo = {} THEN {} ELSE {"overwrite"})
        \cup (IF \A t \in Range(BlockTxs[b]) : AmountsFit(t) THEN {} ELSE {"wrap"})

Init ==
    /\ chain = EmptyChain
    /\ stack = <<>>
    /\ saved = NoSnapshot
    /\ taint = {}

Offered(b) == chain.height < MaxHeight /\ BlockPrev[b] = chain.tip

Connect(b) ==
    LET r == ConnectBlock(chain, b)
    IN  /\ Offered(b) /\ r.ok
        /\ chain' = r.chain
        /\ stack' = Append(stack, [block |-> b, undo |-> r.undo])
        /\ taint' = taint \cup Marks(chain, b)
        /\ UNCHANGED saved

ConnectFails(b) ==
    LET r == ConnectBlock(chain, b)
    IN  /\ Offered(b) /\ ~r.ok
        /\ chain' = r.chain
        /\ taint' = IF r.chain # chain THEN taint \cup {"residue"} ELSE taint
        /\ UNCHANGED <<stack, saved>>

Disconnect ==
    LET top == Last(stack)
        r   == DisconnectBlock(chain, top.block, top.undo)
    IN  /\ stack # <<>>
        /\ chain' = r.chain
        /\ stack' = IF r.ok THEN Front(stack) ELSE stack
        /\ UNCHANGED <<saved, taint>>

CreateSnapshot ==
    /\ saved' = [chain |-> chain, stack |-> stack, taint |-> taint, taken |-> TRUE]
    /\ UNCHANGED <<chain, stack, taint>>

RestoreSnapshot ==
    /\ saved.taken
    /\ chain' = saved.chain
    /\ stack' = saved.stack
    /\ taint' = saved.taint
    /\ UNCHANGED saved

Reset ==
    /\ chain' = EmptyChain
    /\ stack' = <<>>
    /\ taint' = {}
    /\ UNCHANGED saved

Next ==
    \/ \E b \in Block : Connect(b) \/ ConnectFails(b)
    \/ Disconnect
    \/ CreateSnapshot
    \/ RestoreSnapshot
    \/ Reset

Spec == Init /\ [][Next]_vars

-----------------------------------------------------------------------------
(* The state of Chain has its type, and the caller's stack is as long as the chain *)
TypeOK ==
    /\ chain.height \in 0 .. MaxHeight
    /\ chain.tip \in Block \cup {ZeroHash}
    /\ DOMAIN chain.utxo \subseteq OutPoint /\ Range(chain.utxo) \subseteq Coin
    /\ \A coin \in Range(chain.utxo) : coin.height \in 1 .. MaxHeight
    /\ chain.supply \in [Asset -> 0 .. U64 - 1]
    /\ DOMAIN chain.index \subseteq Block
    /\ taint \subseteq {"residue", "overwrite", "wrap"}

(* Whatever was connected, refused, disconnected and restored, the supply the *)
(* chain accounts for is what the coinbases of its blocks claimed, and never   *)
(* more than the issuance schedule releases up to the tip, nor than the cap.   *)
SupplyWithinSchedule ==
    \A a \in Asset :
        LET claimed == Sum([i \in DOMAIN stack |-> Amount(TxOutputs[Coinbase(stack[i].block)], a)])
        IN  /\ chain.supply[a] = claimed
            /\ claimed <= Sum([h \in 1 .. chain.height |-> GetBlockReward(h, a)])
            /\ claimed <= MaxSupply[a]

(* Coins never hold more of an asset than was issued: transactions conserve   *)
(* every asset through connects, disconnects and restores.  The exceptions    *)
(* are a block that failed half way, whose coinbase and outputs stay behind,  *)
(* and one with outputs whose sum wraps, which are compared as what is left.  *)
UtxoBackedBySupply ==
    {"residue", "wrap"} \cap taint = {} =>
        \A a \in Asset :
            Sum([p \in {q \in DOMAIN chain.utxo : chain.utxo[q].output.asset = a} |->
                    chain.utxo[p].output.amount]) <= chain.supply[a]

(* What was issued is what was due, and the coins are what was issued *)
SupplyIsExact == SupplyWithinSchedule /\ UtxoBackedBySupply

(* The chain a fresh object would reach from the blocks of the stack *)
Replay(blocks) ==
    LET after[n \in 0 .. Len(blocks)] ==
            IF n = 0 THEN EmptyChain ELSE ConnectBlock(after[n - 1], blocks[n]).chain
    IN  after[Len(blocks)]

(* DisconnectBlock "restores UTXO set using undo data" and "reverts state      *)
(* changes" (chain.h:71-72): after any history the chain is the one its blocks *)
(* give. The code does not keep this: a coin that AddCoin replaced is in no    *)
(* undo record. The runs check the form below.                                 *)
UndoIsExact ==
    "residue" \notin taint => chain = Replay(BlocksOf(stack))

(* The same, as long as no block replaced an existing coin *)
UndoIsExactWithoutOverwrite ==
    taint \subseteq {"wrap"} => chain = Replay(BlocksOf(stack))

(* Height, tip and block index are those of the blocks on the stack: an index   *)
(* entry appears and disappears with its block and counts the work below it.    *)
IndexFollowsStack ==
    /\ chain.height = Len(stack)
    /\ chain.tip = IF stack = <<>> THEN ZeroHash ELSE Last(stack).block
    /\ DOMAIN chain.index = Range(BlocksOf(stack))
    /\ \A i \in DOMAIN stack : chain.index[stack[i].block] = [height |-> i, work |-> i]

(* The places of the transactions on a stack: the height and the position in the block *)
Places(st)   == UNION {{h} \X DOMAIN BlockTxs[st[h].block] : h \in DOMAIN st}
TxAt(st, x)  == BlockTxs[st[x[1]].block][x[2]]
Before(x, y) == x[1] < y[1] \/ (x[1] = y[1] /\ x[2] < y[2])

(* Every coin a transaction of the active chain spends was created before it by  *)
(* the chain, CoinbaseMaturity blocks before if by a coinbase, and not spent in  *)
(* between.  A coinbase that is used again after its coin was spent creates the  *)
(* coin again: what is created twice may be spent twice.                         *)
SpendsAreSound ==
    taint \subseteq {"wrap"} =>
        \A x \in Places(stack) : ~IsCoinbase(TxAt(stack, x)) =>
            \A p \in Range(TxInputs[TxAt(stack, x)]) : \E k \in Places(stack) :
                /\ Before(k, x) /\ p \in OutPointsOf(TxAt(stack, k))
                /\ IsCoinbase(TxAt(stack, k)) => x[1] >= k[1] + CoinbaseMaturity
                /\ \A m \in Places(stack) :
                      Before(k, m) /\ Before(m, x) => p \notin Range(TxInputs[TxAt(stack, m)])
=============================================================================
