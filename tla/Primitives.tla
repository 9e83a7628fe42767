----------------------------- MODULE Primitives -----------------------------
(***************************************************************************)
(* Transactions, blocks and the issuance schedule of the L1 core.          *)
(*                                                                         *)
(* Hashes are collision free, so a transaction or a block is its own hash: *)
(* Tx and Block are the txids and block hashes that may ever appear, and   *)
(* the constant functions below say what each of them contains.  ZeroHash  *)
(* is the all-zero hash: the parent of a genesis block, the tip of an      *)
(* empty chain and the txid of the input of a coinbase.                    *)
(***************************************************************************)
EXTENDS Integers, Sequences, SequencesExt, Sums

CONSTANTS
    Tx, Block, Asset, ZeroHash,
    TxInputs,           \* [Tx -> Seq(OutPoint)]
    TxOutputs,          \* [Tx -> Seq([asset, amount])]
    BlockTxs,           \* [Block -> Seq(Tx)]
    BlockPrev,          \* [Block -> Block \cup {ZeroHash}]
    BlockSealed,        \* [Block -> BOOLEAN]: Merkle root and proof of work hold
    InitialReward,      \* [Asset -> Nat]
    LaunchHeight,       \* [Asset -> Nat]
    MaxSupply,          \* [Asset -> Nat]
    HalvingInterval,
    CoinbaseMaturity,
    U64                 \* the modulus of the unsigned amounts

OutPoint == (Tx \cup {ZeroHash}) \X Nat
Output   == [asset : Asset, amount : 0 .. U64 - 1]

ASSUME PrimitivesAssumption ==
    /\ ZeroHash \notin Tx \cup Block
    /\ TxInputs  \in [Tx -> Seq(OutPoint)]
    /\ TxOutputs \in [Tx -> Seq(Output)]
    /\ BlockTxs  \in [Block -> Seq(Tx)]
    /\ BlockPrev \in [Block -> Block \cup {ZeroHash}]
    /\ BlockSealed \in [Block -> BOOLEAN]
    /\ InitialReward \in [Asset -> Nat] /\ LaunchHeight \in [Asset -> Nat] /\ MaxSupply \in [Asset -> Nat]
    /\ HalvingInterval \in Nat \ {0}
    /\ CoinbaseMaturity \in Nat
    /\ U64 \in Nat \ {0}

-----------------------------------------------------------------------------
CoinbaseInput == <<ZeroHash, 0>>
IsCoinbase(t) == TxInputs[t] = <<CoinbaseInput>>

(* Transaction::IsValid and TransactionValidator::ValidateStructure demand the same *)
TxIsValid(t) ==
    /\ TxInputs[t] # <<>> /\ TxOutputs[t] # <<>>
    /\ \A o \in Range(TxOutputs[t]) : o.amount <= MaxSupply[o.asset]
    /\ IsInjective(TxInputs[t])

Coinbase(b) == Head(BlockTxs[b])

BlockIsValid(b) ==
    /\ BlockTxs[b] # <<>> /\ IsCoinbase(Coinbase(b))
    /\ \A t \in Range(Tail(BlockTxs[b])) : ~IsCoinbase(t)
    /\ \A t \in Range(BlockTxs[b]) : TxIsValid(t)
    /\ BlockSealed[b]

(* What a list of outputs is worth in one asset, in uint64_t arithmetic *)
Amount(outs, a) == Sum([i \in {j \in DOMAIN outs : outs[j].asset = a} |-> outs[i].amount]) % U64

AssetsOf(outs) == {o.asset : o \in Range(outs)}

-----------------------------------------------------------------------------
(* class Issuance.  A reward is shifted right once per halving, and is nothing *)
(* after 64 of them.                                                            *)
MaxHalvings == 64

Halved(reward, times) ==
    LET shifted[n \in 0 .. times] == IF n = 0 THEN reward ELSE shifted[n - 1] \div 2
    IN  shifted[times]

GetBlockReward(h, a) ==
    LET halvings == (h - LaunchHeight[a]) \div HalvingInterval
    IN  IF h < LaunchHeight[a] \/ halvings >= MaxHalvings
        THEN 0
        ELSE Halved(InitialReward[a], halvings)

(* What the blocks of one halving epoch that lie below height h may issue; a *)
(* total that overflows 64 bits counts as the whole cap.                      *)
EpochSupply(h, a, epoch) ==
    LET remaining == h - LaunchHeight[a] - epoch * HalvingInterval
        blocks    == IF remaining > HalvingInterval THEN HalvingInterval ELSE remaining
    IN  blocks * Halved(InitialReward[a], epoch)

CalculateSupplyAtHeight(h, a) ==
    LET since  == h - LaunchHeight[a]
        last   == (since - 1) \div HalvingInterval
        epochs == IF last < MaxHalvings THEN 0 .. last ELSE 0 .. MaxHalvings - 1
        supply == MapThenSumSet(LAMBDA e : EpochSupply(h, a, e), epochs)
    IN  IF since <= 0 THEN 0
        ELSE IF supply >= U64 THEN MaxSupply[a] ELSE supply

IsValidBlockReward(h, a, amount) ==
    /\ amount <= GetBlockReward(h, a)
    /\ CalculateSupplyAtHeight(h + 1, a) <= MaxSupply[a]
=============================================================================
