----------------------------- MODULE UtxoChain ------------------------------
(***************************************************************************)
(* The two trackers of the active chain, as operators on their state.      *)
(*                                                                         *)
(*  - class Chain: the UTXO set, the height, the tip, the block index and  *)
(*    the issued supply; ConnectBlock and DisconnectBlock move it.         *)
(*  - class ChainState: height, tip and supply only; ValidateBlock and     *)
(*    ApplyBlock move it.                                                  *)
(*                                                                         *)
(* A handler of the code that returns a bool and changes its object is an  *)
(* operator that returns [ok, chain, ...]: when it fails half way the      *)
(* chain it returns is the half-changed one.                               *)
(***************************************************************************)
EXTENDS Primitives

Coin == [output : Output, height : Nat, coinbase : BOOLEAN]

EmptyFun   == [x \in {} |-> x]

(* The map f with the entries of new, which replace those of the same key *)
Over(new, f) == [x \in DOMAIN new \cup DOMAIN f |-> IF x \in DOMAIN new THEN new[x] ELSE f[x]]

EmptyChain == [utxo |-> EmptyFun, height |-> 0, tip |-> ZeroHash,
               index |-> EmptyFun, supply |-> [a \in Asset |-> 0]]

-----------------------------------------------------------------------------
(* UTXOSet: a partial function from outpoints to coins *)
OutPointsOf(t) == {t} \X DOMAIN TxOutputs[t]

(* Mutant: coins carry the height of the tip, not of their block *)
AddOutputs_TipHeight(utxo, t, h, coinbase) ==
    Over([p \in OutPointsOf(t) |->
             [output |-> TxOutputs[t][p[2]], height |-> h - 1, coinbase |-> coinbase]], utxo)

AddOutputs(utxo, t, h, coinbase) ==
    Over([p \in OutPointsOf(t) |->
             [output |-> TxOutputs[t][p[2]], height |-> h, coinbase |-> coinbase]], utxo)

RemoveCoins(utxo, ps) == Restrict(utxo, DOMAIN utxo \ ps)

(* Mutant: no maturity *)
IsSpendable_Immature(coin, h) == h >= coin.height

IsSpendable(coin, h) == coin.coinbase => h >= coin.height + CoinbaseMaturity

InputCoins(utxo, t)   == [i \in DOMAIN TxInputs[t] |-> utxo[TxInputs[t][i]]]
InputOutputs(utxo, t) == [i \in DOMAIN TxInputs[t] |-> utxo[TxInputs[t][i]].output]

(* Mutant: inputs are not compared with outputs *)
ValidateTransaction_Unbalanced(utxo, t, h) ==
    \/ IsCoinbase(t)
    \/ \A p \in Range(TxInputs[t]) : p \in DOMAIN utxo /\ IsSpendable(utxo[p], h)

(* Chain::ValidateTransaction; TransactionValidator::ValidateAgainstUTXO is the same test *)
ValidateTransaction(utxo, t, h) ==
    \/ IsCoinbase(t)
    \/ /\ \A p \in Range(TxInputs[t]) : p \in DOMAIN utxo /\ IsSpendable(utxo[p], h)
       /\ \A a \in AssetsOf(TxOutputs[t]) :
             Amount(InputOutputs(utxo, t), a) >= Amount(TxOutputs[t], a)

-----------------------------------------------------------------------------
(* The coinbase claims no more than the schedule and the caps allow *)
RewardsAllowed(supply, h, b) ==
    LET outs == TxOutputs[Coinbase(b)]
    IN  \A a \in AssetsOf(outs) :
            /\ IsValidBlockReward(h, a, Amount(outs, a))
            /\ supply[a] + Amount(outs, a) < U64
            /\ supply[a] + Amount(outs, a) <= MaxSupply[a]

UpdateSupply(supply, b, sign) ==
    [a \in Asset |-> (supply[a] + sign * Amount(TxOutputs[Coinbase(b)], a)) % U64]

(* One transaction of the body of a block; s is the work done so far.  The *)
(* first failure ends the loop and leaves what came before it in place.    *)
ConnectTx(s, t, h) ==
    IF ~s.ok \/ ~ValidateTransaction(s.utxo, t, h)
    THEN [s EXCEPT !.ok = FALSE]
    ELSE [ok   |-> TRUE,
          undo |-> Append(s.undo, InputCoins(s.utxo, t)),
          utxo |-> AddOutputs(RemoveCoins(s.utxo, Range(TxInputs[t])), t, h, FALSE)]

(* The loop over the transactions after the coinbase: the work after n of them *)
Connecting(c, b) ==
    LET h == c.height + 1
        after[n \in 0 .. Len(Tail(BlockTxs[b]))] ==
            IF n = 0 THEN [ok |-> TRUE, undo |-> <<>>, utxo |-> AddOutputs(c.utxo, Coinbase(b), h, TRUE)]
            ELSE ConnectTx(after[n - 1], Tail(BlockTxs[b])[n], h)
    IN  after

(* Mutant: the work of the parent, without the block's own *)
ChainWork_OfParent(c, b) ==
    IF c.height > 0 /\ BlockPrev[b] \in DOMAIN c.index THEN c.index[BlockPrev[b]].work ELSE 1

ChainWork(c, b) ==
    IF c.height > 0 /\ BlockPrev[b] \in DOMAIN c.index
    THEN c.index[BlockPrev[b]].work + 1
    ELSE 1

(* Chain::ConnectBlock.  The parent of the block is not compared with the tip. *)
ConnectBlock(c, b) ==
    LET h    == c.height + 1
        done == Connecting(c, b)[Len(Tail(BlockTxs[b]))]
    IN  IF ~BlockIsValid(b) \/ ~RewardsAllowed(c.supply, h, b)
        THEN [ok |-> FALSE, chain |-> c, undo |-> <<>>]
        ELSE IF ~done.ok
        THEN [ok |-> FALSE, chain |-> [c EXCEPT !.utxo = done.utxo], undo |-> done.undo]
        ELSE [ok    |-> TRUE,
              undo  |-> done.undo,
              chain |-> [utxo   |-> done.utxo,
                         height |-> h,
                         tip    |-> b,
                         index  |-> Over([x \in {b} |-> [height |-> h, work |-> ChainWork(c, b)]], c.index),
                         supply |-> UpdateSupply(c.supply, b, 1)]]

(* The coins of an undo record, each at the outpoint of the input that spent it *)
Restored(t, coins) ==
    [p \in Range(TxInputs[t]) |-> coins[CHOOSE i \in DOMAIN coins : TxInputs[t][i] = p]]

(* Mutant: the outputs of the transaction stay in the set *)
DisconnectTx_KeepOutputs(t, s) ==
    LET coins == Last(s.undo)
    IN  IF ~s.ok \/ s.undo = <<>> \/ Len(coins) # Len(TxInputs[t])
        THEN [s EXCEPT !.ok = FALSE]
        ELSE [ok   |-> TRUE,
              undo |-> Front(s.undo),
              utxo |-> Over(Restored(t, coins), s.utxo)]

(* One transaction of the body, taken back; s.undo holds the undo records not used yet *)
DisconnectTx(t, s) ==
    LET removed == RemoveCoins(s.utxo, OutPointsOf(t))
        coins   == Last(s.undo)
    IN  IF ~s.ok THEN s
        ELSE IF s.undo = <<>> \/ Len(coins) # Len(TxInputs[t])
        THEN [s EXCEPT !.ok = FALSE, !.utxo = removed]
        ELSE [ok   |-> TRUE,
              undo |-> Front(s.undo),
              utxo |-> Over(Restored(t, coins), removed)]

(* The loop from the last transaction to the first: the work when n are left *)
Disconnecting(c, b, undo) ==
    LET left[n \in 0 .. Len(Tail(BlockTxs[b]))] ==
            IF n = Len(Tail(BlockTxs[b])) THEN [ok |-> TRUE, undo |-> undo, utxo |-> c.utxo]
            ELSE DisconnectTx(Tail(BlockTxs[b])[n + 1], left[n + 1])
    IN  left

(* Chain::DisconnectBlock *)
DisconnectBlock(c, b, undo) ==
    LET done == Disconnecting(c, b, undo)[0]
    IN  IF c.height = 0 \/ b # c.tip
        THEN [ok |-> FALSE, chain |-> c]
        ELSE IF ~done.ok
        THEN [ok |-> FALSE, chain |-> [c EXCEPT !.utxo = done.utxo]]
        ELSE [ok    |-> TRUE,
              chain |-> [utxo   |-> RemoveCoins(done.utxo, OutPointsOf(Coinbase(b))),
                         height |-> c.height - 1,
                         tip    |-> BlockPrev[b],
                         index  |-> Restrict(c.index, DOMAIN c.index \ {b}),
                         supply |-> UpdateSupply(c.supply, b, -1)]]

-----------------------------------------------------------------------------
(* class ChainState.  A new object has height 0 and the zero tip, so its test *)
(* of the parent is the same at height 0 and above.                           *)
FreshTracker == [height |-> 0, tip |-> ZeroHash, supply |-> [a \in Asset |-> 0]]

ValidateBlock(s, b) ==
    /\ BlockIsValid(b)
    /\ BlockPrev[b] = s.tip
    /\ RewardsAllowed(s.supply, s.height + 1, b)

ApplyBlock(s, b) ==
    IF ValidateBlock(s, b)
    THEN [height |-> s.height + 1, tip |-> b, supply |-> UpdateSupply(s.supply, b, 1)]
    ELSE s
=============================================================================
