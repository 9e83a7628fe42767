----------------------------- MODULE Validation ------------------------------
(***************************************************************************)
(* core/validation/validation.cpp, the text that is signed (SerializeForSigning  *)
(* of transaction.cpp) and the two signers of a payment, the wallet and the       *)
(* hardware wallet.  Hashes and signatures are perfect: a text is its own hash,   *)
(* and a signature is the key that made it with the text it was made of.        *)
(*                                                                          *)
(* Both signers take the text of an input while its signature script is empty;   *)
(* the validator takes it when the script is filled, and the script of the input  *)
(* itself is part of its text.                                               *)
(***************************************************************************)
EXTENDS Integers, Sequences, SequencesExt

CONSTANTS
    PaidCoin,           \* outpoint -> [asset, amount, height, coinbase, owner]
    NoKey,              \* the owner of a coin whose script is not a public key
    WalletKeys,
    Drafts,             \* the payments somebody writes: [inputs, outputs]
    CoinbaseDrafts,     \* the outputs of coinbases
    SupplyCap,          \* GetMaxSupply: asset -> amount
    HeightReward,       \* GetBlockReward: asset -> sequence by height
    MaturityDepth,      \* COINBASE_MATURITY
    AmountWord,         \* the modulus of the amounts
    MaxTipHeight        \* bound of the model

ASSUME ValidationAssumption ==
    /\ \A d \in Drafts : \A i \in DOMAIN d.outputs : d.outputs[i].asset \in DOMAIN SupplyCap
    /\ \A a \in DOMAIN SupplyCap : SupplyCap[a] < AmountWord /\ Len(HeightReward[a]) > MaxTipHeight

VARIABLES
    unspent,            \* the outpoints of the UTXO set
    payment,            \* the payment under way, and who signed or altered it last
    judged,             \* history: what was found when the payment was last validated
    tipHeight, supply
validationVars == <<unspent, payment, judged, tipHeight, supply>>

NoError == "none"
CoinbasePoint == "coinbase"
SupplyAssets == DOMAIN SupplyCap
Written(d) == [inputs |-> d.inputs, outputs |-> d.outputs, scripts |-> [i \in DOMAIN d.inputs |-> <<>>], by |-> "nobody"]
NoPayment == Written([inputs |-> <<>>, outputs |-> <<>>])
NotJudged == [error |-> "input", coins |-> {}, height |-> 0]
Scheduled(height, a) == FoldLeft(LAMBDA sum, h : sum + HeightReward[a][h], 0, [h \in 1..height |-> h])

(* One block is connected *)
InitValidation ==
    /\ unspent = DOMAIN PaidCoin /\ payment = NoPayment /\ judged = NotJudged
    /\ tipHeight = 1 /\ supply = [a \in SupplyAssets |-> Scheduled(1, a)]

-----------------------------------------------------------------------------
IsCoinbaseShaped(tx) == tx.inputs = <<CoinbasePoint>>
SumOf(list, a) == FoldLeft(LAMBDA sum, x : IF x.asset = a THEN (sum + x.amount) % AmountWord ELSE sum, 0, list)
CoinsSpent(tx) == [i \in DOMAIN tx.inputs |-> PaidCoin[tx.inputs[i]]]
FirstError(one, other) == IF one # NoError THEN one ELSE other

StructureError(tx) ==
    IF tx.inputs = <<>> THEN "input"
    ELSE IF tx.outputs = <<>> THEN "output"
    ELSE IF ~IsInjective(tx.inputs) THEN "duplicate"
    ELSE IF \E o \in Range(tx.outputs) : o.amount > SupplyCap[o.asset] THEN "amount"
    ELSE NoError

Matured(coin, height) == coin.coinbase => height >= coin.height + MaturityDepth

(* The first input that is missing or immature decides which of the two it is *)
InputError(tx, height) ==
    FoldLeft(LAMBDA error, p : FirstError(error, IF p \notin unspent THEN "missing"
                                                 ELSE IF ~Matured(PaidCoin[p], height) THEN "immature" ELSE NoError),
             NoError, tx.inputs)
ConservationError(tx) ==
    IF \E o \in Range(tx.outputs) : SumOf(CoinsSpent(tx), o.asset) < SumOf(tx.outputs, o.asset)
    THEN "conservation" ELSE NoError
UtxoError(tx, height) ==
    IF IsCoinbaseShaped(tx) THEN NoError
    ELSE IF InputError(tx, height) # NoError THEN InputError(tx, height)
    ELSE ConservationError(tx)

(* Every signature script is left out, but for that of the input itself *)
SerializeForSigning(tx, i) ==
    <<tx.inputs, [j \in DOMAIN tx.inputs |-> IF j = i THEN tx.scripts[j] ELSE <<>>], tx.outputs>>
SignatureError(tx) ==
    IF IsCoinbaseShaped(tx) THEN NoError
    ELSE IF \E i \in DOMAIN tx.inputs :
                \/ PaidCoin[tx.inputs[i]].owner = NoKey
                \/ tx.scripts[i] # <<PaidCoin[tx.inputs[i]].owner, SerializeForSigning(tx, i)>>
    THEN "signature" ELSE NoError

(* SubmitTransaction and ValidateAndApplyBlock ask in this order; what does not exist is not looked at further *)
TransactionError(tx, height) ==
    LET known == FirstError(StructureError(tx), UtxoError(tx, height))
    IN  IF known # NoError THEN known ELSE SignatureError(tx)

-----------------------------------------------------------------------------
BlockStructureError(block) ==
    IF block.txs = <<>> THEN "empty"
    ELSE IF ~IsCoinbaseShaped(Head(block.txs)) THEN "no coinbase"
    ELSE IF \E tx \in Range(Tail(block.txs)) : IsCoinbaseShaped(tx) THEN "coinbases"
    ELSE IF ~block.root THEN "root"
    ELSE NoError

IsScheduledReward(height, a, amount) ==
    amount <= HeightReward[a][height] /\ Scheduled(height, a) <= SupplyCap[a]

CoinbaseError(block, height) ==
    LET outputs == Head(block.txs).outputs
        assets  == {o.asset : o \in Range(outputs)}
        after(a) == (supply[a] + SumOf(outputs, a)) % AmountWord
    IN  IF \A a \in assets : /\ IsScheduledReward(height, a, SumOf(outputs, a))
                             /\ after(a) >= supply[a] /\ after(a) <= SupplyCap[a]
        THEN NoError ELSE "reward"

BlockError(block, height) ==
    IF BlockStructureError(block) # NoError THEN BlockStructureError(block)
    ELSE IF ~block.work THEN "work"
    ELSE FirstError(CoinbaseError(block, height),
                    FoldLeft(LAMBDA error, tx : FirstError(error, TransactionError(tx, height)), NoError, Tail(block.txs)))

-----------------------------------------------------------------------------
DraftPayment ==
    /\ \E d \in Drafts : payment' = Written(d)
    /\ judged' = NotJudged
    /\ UNCHANGED <<unspent, tipHeight, supply>>

Signable == payment.by = "nobody" /\ payment.inputs # <<>> /\ Range(payment.inputs) \subseteq DOMAIN PaidCoin
OwnersOf(tx) == [i \in DOMAIN tx.inputs |-> PaidCoin[tx.inputs[i]].owner]

(* Wallet::CreateTransaction signs one input after the other; a key it does not hold ends it with nothing *)
WalletSigns ==
    /\ Signable /\ Range(OwnersOf(payment)) \subseteq WalletKeys
    /\ LET signed == FoldLeft(LAMBDA tx, i : [tx EXCEPT !.scripts[i] = <<OwnersOf(tx)[i], SerializeForSigning(tx, i)>>],
                              payment, [i \in DOMAIN payment.inputs |-> i])
       IN  payment' = [signed EXCEPT !.by = "wallet"]
    /\ judged' = NotJudged
    /\ UNCHANGED <<unspent, tipHeight, supply>>

(* The device puts its public key behind the signature; the path asked for is the one of the owner *)
DeviceSigns ==
    /\ Signable
    /\ \E key \in WalletKeys :
       /\ Range(OwnersOf(payment)) = {key}
       /\ LET signed == FoldLeft(LAMBDA tx, i : [tx EXCEPT !.scripts[i] = <<key, SerializeForSigning(tx, i), key>>],
                                 payment, [i \in DOMAIN payment.inputs |-> i])
          IN  payment' = [signed EXCEPT !.by = "device"]
    /\ judged' = NotJudged
    /\ UNCHANGED <<unspent, tipHeight, supply>>

AlterPayment ==
    /\ payment.by = "wallet"
    /\ \E d \in Drafts : d.outputs # payment.outputs /\ payment' = [payment EXCEPT !.outputs = d.outputs, !.by = "other"]
    /\ judged' = NotJudged
    /\ UNCHANGED <<unspent, tipHeight, supply>>

JudgePayment ==
    /\ judged' = [error |-> TransactionError(payment, tipHeight), coins |-> unspent, height |-> tipHeight]
    /\ UNCHANGED <<unspent, payment, tipHeight, supply>>

CoinIsSpent ==
    /\ \E p \in unspent : unspent' = unspent \ {p}
    /\ UNCHANGED <<payment, judged, tipHeight, supply>>

(* BlockValidator::ValidateBlock for the next height; its caller connects what it accepts *)
JudgeBlock ==
    /\ tipHeight < MaxTipHeight
    /\ \E outs \in CoinbaseDrafts, root \in BOOLEAN, work \in BOOLEAN :
          LET coinbase == Written([inputs |-> <<CoinbasePoint>>, outputs |-> outs])
          IN  \E txs \in {<<>>, <<payment>>, <<coinbase>>, <<coinbase, coinbase>>, <<coinbase, payment>>} :
                 /\ BlockError([txs |-> txs, root |-> root, work |-> work], tipHeight + 1) = NoError
                 /\ supply' = [a \in SupplyAssets |-> (supply[a] + SumOf(Head(txs).outputs, a)) % AmountWord]
                 /\ tipHeight' = tipHeight + 1
    /\ UNCHANGED <<unspent, payment, judged>>

ValidationStep ==
    DraftPayment \/ WalletSigns \/ DeviceSigns \/ AlterPayment \/ JudgePayment \/ CoinIsSpent \/ JudgeBlock

-----------------------------------------------------------------------------
ValidationTypeOK ==
    /\ unspent \subseteq DOMAIN PaidCoin /\ payment.by \in {"nobody", "wallet", "device", "other"}
    /\ judged.coins \subseteq DOMAIN PaidCoin /\ tipHeight \in 0..MaxTipHeight
    /\ supply \in [SupplyAssets -> 0..AmountWord - 1]

PassedUtxo == judged.error \in {NoError, "signature"} /\ ~IsCoinbaseShaped(payment)

(* What ValidateAgainstUTXO let pass spent existing, different and mature coins worth at least what it pays, *)
(* and stays so at every later height as long as those coins are there; and whatever blocks ValidateBlock     *)
(* accepted, the supply is within the cap and within what the schedule gives by then (validation.cpp:19-118,  *)
(* 203-243)                                                                                               *)
ValidationIsSound ==
    /\ PassedUtxo =>
          /\ Range(payment.inputs) \subseteq judged.coins /\ IsInjective(payment.inputs)
          /\ \A i \in DOMAIN payment.inputs :
                LET coin == PaidCoin[payment.inputs[i]]
                IN  coin.coinbase => judged.height - coin.height >= MaturityDepth
          /\ \A a \in SupplyAssets :
                FoldLeft(LAMBDA n, o : IF o.asset = a THEN n - o.amount ELSE n,
                         FoldLeft(LAMBDA n, c : IF c.asset = a THEN n + c.amount ELSE n, 0, CoinsSpent(payment)),
                         payment.outputs) >= 0
          /\ Range(payment.inputs) \subseteq unspent => TransactionError(payment, tipHeight) = judged.error
    /\ \A a \in SupplyAssets : supply[a] <= SupplyCap[a] /\ supply[a] <= Scheduled(tipHeight, a)

(* A payment the wallet signed and nobody altered is not refused for its signatures: transaction.h:128-129     *)
(* calls the hash of GetSignatureHash one that "excludes signatures", and line 171 says of SerializeForSigning *)
(* "excludes input signatures"                                                                            *)
WalletPaymentsVerify == payment.by = "wallet" => judged.error # "signature"
=============================================================================
