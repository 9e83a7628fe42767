---------------------------- MODULE LayersProofs ----------------------------
(***************************************************************************)
(* Between the layers, for any transfers, validators, stakes, relayers and   *)
(* bounds.  The bridge: its type invariant, that a nonce pays at most one     *)
(* transfer, once, that no token is lost or made, and that it implements      *)
(* Escrow.  The relayed commitments: what they prove about the validators     *)
(* behind them; totals are compared with the lemmas of Sums, and a text,      *)
(* damaged or not, is followed from the signatures it was built of to what is  *)
(* decoded of it.  And the server that takes commitments and payments, for     *)
(* any requests, clients and workers: its limiter lets no client through more  *)
(* than twice its limit in a window, and its answers tell what became of a      *)
(* request.                                                                  *)
(***************************************************************************)
EXTENDS Rpc, Bridge, Anchoring, SequenceTheorems

(* A transfer that was paid was recorded, and the key of its message is kept: *)
(* the transfers a key still admits have not been paid.                       *)
KeysRememberPayments ==
    \A i \in Transfer :
        /\ paid[i] \in {0, 1}
        /\ paid[i] = 0 => moved[i] = 0
        /\ paid[i] = 1 => i \in Recorded /\ MessageKey(i) \in bridge.keys

(* The other half of PaidOnce: one key, one payment *)
OnePaymentPerKey ==
    \A i, j \in Transfer :
        paid[i] = 1 /\ paid[j] = 1 /\ MessageKey(i) = MessageKey(j) => i = j

IInv == TypeOK /\ KeysRememberPayments /\ OnePaymentPerKey

-----------------------------------------------------------------------------
(* The initial state of the bridge satisfies the inductive invariant *)
LEMMA InitIInv == Init => IInv
BY BridgeAssumption DEF Init, IInv, TypeOK, Recorded, KeysRememberPayments, OnePaymentPerKey

(* The entry points keep the totals within 64 bits and the history typed *)
LEMMA StepTypeOK == TypeOK /\ [Next]_vars => TypeOK'
<1> SUFFICES ASSUME TypeOK, [Next]_vars PROVE TypeOK'
    OBVIOUS
<1> USE BridgeAssumption DEF TypeOK, Recorded
<1>0. \A i \in Transfer : /\ i.kind \in {"lock", "burn"} /\ i.sender \in Sender
                          /\ i.nonce \in Nat /\ i.amount \in 0 .. U64 - 1
                          /\ Amounts(i) \subseteq 0 .. U64 - 1
    BY DEF Amounts
<1>1. ASSUME NEW i \in Transfer, RecordLock(i) PROVE TypeOK'
    <2>1. IntentKey(i) \in (Sender \cup {Home, Away}) \X Nat
        BY <1>0 DEF IntentKey
    <2>2. bridge.locked + i.amount \in 0 .. U64 - 1
        BY <1>0, <1>1 DEF RecordLock, RecordLockOK
    <2>3. bridge' \in [keys   : SUBSET ((Sender \cup {Home, Away}) \X Nat),
                      locked : 0 .. U64 - 1, minted : 0 .. U64 - 1]
        BY <1>1, <2>1, <2>2 DEF RecordLock
    <2> QED
        BY <1>1, <2>3 DEF RecordLock
<1>2. ASSUME NEW i \in Transfer, RecordBurn(i) PROVE TypeOK'
    <2>1. IntentKey(i) \in (Sender \cup {Home, Away}) \X Nat
        BY <1>0 DEF IntentKey
    <2>2. BurnFrom(bridge.minted, i.amount) \in 0 .. U64 - 1
        BY <1>0 DEF BurnFrom
    <2>3. bridge' \in [keys   : SUBSET ((Sender \cup {Home, Away}) \X Nat),
                      locked : 0 .. U64 - 1, minted : 0 .. U64 - 1]
        BY <1>2, <2>1, <2>2 DEF RecordBurn
    <2>4. wrapped' \in [Sender -> Nat]
        BY <1>0, <1>2 DEF RecordBurn
    <2> QED
        BY <1>2, <2>3, <2>4 DEF RecordBurn
<1>3. ASSUME NEW i \in Transfer, NEW amount \in Amounts(i), NEW list, Mint(i, amount, list) PROVE TypeOK'
    <2>1. MessageKey(i) \in (Sender \cup {Home, Away}) \X Nat
        BY <1>0 DEF MessageKey, OriginChain
    <2>2. bridge.minted + amount \in 0 .. U64 - 1
        BY <1>0, <1>3 DEF Mint, MintOK
    <2>3. bridge' \in [keys   : SUBSET ((Sender \cup {Home, Away}) \X Nat),
                      locked : 0 .. U64 - 1, minted : 0 .. U64 - 1]
        BY <1>3, <2>1, <2>2 DEF Mint
    <2>4. wrapped' \in [Sender -> Nat] /\ moved' \in [Transfer -> Nat]
        BY <1>0, <1>3 DEF Mint
    <2> QED
        BY <1>3, <2>3, <2>4 DEF Mint
<1>4. ASSUME NEW i \in Transfer, NEW amount \in Amounts(i), NEW list, Unlock(i, amount, list) PROVE TypeOK'
    <2>1. MessageKey(i) \in (Sender \cup {Home, Away}) \X Nat
        BY <1>0 DEF MessageKey, OriginChain
    <2>2. /\ UnlockFrom(bridge.locked, amount) \in 0 .. U64 - 1
          /\ bridge.locked - UnlockFrom(bridge.locked, amount) \in Nat
        BY <1>0 DEF UnlockFrom
    <2>3. bridge' \in [keys   : SUBSET ((Sender \cup {Home, Away}) \X Nat),
                      locked : 0 .. U64 - 1, minted : 0 .. U64 - 1]
        BY <1>4, <2>1, <2>2 DEF Unlock
    <2>4. moved' \in [Transfer -> Nat]
        BY <1>4, <2>2 DEF Unlock
    <2> QED
        BY <1>4, <2>3, <2>4 DEF Unlock
<1>5. ASSUME NEW i \in Transfer, NEW v \in Validator, Sign(v, i) PROVE TypeOK'
    BY <1>5 DEF Sign
<1>6. CASE Tick
    BY <1>6 DEF Tick
<1>7. CASE UNCHANGED vars
    BY <1>7 DEF vars
<1> QED
    BY <1>1, <1>2, <1>3, <1>4, <1>5, <1>6, <1>7 DEF Next, Deliver

(* Keys are never forgotten, and a key that pays a transfer is remembered *)
LEMMA StepKeys == IInv /\ [Next]_vars => KeysRememberPayments' /\ OnePaymentPerKey'
<1> SUFFICES ASSUME IInv, [Next]_vars PROVE KeysRememberPayments' /\ OnePaymentPerKey'
    OBVIOUS
<1> USE DEF IInv, TypeOK, KeysRememberPayments, OnePaymentPerKey, Recorded,
            MessageKey, OriginChain
(* Nothing is paid: the keys and the recorded transfers only grow *)
<1>1. ASSUME bridge.keys \subseteq bridge'.keys, DOMAIN depth \subseteq DOMAIN depth',
             paid' = paid, moved' = moved
      PROVE  KeysRememberPayments' /\ OnePaymentPerKey'
    BY <1>1
(* One transfer is paid, whose message had a fresh key *)
<1>2. ASSUME NEW i \in Transfer, i \in Recorded, MessageKey(i) \notin bridge.keys,
             bridge'.keys = bridge.keys \cup {MessageKey(i)},
             depth' = depth, paid' = [paid EXCEPT ![i] = @ + 1],
             \A j \in Transfer : j # i => moved'[j] = moved[j]
      PROVE  KeysRememberPayments' /\ OnePaymentPerKey'
    <2>1. paid[i] = 0 /\ paid'[i] = 1
        BY <1>2
    <2>2. \A j \in Transfer : j # i => paid'[j] = paid[j]
        BY <1>2
    <2>3. KeysRememberPayments'
        BY <1>2, <2>1, <2>2
    <2>4. ASSUME NEW j \in Transfer, paid'[j] = 1, MessageKey(j) = MessageKey(i)
          PROVE  j = i
        BY <1>2, <2>2, <2>4
    <2>5. OnePaymentPerKey'
        BY <2>2, <2>4
    <2> QED
        BY <2>3, <2>5
<1>3. ASSUME NEW i \in Transfer, RecordLock(i)
      PROVE  KeysRememberPayments' /\ OnePaymentPerKey'
    BY <1>1, <1>3 DEF RecordLock
<1>4. ASSUME NEW i \in Transfer, RecordBurn(i)
      PROVE  KeysRememberPayments' /\ OnePaymentPerKey'
    BY <1>1, <1>4 DEF RecordBurn
<1>5. ASSUME NEW i \in Transfer, NEW amount, NEW list, Mint(i, amount, list)
      PROVE  KeysRememberPayments' /\ OnePaymentPerKey'
    BY <1>2, <1>5 DEF Mint, Accepted
<1>6. ASSUME NEW i \in Transfer, NEW amount, NEW list, Unlock(i, amount, list)
      PROVE  KeysRememberPayments' /\ OnePaymentPerKey'
    BY <1>2, <1>6 DEF Unlock, Accepted
<1>7. ASSUME NEW i \in Transfer, NEW v \in Validator, Sign(v, i)
      PROVE  KeysRememberPayments' /\ OnePaymentPerKey'
    BY <1>1, <1>7 DEF Sign
<1>8. CASE Tick
    BY <1>1, <1>8 DEF Tick
<1>9. CASE UNCHANGED vars
    BY <1>1, <1>9 DEF vars
<1> QED
    BY <1>3, <1>4, <1>5, <1>6, <1>7, <1>8, <1>9 DEF Next, Deliver

(* The invariant is inductive *)
THEOREM BridgeInductive == Spec => []IInv
<1>1. IInv /\ [Next]_vars => IInv'
    BY StepTypeOK, StepKeys DEF IInv
<1> QED
    BY InitIInv, <1>1, PTL DEF Spec

-----------------------------------------------------------------------------
(* The totals of the bridge never leave 64 bits, and users never own less than *)
(* nothing, whatever is recorded, delivered and signed.                         *)
THEOREM BridgeTypeCorrect == Spec => []TypeOK
BY BridgeInductive, PTL DEF IInv

(* ProcessTltLockMint and ProcessWtltBurnUnlock together pay, for each origin  *)
(* chain and message nonce, one recorded transfer at most, and pay it once.     *)
THEOREM BridgePaysOnce == Spec => []PaidOnce
<1>1. IInv => PaidOnce
    <2> SUFFICES ASSUME IInv PROVE PaidOnce
        OBVIOUS
    <2>1. \A i \in Transfer : paid[i] <= 1 /\ (paid[i] = 1 => i \in Recorded)
        BY DEF IInv, KeysRememberPayments
    <2>2. \A i, j \in Transfer :
              i.kind = j.kind /\ i.nonce = j.nonce => MessageKey(i) = MessageKey(j)
        BY DEF MessageKey, OriginChain
    <2> QED
        BY <2>1, <2>2 DEF IInv, OnePaymentPerKey, PaidOnce
<1> QED
    BY BridgeInductive, <1>1, PTL
-----------------------------------------------------------------------------
(* What is recorded is remembered, so that it is recorded once *)
KeysRememberRecords == \A i \in Recorded : IntentKey(i) \in bridge.keys

FinitelyManyTokens ==
    IsFiniteSet(Units(Asked)) /\ IsFiniteSet(Units(moved)) /\ IsFiniteSet(Units(wrapped))

(* The books: what was asked for and not moved is what the totals differ by *)
Books ==
    /\ bridge.locked + Sum(moved) = bridge.minted + Sum(Asked)
    /\ bridge.minted = Sum(wrapped)

Balanced == IInv /\ KeysRememberRecords /\ FinitelyManyTokens /\ Books

LEMMA InitBalanced == Init => Balanced
<1> SUFFICES ASSUME Init PROVE Balanced
    OBVIOUS
<1>1. KeysRememberRecords
    BY DEF Init, Recorded, KeysRememberRecords
<1>2. IsFiniteSet(Units(Asked)) /\ Sum(Asked) = 0
    <2>1. \A i \in DOMAIN Asked : Asked[i] = 0
        BY DEF Init, Recorded, Asked
    <2> QED
        BY <2>1, SumOfNothing
<1>3. IsFiniteSet(Units(wrapped)) /\ Sum(wrapped) = 0
    <2>1. \A s \in DOMAIN wrapped : wrapped[s] = 0
        BY DEF Init
    <2> QED
        BY <2>1, SumOfNothing
<1>4. IsFiniteSet(Units(moved)) /\ Sum(moved) = 0
    <2>1. \A i \in DOMAIN moved : moved[i] = 0
        BY DEF Init
    <2> QED
        BY <2>1, SumOfNothing
<1> QED
    BY <1>1, <1>2, <1>3, <1>4, InitIInv DEF Init, Balanced, FinitelyManyTokens, Books

(* A step of the transfer i changes what i asked for, what its messages moved *)
(* and what its sender owns, and the three sums by as much.                     *)
LEMMA OneMoves ==
    ASSUME Balanced, NEW i \in Transfer, Asked'[i] \in Nat, moved'[i] \in Nat, wrapped'[i.sender] \in Nat,
           \A j \in Transfer : j # i => Asked'[j] = Asked[j],
           DOMAIN moved' = Transfer,
           \A j \in Transfer : j # i => moved'[j] = moved[j],
           DOMAIN wrapped' = Sender,
           \A s \in Sender : s # i.sender => wrapped'[s] = wrapped[s]
    PROVE  /\ FinitelyManyTokens'
           /\ Sum(Asked)' + Asked[i] = Sum(Asked) + Asked'[i]
           /\ Sum(moved)' + moved[i] = Sum(moved) + moved'[i]
           /\ Sum(wrapped)' + wrapped[i.sender] = Sum(wrapped) + wrapped'[i.sender]
           /\ {Sum(Asked), Sum(moved), Sum(wrapped), Sum(Asked)', Sum(moved)', Sum(wrapped)'} \subseteq Nat
<1> DEFINE f == Asked
           g == Asked'
           s == i.sender
<1>1. /\ i.amount \in Nat /\ s \in Sender
      /\ DOMAIN f = Transfer /\ DOMAIN g = Transfer /\ f[i] \in Nat /\ g[i] \in Nat
    BY BridgeAssumption DEF Asked
<1>2. IsFiniteSet(Units(f)) /\ IsFiniteSet(Units(moved)) /\ IsFiniteSet(Units(wrapped))
    BY DEF Balanced, FinitelyManyTokens
<1>3. /\ DOMAIN wrapped = Sender /\ wrapped[s] \in Nat
      /\ DOMAIN moved = Transfer /\ moved[i] \in Nat
    BY <1>1 DEF Balanced, IInv, TypeOK
<1>4. IsFiniteSet(Units(g)) /\ Sum(g) + f[i] = Sum(f) + g[i]
    BY <1>1, <1>2, SumChange
<1>5. IsFiniteSet(Units(wrapped')) /\ Sum(wrapped') + wrapped[s] = Sum(wrapped) + wrapped'[s]
    BY <1>1, <1>2, <1>3, SumChange
<1>6. IsFiniteSet(Units(moved')) /\ Sum(moved') + moved[i] = Sum(moved) + moved'[i]
    BY <1>1, <1>2, <1>3, SumChange
<1>7. Sum(f) \in Nat /\ Sum(wrapped) \in Nat /\ Sum(moved) \in Nat
    BY <1>1, <1>2, <1>3, AmountWithinSum
<1>8. Sum(g) \in Nat /\ Sum(wrapped') \in Nat /\ Sum(moved') \in Nat
    BY <1>1, <1>3, <1>4, <1>5, <1>6, AmountWithinSum
<1>9. /\ Units(Asked)' = Units(g) /\ Sum(Asked)' = Sum(g)
      /\ Units(wrapped)' = Units(wrapped') /\ Sum(wrapped)' = Sum(wrapped')
      /\ Units(moved)' = Units(moved') /\ Sum(moved)' = Sum(moved')
    BY DEF Units, Sum
<1> QED
    BY <1>4, <1>5, <1>6, <1>7, <1>8, <1>9 DEF FinitelyManyTokens

(* What is burnt was minted *)
LEMMA Covered ==
    ASSUME Balanced, NEW i \in Transfer, i.amount <= wrapped[i.sender]
    PROVE  i.amount <= bridge.minted
<1>1. i.amount \in Nat /\ i.sender \in Sender
    BY BridgeAssumption
<1>2. DOMAIN wrapped = Sender /\ wrapped[i.sender] \in Nat /\ bridge.minted \in Nat
    BY <1>1 DEF Balanced, IInv, TypeOK
<1>3. wrapped[i.sender] <= Sum(wrapped) /\ Sum(wrapped) \in Nat
    BY <1>1, <1>2, AmountWithinSum DEF Balanced, FinitelyManyTokens
<1> QED
    BY <1>1, <1>2, <1>3 DEF Balanced, Books

(* Every step keeps the books, whatever amount a message carries *)
LEMMA StepBalanced == Balanced /\ [Next]_vars => Balanced'
<1> SUFFICES ASSUME Balanced, [Next]_vars
             PROVE  KeysRememberRecords' /\ FinitelyManyTokens' /\ Books'
    BY StepTypeOK, StepKeys DEF Balanced, IInv
<1>1. /\ bridge \in [keys   : SUBSET ((Sender \cup {Home, Away}) \X Nat),
                     locked : 0 .. U64 - 1, minted : 0 .. U64 - 1]
      /\ Recorded \subseteq Transfer /\ depth \in [Recorded -> 0 .. Confirmations]
      /\ wrapped \in [Sender -> Nat] /\ paid \in [Transfer -> Nat] /\ moved \in [Transfer -> Nat]
      /\ U64 \in Nat
    BY BridgeAssumption DEF Balanced, IInv, TypeOK
<1>2. \A i \in Transfer : i.sender \in Sender /\ i.amount \in Nat /\ Amounts(i) \subseteq Nat
    <2>1. \A i \in Transfer : i.sender \in Sender /\ i.amount \in Nat
        BY BridgeAssumption
    <2>2. Payload \subseteq Nat
        BY BridgeAssumption
    <2> QED
        BY <2>1, <2>2 DEF Amounts
<1>3. /\ bridge.locked + Sum(moved) = bridge.minted + Sum(Asked)
      /\ bridge.minted = Sum(wrapped)
    BY DEF Balanced, Books
<1>4. \A i \in Transfer : paid[i] = 1 => i \in Recorded /\ MessageKey(i) \in bridge.keys
    BY DEF Balanced, IInv, KeysRememberPayments
<1>5. \A i \in Transfer : paid[i] = 0 \/ paid[i] = 1
    BY DEF Balanced, IInv, KeysRememberPayments
<1>6. \A i \in Recorded : IntentKey(i) \in bridge.keys
    BY DEF Balanced, KeysRememberRecords
<1>7. ASSUME NEW i \in Transfer, RecordLock(i)
      PROVE  KeysRememberRecords' /\ FinitelyManyTokens' /\ Books'
    <2>1. i \notin Recorded
        BY <1>6, <1>7 DEF RecordLock, RecordLockOK
    <2>2. Recorded' = Recorded \cup {i} /\ moved' = moved /\ wrapped' = wrapped
        BY <1>7 DEF RecordLock, Recorded
    <2>3. Asked[i] = 0 /\ Asked'[i] = i.amount
        BY <2>1, <2>2 DEF Asked
    <2>4. \A j \in Transfer : j # i => Asked'[j] = Asked[j]
        BY <2>2 DEF Asked
    <2>5. /\ bridge'.locked = bridge.locked + i.amount /\ bridge'.minted = bridge.minted
          /\ bridge'.keys = bridge.keys \cup {IntentKey(i)}
        BY <1>1, <1>7 DEF RecordLock
    <2>6. /\ wrapped'[i.sender] \in Nat /\ wrapped[i.sender] \in Nat /\ DOMAIN wrapped' = Sender
          /\ moved'[i] \in Nat /\ moved[i] \in Nat /\ DOMAIN moved' = Transfer
        BY <1>1, <1>2, <2>2
    <2>7. /\ FinitelyManyTokens'
          /\ Sum(Asked)' + 0 = Sum(Asked) + i.amount
          /\ Sum(moved)' + moved[i] = Sum(moved) + moved[i]
          /\ Sum(wrapped)' + wrapped[i.sender] = Sum(wrapped) + wrapped[i.sender]
          /\ {Sum(Asked), Sum(moved), Sum(wrapped), Sum(Asked)', Sum(moved)', Sum(wrapped)'} \subseteq Nat
        BY <1>2, <2>2, <2>3, <2>4, <2>6, OneMoves
    <2>8. KeysRememberRecords'
        BY <1>6, <2>2, <2>5 DEF KeysRememberRecords, IntentKey
    <2>9. Sum(moved)' = Sum(moved) /\ Sum(wrapped)' = Sum(wrapped)
        BY <2>6, <2>7
    <2>10. bridge'.locked + Sum(moved)' = bridge'.minted + Sum(Asked)' /\ bridge'.minted = Sum(wrapped)'
        BY <1>1, <1>2, <1>3, <2>5, <2>7, <2>9
    <2> QED
        BY <2>7, <2>8, <2>10 DEF Books
<1>8. ASSUME NEW i \in Transfer, RecordBurn(i)
      PROVE  KeysRememberRecords' /\ FinitelyManyTokens' /\ Books'
    <2> DEFINE s == i.sender
    <2>1. i \notin Recorded /\ i.amount <= wrapped[s]
        BY <1>1, <1>2, <1>6, <1>8 DEF RecordBurn
    <2>2. Recorded' = Recorded \cup {i} /\ moved' = moved
        BY <1>8 DEF RecordBurn, Recorded
    <2>3. Asked[i] = 0 /\ Asked'[i] = i.amount
        BY <2>1, <2>2 DEF Asked
    <2>4. \A j \in Transfer : j # i => Asked'[j] = Asked[j]
        BY <2>2 DEF Asked
    <2>5. /\ DOMAIN wrapped' = Sender /\ wrapped'[s] = wrapped[s] - i.amount
          /\ \A t \in Sender : t # s => wrapped'[t] = wrapped[t]
        BY <1>1, <1>2, <1>8 DEF RecordBurn
    <2>6. /\ wrapped[s] \in Nat /\ wrapped'[s] \in Nat
          /\ moved'[i] \in Nat /\ moved[i] \in Nat /\ DOMAIN moved' = Transfer
        BY <1>1, <1>2, <2>1, <2>2, <2>5
    <2>7. /\ FinitelyManyTokens'
          /\ Sum(Asked)' + 0 = Sum(Asked) + i.amount
          /\ Sum(moved)' + moved[i] = Sum(moved) + moved[i]
          /\ Sum(wrapped)' + wrapped[s] = Sum(wrapped) + wrapped'[s]
          /\ {Sum(Asked), Sum(moved), Sum(wrapped), Sum(Asked)', Sum(moved)', Sum(wrapped)'} \subseteq Nat
        BY <1>2, <2>2, <2>3, <2>4, <2>5, <2>6, OneMoves
    <2>8. i.amount <= bridge.minted
        BY <2>1, Covered
    <2>9. /\ bridge'.locked = bridge.locked /\ bridge'.minted = bridge.minted - i.amount
          /\ bridge'.keys = bridge.keys \cup {IntentKey(i)}
        BY <1>1, <1>8, <2>8 DEF RecordBurn, BurnFrom
    <2>10. KeysRememberRecords'
        BY <1>6, <2>2, <2>9 DEF KeysRememberRecords, IntentKey
    <2>11. Sum(moved)' = Sum(moved) /\ Sum(wrapped)' = Sum(wrapped) - i.amount
           /\ Sum(Asked)' = Sum(Asked) + i.amount
        BY <1>2, <2>5, <2>6, <2>7
    <2>12. bridge'.locked + Sum(moved)' = bridge'.minted + Sum(Asked)' /\ bridge'.minted = Sum(wrapped)'
        BY <1>1, <1>2, <1>3, <2>7, <2>9, <2>11
    <2> QED
        BY <2>7, <2>10, <2>12 DEF Books
<1>9. ASSUME NEW i \in Transfer, NEW amount \in Amounts(i), NEW list, Mint(i, amount, list)
      PROVE  KeysRememberRecords' /\ FinitelyManyTokens' /\ Books'
    <2> DEFINE s == i.sender
    <2>1. amount \in Nat
        BY <1>2
    <2>2. Recorded' = Recorded
        BY <1>9 DEF Mint, Recorded
    <2>3. Asked' = Asked /\ Asked[i] \in Nat
        BY <1>2, <2>2 DEF Asked
    <2>4. /\ DOMAIN moved' = Transfer /\ moved'[i] = moved[i] + amount
          /\ \A j \in Transfer : j # i => moved'[j] = moved[j]
        BY <1>1, <1>9 DEF Mint
    <2>5. /\ DOMAIN wrapped' = Sender /\ wrapped'[s] = wrapped[s] + amount
          /\ \A t \in Sender : t # s => wrapped'[t] = wrapped[t]
        BY <1>1, <1>2, <1>9 DEF Mint
    <2>6. wrapped[s] \in Nat /\ wrapped'[s] \in Nat /\ moved[i] \in Nat /\ moved'[i] \in Nat
        BY <1>1, <1>2, <2>1, <2>4, <2>5
    <2>7. /\ FinitelyManyTokens'
          /\ Sum(Asked)' + Asked[i] = Sum(Asked) + Asked[i]
          /\ Sum(moved)' + moved[i] = Sum(moved) + moved'[i]
          /\ Sum(wrapped)' + wrapped[s] = Sum(wrapped) + wrapped'[s]
          /\ {Sum(Asked), Sum(moved), Sum(wrapped), Sum(Asked)', Sum(moved)', Sum(wrapped)'} \subseteq Nat
        BY <2>3, <2>4, <2>5, <2>6, OneMoves
    <2>8. /\ bridge'.locked = bridge.locked /\ bridge'.minted = bridge.minted + amount
          /\ bridge'.keys = bridge.keys \cup {MessageKey(i)}
        BY <1>1, <1>9 DEF Mint
    <2>9. KeysRememberRecords'
        BY <1>6, <2>2, <2>8 DEF KeysRememberRecords, IntentKey
    <2>10. Sum(Asked)' = Sum(Asked) /\ Sum(moved)' = Sum(moved) + amount
           /\ Sum(wrapped)' = Sum(wrapped) + amount
        BY <2>1, <2>3, <2>4, <2>5, <2>6, <2>7
    <2>11. bridge'.locked + Sum(moved)' = bridge'.minted + Sum(Asked)' /\ bridge'.minted = Sum(wrapped)'
        BY <1>1, <1>3, <2>1, <2>7, <2>8, <2>10
    <2> QED
        BY <2>7, <2>9, <2>11 DEF Books
<1>10. ASSUME NEW i \in Transfer, NEW amount \in Amounts(i), NEW list, Unlock(i, amount, list)
       PROVE  KeysRememberRecords' /\ FinitelyManyTokens' /\ Books'
    <2> DEFINE taken == bridge.locked - UnlockFrom(bridge.locked, amount)
    <2>1. taken \in Nat
        BY <1>1, <1>2 DEF UnlockFrom
    <2>2. Recorded' = Recorded /\ wrapped' = wrapped
        BY <1>10 DEF Unlock, Recorded
    <2>3. Asked' = Asked /\ Asked[i] \in Nat
        BY <1>2, <2>2 DEF Asked
    <2>4. /\ DOMAIN moved' = Transfer /\ moved'[i] = moved[i] + taken
          /\ \A j \in Transfer : j # i => moved'[j] = moved[j]
        BY <1>1, <1>10 DEF Unlock
    <2>5. /\ wrapped[i.sender] \in Nat /\ DOMAIN wrapped' = Sender
          /\ moved[i] \in Nat /\ moved'[i] \in Nat
        BY <1>1, <1>2, <2>1, <2>2, <2>4
    <2>6. /\ FinitelyManyTokens'
          /\ Sum(Asked)' + Asked[i] = Sum(Asked) + Asked[i]
          /\ Sum(moved)' + moved[i] = Sum(moved) + moved'[i]
          /\ Sum(wrapped)' + wrapped[i.sender] = Sum(wrapped) + wrapped[i.sender]
          /\ {Sum(Asked), Sum(moved), Sum(wrapped), Sum(Asked)', Sum(moved)', Sum(wrapped)'} \subseteq Nat
        BY <2>2, <2>3, <2>4, <2>5, OneMoves
    <2>7. /\ bridge'.locked = UnlockFrom(bridge.locked, amount) /\ bridge'.minted = bridge.minted
          /\ bridge'.keys = bridge.keys \cup {MessageKey(i)}
        BY <1>1, <1>10 DEF Unlock
    <2>8. bridge'.locked + taken = bridge.locked
        BY <1>1, <1>2, <2>7 DEF UnlockFrom
    <2>9. KeysRememberRecords'
        BY <1>6, <2>2, <2>7 DEF KeysRememberRecords, IntentKey
    <2>10. Sum(Asked)' = Sum(Asked) /\ Sum(wrapped)' = Sum(wrapped) /\ Sum(moved)' = Sum(moved) + taken
        BY <2>1, <2>3, <2>4, <2>5, <2>6
    <2>11. bridge'.locked \in Nat
        BY <1>1, <1>2, <2>7 DEF UnlockFrom
    <2>12. bridge'.locked + Sum(moved)' = bridge'.minted + Sum(Asked)' /\ bridge'.minted = Sum(wrapped)'
        <3> HIDE DEF taken
        <3> QED
            BY <1>1, <1>3, <2>1, <2>6, <2>7, <2>8, <2>10, <2>11
    <2> QED
        BY <2>6, <2>9, <2>12 DEF Books
(* Nothing moves *)
<1>11. ASSUME Recorded' = Recorded, UNCHANGED <<bridge, wrapped, moved>>
       PROVE  KeysRememberRecords' /\ FinitelyManyTokens' /\ Books'
    <2>1. Asked' = Asked
        BY <1>11 DEF Asked
    <2>2. Units(Asked)' = Units(Asked) /\ Units(wrapped)' = Units(wrapped) /\ Units(moved)' = Units(moved)
        BY <1>11, <2>1 DEF Units
    <2>3. FinitelyManyTokens'
        BY <2>2 DEF Balanced, FinitelyManyTokens
    <2>4. Books'
        BY <1>3, <1>11, <2>2 DEF Books, Sum
    <2>5. KeysRememberRecords'
        BY <1>6, <1>11 DEF KeysRememberRecords, IntentKey
    <2> QED
        BY <2>3, <2>4, <2>5
<1>12. ASSUME NEW i \in Transfer, NEW v \in Validator, Sign(v, i)
       PROVE  KeysRememberRecords' /\ FinitelyManyTokens' /\ Books'
    BY <1>11, <1>12 DEF Sign, Recorded
<1>13. CASE Tick
    BY <1>11, <1>13 DEF Tick, Recorded
<1>14. CASE UNCHANGED vars
    BY <1>11, <1>14 DEF vars, Recorded
<1> QED
    BY <1>7, <1>8, <1>9, <1>10, <1>12, <1>13, <1>14 DEF Next, Deliver

(* Whatever is recorded, delivered again or out of order, and whatever the payloads *)
(* carry, the totals differ by what was asked for and not moved: a burn never         *)
(* exceeds what was minted, which RecordWtltBurn leaves open.                         *)
THEOREM BridgeBalanced == Spec => []Balanced
BY InitBalanced, StepBalanced, PTL DEF Spec

(* A transfer whose message carries its own amount is either on its way or moved *)
LEMMA NothingStrayed ==
    ASSUME Balanced, ~Strayed
    PROVE  bridge.locked = bridge.minted + Sum(OnItsWay)
<1>1. /\ moved \in [Transfer -> Nat] /\ Recorded \subseteq Transfer
      /\ bridge.locked \in Nat /\ bridge.minted \in Nat
    BY BridgeAssumption DEF Balanced, IInv, TypeOK
<1>2. \A i \in Transfer : i.amount \in Nat
    BY BridgeAssumption
<1>3. \A i \in Transfer : \/ moved[i] = 0 /\ OnItsWay[i] = Asked[i]
                          \/ moved[i] = Asked[i] /\ OnItsWay[i] = 0
    BY <1>1 DEF Balanced, IInv, KeysRememberPayments, Strayed, OnItsWay, Asked
<1>4. DOMAIN Asked = Transfer /\ DOMAIN OnItsWay = Transfer /\ DOMAIN moved = Transfer
    BY <1>1 DEF Asked, OnItsWay
<1>5. Units(Asked) = Units(moved) \cup Units(OnItsWay) /\ Units(moved) \cap Units(OnItsWay) = {}
    BY <1>3, <1>4 DEF Units
<1>6. IsFiniteSet(Units(moved)) /\ IsFiniteSet(Units(OnItsWay))
    BY <1>5, FS_Subset DEF Balanced, FinitelyManyTokens
<1>7. Sum(Asked) = Sum(moved) + Sum(OnItsWay) /\ Sum(moved) \in Nat /\ Sum(OnItsWay) \in Nat
    BY <1>5, <1>6, UnitsAddUp DEF Sum
<1> QED
    BY <1>1, <1>7 DEF Balanced, Books

(* l1_l2_bridge.cpp neither loses nor makes tokens beyond what the payloads of the *)
(* accepted messages say, and none at all while they carry their transfers' amounts. *)
THEOREM BridgeConserves == Spec => []Conservation
<1>1. Balanced => Conservation
    BY NothingStrayed DEF Balanced, Books, Conservation
<1> QED
    BY BridgeBalanced, <1>1, PTL

-----------------------------------------------------------------------------
(* A recorded lock or burn is a transfer sent, an accepted message one that *)
(* arrives or strays; signatures and blocks are no business of the users.     *)
LEMMA StepPromise ==
    ASSUME Balanced, [Next]_vars
    PROVE  [Strayed' \/ Promise!Next]_(Promise!escrowVars)
<1> DEFINE arrived == {i \in Transfer : paid[i] > 0}
<1> USE DEF Promise!Next, Promise!escrowVars, Promise!Send, Promise!Arrive
<1>1. /\ bridge \in [keys   : SUBSET ((Sender \cup {Home, Away}) \X Nat),
                     locked : 0 .. U64 - 1, minted : 0 .. U64 - 1]
      /\ Recorded \subseteq Transfer /\ paid \in [Transfer -> Nat] /\ moved \in [Transfer -> Nat]
    BY DEF Balanced, IInv, TypeOK
<1>2. \A i \in Transfer : /\ paid[i] = 0 \/ paid[i] = 1
                          /\ paid[i] = 1 => MessageKey(i) \in bridge.keys
                          /\ paid[i] = 0 => moved[i] = 0
    BY DEF Balanced, IInv, KeysRememberPayments
<1>3. \A i \in Recorded : IntentKey(i) \in bridge.keys
    BY DEF Balanced, KeysRememberRecords
<1>4. ASSUME NEW i \in Transfer, RecordLock(i) PROVE Promise!Send(i)
    <2>1. i.kind = "lock" /\ i \notin Recorded /\ Recorded' = Recorded \cup {i}
        BY <1>3, <1>4 DEF RecordLock, RecordLockOK, Recorded
    <2>2. /\ bridge'.locked = bridge.locked + i.amount /\ bridge'.minted = bridge.minted
          /\ paid' = paid
        BY <1>1, <1>4 DEF RecordLock
    <2> QED
        BY <2>1, <2>2
<1>5. ASSUME NEW i \in Transfer, RecordBurn(i) PROVE Promise!Send(i)
    <2>1. i.kind = "burn" /\ i \notin Recorded /\ Recorded' = Recorded \cup {i}
        BY <1>3, <1>5 DEF RecordBurn, Recorded
    <2>2. i.amount <= wrapped[i.sender]
        BY <1>5, BridgeAssumption DEF RecordBurn, Balanced, IInv, TypeOK
    <2>3. i.amount <= bridge.minted
        BY <2>2, Covered
    <2>4. /\ bridge'.locked = bridge.locked /\ bridge'.minted = bridge.minted - i.amount
          /\ paid' = paid
        BY <1>1, <1>5, <2>3 DEF RecordBurn, BurnFrom
    <2> QED
        BY <2>1, <2>4
(* The transfer a message pays has not arrived, and has afterwards *)
<1>6. ASSUME NEW i \in Transfer, MessageKey(i) \notin bridge.keys,
             paid' = [paid EXCEPT ![i] = @ + 1]
      PROVE  moved[i] = 0 /\ paid'[i] = 1 /\ i \notin arrived /\ arrived' = arrived \cup {i}
    <2>1. paid[i] = 0
        BY <1>2, <1>6
    <2>2. paid'[i] = 1 /\ \A j \in Transfer : j # i => paid'[j] = paid[j]
        BY <1>1, <1>6, <2>1
    <2> QED
        BY <1>2, <2>1, <2>2
<1>7. ASSUME NEW i \in Transfer, NEW amount \in Amounts(i), NEW list, Mint(i, amount, list)
      PROVE  Strayed' \/ Promise!Arrive(i)
    <2>1. i.kind = "lock" /\ i \in Recorded /\ Recorded' = Recorded
        BY <1>7 DEF Mint, Recorded
    <2>2. moved[i] = 0 /\ paid'[i] = 1 /\ i \notin arrived /\ arrived' = arrived \cup {i}
        BY <1>6, <1>7 DEF Mint, Accepted
    <2>3. amount \in Nat
        BY BridgeAssumption DEF Amounts
    <2>4. /\ bridge'.locked = bridge.locked /\ bridge'.minted = bridge.minted + amount
          /\ moved'[i] = amount
        BY <1>1, <1>7, <2>2, <2>3 DEF Mint
    <2>5. CASE amount = i.amount
        BY <2>1, <2>2, <2>4, <2>5
    <2>6. CASE amount # i.amount
        BY <2>2, <2>4, <2>6 DEF Strayed
    <2> QED
        BY <2>5, <2>6
<1>8. ASSUME NEW i \in Transfer, NEW amount \in Amounts(i), NEW list, Unlock(i, amount, list)
      PROVE  Strayed' \/ Promise!Arrive(i)
    <2>1. i.kind = "burn" /\ i \in Recorded /\ Recorded' = Recorded
        BY <1>8 DEF Unlock, Recorded
    <2>2. moved[i] = 0 /\ paid'[i] = 1 /\ i \notin arrived /\ arrived' = arrived \cup {i}
        BY <1>6, <1>8 DEF Unlock, Accepted
    <2>3. amount \in Nat
        BY BridgeAssumption DEF Amounts
    <2>4. /\ bridge'.locked = UnlockFrom(bridge.locked, amount) /\ bridge'.minted = bridge.minted
          /\ moved'[i] = bridge.locked - bridge'.locked /\ bridge'.locked \in Nat
        BY <1>1, <1>8, <2>2, <2>3 DEF Unlock, UnlockFrom
    <2>5. CASE moved'[i] = i.amount
        <3>1. bridge'.locked = bridge.locked - i.amount
            BY <1>1, <2>4, <2>5
        <3> QED
            BY <2>1, <2>2, <2>4, <3>1
    <2>6. CASE moved'[i] # i.amount
        BY <2>2, <2>6 DEF Strayed
    <2> QED
        BY <2>5, <2>6
<1>9. ASSUME NEW i \in Transfer, NEW v \in Validator, Sign(v, i)
      PROVE  UNCHANGED Promise!escrowVars
    BY <1>9 DEF Sign, Recorded
<1>10. ASSUME Tick PROVE UNCHANGED Promise!escrowVars
    BY <1>10 DEF Tick, Recorded
<1>11. ASSUME UNCHANGED vars PROVE UNCHANGED Promise!escrowVars
    BY <1>11 DEF vars, Recorded
<1> QED
    BY <1>4, <1>5, <1>7, <1>8, <1>9, <1>10, <1>11 DEF Next, Deliver

(* The four entry points of l1_l2_bridge.cpp keep the promise of Escrow while the *)
(* messages carry the amounts of their transfers: what is held and issued is what   *)
(* the transfers sent and arrived make it, and one that was sent arrives at most     *)
(* once.  The first step that leaves it is the acceptance of another amount.         *)
THEOREM BridgeImplementsEscrow == Spec => ImplementsEscrow
<1>1. Init => Promise!Init
    BY DEF Init, Recorded, Promise!Init
<1>2. Balanced /\ [Next]_vars => [Strayed' \/ Promise!Next]_(Promise!escrowVars)
    BY StepPromise
<1> QED
    BY BridgeBalanced, <1>1, <1>2, PTL DEF Spec, ImplementsEscrow

-----------------------------------------------------------------------------
(* What was relayed has two thirds of the active stake behind it, by the table of genesis, up to what *)
(* its text invents                                                                                  *)
Backed(a) ==
    /\ a.active \in Nat /\ a.invented \in Nat
    /\ 3 * (StakeOf(Signed(a.at)) + a.invented) >= 2 * a.active
AnchoringInv == AnchoringTypeOK /\ \A a \in anchored : Backed(a)

-----------------------------------------------------------------------------
(* All stake there is fits into a word *)
LEMMA TotalFits ==
    Sum(InitialStake) \in Nat /\ StakeWord \in Nat /\ Sum(InitialStake) < StakeWord
<1>1. Sum(InitialStake) \in Nat
    BY AnchoringAssumption, FiniteUnits
<1> QED
    BY <1>1, AnchoringAssumption

(* What the code takes as the stake of some validators is a part of the whole *)
LEMMA StakeOfSome ==
    ASSUME NEW S \in SUBSET StakeHolder, NEW T \in SUBSET S
    PROVE  StakeOf(S) \in Nat /\ StakeOf(T) \in Nat /\ StakeOf(T) <= StakeOf(S) /\ StakeOf(S) <= Sum(InitialStake)
<1> USE AnchoringAssumption
<1> DEFINE s == [v \in S |-> InitialStake[v]]
           t == [v \in T |-> InitialStake[v]]
<1>1. IsFiniteSet(S)
    BY FS_Subset
<1>2. /\ DOMAIN s = S /\ \A v \in S : s[v] \in Nat /\ s[v] <= InitialStake[v]
      /\ DOMAIN t = T /\ \A v \in T : t[v] \in Nat /\ t[v] <= s[v]
    OBVIOUS
<1>3. StakeOf(S) = Sum(s) /\ StakeOf(T) = Sum(t)
    BY DEF StakeOf
<1> HIDE DEF s, t
<1>4. Sum(t) \in Nat /\ Sum(s) \in Nat /\ Sum(t) <= Sum(s)
    BY <1>1, <1>2, SumMonotone
<1>5. Sum(s) <= Sum(InitialStake)
    BY <1>2, SumMonotone
<1> QED
    BY <1>3, <1>4, <1>5

(* A product that does not fit is taken for a smaller one, so the comparison never grants too much *)
LEMMA QuorumIsTwoThirds ==
    ASSUME NEW n \in Nat, NEW m \in 0 .. Sum(InitialStake), Sum(InitialStake) \in Nat,
           Crosswise(n, 3) >= Crosswise(m, 2)
    PROVE  3 * n >= 2 * m
<1>1. StakeWord \in Nat /\ 2 * m < StakeWord
    BY AnchoringAssumption
<1>2. Crosswise(m, 2) = 2 * m
    <2>1. m <= (StakeWord - 1) \div 2
        BY <1>1
    <2> QED
        BY <2>1 DEF Crosswise
<1>3. Crosswise(n, 3) <= 3 * n
    <2>1. CASE n <= (StakeWord - 1) \div 3
        BY <2>1 DEF Crosswise
    <2>2. CASE ~(n <= (StakeWord - 1) \div 3)
        BY <1>1, <2>2 DEF Crosswise
    <2> QED
        BY <2>1, <2>2
<1>4. Crosswise(n, 3) \in Int
    BY <1>1 DEF Crosswise
<1> QED
    BY <1>2, <1>3, <1>4

(* The first of several signatures of a validator is one of them *)
LEMMA FirstIsOne ==
    ASSUME NEW given, DOMAIN given \subseteq Nat, NEW v \in Signers(given)
    PROVE  FirstOf(given, v) \in DOMAIN given /\ given[FirstOf(given, v)].id = v
<1> DEFINE T == {i \in DOMAIN given : given[i].id = v}
<1>1. T \subseteq Nat /\ T # {}
    BY DEF Signers
<1>2. \E i \in T : \A j \in T : i <= j
    BY <1>1, LeastNumber
<1>3. \E i \in DOMAIN given : given[i].id = v /\ \A j \in DOMAIN given : given[j].id = v => i <= j
    BY <1>2
<1> QED
    BY <1>3 DEF FirstOf

(* SignedStakeWeight counts nobody twice: it is at most the stake of those who signed and what is *)
(* stated of others                                                                              *)
LEMMA WeightIsCovered ==
    ASSUME AnchoringTypeOK, NEW c, DOMAIN c.signatures \subseteq Nat, IsFiniteSet(DOMAIN c.signatures),
           \A i \in DOMAIN c.signatures : c.signatures[i].stake \in Nat
    PROVE  /\ SignedStakeWeight(c) \in Nat /\ Invented(c) \in Nat
           /\ SignedStakeWeight(c) <= StakeOf(Signed(<<c.height, c.block>>)) + Invented(c)
<1> DEFINE given == c.signatures
           at == <<c.height, c.block>>
           all == Signers(given)
           weight == [v \in all |-> given[FirstOf(given, v)].stake]
           unknown == {v \in all : ~OnRecord(given[FirstOf(given, v)], at)}
           known == all \ unknown
           whole == [v \in Signed(at) |-> InitialStake[v]]
           backed == [v \in known |-> weight[v]]
           rest == [v \in unknown |-> weight[v]]
<1>1. \A v \in all : FirstOf(given, v) \in DOMAIN given /\ given[FirstOf(given, v)].id = v
    BY FirstIsOne
<1>2. IsFiniteSet(all)
    <2> DEFINE idOf == [i \in DOMAIN given |-> given[i].id]
    <2>1. idOf \in Surjection(DOMAIN given, all)
        BY DEF Surjection, Signers
    <2> QED
        BY <2>1, FS_Surjection
<1>3. DOMAIN weight = all /\ \A v \in all : weight[v] \in Nat
    BY <1>1
<1>4. Signed(at) \subseteq StakeHolder
    BY DEF Signed, VotesFor, AnchoringTypeOK
<1>5. \A v \in known : v \in Signed(at) /\ weight[v] <= InitialStake[v]
    <2> TAKE v \in known
    <2>1. PICK x \in VotesFor(at) : x.id = v /\ x.stake = weight[v]
        BY <1>1 DEF OnRecord
    <2>2. x \in votes /\ x.stake \in 0 .. InitialStake[x.id]
        BY DEF VotesFor, AnchoringTypeOK
    <2>3. InitialStake[x.id] \in Nat
        BY <2>2, AnchoringAssumption DEF AnchoringTypeOK
    <2> QED
        BY <2>1, <2>2, <2>3 DEF Signed
<1>6. /\ IsFiniteSet(DOMAIN whole) /\ DOMAIN whole = Signed(at)
      /\ \A v \in DOMAIN whole : whole[v] \in Nat /\ whole[v] = InitialStake[v]
    BY <1>4, AnchoringAssumption, FS_Subset
<1>7. Invented(c) = Sum(rest)
    <2>1. rest = [v \in unknown |-> given[FirstOf(given, v)].stake]
        OBVIOUS
    <2> QED
        BY <2>1 DEF Invented
<1>8. SignedStakeWeight(c) = Sum(weight) % StakeWord
    BY DEF SignedStakeWeight
<1>9. StakeOf(Signed(at)) = Sum(whole)
    BY DEF StakeOf
<1>10. unknown \in SUBSET DOMAIN weight /\ DOMAIN weight \ unknown = known
    OBVIOUS
<1> HIDE DEF weight, unknown, whole, all
<1>11. Sum(backed) \in Nat /\ Sum(rest) \in Nat /\ Sum(weight) = Sum(rest) + Sum(backed)
    BY <1>2, <1>3, <1>10, SumSplit
<1>12. DOMAIN backed \subseteq DOMAIN whole /\ \A v \in DOMAIN backed : backed[v] \in Nat /\ backed[v] <= whole[v]
    BY <1>3, <1>5, <1>6, <1>10
<1>13. Sum(whole) \in Nat /\ Sum(backed) <= Sum(whole)
    <2> HIDE DEF backed
    <2> QED
        BY <1>6, <1>12, SumMonotone
<1> HIDE DEF backed, rest
<1>14. Sum(weight) % StakeWord \in Nat /\ Sum(weight) % StakeWord <= Sum(weight)
    <2>1. Sum(weight) \in Nat /\ StakeWord \in Nat /\ StakeWord > 0
        BY <1>11, TotalFits
    <2> QED
        BY <2>1
<1> QED
    BY <1>7, <1>8, <1>9, <1>11, <1>13, <1>14 DEF at

(* An element at the end leaves the others where they are *)
LEMMA AppendKeeps ==
    ASSUME NEW S, NEW s \in Seq(S), NEW e, NEW i \in 1 .. Len(s)
    PROVE  Append(s, e)[i] = s[i]
<1> DEFINE T == S \cup {e}
<1>1. s \in Seq(T) /\ e \in T
    OBVIOUS
<1> HIDE DEF T
<1> QED
    BY <1>1, AppendProperties

(* Whoever wrote the text, what is read of it is a list of signatures that state numbers *)
LEMMA TextsStateNumbers ==
    ASSUME AnchoringTypeOK, NEW at \in FinalBlock, NEW text \in Given(at), DecodeOK(text),
           NEW c, c = DecodeCommitment(text)
    PROVE  /\ DOMAIN c.signatures \subseteq Nat /\ IsFiniteSet(DOMAIN c.signatures)
           /\ \A i \in DOMAIN c.signatures : c.signatures[i].stake \in Nat
<1> DEFINE IsList(items) ==
               \E n \in Nat : DOMAIN items = 1 .. n /\ \A i \in 1 .. n : Len(items[i]) = 3 => items[i][2] \in Nat
<1>1. \A x \in VotesFor(at) : x.stake \in Nat
    <2> TAKE x \in VotesFor(at)
    <2>1. x.stake \in 0 .. InitialStake[x.id] /\ InitialStake[x.id] \in Nat
        BY AnchoringAssumption DEF VotesFor, AnchoringTypeOK
    <2> QED
        BY <2>1
<1>2. \A d, t : Text(d, t)[8] = t /\ Len(Text(d, t)) = 8 /\ Text(d, t) \in Seq({Text(d, t)[i] : i \in 1 .. 8})
    BY DEF Text
<1>3. SUFFICES IsList(text[8])
    <2>1. PICK n \in Nat : /\ DOMAIN text[8] = 1 .. n
                           /\ \A i \in 1 .. n : Len(text[8][i]) = 3 => text[8][i][2] \in Nat
        BY <1>3
    <2>2. DOMAIN c.signatures = Tuples(text[8]) /\ \A i \in Tuples(text[8]) : c.signatures[i].stake = text[8][i][2]
        BY DEF DecodeCommitment
    <2>3. Tuples(text[8]) \subseteq 1 .. n /\ \A i \in Tuples(text[8]) : Len(text[8][i]) = 3
        BY <2>1 DEF Tuples, DecodeOK
    <2>4. IsFiniteSet(1 .. n)
        BY FS_Interval
    <2> QED
        BY <2>1, <2>2, <2>3, <2>4, FS_Subset
<1>4. CASE text \in Handwritten(at)
    <2>1. PICK n \in 0 .. MaxSignatures : \E items \in [1 .. n -> Item(at)] :
              text = Text(Commitment(source, at, "root", "up", <<>>), items)
        BY <1>4 DEF Handwritten
    <2>2. PICK items \in [1 .. n -> Item(at)] : text = Text(Commitment(source, at, "root", "up", <<>>), items)
        BY <2>1
    <2>3. text[8] = items
        BY <1>2, <2>2
    <2>4. \A item \in Item(at) : Len(item) = 3 => item[2] \in Nat
        <3> TAKE item \in Item(at)
        <3>1. CASE \E x \in VotesFor(at) : item = <<x.id, x.stake, "signature">>
            BY <1>1, <3>1
        <3>2. CASE item \in StakeHolder \X WrittenStake \X {"signature"}
            BY <3>2, AnchoringAssumption
        <3>3. CASE item \in {<<>>, <<"", 1, "signature">>, <<"nobody", 1, "">>, <<"nobody", 1>>}
            <4>1. Len(<<>>) # 3 /\ Len(<<"nobody", 1>>) # 3
                OBVIOUS
            <4>2. <<"", 1, "signature">>[2] \in Nat /\ <<"nobody", 1, "">>[2] \in Nat
                OBVIOUS
            <4> QED
                BY <3>3, <4>1, <4>2
        <3> QED
            BY <3>1, <3>2, <3>3 DEF Item
    <2> QED
        BY <2>2, <2>3, <2>4
<1>5. CASE \E built \in Built(at) : text \in Forms(EncodeCommitment(built))
    <2>1. PICK built \in Built(at) : text \in Forms(EncodeCommitment(built))
        BY <1>5
    <2>2. PICK given \in Collected(at) : built.signatures = given
        <3>1. CASE source = OBOLOS
            <4>1. PICK root \in {"root", "short"}, given \in Collected(at) : built = BuildL3Commitment(at, root, given)
                BY <2>1, <3>1 DEF Built
            <4> QED
                BY <4>1 DEF BuildL3Commitment, Commitment
        <3>2. CASE source # OBOLOS
            <4>1. PICK up \in Upstream, given \in Collected(at) : built = Commitment(DRACHMA, at, "root", up, given)
                BY <2>1, <3>2 DEF Built
            <4> QED
                BY <4>1 DEF Commitment
        <3> QED
            BY <3>1, <3>2
    <2>3. PICK n \in 0 .. MaxSignatures :
              given \in [1 .. n -> {[id |-> x.id, stake |-> x.stake, signature |-> "signature"] : x \in VotesFor(at)}]
        BY DEF Collected
    <2>4. \A i \in 1 .. n : given[i].stake \in Nat
        BY <1>1, <2>3
    <2>5. DOMAIN Items(built) = 1 .. n /\ \A i \in 1 .. n : Items(built)[i][2] = given[i].stake
        BY <2>2, <2>3 DEF Items
    <2>6. IsList(Items(built)) /\ EncodeCommitment(built) = Text(built, Items(built))
        BY <2>4, <2>5 DEF EncodeCommitment
    <2>7. text[8] = Items(built)
        <3> DEFINE items == Items(built)
        <3> HIDE DEF items
        <3>1. EncodeCommitment(built) = Text(built, items)
            BY <2>6 DEF items
        <3>2. CASE text = Text(built, items)
            BY <1>2, <3>2 DEF items
        <3>3. CASE text = SubSeq(Text(built, items), 1, 7)
            <4>1. Len(text) = 7
                BY <3>3 DEF Text
            <4> QED
                BY <4>1 DEF DecodeOK, HasFields
        <3>4. CASE text = Append(Text(built, items), "")
            <4> DEFINE t == Text(built, items)
            <4>a. t \in Seq({t[i] : i \in 1 .. 8}) /\ Len(t) = 8 /\ t[8] = items
                BY <1>2
            <4> HIDE DEF t
            <4>1. PICK S : t \in Seq(S)
                BY <4>a
            <4>b. 8 \in 1 .. Len(t)
                BY <4>a
            <4>2. Append(t, "")[8] = t[8]
                BY <4>1, <4>b, AppendKeeps
            <4>3. text[8] = items
                BY <3>4, <4>a, <4>2 DEF t
            <4> QED
                BY <4>3 DEF items
        <3> QED
            BY <2>1, <3>1, <3>2, <3>3, <3>4 DEF Forms
    <2> QED
        BY <2>6, <2>7
<1> QED
    BY <1>4, <1>5 DEF Given

(* More signatures on record are at least as much stake *)
LEMMA VotesOnlyGrow ==
    ASSUME NEW at, votes \subseteq votes', \A x \in votes' : x.id \in StakeHolder
    PROVE  StakeOf(Signed(at)) \in Nat /\ StakeOf(Signed(at)') \in Nat /\ StakeOf(Signed(at)) <= StakeOf(Signed(at)')
<1>1. Signed(at) \subseteq Signed(at)' /\ Signed(at)' \subseteq StakeHolder
    BY DEF Signed, VotesFor
<1> QED
    BY <1>1, StakeOfSome

(* Slashing never adds to a stake *)
LEMMA SlashingTakes ==
    ASSUME NEW n \in Nat, NEW reason \in DOMAIN SlashBips
    PROVE  SlashedAmount(n, reason) \in 0 .. n
<1> DEFINE b == SlashBips[reason]
           w == (n * b) % StakeWord
<1>1. b \in {500, 1000}
    BY DEF SlashBips
<1>2. StakeWord \in Nat /\ StakeWord > 0
    BY TotalFits
<1> HIDE DEF b
<1>3. n * b \in Nat /\ n * b <= 1000 * n
    BY <1>1
<1>4. w \in Nat /\ w <= n * b
    BY <1>2, <1>3
<1> HIDE DEF w
<1>5. w \div 10000 \in 0 .. n
    BY <1>3, <1>4
<1> QED
    BY <1>5 DEF SlashedAmount, w, b

(* The invariant begins with no signatures and nothing relayed *)
LEMMA AnchoringInit == InitAnchoring => AnchoringInv
<1> SUFFICES ASSUME InitAnchoring PROVE AnchoringInv
    OBVIOUS
<1>1. Sum(InitialStake) % StakeWord = Sum(InitialStake)
    BY TotalFits
<1> QED
    BY <1>1, TotalFits, AnchoringAssumption DEF InitAnchoring, AnchoringInv, AnchoringTypeOK, TotalActiveStake

(* What a relayer lets pass has its two thirds by the table of genesis, up to what the text invents *)
LEMMA RelayedIsSigned ==
    ASSUME AnchoringInv, NEW r \in Relayer, NEW at \in FinalBlock, NEW text \in Given(at),
           DecodeOK(text), NEW c, c = DecodeCommitment(text), Validated(c, told[r])
    PROVE  Backed([at |-> <<c.height, c.block>>, active |-> told[r].active, invented |-> Invented(c)])
<1> DEFINE signed == Signed(<<c.height, c.block>>)
<1>1. /\ DOMAIN c.signatures \subseteq Nat /\ IsFiniteSet(DOMAIN c.signatures)
      /\ \A i \in DOMAIN c.signatures : c.signatures[i].stake \in Nat
    BY TextsStateNumbers DEF AnchoringInv
<1>2. /\ SignedStakeWeight(c) \in Nat /\ Invented(c) \in Nat
      /\ SignedStakeWeight(c) <= StakeOf(signed) + Invented(c)
    BY <1>1, WeightIsCovered DEF AnchoringInv
<1>3. signed \subseteq StakeHolder
    BY DEF Signed, VotesFor, AnchoringInv, AnchoringTypeOK
<1>4. StakeOf(signed) \in Nat
    BY <1>3, StakeOfSome
<1>5. Sum(InitialStake) \in Nat
    BY TotalFits
<1>6. told[r].active \in 0 .. Sum(InitialStake)
    BY DEF AnchoringInv, AnchoringTypeOK
<1>7. Crosswise(SignedStakeWeight(c), 3) >= Crosswise(told[r].active, 2)
    <2>1. ValidateFinalityQuorum(c, told[r].active)
        BY DEF Validated, ValidateL3Commit, ValidateL2Commit, ValidateFrom
    <2> QED
        BY <2>1 DEF ValidateFinalityQuorum
<1>8. 3 * SignedStakeWeight(c) >= 2 * told[r].active
    BY <1>2, <1>5, <1>6, <1>7, QuorumIsTwoThirds
<1> HIDE DEF signed
<1>9. 3 * (StakeOf(signed) + Invented(c)) >= 2 * told[r].active /\ told[r].active \in Nat
    BY <1>2, <1>4, <1>5, <1>6, <1>8
<1> QED
    BY <1>2, <1>9 DEF Backed, signed

(* Every step keeps it *)
LEMMA AnchoringNext == AnchoringInv /\ [AnchoringStep]_anchorVars => AnchoringInv'
<1> SUFFICES ASSUME AnchoringInv, [AnchoringStep]_anchorVars PROVE AnchoringInv'
    OBVIOUS
<1>0. Sum(InitialStake) \in Nat /\ StakeWord \in Nat /\ Sum(InitialStake) < StakeWord
    BY TotalFits
<1>a. Sum(stakes) \in 0 .. Sum(InitialStake)
    <2>1. stakes \in [StakeHolder -> Nat] /\ \A v \in StakeHolder : stakes[v] <= InitialStake[v]
        BY DEF AnchoringInv, AnchoringTypeOK
    <2>2. Sum(stakes) \in Nat /\ Sum(stakes) <= Sum(InitialStake)
        BY <2>1, AnchoringAssumption, SumMonotone
    <2> QED
        BY <1>0, <2>2
<1>1. ASSUME NEW v \in StakeHolder, SignFinal(v) PROVE AnchoringInv'
    <2>1. PICK at \in FinalBlock : votes' = votes \cup {Signature(v, stakes[v], at)}
        BY <1>1 DEF SignFinal
    <2>2. UNCHANGED <<source, stakes, slashes, told, anchored>>
        BY <1>1 DEF SignFinal
    <2>3. \A x \in votes' : x.id \in StakeHolder /\ x.stake \in 0 .. InitialStake[x.id]
        BY <2>1, AnchoringAssumption DEF Signature, AnchoringInv, AnchoringTypeOK
    <2>4. AnchoringTypeOK'
        BY <2>2, <2>3 DEF AnchoringInv, AnchoringTypeOK
    <2>5. \A a \in anchored : /\ a.active \in Nat /\ a.invented \in Nat
                               /\ 3 * (StakeOf(Signed(a.at)') + a.invented) >= 2 * a.active
        <3> TAKE a \in anchored
        <3>1. /\ a.active \in Nat /\ a.invented \in Nat
              /\ 3 * (StakeOf(Signed(a.at)) + a.invented) >= 2 * a.active
            BY DEF AnchoringInv, Backed
        <3>2. StakeOf(Signed(a.at)) \in Nat /\ StakeOf(Signed(a.at)') \in Nat
              /\ StakeOf(Signed(a.at)) <= StakeOf(Signed(a.at)')
            BY <2>1, <2>3, VotesOnlyGrow
        <3> QED
            BY <3>1, <3>2
    <2> QED
        BY <2>2, <2>4, <2>5 DEF AnchoringInv, Backed
<1>2. ASSUME NEW v \in StakeHolder, NEW reason \in DOMAIN SlashBips, ApplySlashing(v, reason) PROVE AnchoringInv'
    <2>1. UNCHANGED <<source, votes, told, anchored>> /\ slashes' \in 0 .. MaxSlashes
        BY <1>2, AnchoringAssumption DEF ApplySlashing, AnchoringInv, AnchoringTypeOK
    <2>2. stakes \in [StakeHolder -> Nat] /\ \A u \in StakeHolder : stakes[u] <= InitialStake[u]
        BY DEF AnchoringInv, AnchoringTypeOK
    <2>3. SlashedAmount(stakes[v], reason) \in 0 .. stakes[v]
        BY <2>2, SlashingTakes
    <2>4. stakes' = [stakes EXCEPT ![v] = stakes[v] - SlashedAmount(stakes[v], reason)]
        BY <1>2 DEF ApplySlashing
    <2>a. stakes[v] - SlashedAmount(stakes[v], reason) \in 0 .. stakes[v]
        BY <2>2, <2>3
    <2>5. stakes' \in [StakeHolder -> Nat] /\ \A u \in StakeHolder : stakes'[u] <= InitialStake[u]
        <3>1. \A u \in StakeHolder : stakes'[u] \in 0 .. stakes[u]
            BY <2>2, <2>a, <2>4
        <3>2. \A u \in StakeHolder : stakes[u] \in Nat /\ InitialStake[u] \in Nat
            BY <2>2, AnchoringAssumption
        <3>3. DOMAIN stakes' = StakeHolder /\ stakes' = [u \in StakeHolder |-> stakes'[u]]
            BY <2>2, <2>4
        <3>4. \A u \in StakeHolder : stakes'[u] \in Nat /\ stakes'[u] <= InitialStake[u]
            BY <2>2, <3>1, <3>2
        <3> QED
            BY <3>3, <3>4
    <2>6. AnchoringTypeOK'
        BY <2>1, <2>5 DEF AnchoringInv, AnchoringTypeOK
    <2> QED
        BY <2>1, <2>6 DEF AnchoringInv, Backed, Signed, VotesFor
<1>3. ASSUME NEW r \in Relayer, ReadState(r) PROVE AnchoringInv'
    <2>1. UNCHANGED <<source, stakes, votes, slashes, anchored>>
        BY <1>3 DEF ReadState
    <2>2. TotalActiveStake(stakes) \in 0 .. Sum(InitialStake)
        BY <1>0, <1>a DEF TotalActiveStake
    <2>3. DOMAIN told' = Relayer /\ \A q \in Relayer : told'[q].active \in 0 .. Sum(InitialStake)
        BY <1>3, <2>2 DEF ReadState, AnchoringInv, AnchoringTypeOK
    <2>4. AnchoringTypeOK'
        BY <2>1, <2>3 DEF AnchoringInv, AnchoringTypeOK
    <2> QED
        BY <2>1, <2>4 DEF AnchoringInv, Backed, Signed, VotesFor
<1>4. ASSUME NEW r \in Relayer, Relay(r) PROVE AnchoringInv'
    <2>1. UNCHANGED <<source, stakes, votes, slashes, told>>
        BY <1>4 DEF Relay
    <2> DEFINE Record(c) == [at |-> <<c.height, c.block>>, active |-> told[r].active, invented |-> Invented(c)]
               Passes(text) ==
                   /\ DecodeOK(text)
                   /\ Validated(DecodeCommitment(text), told[r])
                   /\ anchored' = anchored \cup {Record(DecodeCommitment(text))}
    <2>a. \E at \in FinalBlock : \E text \in Given(at) : Passes(text)
        BY <1>4 DEF Relay
    <2> HIDE DEF Passes
    <2>b. PICK at \in FinalBlock : \E text \in Given(at) : Passes(text)
        BY <2>a
    <2>2. PICK text \in Given(at) : Passes(text)
        BY <2>b
    <2>3. PICK c : c = DecodeCommitment(text)
        OBVIOUS
    <2>4. Backed(Record(c))
        BY <2>2, <2>3, RelayedIsSigned DEF Passes
    <2>5. anchored' = anchored \cup {Record(c)}
        BY <2>2, <2>3 DEF Passes
    <2>6. AnchoringTypeOK'
        BY <2>1 DEF AnchoringInv, AnchoringTypeOK
    <2> HIDE DEF Record
    <2>7. \A a \in anchored' : Backed(a)
        BY <2>4, <2>5 DEF AnchoringInv
    <2>8. \A x : Signed(x)' = Signed(x)
        BY <2>1 DEF Signed, VotesFor
    <2> QED
        BY <2>6, <2>7, <2>8 DEF AnchoringInv, Backed
<1>5. CASE UNCHANGED anchorVars
    BY <1>5 DEF AnchoringInv, Backed, AnchoringTypeOK, anchorVars, Signed, VotesFor
<1> QED
    BY <1>1, <1>2, <1>3, <1>4, <1>5 DEF AnchoringStep

(* In every state two thirds of the active stake stand behind what was relayed, less what its text invents *)
THEOREM AnchoringInductive == AnchoringSpec => []AnchoringInv
<1> QED
    BY AnchoringInit, AnchoringNext, PTL DEF AnchoringSpec

(* Two quorums share what they exceed the whole by *)
LEMMA QuorumsMeet == AnchoringInv => AnchorsAreAccountable
<1> SUFFICES ASSUME AnchoringInv, NEW a \in anchored, NEW b \in anchored PROVE Accountable(a, b)
    BY DEF AnchorsAreAccountable
<1> DEFINE A == Signed(a.at)
           B == Signed(b.at)
<1>1. A \subseteq StakeHolder /\ B \subseteq StakeHolder
    BY DEF Signed, VotesFor, AnchoringInv, AnchoringTypeOK
<1>2. /\ a.active \in Nat /\ a.invented \in Nat /\ 3 * (StakeOf(A) + a.invented) >= 2 * a.active
      /\ b.active \in Nat /\ b.invented \in Nat /\ 3 * (StakeOf(B) + b.invented) >= 2 * b.active
    BY DEF AnchoringInv, Backed
<1> HIDE DEF A, B
<1>3. StakeOf(A) \in Nat /\ StakeOf(B) \in Nat /\ StakeOf(A \cap B) \in Nat
    BY <1>1, StakeOfSome
<1>4. Sum(InitialStake) \in Nat
    BY TotalFits
<1>5. StakeOf(A) + StakeOf(B) <= StakeOf(A \cap B) + Sum(InitialStake)
    BY <1>1, AnchoringAssumption, SumsOverlap DEF StakeOf
<1>6. 3 * StakeOf(A \cap B) + 3 * (Sum(InitialStake) + a.invented + b.invented) >= 2 * (a.active + b.active)
    BY <1>2, <1>3, <1>4, <1>5
<1> QED
    BY <1>6 DEF Accountable, A, B

(* However signatures are repeated, stakes cut and numbers read late: who lets two blocks of one height *)
(* be relayed is on record with what the two quorums have in common, less what the texts state without   *)
(* a vote, for any validators and stakes                                                                *)
THEOREM AnchoringAccountable == AnchoringSpec => []AnchorsAreAccountable
<1> QED
    BY AnchoringInductive, QuorumsMeet, PTL

-----------------------------------------------------------------------------
(* The server of requests *)

(* The requests a client was admitted with between two times, those before a reset aside *)
Hits(adm, ip, a, b) ==
    {k \in DOMAIN adm : adm[k][1] = ip /\ adm[k][2] \in Nat /\ a <= adm[k][2] /\ adm[k][2] <= b}

(* What the limiter remembers of a client covers what it was admitted with: in its present window no more *)
(* than it counts, in the length of a window before that no more than the limit, and nothing later        *)
ClientCovers(adm, ip, info, now) ==
    /\ info \in [count : 0 .. MaxRequestCount, start : 0 .. now, last : 0 .. now]
    /\ \A k \in DOMAIN adm : adm[k][1] = ip => adm[k][2] <= info.last /\ adm[k][2] < info.start + Window
    /\ Cardinality(Hits(adm, ip, info.start, info.last)) <= info.count
    /\ Cardinality(Hits(adm, ip, info.start - Window + 1, info.start - 1)) <= MaxRequestCount

(* No stretch as long as a window has more than twice the limit *)
WithinLimit(adm, ip) ==
    \A t \in Nat : Cardinality(Hits(adm, ip, t, t + Window - 1)) <= 2 * MaxRequestCount

(* A client that is forgotten was not admitted within a window, or was reset *)
LongAgo(adm, ip, now) ==
    \A k \in DOMAIN adm : adm[k][1] = ip => adm[k][2] < 0 \/ adm[k][2] + Window <= now

Admission == Ip \X Int
Admissions == Seq(Ip \X Int)

(* There are finitely many admissions, fewer between closer times *)
LEMMA HitsFinite ==
    ASSUME NEW adm \in Admissions, NEW ip, NEW a, NEW b
    PROVE  IsFiniteSet(Hits(adm, ip, a, b)) /\ Cardinality(Hits(adm, ip, a, b)) \in Nat
<1>1. DOMAIN adm = 1 .. Len(adm) /\ Len(adm) \in Nat
    BY LenProperties DEF Admissions
<1>2. IsFiniteSet(1 .. Len(adm))
    BY <1>1, FS_Interval
<1>3. Hits(adm, ip, a, b) \subseteq 1 .. Len(adm)
    BY <1>1 DEF Hits
<1>4. IsFiniteSet(Hits(adm, ip, a, b))
    BY <1>2, <1>3, FS_Subset
<1> QED
    BY <1>4, FS_CardinalityType

(* Fewer of them are fewer *)
LEMMA FewerHits ==
    ASSUME NEW adm \in Admissions, NEW ip, NEW a, NEW b, NEW S, S \subseteq Hits(adm, ip, a, b)
    PROVE  IsFiniteSet(S) /\ Cardinality(S) \in Nat /\ Cardinality(S) <= Cardinality(Hits(adm, ip, a, b))
<1>1. IsFiniteSet(Hits(adm, ip, a, b))
    BY HitsFinite
<1> QED
    BY <1>1, FS_Subset, FS_CardinalityType

(* What an admission is *)
LEMMA AdmissionTyped ==
    ASSUME NEW adm \in Admissions, NEW k \in DOMAIN adm
    PROVE  adm[k] \in Ip \X Int /\ adm[k][2] \in Int
<1>1. adm[k] \in Ip \X Int
    BY ElementOfSeq DEF Admissions
<1> QED
    BY <1>1

(* A window that has passed is followed by an empty one *)
LEMMA FreshCovers ==
    ASSUME Window > 0, NEW adm \in Admissions, NEW ip, NEW info, NEW now \in Nat,
           ClientCovers(adm, ip, info, now), now - info.start >= Window,
           NEW new, new = [info EXCEPT !.count = 0, !.start = now]
    PROVE  ClientCovers(adm, ip, new, now)
<1>1. /\ info \in [count : 0 .. MaxRequestCount, start : 0 .. now, last : 0 .. now]
      /\ \A k \in DOMAIN adm : adm[k][1] = ip => adm[k][2] <= info.last /\ adm[k][2] < info.start + Window
      /\ Cardinality(Hits(adm, ip, info.start, info.last)) <= info.count
    BY DEF ClientCovers
<1>2. new.count = 0 /\ new.start = now /\ new.last = info.last
      /\ new \in [count : 0 .. MaxRequestCount, start : 0 .. now, last : 0 .. now]
    <2>1. new = [count |-> 0, start |-> now, last |-> info.last]
        BY <1>1
    <2>2. 0 \in 0 .. MaxRequestCount /\ now \in 0 .. now /\ info.last \in 0 .. now
        BY <1>1, RpcAssumption
    <2> QED
        BY <2>1, <2>2
<1>3. /\ info.start \in Nat /\ info.last \in Nat /\ info.count \in Nat /\ info.count <= MaxRequestCount /\ info.last <= now
      /\ Window \in Nat /\ MaxRequestCount \in Nat
    BY <1>1, RpcAssumption
<1>4. \A k \in DOMAIN adm : adm[k][1] = ip => adm[k][2] <= new.last /\ adm[k][2] < new.start + Window
    <2> SUFFICES ASSUME NEW k \in DOMAIN adm, adm[k][1] = ip
                 PROVE  adm[k][2] <= new.last /\ adm[k][2] < new.start + Window
        OBVIOUS
    <2>1. adm[k][2] \in Int /\ adm[k][2] <= info.last
        BY <1>1, AdmissionTyped
    <2> QED
        BY <1>2, <1>3, <2>1
<1>5. Hits(adm, ip, new.start, new.last) = {}
    <2> SUFFICES ASSUME NEW k \in DOMAIN adm, adm[k][1] = ip, adm[k][2] \in Nat, new.start <= adm[k][2]
                 PROVE  FALSE
        BY DEF Hits
    <2>1. adm[k][2] \in Int /\ adm[k][2] < info.start + Window
        BY <1>1, AdmissionTyped
    <2> QED
        BY <1>2, <1>3, <2>1
<1>6. Hits(adm, ip, new.start - Window + 1, new.start - 1) \subseteq Hits(adm, ip, info.start, info.last)
    <2> SUFFICES ASSUME NEW k \in DOMAIN adm, adm[k][1] = ip, adm[k][2] \in Nat, new.start - Window + 1 <= adm[k][2]
                 PROVE  info.start <= adm[k][2] /\ adm[k][2] <= info.last
        BY DEF Hits
    <2>1. adm[k][2] \in Int /\ adm[k][2] <= info.last
        BY <1>1, AdmissionTyped
    <2> QED
        BY <1>2, <1>3, <2>1
<1>7. Cardinality(Hits(adm, ip, new.start - Window + 1, new.start - 1)) <= MaxRequestCount
    <2> DEFINE S == Hits(adm, ip, new.start - Window + 1, new.start - 1)
               T == Hits(adm, ip, info.start, info.last)
    <2>1. Cardinality(S) \in Nat /\ Cardinality(S) <= Cardinality(T) /\ Cardinality(T) \in Nat
        BY <1>6, FewerHits, HitsFinite
    <2>2. Cardinality(T) <= info.count
        BY <1>1
    <2> HIDE DEF S, T
    <2>3. Cardinality(S) <= MaxRequestCount
        BY <1>3, <2>1, <2>2
    <2> QED
        BY <2>3 DEF S
<1>8. Cardinality(Hits(adm, ip, new.start, new.last)) <= new.count
    <2>1. Cardinality({}) = 0
        BY FS_EmptySet
    <2> QED
        BY ONLY <1>2, <1>5, <2>1
<1> QED
    BY <1>2, <1>4, <1>7, <1>8 DEF ClientCovers

(* So does an empty one for a client that is not remembered *)
LEMMA UnknownCovers ==
    ASSUME Window > 0, NEW adm \in Admissions, NEW ip, NEW now \in Nat, LongAgo(adm, ip, now),
           NEW new, new = [count |-> 0, start |-> now, last |-> now]
    PROVE  ClientCovers(adm, ip, new, now)
<1>1. /\ new.count = 0 /\ new.start = now /\ new.last = now
      /\ new \in [count : 0 .. MaxRequestCount, start : 0 .. now, last : 0 .. now]
      /\ Window \in Nat /\ MaxRequestCount \in Nat
    BY RpcAssumption
<1>2. \A k \in DOMAIN adm : adm[k][1] = ip => adm[k][2] \in Int /\ (adm[k][2] < 0 \/ adm[k][2] + Window <= now)
    BY AdmissionTyped DEF LongAgo
<1>3. \A k \in DOMAIN adm : adm[k][1] = ip => adm[k][2] <= new.last /\ adm[k][2] < new.start + Window
    <2> SUFFICES ASSUME NEW k \in DOMAIN adm, adm[k][1] = ip
                 PROVE  adm[k][2] <= new.last /\ adm[k][2] < new.start + Window
        OBVIOUS
    <2> QED
        BY <1>1, <1>2
<1>4. \A a, b : a \in Int /\ a >= now - Window + 1 => Hits(adm, ip, a, b) = {}
    <2> SUFFICES ASSUME NEW a \in Int, a >= now - Window + 1, NEW k \in DOMAIN adm, adm[k][1] = ip,
                        adm[k][2] \in Nat, a <= adm[k][2]
                 PROVE  FALSE
        BY DEF Hits
    <2> QED
        BY <1>1, <1>2
<1>5. /\ Hits(adm, ip, new.start, new.last) = {}
      /\ Hits(adm, ip, new.start - Window + 1, new.start - 1) = {}
    <2>1. new.start \in Int /\ new.start >= now - Window + 1
          /\ new.start - Window + 1 \in Int /\ new.start - Window + 1 >= now - Window + 1
        BY <1>1
    <2> QED
        BY ONLY <1>4, <2>1
<1>6. Cardinality({}) = 0
    BY FS_EmptySet
<1> QED
    BY <1>1, <1>3, <1>5, <1>6 DEF ClientCovers

(* One admission more *)
OneLonger(adm2, adm, e) ==
    \E n : /\ DOMAIN adm2 = DOMAIN adm \cup {n} /\ n \notin DOMAIN adm
           /\ \A k \in DOMAIN adm : adm2[k] = adm[k]
           /\ adm2[n] = e

(* The other clients are as they were *)
OthersSame(adm2, adm, ip) == \A x, a, b : x # ip => Hits(adm2, x, a, b) = Hits(adm, x, a, b)

(* Appending an admission *)
LEMMA OneMore ==
    ASSUME NEW adm \in Admissions, NEW e, e \in Admission, NEW adm2, adm2 = Append(adm, e)
    PROVE  adm2 \in Admissions /\ OneLonger(adm2, adm, e)
<1> DEFINE n == Len(adm) + 1
<1>1. adm \in Seq(Ip \X Int)
    BY DEF Admissions
<1>2. /\ adm2 \in Seq(Ip \X Int) /\ Len(adm2) = Len(adm) + 1
      /\ \A k \in 1 .. Len(adm) : adm2[k] = adm[k]
      /\ adm2[n] = e
    BY <1>1, AppendProperties DEF Admission
<1>3. Len(adm) \in Nat /\ DOMAIN adm = 1 .. Len(adm) /\ DOMAIN adm2 = 1 .. Len(adm2)
    BY <1>1, <1>2, LenProperties
<1>4. 1 .. Len(adm) + 1 = (1 .. Len(adm)) \cup {n} /\ n \notin 1 .. Len(adm)
    BY <1>3
<1> HIDE DEF n
<1>5. DOMAIN adm2 = DOMAIN adm \cup {n} /\ n \notin DOMAIN adm
    BY <1>2, <1>3, <1>4
<1>6. adm2 \in Admissions
    BY <1>2 DEF Admissions
<1> QED
    BY <1>2, <1>3, <1>5, <1>6 DEF OneLonger

(* It is nobody else's *)
LEMMA OthersUnmoved ==
    ASSUME NEW adm, NEW adm2, NEW ip, NEW now, OneLonger(adm2, adm, <<ip, now>>)
    PROVE  OthersSame(adm2, adm, ip)
<1> SUFFICES ASSUME NEW x, x # ip, NEW a, NEW b
             PROVE  Hits(adm2, x, a, b) = Hits(adm, x, a, b)
    BY DEF OthersSame
<1>1. PICK n : /\ DOMAIN adm2 = DOMAIN adm \cup {n} /\ n \notin DOMAIN adm
               /\ \A k \in DOMAIN adm : adm2[k] = adm[k]
               /\ adm2[n] = <<ip, now>>
    BY DEF OneLonger
<1> QED
    BY <1>1 DEF Hits

(* Admitting one more, below the limit, in a window that has not passed *)
LEMMA AdmittingCovers ==
    ASSUME Window > 0, NEW adm \in Admissions, NEW ip \in Ip, NEW info, NEW now \in Nat,
           ClientCovers(adm, ip, info, now), WithinLimit(adm, ip),
           now < info.start + Window, info.count < MaxRequestCount,
           NEW new, new = [count |-> info.count + 1, start |-> info.start, last |-> now],
           NEW adm2 \in Admissions, OneLonger(adm2, adm, <<ip, now>>)
    PROVE  /\ ClientCovers(adm2, ip, new, now) /\ WithinLimit(adm2, ip)
<1>1. /\ info \in [count : 0 .. MaxRequestCount, start : 0 .. now, last : 0 .. now]
      /\ \A k \in DOMAIN adm : adm[k][1] = ip => adm[k][2] <= info.last /\ adm[k][2] < info.start + Window
      /\ Cardinality(Hits(adm, ip, info.start, info.last)) <= info.count
      /\ Cardinality(Hits(adm, ip, info.start - Window + 1, info.start - 1)) <= MaxRequestCount
    BY DEF ClientCovers
<1>2. /\ info.start \in Nat /\ info.last \in Nat /\ info.count \in Nat /\ info.last <= now /\ info.start <= now
      /\ Window \in Nat /\ MaxRequestCount \in Nat
    BY <1>1, RpcAssumption
<1>3. new.count = info.count + 1 /\ new.start = info.start /\ new.last = now
      /\ new \in [count : 0 .. MaxRequestCount, start : 0 .. now, last : 0 .. now]
    <2>1. new = [count |-> info.count + 1, start |-> info.start, last |-> now]
        OBVIOUS
    <2>2. info.count + 1 \in 0 .. MaxRequestCount /\ info.start \in 0 .. now /\ now \in 0 .. now
        BY <1>2
    <2> QED
        BY <2>1, <2>2
<1>4. PICK n : /\ DOMAIN adm2 = DOMAIN adm \cup {n} /\ n \notin DOMAIN adm
               /\ \A k \in DOMAIN adm : adm2[k] = adm[k]
               /\ adm2[n] = <<ip, now>>
    BY DEF OneLonger
<1>6. \A a, b : /\ Hits(adm2, ip, a, b) \subseteq Hits(adm, ip, a, b) \cup {n}
                /\ ~(a <= now /\ now <= b) => Hits(adm2, ip, a, b) = Hits(adm, ip, a, b)
    BY <1>4 DEF Hits
<1>7. \A S : IsFiniteSet(S) /\ n \notin S => IsFiniteSet(S \cup {n}) /\ Cardinality(S \cup {n}) = Cardinality(S) + 1
    BY FS_AddElement
<1>8. \A a, b, S : Hits(adm, ip, a, b) \subseteq S /\ IsFiniteSet(S) /\ n \notin S =>
          Cardinality(Hits(adm2, ip, a, b)) <= Cardinality(S) + 1
    <2> SUFFICES ASSUME NEW a, NEW b, NEW S, Hits(adm, ip, a, b) \subseteq S, IsFiniteSet(S), n \notin S
                 PROVE  Cardinality(Hits(adm2, ip, a, b)) <= Cardinality(S) + 1
        OBVIOUS
    <2>1. IsFiniteSet(S \cup {n}) /\ Cardinality(S \cup {n}) = Cardinality(S) + 1
        BY <1>7
    <2>2. Hits(adm2, ip, a, b) \subseteq S \cup {n}
        BY <1>6
    <2>3. Cardinality(Hits(adm2, ip, a, b)) <= Cardinality(S \cup {n})
        BY <2>1, <2>2, FS_Subset
    <2> QED
        BY <2>1, <2>3
<1>9. \A a, b : n \notin Hits(adm, ip, a, b)
    BY <1>4 DEF Hits
<1>10. \A k \in DOMAIN adm2 : adm2[k][1] = ip => adm2[k][2] <= new.last /\ adm2[k][2] < new.start + Window
    <2> SUFFICES ASSUME NEW k \in DOMAIN adm2, adm2[k][1] = ip
                 PROVE  adm2[k][2] <= new.last /\ adm2[k][2] < new.start + Window
        OBVIOUS
    <2>1. CASE k = n
        BY <1>2, <1>3, <1>4, <2>1
    <2>2. CASE k \in DOMAIN adm
        <3>1. adm[k][2] \in Int /\ adm[k][2] <= info.last /\ adm[k][2] < info.start + Window /\ adm2[k] = adm[k]
            BY <1>1, <1>4, <2>2, AdmissionTyped
        <3> QED
            BY <1>2, <1>3, <3>1
    <2> QED
        BY <1>4, <2>1, <2>2
<1> DEFINE present == Hits(adm, ip, info.start, info.last)
           before == Hits(adm, ip, info.start - Window + 1, info.start - 1)
<1>11. /\ IsFiniteSet(present) /\ Cardinality(present) \in Nat /\ IsFiniteSet(before) /\ Cardinality(before) \in Nat
    BY HitsFinite
<1>12. Cardinality(Hits(adm2, ip, new.start, new.last)) <= new.count
    <2>1. Hits(adm, ip, new.start, new.last) \subseteq present
        BY <1>1, <1>3 DEF Hits
    <2>2. Cardinality(Hits(adm2, ip, new.start, new.last)) <= Cardinality(present) + 1
        BY <1>8, <1>9, <1>11, <2>1
    <2>3. Cardinality(Hits(adm2, ip, new.start, new.last)) \in Nat
        BY <1>4, HitsFinite
    <2>4. Cardinality(present) <= info.count
        BY <1>1
    <2> HIDE DEF present
    <2> QED
        BY <1>2, <1>3, <1>11, <2>2, <2>3, <2>4
<1>13. Cardinality(Hits(adm2, ip, new.start - Window + 1, new.start - 1)) <= MaxRequestCount
    <2>1. ~(new.start - Window + 1 <= now /\ now <= new.start - 1)
        BY <1>2, <1>3
    <2>2. Hits(adm2, ip, new.start - Window + 1, new.start - 1) = before
        BY <1>3, <1>6, <2>1
    <2> QED
        BY <1>1, <2>2
<1>14. WithinLimit(adm2, ip)
    <2> SUFFICES ASSUME NEW t \in Nat
                 PROVE  Cardinality(Hits(adm2, ip, t, t + Window - 1)) <= 2 * MaxRequestCount
        BY DEF WithinLimit
    <2>1. Cardinality(Hits(adm, ip, t, t + Window - 1)) <= 2 * MaxRequestCount
        BY DEF WithinLimit
    <2>2. CASE t <= now /\ now <= t + Window - 1
        <3>1. Hits(adm, ip, t, t + Window - 1) \subseteq before \cup present
            <4> SUFFICES ASSUME NEW k \in DOMAIN adm, adm[k][1] = ip, adm[k][2] \in Nat, t <= adm[k][2]
                         PROVE  \/ info.start - Window + 1 <= adm[k][2] /\ adm[k][2] <= info.start - 1
                                \/ info.start <= adm[k][2] /\ adm[k][2] <= info.last
                BY DEF Hits
            <4>1. adm[k][2] <= info.last
                BY <1>1
            <4> QED
                BY <1>2, <2>2, <4>1
        <3>2. IsFiniteSet(before \cup present) /\ Cardinality(before \cup present) \in Nat
              /\ Cardinality(before \cup present) <= Cardinality(before) + Cardinality(present)
            <4>1. IsFiniteSet(before \cup present)
                BY <1>11, FS_Union
            <4>2. Cardinality(before \cup present) = Cardinality(before) + Cardinality(present) - Cardinality(before \cap present)
                BY <1>11, FS_Union
            <4>3. Cardinality(before \cap present) \in Nat
                <5>1. before \cap present \subseteq present
                    OBVIOUS
                <5>2. IsFiniteSet(before \cap present)
                    BY <1>11, <5>1, FS_Subset
                <5> QED
                    BY <5>2, FS_CardinalityType
            <4>4. Cardinality(before \cup present) \in Nat
                BY <4>1, FS_CardinalityType
            <4> HIDE DEF before, present
            <4> QED
                BY <1>11, <4>1, <4>2, <4>3, <4>4
        <3>3. n \notin before \cup present
            BY <1>9
        <3>4. Cardinality(Hits(adm2, ip, t, t + Window - 1)) <= Cardinality(before \cup present) + 1
            BY <1>8, <3>1, <3>2, <3>3
        <3>5. Cardinality(before) <= MaxRequestCount /\ Cardinality(present) <= info.count
            BY <1>1
        <3>6. Cardinality(Hits(adm2, ip, t, t + Window - 1)) \in Nat
            BY <1>4, HitsFinite
        <3> HIDE DEF before, present
        <3> QED
            BY <1>2, <1>11, <3>2, <3>4, <3>5, <3>6
    <2>3. CASE ~(t <= now /\ now <= t + Window - 1)
        BY <1>6, <2>1, <2>3
    <2> QED
        BY <2>2, <2>3
<1>15. ClientCovers(adm2, ip, new, now)
    BY <1>3, <1>10, <1>12, <1>13 DEF ClientCovers
<1> QED
    BY <1>14, <1>15

-----------------------------------------------------------------------------
(* The limiter's table and what it let through *)
LimiterInv ==
    /\ admitted \in Admissions /\ rpcClock \in Nat /\ DOMAIN clients \subseteq Ip
    /\ \A ip \in DOMAIN clients :
          clients[ip] \in [count : 0 .. MaxRequestCount, start : 0 .. rpcClock, last : 0 .. rpcClock]
    /\ Window > 0 => \A ip \in Ip :
          /\ WithinLimit(admitted, ip)
          /\ IF ip \in DOMAIN clients THEN ClientCovers(admitted, ip, clients[ip], rpcClock)
             ELSE LongAgo(admitted, ip, rpcClock)

(* A later time changes nothing of what is covered *)
LEMMA TimeKeepsLimits ==
    ASSUME LimiterInv, admitted' = admitted, clients' = clients, rpcClock' = rpcClock \/ rpcClock' = rpcClock + 1
    PROVE  LimiterInv'
<1>1. rpcClock \in Nat /\ rpcClock' \in Nat /\ rpcClock <= rpcClock' /\ 0 .. rpcClock \subseteq 0 .. rpcClock'
    BY DEF LimiterInv
<1>2. \A ip \in DOMAIN clients' :
          clients'[ip] \in [count : 0 .. MaxRequestCount, start : 0 .. rpcClock', last : 0 .. rpcClock']
    <2> SUFFICES ASSUME NEW ip \in DOMAIN clients
                 PROVE  clients[ip] \in [count : 0 .. MaxRequestCount, start : 0 .. rpcClock', last : 0 .. rpcClock']
        OBVIOUS
    <2>1. clients[ip] \in [count : 0 .. MaxRequestCount, start : 0 .. rpcClock, last : 0 .. rpcClock]
        BY DEF LimiterInv
    <2> QED
        BY <1>1, <2>1
<1>3. ASSUME Window > 0, NEW ip \in Ip
      PROVE  /\ WithinLimit(admitted', ip)
             /\ IF ip \in DOMAIN clients' THEN ClientCovers(admitted', ip, clients'[ip], rpcClock')
                ELSE LongAgo(admitted', ip, rpcClock')
    <2>1. WithinLimit(admitted', ip)
        BY <1>3 DEF LimiterInv
    <2>2. CASE ip \in DOMAIN clients
        <3>1. ClientCovers(admitted, ip, clients[ip], rpcClock)
            BY <1>3, <2>2 DEF LimiterInv
        <3>2. ClientCovers(admitted, ip, clients[ip], rpcClock')
            BY <1>2, <2>2, <3>1 DEF ClientCovers
        <3> QED
            BY <2>1, <2>2, <3>2
    <2>3. CASE ip \notin DOMAIN clients
        <3>1. LongAgo(admitted, ip, rpcClock)
            BY <1>3, <2>3 DEF LimiterInv
        <3>2. LongAgo(admitted, ip, rpcClock')
            <4> SUFFICES ASSUME NEW k \in DOMAIN admitted, admitted[k][1] = ip
                         PROVE  admitted[k][2] < 0 \/ admitted[k][2] + Window <= rpcClock'
                BY DEF LongAgo
            <4>1. admitted[k][2] < 0 \/ admitted[k][2] + Window <= rpcClock
                BY <3>1 DEF LongAgo
            <4>2. admitted[k][2] \in Int /\ Window \in Nat
                BY AdmissionTyped, RpcAssumption DEF LimiterInv
            <4> QED
                BY <1>1, <4>1, <4>2
        <3> QED
            BY <2>1, <2>3, <3>2
    <2> QED
        BY <2>2, <2>3
<1>4. admitted' \in Admissions /\ DOMAIN clients' \subseteq Ip
    BY DEF LimiterInv
<1> QED
    BY <1>1, <1>2, <1>3, <1>4 DEF LimiterInv

(* The entry of a client that is admitted once more *)
LEMMA Counted ==
    ASSUME NEW C, NEW T, NEW info \in [count : C, start : T, last : T], NEW now,
           NEW new, new = [info EXCEPT !.count = @ + 1, !.last = now]
    PROVE  new = [count |-> info.count + 1, start |-> info.start, last |-> now]
OBVIOUS

(* An arrival, admitted or refused *)
LEMMA ArrivalKeepsLimits ==
    ASSUME LimiterInv, NEW w, NEW ip \in Ip, NEW req, NEW most, Arrive(w, ip, req, most)
    PROVE  LimiterInv'
<1> DEFINE old == Entry(ip)
           info == Fresh(old)
           new == [info EXCEPT !.count = @ + 1, !.last = rpcClock]
           now == rpcClock
           Client == [count : 0 .. MaxRequestCount, start : 0 .. now, last : 0 .. now]
<1>1. /\ admitted \in Admissions /\ now \in Nat /\ DOMAIN clients \subseteq Ip
      /\ \A x \in DOMAIN clients : clients[x] \in Client
      /\ Window \in Nat /\ MaxRequestCount \in Nat
    BY RpcAssumption DEF LimiterInv
<1>2. rpcClock' = rpcClock
    BY DEF Arrive
<1>3. old \in Client
    <2>1. CASE ip \in DOMAIN clients
        BY <1>1, <2>1 DEF Entry
    <2>2. CASE ip \notin DOMAIN clients
        <3>1. old = [count |-> 0, start |-> now, last |-> now]
            BY <2>2 DEF Entry
        <3>2. 0 \in 0 .. MaxRequestCount /\ now \in 0 .. now
            BY <1>1
        <3> QED
            BY <3>1, <3>2
    <2> QED
        BY <2>1, <2>2
<1>4. info = IF now - old.start >= Window THEN [old EXCEPT !.count = 0, !.start = now] ELSE old
    BY DEF Fresh
<1> HIDE DEF old, info
<1>5. info \in Client
    <2>1. CASE now - old.start >= Window
        <3>1. info = [count |-> 0, start |-> now, last |-> old.last]
            BY <1>3, <1>4, <2>1
        <3>2. 0 \in 0 .. MaxRequestCount /\ now \in 0 .. now /\ old.last \in 0 .. now
            BY <1>1, <1>3
        <3> QED
            BY <3>1, <3>2
    <2>2. CASE ~(now - old.start >= Window)
        BY <1>3, <1>4, <2>2
    <2> QED
        BY <2>1, <2>2
<1>6. ASSUME Window > 0
      PROVE  ClientCovers(admitted, ip, info, now) /\ now < info.start + Window
    <2>1. ClientCovers(admitted, ip, old, now)
        <3>1. CASE ip \in DOMAIN clients
            BY <1>6, <3>1 DEF LimiterInv, old, Entry
        <3>2. CASE ip \notin DOMAIN clients
            <4>1. LongAgo(admitted, ip, now)
                BY <1>6, <3>2 DEF LimiterInv
            <4>2. old = [count |-> 0, start |-> now, last |-> now]
                BY <3>2 DEF old, Entry
            <4> QED
                BY <1>1, <1>6, <4>1, <4>2, UnknownCovers
        <3> QED
            BY <3>1, <3>2
    <2>2. CASE now - old.start >= Window
        <3>1. info = [old EXCEPT !.count = 0, !.start = now]
            BY <1>4, <2>2
        <3>2. ClientCovers(admitted, ip, info, now)
            BY <1>1, <1>6, <2>1, <2>2, <3>1, FreshCovers
        <3>3. info.start = now
            BY <1>3, <3>1
        <3> QED
            BY <1>1, <1>6, <3>2, <3>3
    <2>3. CASE ~(now - old.start >= Window)
        <3>1. old.start \in Nat
            BY <1>3
        <3> QED
            BY <1>1, <1>4, <2>1, <2>3, <3>1
    <2> QED
        BY <2>2, <2>3
<1>7. CASE Limited(info)
    <2>1. clients' = Updated(clients, ip, info) /\ admitted' = admitted
        BY <1>7 DEF Arrive, old, info
    <2>2. /\ DOMAIN clients' = DOMAIN clients \cup {ip} /\ clients'[ip] = info
          /\ \A x \in DOMAIN clients : x # ip => clients'[x] = clients[x]
        BY <2>1 DEF Updated
    <2>3. DOMAIN clients' \subseteq Ip /\ \A x \in DOMAIN clients' : clients'[x] \in Client
        BY <1>1, <1>5, <2>2
    <2>4. ASSUME Window > 0, NEW x \in Ip
          PROVE  /\ WithinLimit(admitted', x)
                 /\ IF x \in DOMAIN clients' THEN ClientCovers(admitted', x, clients'[x], now)
                    ELSE LongAgo(admitted', x, now)
        <3>1. /\ WithinLimit(admitted, x)
              /\ IF x \in DOMAIN clients THEN ClientCovers(admitted, x, clients[x], now)
                 ELSE LongAgo(admitted, x, now)
            BY <2>4 DEF LimiterInv
        <3>2. CASE x = ip
            BY <1>6, <2>1, <2>2, <2>4, <3>1, <3>2
        <3>3. CASE x # ip
            BY <2>1, <2>2, <3>1, <3>3
        <3> QED
            BY <3>2, <3>3
    <2> QED
        BY <1>1, <1>2, <2>1, <2>3, <2>4 DEF LimiterInv
<1>8. CASE ~Limited(info)
    <2>1. clients' = Updated(clients, ip, new) /\ admitted' = Append(admitted, <<ip, now>>)
        BY <1>8 DEF Arrive, old, info
    <2>2. info.count < MaxRequestCount
        <3>1. ~(info.count >= MaxRequestCount)
            BY <1>8 DEF Limited
        <3> QED
            BY <1>1, <1>5, <3>1
    <2>m. new = [info EXCEPT !.count = @ + 1, !.last = now] /\ info \in Client
        BY <1>5
    <2> HIDE DEF new
    <2>n. new = [count |-> info.count + 1, start |-> info.start, last |-> now]
        BY <2>m, Counted
    <2>3. new \in Client
        <3>1. info.count + 1 \in 0 .. MaxRequestCount /\ info.start \in 0 .. now /\ now \in 0 .. now
            BY <1>1, <1>5, <2>2
        <3> QED
            BY <2>n, <3>1
    <2>4. /\ DOMAIN clients' = DOMAIN clients \cup {ip} /\ clients'[ip] = new
          /\ \A x \in DOMAIN clients : x # ip => clients'[x] = clients[x]
        BY <2>1 DEF Updated
    <2>5. DOMAIN clients' \subseteq Ip /\ \A x \in DOMAIN clients' : clients'[x] \in Client
        BY <1>1, <2>3, <2>4
    <2>6. admitted' \in Admissions /\ OneLonger(admitted', admitted, <<ip, now>>)
        <3>1. <<ip, now>> \in Admission
            BY <1>1 DEF Admission
        <3> QED
            BY <1>1, <2>1, <3>1, OneMore
    <2>7. ASSUME Window > 0, NEW x \in Ip
          PROVE  /\ WithinLimit(admitted', x)
                 /\ IF x \in DOMAIN clients' THEN ClientCovers(admitted', x, clients'[x], now)
                    ELSE LongAgo(admitted', x, now)
        <3>1. /\ WithinLimit(admitted, x) /\ WithinLimit(admitted, ip)
              /\ IF x \in DOMAIN clients THEN ClientCovers(admitted, x, clients[x], now)
                 ELSE LongAgo(admitted, x, now)
            BY <2>7 DEF LimiterInv
        <3>2. ClientCovers(admitted', ip, new, now) /\ WithinLimit(admitted', ip)
            <4> DEFINE adm2 == admitted'
            <4>1. /\ ClientCovers(admitted, ip, info, rpcClock) /\ rpcClock < info.start + Window
                  /\ rpcClock \in Nat /\ admitted \in Admissions /\ ip \in Ip /\ Window > 0
                  /\ WithinLimit(admitted, ip) /\ info.count < MaxRequestCount
                  /\ adm2 \in Admissions /\ OneLonger(adm2, admitted, <<ip, rpcClock>>)
                  /\ new = [count |-> info.count + 1, start |-> info.start, last |-> rpcClock]
                BY <1>1, <1>6, <2>1, <2>2, <2>n, <2>6, <2>7, <3>1
            <4> HIDE DEF adm2
            <4>2. ClientCovers(adm2, ip, new, rpcClock) /\ WithinLimit(adm2, ip)
                BY ONLY <4>1, AdmittingCovers
            <4> QED
                BY <4>2 DEF adm2
        <3>3. CASE x = ip
            BY <2>4, <3>2, <3>3
        <3>4. CASE x # ip
            <4>0. OthersSame(admitted', admitted, ip)
                BY <2>6, OthersUnmoved
            <4>1. WithinLimit(admitted', x)
                BY <3>1, <3>4, <4>0 DEF WithinLimit, OthersSame
            <4>2. \A k \in DOMAIN admitted' : admitted'[k][1] = x => k \in DOMAIN admitted /\ admitted'[k] = admitted[k]
                BY <2>6, <3>4 DEF OneLonger
            <4>3. CASE x \in DOMAIN clients
                <5>1. ClientCovers(admitted', x, clients[x], now)
                    BY <3>1, <3>4, <4>0, <4>2, <4>3 DEF ClientCovers, OthersSame
                <5> QED
                    BY <2>4, <3>4, <4>1, <4>3, <5>1
            <4>4. CASE x \notin DOMAIN clients
                <5>1. LongAgo(admitted', x, now)
                    BY <3>1, <4>2, <4>4 DEF LongAgo
                <5> QED
                    BY <2>4, <3>4, <4>1, <4>4, <5>1
            <4> QED
                BY <4>3, <4>4
        <3> QED
            BY <3>3, <3>4
    <2> QED
        BY <1>1, <1>2, <2>5, <2>6, <2>7 DEF LimiterInv
<1> QED
    BY <1>7, <1>8

(* Forgetting the idle, who were not admitted within a window, or anyone with the past *)
LEMMA ForgettingKeepsLimits ==
    ASSUME LimiterInv, NEW gone, NEW reset \in BOOLEAN, Forget(gone, reset),
           ~reset => \A ip \in gone : rpcClock - clients[ip].last > IdleTime
    PROVE  LimiterInv'
<1>1. /\ admitted \in Admissions /\ rpcClock \in Nat /\ DOMAIN clients \subseteq Ip
      /\ \A x \in DOMAIN clients :
            clients[x] \in [count : 0 .. MaxRequestCount, start : 0 .. rpcClock, last : 0 .. rpcClock]
      /\ Window \in Nat /\ IdleTime \in Nat /\ IdleTime >= Window
    BY RpcAssumption DEF LimiterInv
<1>2. /\ gone \subseteq DOMAIN clients /\ rpcClock' = rpcClock
      /\ clients' = Restrict(clients, DOMAIN clients \ gone)
      /\ admitted' = [k \in DOMAIN admitted |->
                        IF reset /\ admitted[k][1] \in gone THEN <<admitted[k][1], -1>> ELSE admitted[k]]
    BY DEF Forget
<1>3. DOMAIN clients' = DOMAIN clients \ gone /\ \A x \in DOMAIN clients' : clients'[x] = clients[x]
    BY <1>2 DEF Restrict
<1>4. admitted' \in Admissions /\ DOMAIN admitted' = DOMAIN admitted
    <2>1. admitted \in Seq(Ip \X Int) /\ DOMAIN admitted = 1 .. Len(admitted) /\ Len(admitted) \in Nat
        BY <1>1, LenProperties DEF Admissions
    <2>2. \A k \in 1 .. Len(admitted) :
             (IF reset /\ admitted[k][1] \in gone THEN <<admitted[k][1], -1>> ELSE admitted[k]) \in Ip \X Int
        BY <2>1, ElementOfSeq
    <2>3. admitted' \in [1 .. Len(admitted) -> Ip \X Int]
        BY <1>2, <2>1, <2>2
    <2>4. admitted' \in Seq(Ip \X Int)
        BY <2>1, <2>3, SeqDef
    <2> QED
        BY <1>2, <2>4 DEF Admissions
<1>5. \A k \in DOMAIN admitted :
         /\ admitted'[k][1] = admitted[k][1]
         /\ admitted'[k] = admitted[k] \/ (reset /\ admitted[k][1] \in gone /\ admitted'[k][2] = -1)
         /\ reset /\ admitted[k][1] \in gone => admitted'[k][2] = -1
    <2>1. \A k \in DOMAIN admitted : admitted[k] \in Ip \X Int
        BY <1>1, AdmissionTyped
    <2> QED
        BY <1>2, <2>1
<1>6. \A x, a, b : Hits(admitted', x, a, b) \subseteq Hits(admitted, x, a, b)
    <2>1. -1 \notin Nat
        OBVIOUS
    <2> QED
        BY <1>4, <1>5, <2>1 DEF Hits
<1>7. \A x, a, b : /\ Cardinality(Hits(admitted', x, a, b)) <= Cardinality(Hits(admitted, x, a, b))
                   /\ Cardinality(Hits(admitted', x, a, b)) \in Nat /\ Cardinality(Hits(admitted, x, a, b)) \in Nat
    BY <1>1, <1>6, FewerHits, HitsFinite
<1>8. ASSUME Window > 0, NEW x \in Ip
      PROVE  /\ WithinLimit(admitted', x)
             /\ IF x \in DOMAIN clients' THEN ClientCovers(admitted', x, clients'[x], rpcClock)
                ELSE LongAgo(admitted', x, rpcClock)
    <2>1. /\ WithinLimit(admitted, x)
          /\ IF x \in DOMAIN clients THEN ClientCovers(admitted, x, clients[x], rpcClock)
             ELSE LongAgo(admitted, x, rpcClock)
        BY <1>8 DEF LimiterInv
    <2>2. WithinLimit(admitted', x)
        <3> SUFFICES ASSUME NEW t \in Nat
                     PROVE  Cardinality(Hits(admitted', x, t, t + Window - 1)) <= 2 * MaxRequestCount
            BY DEF WithinLimit
        <3> DEFINE m == Cardinality(Hits(admitted', x, t, t + Window - 1))
                   n == Cardinality(Hits(admitted, x, t, t + Window - 1))
        <3>1. n <= 2 * MaxRequestCount
            BY <2>1 DEF WithinLimit
        <3>2. m <= n /\ m \in Nat /\ n \in Nat
            BY <1>7
        <3>3. MaxRequestCount \in Nat
            BY RpcAssumption
        <3> HIDE DEF m, n
        <3>4. m <= 2 * MaxRequestCount
            BY <3>1, <3>2, <3>3
        <3> QED
            BY <3>4 DEF m
    <2>3. CASE x \in DOMAIN clients'
        <3>1. x \notin gone /\ x \in DOMAIN clients /\ clients'[x] = clients[x]
            BY <1>3, <2>3
        <3>2. \A k \in DOMAIN admitted' : admitted'[k][1] = x => admitted'[k] = admitted[k] /\ admitted[k][1] = x
            BY <1>4, <1>5, <3>1
        <3>3. \A a, b : Hits(admitted', x, a, b) = Hits(admitted, x, a, b)
            BY <1>4, <1>5, <3>1 DEF Hits
        <3>4. ClientCovers(admitted, x, clients[x], rpcClock)
            BY <2>1, <3>1
        <3>5. ClientCovers(admitted', x, clients[x], rpcClock)
            BY <1>4, <3>2, <3>3, <3>4 DEF ClientCovers
        <3> QED
            BY <2>2, <2>3, <3>1, <3>5
    <2>4. CASE x \notin DOMAIN clients'
        <3>1. LongAgo(admitted', x, rpcClock)
            <4> SUFFICES ASSUME NEW k \in DOMAIN admitted', admitted'[k][1] = x
                         PROVE  admitted'[k][2] < 0 \/ admitted'[k][2] + Window <= rpcClock
                BY DEF LongAgo
            <4>1. k \in DOMAIN admitted /\ admitted[k][1] = x /\ admitted[k][2] \in Int
                BY <1>1, <1>4, <1>5, AdmissionTyped
            <4>2. CASE x \in gone /\ reset
                BY <1>5, <4>1, <4>2
            <4>3. CASE x \in gone /\ ~reset
                <5>1. admitted'[k] = admitted[k]
                    BY <1>5, <4>1, <4>3
                <5>2. rpcClock - clients[x].last > IdleTime /\ x \in DOMAIN clients
                    BY <1>2, <4>3
                <5>3. clients[x].last \in Nat
                    BY <1>1, <5>2
                <5>4. admitted[k][2] <= clients[x].last
                    BY <2>1, <4>1, <5>2 DEF ClientCovers
                <5> QED
                    BY <1>1, <4>1, <5>1, <5>2, <5>3, <5>4
            <4>4. CASE x \notin gone
                <5>1. x \notin DOMAIN clients
                    BY <1>3, <2>4, <4>4
                <5>2. admitted'[k] = admitted[k]
                    BY <1>5, <4>1, <4>4
                <5> QED
                    BY <2>1, <4>1, <5>1, <5>2 DEF LongAgo
            <4> QED
                BY <4>2, <4>3, <4>4
        <3> QED
            BY <2>2, <2>4, <3>1
    <2> QED
        BY <2>3, <2>4
<1>9. DOMAIN clients' \subseteq Ip /\ \A x \in DOMAIN clients' :
         clients'[x] \in [count : 0 .. MaxRequestCount, start : 0 .. rpcClock, last : 0 .. rpcClock]
    BY <1>1, <1>3
<1> QED
    BY <1>1, <1>2, <1>4, <1>8, <1>9 DEF LimiterInv

-----------------------------------------------------------------------------
(* A request in the hands of a worker has no answer yet; it changed something only if its commitment is in *)
(* the log, where only the count is still to come                                                          *)
TaskSound(t, ans, eff, com, n) ==
    /\ t.number \in 1 .. n /\ t.number \notin DOMAIN ans
    /\ t.stage \in {"parse", "submit", "count"}
    /\ t.stage = "parse" => t = [stage |-> "parse", req |-> t.req, number |-> t.number]
    /\ t.stage # "count" => t.number \notin eff
    /\ t.stage = "submit" => t.req.method # "commitments/submit"
    /\ t.stage = "count" => \E k \in DOMAIN com : com[k] = t.number

(* An error left no effect, and a commitment that was accepted is in the log and counted *)
AnswerSound(r, entry, eff, com) ==
    /\ ~entry.reply.ok => r \notin eff
    /\ entry.reply.ok /\ entry.req.method = "commitments/submit" =>
          \E k \in DOMAIN com : com[k] = r /\ entry.reply.value >= k

(* The workers' requests and the answers given, when n requests were admitted *)
RequestsInv(wk, ans, eff, com, n) ==
    /\ wk = [w \in Worker |-> wk[w]] /\ com \in Seq(Nat) /\ DOMAIN ans \subseteq 1 .. n /\ eff \subseteq 1 .. n
    /\ \A w \in Worker : wk[w] = Free \/ TaskSound(wk[w], ans, eff, com, n)
    /\ \A v, w \in Worker : v # w /\ wk[v] # Free /\ wk[w] # Free => wk[v].number # wk[w].number
    /\ \A r \in DOMAIN ans : AnswerSound(r, ans[r], eff, com)

(* A request is answered *)
LEMMA Answered ==
    ASSUME NEW wk, NEW ans, NEW eff, NEW com, NEW n, RequestsInv(wk, ans, eff, com, n),
           NEW w \in Worker, wk[w] # Free, NEW number, number = wk[w].number,
           NEW entry, NEW eff2, eff2 = eff \/ eff2 = eff \cup {number}, AnswerSound(number, entry, eff2, com),
           NEW wk2, wk2 = [wk EXCEPT ![w] = Free], NEW ans2, ans2 = Updated(ans, number, entry)
    PROVE  RequestsInv(wk2, ans2, eff2, com, n)
<1>1. /\ wk = [v \in Worker |-> wk[v]] /\ com \in Seq(Nat) /\ DOMAIN ans \subseteq 1 .. n /\ eff \subseteq 1 .. n
      /\ \A v \in Worker : wk[v] = Free \/ TaskSound(wk[v], ans, eff, com, n)
      /\ \A u, v \in Worker : u # v /\ wk[u] # Free /\ wk[v] # Free => wk[u].number # wk[v].number
      /\ \A r \in DOMAIN ans : AnswerSound(r, ans[r], eff, com)
    BY DEF RequestsInv
<1>2. number \in 1 .. n /\ number \notin DOMAIN ans
    BY <1>1 DEF TaskSound
<1>3. /\ DOMAIN ans2 = DOMAIN ans \cup {number} /\ ans2[number] = entry
      /\ \A r \in DOMAIN ans : ans2[r] = ans[r]
    BY <1>2 DEF Updated
<1>4. /\ wk2 = [v \in Worker |-> wk2[v]] /\ wk2[w] = Free
      /\ \A v \in Worker : v # w => wk2[v] = wk[v]
    BY <1>1
<1>5. DOMAIN ans2 \subseteq 1 .. n /\ eff2 \subseteq 1 .. n
    BY <1>1, <1>2, <1>3
<1>6. ASSUME NEW v \in Worker
      PROVE  wk2[v] = Free \/ TaskSound(wk2[v], ans2, eff2, com, n)
    <2>1. CASE v = w
        BY <1>4, <2>1
    <2>2. CASE v # w /\ wk[v] # Free
        <3>1. wk2[v] = wk[v] /\ wk[v].number # number /\ TaskSound(wk[v], ans, eff, com, n)
            BY <1>1, <1>4, <2>2
        <3> QED
            BY <1>3, <3>1 DEF TaskSound
    <2> QED
        BY <1>4, <2>1, <2>2
<1>7. ASSUME NEW r \in DOMAIN ans2
      PROVE  AnswerSound(r, ans2[r], eff2, com)
    <2>1. CASE r = number
        BY <1>3, <2>1
    <2>2. CASE r # number
        <3>1. r \in DOMAIN ans /\ ans2[r] = ans[r] /\ AnswerSound(r, ans[r], eff, com)
            BY <1>1, <1>3, <2>2
        <3> QED
            BY <2>2, <3>1 DEF AnswerSound
    <2> QED
        BY <2>1, <2>2
<1>8. \A u, v \in Worker : u # v /\ wk2[u] # Free /\ wk2[v] # Free => wk2[u].number # wk2[v].number
    BY <1>1, <1>4
<1> QED
    BY <1>1, <1>4, <1>5, <1>6, <1>7, <1>8 DEF RequestsInv

(* The log of commitments as it was, or longer *)
LogExtends(com2, com) == com2 \in Seq(Nat) /\ \A k \in DOMAIN com : k \in DOMAIN com2 /\ com2[k] = com[k]

(* A request goes on, its commitment in the log or not *)
LEMMA GoesOn ==
    ASSUME NEW wk, NEW ans, NEW eff, NEW com, NEW n, RequestsInv(wk, ans, eff, com, n),
           NEW w \in Worker, wk[w] # Free, NEW number, number = wk[w].number,
           NEW t, t # Free, t.number = number,
           NEW eff2, eff2 = eff \/ eff2 = eff \cup {number},
           NEW com2, LogExtends(com2, com),
           TaskSound(t, ans, eff2, com2, n),
           NEW wk2, wk2 = [wk EXCEPT ![w] = t]
    PROVE  RequestsInv(wk2, ans, eff2, com2, n)
<1>1. /\ wk = [v \in Worker |-> wk[v]] /\ DOMAIN ans \subseteq 1 .. n /\ eff \subseteq 1 .. n
      /\ \A v \in Worker : wk[v] = Free \/ TaskSound(wk[v], ans, eff, com, n)
      /\ \A u, v \in Worker : u # v /\ wk[u] # Free /\ wk[v] # Free => wk[u].number # wk[v].number
      /\ \A r \in DOMAIN ans : AnswerSound(r, ans[r], eff, com)
    BY DEF RequestsInv
<1>0. com2 \in Seq(Nat) /\ \A k \in DOMAIN com : k \in DOMAIN com2 /\ com2[k] = com[k]
    BY DEF LogExtends
<1>2. number \in 1 .. n /\ number \notin DOMAIN ans
    BY <1>1 DEF TaskSound
<1>4. /\ wk2 = [v \in Worker |-> wk2[v]] /\ wk2[w] = t
      /\ \A v \in Worker : v # w => wk2[v] = wk[v]
    BY <1>1
<1>5. eff2 \subseteq 1 .. n
    BY <1>1, <1>2
<1>6. ASSUME NEW v \in Worker
      PROVE  wk2[v] = Free \/ TaskSound(wk2[v], ans, eff2, com2, n)
    <2>1. CASE v = w
        BY <1>4, <2>1
    <2>2. CASE v # w /\ wk[v] # Free
        <3>1. wk2[v] = wk[v] /\ wk[v].number # number /\ TaskSound(wk[v], ans, eff, com, n)
            BY <1>1, <1>4, <2>2
        <3> QED
            BY <1>0, <3>1 DEF TaskSound
    <2> QED
        BY <1>4, <2>1, <2>2
<1>7. ASSUME NEW r \in DOMAIN ans
      PROVE  AnswerSound(r, ans[r], eff2, com2)
    <2>1. r # number /\ AnswerSound(r, ans[r], eff, com)
        BY <1>1, <1>2
    <2> QED
        BY <1>0, <2>1 DEF AnswerSound
<1>8. \A u, v \in Worker : u # v /\ wk2[u] # Free /\ wk2[v] # Free => wk2[u].number # wk2[v].number
    BY <1>1, <1>4
<1> QED
    BY <1>0, <1>1, <1>4, <1>5, <1>6, <1>7, <1>8 DEF RequestsInv

(* A request is admitted *)
LEMMA RequestAccepted ==
    ASSUME NEW wk, NEW ans, NEW eff, NEW com, NEW n \in Nat, RequestsInv(wk, ans, eff, com, n),
           NEW w \in Worker, wk[w] = Free, NEW number, number = n + 1, NEW req,
           NEW wk2, wk2 = [wk EXCEPT ![w] = [stage |-> "parse", req |-> req, number |-> number]]
    PROVE  RequestsInv(wk2, ans, eff, com, number)
<1>1. /\ wk = [v \in Worker |-> wk[v]] /\ com \in Seq(Nat) /\ DOMAIN ans \subseteq 1 .. n /\ eff \subseteq 1 .. n
      /\ \A v \in Worker : wk[v] = Free \/ TaskSound(wk[v], ans, eff, com, n)
      /\ \A u, v \in Worker : u # v /\ wk[u] # Free /\ wk[v] # Free => wk[u].number # wk[v].number
      /\ \A r \in DOMAIN ans : AnswerSound(r, ans[r], eff, com)
    BY DEF RequestsInv
<1>2. number \in 1 .. number /\ 1 .. n \subseteq 1 .. number /\ number \notin 1 .. n
    OBVIOUS
<1> DEFINE t == [stage |-> "parse", req |-> req, number |-> number]
<1>3. TaskSound(t, ans, eff, com, number)
    BY <1>1, <1>2 DEF TaskSound
<1>4. /\ wk2 = [v \in Worker |-> wk2[v]] /\ wk2[w] = t
      /\ \A v \in Worker : v # w => wk2[v] = wk[v]
    BY <1>1
<1>5. t.number = number
    OBVIOUS
<1> HIDE DEF t
<1>6. ASSUME NEW v \in Worker
      PROVE  wk2[v] = Free \/ TaskSound(wk2[v], ans, eff, com, number)
    <2>1. CASE v = w
        BY <1>3, <1>4, <2>1
    <2>2. CASE v # w /\ wk[v] # Free
        <3>1. wk2[v] = wk[v] /\ TaskSound(wk[v], ans, eff, com, n)
            BY <1>1, <1>4, <2>2
        <3> QED
            BY <1>2, <3>1 DEF TaskSound
    <2> QED
        BY <1>4, <2>1, <2>2
<1>7. \A v \in Worker : v # w /\ wk[v] # Free => wk[v].number # number
    BY <1>1, <1>2 DEF TaskSound
<1>8. \A u, v \in Worker : u # v /\ wk2[u] # Free /\ wk2[v] # Free => wk2[u].number # wk2[v].number
    BY <1>1, <1>4, <1>5, <1>7
<1> QED
    BY <1>1, <1>2, <1>4, <1>6, <1>8 DEF RequestsInv

-----------------------------------------------------------------------------
(* No coin is spent by two pooled payments *)
Disjoint(pool) == \A r, s \in DOMAIN pool : r # s => pool[r] \cap pool[s] = {}

(* The bounds on behaviours *)
WithinBounds ==
    Len(admitted) <= MaxAdmitted + MaxFlood /\ storedTip \in 0 .. tip /\ tip \in 0 .. MaxTip

RpcInv ==
    /\ LimiterInv
    /\ RequestsInv(work, answers, effects, commitments, Len(admitted))
    /\ Disjoint(memPool)
    /\ WithinBounds

(* What a request that is worked on may leave as it is *)
serverSide == <<clients, admitted, tip, storedTip, rpcClock>>

(* A worker answers: what it says is sound *)
LEMMA ReplyKeeps ==
    ASSUME RpcInv, NEW w \in Worker, work[w].stage \in {"parse", "submit", "count"},
           NEW a, Reply(w, a), UNCHANGED <<commitments, serverSide>>,
           effects' = effects \/ effects' = effects \cup {work[w].number},
           AnswerSound(work[w].number, [req |-> work[w].req, reply |-> a], effects', commitments),
           Disjoint(memPool')
    PROVE  RpcInv'
<1> DEFINE number == work[w].number
           entry == [req |-> work[w].req, reply |-> a]
           n == Len(admitted)
           wk2 == work'
           ans2 == answers'
           eff2 == effects'
<1>1. RequestsInv(work, answers, effects, commitments, n)
    BY DEF RpcInv
<1>2. work[w] # Free
    BY DEF Free
<1>3. wk2 = [work EXCEPT ![w] = Free] /\ ans2 = Updated(answers, number, entry)
    BY DEF Reply
<1>4. eff2 = effects \/ eff2 = effects \cup {number}
    OBVIOUS
<1>5. AnswerSound(number, entry, eff2, commitments) /\ number = work[w].number
    OBVIOUS
<1> HIDE DEF number, entry, n, wk2, ans2, eff2
<1>6. RequestsInv(wk2, ans2, eff2, commitments, n)
    BY <1>1, <1>2, <1>3, <1>4, <1>5, Answered
<1>7. RequestsInv(work', answers', effects', commitments', Len(admitted'))
    BY <1>6 DEF wk2, ans2, eff2, n, serverSide
<1>8. LimiterInv'
    BY TimeKeepsLimits DEF RpcInv, serverSide
<1>9. WithinBounds'
    BY DEF RpcInv, WithinBounds, serverSide
<1> QED
    BY <1>7, <1>8, <1>9 DEF RpcInv

(* An error, or the answer of a handler that is not that of commitments/submit *)
LEMMA PlainAnswer ==
    ASSUME NEW r, NEW req, NEW a, NEW eff, NEW com,
           (a = Refused /\ r \notin eff) \/ ((\E v : a = Answer(v)) /\ req.method # "commitments/submit")
    PROVE  AnswerSound(r, [req |-> req, reply |-> a], eff, com)
<1> DEFINE entry == [req |-> req, reply |-> a]
<1>1. entry.reply = a /\ entry.req = req
    OBVIOUS
<1>2. CASE a = Refused /\ r \notin eff
    <2>1. ~a.ok
        BY <1>2 DEF Refused
    <2> QED
        BY <1>1, <1>2, <2>1 DEF AnswerSound
<1>3. CASE (\E v : a = Answer(v)) /\ req.method # "commitments/submit"
    <2>1. a.ok
        BY <1>3 DEF Answer
    <2> QED
        BY <1>1, <1>3, <2>1 DEF AnswerSound
<1> QED
    BY <1>2, <1>3

(* What a worker knows of its request *)
LEMMA AtWork ==
    ASSUME RpcInv, NEW w \in Worker, work[w].stage \in {"parse", "submit", "count"}
    PROVE  /\ work[w] # Free /\ TaskSound(work[w], answers, effects, commitments, Len(admitted))
           /\ commitments \in Seq(Nat) /\ Len(admitted) \in Nat /\ work[w].number \in Nat
<1>1. work[w] # Free
    BY DEF Free
<1>2. RequestsInv(work, answers, effects, commitments, Len(admitted))
    BY DEF RpcInv
<1>3. TaskSound(work[w], answers, effects, commitments, Len(admitted)) /\ commitments \in Seq(Nat)
    BY <1>1, <1>2 DEF RequestsInv
<1>4. Len(admitted) \in Nat
    BY LenProperties DEF RpcInv, LimiterInv, Admissions
<1>5. work[w].number \in 1 .. Len(admitted)
    BY <1>3 DEF TaskSound
<1> QED
    BY <1>1, <1>3, <1>4, <1>5

(* A request that is refused *)
LEMMA RefuseKeeps ==
    ASSUME RpcInv, NEW w \in Worker, Refuse(w)
    PROVE  RpcInv'
<1>1. work[w].stage \in {"parse", "submit", "count"} /\ Reply(w, Refused) /\ effects' = effects
      /\ UNCHANGED <<commitments, serverSide>> /\ memPool' = memPool
    BY DEF Refuse, chainSide, serverSide
<1>2. work[w].number \notin effects'
    BY <1>1, AtWork DEF TaskSound, Refuse
<1> DEFINE a == Refused
<1>a. a = Refused /\ Reply(w, a)
    BY <1>1
<1> HIDE DEF a
<1>3. AnswerSound(work[w].number, [req |-> work[w].req, reply |-> a], effects', commitments)
    <2> DEFINE entry == [req |-> work[w].req, reply |-> a]
    <2>1. ~entry.reply.ok
        BY <1>a DEF Refused
    <2> HIDE DEF entry
    <2>2. AnswerSound(work[w].number, entry, effects', commitments)
        BY <1>2, <2>1 DEF AnswerSound
    <2> QED
        BY <2>2 DEF entry
<1>4. Disjoint(memPool')
    BY <1>1 DEF RpcInv
<1> QED
    BY <1>1, <1>3, <1>4, <1>a, ReplyKeeps

(* No handler that reads is that of commitments/submit, and all answer or report an error *)
LEMMA Readings ==
    ASSUME NEW req, NEW a \in Reading(req)
    PROVE  req.method # "commitments/submit" /\ (a = Refused \/ \E v : a = Answer(v))
<1>1. req.method # "commitments/submit"
    <2>1. CASE req.method = "commitments/submit"
        <3>1. Reading(req) = {}
            BY <2>1 DEF Reading, GovernanceReads
        <3> QED
            BY <3>1
    <2> QED
        BY <2>1
<1>2. a = Refused \/ \E v : a = Answer(v)
    <2>1. ASSUME NEW x \in HandleGetInfo
          PROVE  \E v : x = Answer(v)
        <3>1. PICK n \in 0 .. 1, s \in BOOLEAN : x = Answer([blocks |-> tip, connections |-> n, syncing |-> s])
            BY DEF HandleGetInfo
        <3> QED
            BY <3>1
    <2>2. \A x \in HandleChainInfo : \E v : x = Answer(v)
        BY DEF HandleChainInfo
    <2>3. \A h : GetBlockReply(h) = Refused \/ \E v : GetBlockReply(h) = Answer(v)
        BY DEF GetBlockReply
    <2>4. \A name : HandleGetBalance(name) = Refused \/ \E v : HandleGetBalance(name) = Answer(v)
        BY DEF HandleGetBalance
    <2>5. \A name : \E v : HandleStakingGetPower(name) = Answer(v)
        BY DEF HandleStakingGetPower
    <2>6. \A m : \A x \in GovernanceReplies(m) : x = Refused \/ \E v : x = Answer(v)
        BY DEF GovernanceReplies
    <2>7. \A m \in {"staking/deposit", "evm/deploy", "chain/monetary_spec", "staking/stake",
                    "staking/unstake", "commitments/list"} :
             \A x \in PlainReplies(m) : x = Refused \/ \E v : x = Answer(v)
        BY DEF PlainReplies
    <2>8. \A x \in HandleEvmCall \cup HandleEstimateGas : \E v : x = Answer(v)
        BY DEF HandleEvmCall, HandleEstimateGas
    <2>9. \E v : HandleGetBlockCount = Answer(v)
        BY DEF HandleGetBlockCount
    <2>10. (\E v : TreasuryReply = Answer(v)) /\ (\E v : BansReply = Answer(v))
        BY DEF TreasuryReply, BansReply
    <2> QED
        BY <2>1, <2>2, <2>3, <2>4, <2>5, <2>6, <2>7, <2>8, <2>9, <2>10 DEF Reading
<1> QED
    BY <1>1, <1>2

(* A request that only reads *)
LEMMA ReadKeeps ==
    ASSUME RpcInv, NEW w \in Worker, Read(w)
    PROVE  RpcInv'
<1>1. work[w].stage \in {"parse", "submit", "count"} /\ effects' = effects
      /\ UNCHANGED <<commitments, serverSide>> /\ memPool' = memPool
    BY DEF Read, chainSide, serverSide
<1>2. PICK a : a \in Reading(work[w].req) /\ Reply(w, a)
    BY DEF Read
<1>3. work[w].number \notin effects'
    BY <1>1, AtWork DEF TaskSound, Read
<1>4. work[w].req.method # "commitments/submit" /\ (a = Refused \/ \E v : a = Answer(v))
    BY <1>2, Readings
<1>5. AnswerSound(work[w].number, [req |-> work[w].req, reply |-> a], effects', commitments)
    BY <1>3, <1>4, PlainAnswer
<1>6. Disjoint(memPool')
    BY <1>1 DEF RpcInv
<1> QED
    BY <1>1, <1>2, <1>5, <1>6, ReplyKeeps

(* A request that is passed on *)
LEMMA PassOnKeeps ==
    ASSUME RpcInv, NEW w \in Worker, NEW methods, "commitments/submit" \notin methods, NEW values,
           PassOn(w, methods, values)
    PROVE  RpcInv'
<1>1. work[w].stage \in {"parse", "submit", "count"} /\ effects' = effects \cup {work[w].number}
      /\ UNCHANGED <<commitments, serverSide>> /\ memPool' = memPool
    BY DEF PassOn, Effect, serverSide
<1>2. PICK v : v \in values /\ Reply(w, Answer(v))
    BY DEF PassOn
<1>3. work[w].req.method # "commitments/submit"
    BY DEF PassOn
<1> DEFINE a == Answer(v)
<1>a. \E x : a = Answer(x)
    OBVIOUS
<1>b. Reply(w, a)
    BY <1>2
<1> HIDE DEF a
<1>4. AnswerSound(work[w].number, [req |-> work[w].req, reply |-> a], effects', commitments)
    BY <1>3, <1>a, PlainAnswer
<1>5. Disjoint(memPool')
    BY <1>1 DEF RpcInv
<1> QED
    BY <1>1, <1>b, <1>4, <1>5, ReplyKeeps

-----------------------------------------------------------------------------
(* A worker goes on with its request *)
LEMMA GoingOnKeeps ==
    ASSUME RpcInv, NEW w \in Worker, work[w].stage = "parse",
           NEW t, t.number = work[w].number, t.stage \in {"submit", "count"}, work' = [work EXCEPT ![w] = t],
           UNCHANGED <<answers, memPool, serverSide>>,
           effects' = effects \/ effects' = effects \cup {work[w].number},
           LogExtends(commitments', commitments),
           TaskSound(t, answers, effects', commitments', Len(admitted))
    PROVE  RpcInv'
<1> DEFINE number == work[w].number
           n == Len(admitted)
           wk2 == work'
           com2 == commitments'
           eff2 == effects'
<1>1. RequestsInv(work, answers, effects, commitments, n)
    BY DEF RpcInv
<1>2. work[w] # Free /\ t # Free
    BY DEF Free
<1>3. wk2 = [work EXCEPT ![w] = t] /\ number = work[w].number /\ t.number = number
    OBVIOUS
<1>4. eff2 = effects \/ eff2 = effects \cup {number}
    OBVIOUS
<1>5. LogExtends(com2, commitments)
    OBVIOUS
<1>6. TaskSound(t, answers, eff2, com2, n)
    OBVIOUS
<1> HIDE DEF number, n, wk2, com2, eff2
<1>7. RequestsInv(wk2, answers, eff2, com2, n)
    BY ONLY w \in Worker, <1>1, <1>2, <1>3, <1>4, <1>5, <1>6, GoesOn
<1>8. RequestsInv(work', answers', effects', commitments', Len(admitted'))
    BY <1>7 DEF wk2, com2, eff2, n, serverSide
<1>9. LimiterInv'
    BY TimeKeepsLimits DEF RpcInv, serverSide
<1>10. WithinBounds' /\ Disjoint(memPool')
    BY DEF RpcInv, WithinBounds, serverSide
<1> QED
    BY <1>8, <1>9, <1>10 DEF RpcInv

(* A commitment goes into the log before it is counted *)
LEMMA AddCommitmentKeeps ==
    ASSUME RpcInv, NEW w \in Worker, AddCommitment(w)
    PROVE  RpcInv'
<1> DEFINE t == [work[w] EXCEPT !.stage = "count"]
           number == work[w].number
<1>1. /\ work[w].stage = "parse" /\ work' = [work EXCEPT ![w] = t]
      /\ commitments' = Append(commitments, number) /\ effects' = effects \cup {number}
      /\ UNCHANGED <<answers, memPool, serverSide>>
    BY DEF AddCommitment, Effect, chainSide, serverSide
<1>2. /\ TaskSound(work[w], answers, effects, commitments, Len(admitted))
      /\ commitments \in Seq(Nat) /\ number \in Nat
    BY <1>1, AtWork
<1>3. work[w] = [stage |-> "parse", req |-> work[w].req, number |-> number]
    BY <1>1, <1>2 DEF TaskSound
<1>4. t.stage = "count" /\ t.number = number
    BY <1>3
<1> HIDE DEF t
<1>5. /\ commitments' \in Seq(Nat) /\ Len(commitments') = Len(commitments) + 1
      /\ \A k \in 1 .. Len(commitments) : commitments'[k] = commitments[k]
      /\ commitments'[Len(commitments) + 1] = number
    BY <1>1, <1>2, AppendProperties
<1>6. /\ Len(commitments) \in Nat /\ DOMAIN commitments = 1 .. Len(commitments)
      /\ DOMAIN commitments' = 1 .. Len(commitments')
    BY <1>2, <1>5, LenProperties
<1>7. LogExtends(commitments', commitments)
    BY <1>5, <1>6 DEF LogExtends
<1>8. \E k \in DOMAIN commitments' : commitments'[k] = number
    <2>1. Len(commitments) + 1 \in DOMAIN commitments'
        BY <1>5, <1>6
    <2> QED
        BY <1>5, <2>1
<1>9. TaskSound(t, answers, effects', commitments', Len(admitted))
    BY <1>2, <1>4, <1>8 DEF TaskSound
<1> QED
    BY <1>1, <1>4, <1>5, <1>7, <1>9, GoingOnKeeps

(* The count includes the request's own commitment *)
LEMMA CountCommitmentsKeeps ==
    ASSUME RpcInv, NEW w \in Worker, CountCommitments(w)
    PROVE  RpcInv'
<1> DEFINE a == Answer(Len(commitments))
           entry == [req |-> work[w].req, reply |-> a]
<1>1. work[w].stage = "count" /\ Reply(w, a) /\ effects' = effects
      /\ UNCHANGED <<commitments, serverSide>> /\ memPool' = memPool
    BY DEF CountCommitments, chainSide, serverSide
<1>2. TaskSound(work[w], answers, effects, commitments, Len(admitted)) /\ commitments \in Seq(Nat)
    BY <1>1, AtWork
<1>3. PICK k : k \in DOMAIN commitments /\ commitments[k] = work[w].number
    BY <1>1, <1>2 DEF TaskSound
<1>4. Len(commitments) >= k
    <2>1. DOMAIN commitments = 1 .. Len(commitments) /\ Len(commitments) \in Nat
        BY <1>2, LenProperties
    <2> QED
        BY <1>3, <2>1
<1>5. entry.reply.ok /\ entry.reply.value = Len(commitments)
    BY DEF Answer
<1> HIDE DEF entry
<1>6. AnswerSound(work[w].number, entry, effects', commitments)
    BY <1>3, <1>4, <1>5 DEF AnswerSound
<1>7. AnswerSound(work[w].number, [req |-> work[w].req, reply |-> a], effects', commitments)
    BY <1>6 DEF entry
<1>8. Disjoint(memPool')
    BY <1>1 DEF RpcInv
<1> HIDE DEF a
<1> QED
    BY <1>1, <1>7, <1>8, ReplyKeeps

(* A worker that refuses late *)
LEMMA RefusedKeeps ==
    ASSUME RpcInv, NEW w \in Worker, work[w].stage \in {"parse", "submit"}, Reply(w, Refused),
           UNCHANGED <<effects, commitments, memPool, serverSide>>
    PROVE  RpcInv'
<1>1. work[w].stage \in {"parse", "submit", "count"}
    OBVIOUS
<1>2. work[w].number \notin effects'
    BY <1>1, AtWork DEF TaskSound
<1> DEFINE a == Refused
           entry == [req |-> work[w].req, reply |-> a]
<1>3. ~entry.reply.ok
    BY DEF Refused
<1> HIDE DEF entry
<1>4. AnswerSound(work[w].number, entry, effects', commitments)
    BY <1>2, <1>3 DEF AnswerSound
<1>5. AnswerSound(work[w].number, [req |-> work[w].req, reply |-> a], effects', commitments)
    BY <1>4 DEF entry
<1>6. Reply(w, a)
    OBVIOUS
<1> HIDE DEF a
<1>7. Disjoint(memPool')
    BY DEF RpcInv
<1> QED
    BY <1>1, <1>5, <1>6, <1>7, ReplyKeeps

(* The coins of a payment are handed to the node *)
LEMMA HandingKeeps ==
    ASSUME RpcInv, NEW w \in Worker, work[w].stage = "parse", work[w].req.method # "commitments/submit",
           NEW coins, HandToNode(w, coins), UNCHANGED <<answers, effects, commitments, memPool, serverSide>>
    PROVE  RpcInv'
<1> DEFINE number == work[w].number
           t == [stage |-> "submit", req |-> work[w].req, number |-> number, coins |-> coins]
<1>1. work' = [work EXCEPT ![w] = t]
    BY DEF HandToNode
<1>2. TaskSound(work[w], answers, effects, commitments, Len(admitted)) /\ commitments \in Seq(Nat)
    BY AtWork
<1>3. t.stage = "submit" /\ t.number = number /\ t.req = work[w].req
    OBVIOUS
<1> HIDE DEF t
<1>4. TaskSound(t, answers, effects', commitments', Len(admitted))
    BY <1>2, <1>3 DEF TaskSound
<1>5. LogExtends(commitments', commitments)
    BY <1>2 DEF LogExtends
<1> QED
    BY <1>1, <1>3, <1>4, <1>5, GoingOnKeeps

(* A payment is made from the first coins that are enough, or refused *)
LEMMA CreatePaymentKeeps ==
    ASSUME RpcInv, NEW w \in Worker, CreatePayment(w)
    PROVE  RpcInv'
<1> DEFINE coins == Selected(work[w].req.arg + Fee)
<1>1. /\ work[w].stage = "parse" /\ work[w].req.method = "sendtoaddress"
      /\ IF coins = {} THEN Reply(w, Refused) ELSE HandToNode(w, coins) /\ UNCHANGED answers
      /\ UNCHANGED <<effects, commitments, memPool, serverSide>>
    BY DEF CreatePayment, chainSide, serverSide
<1> HIDE DEF coins
<1>2. CASE coins = {}
    BY <1>1, <1>2, RefusedKeeps
<1>3. CASE coins # {}
    BY <1>1, <1>3, HandingKeeps
<1> QED
    BY <1>2, <1>3

(* A transaction that was sent as it is *)
LEMMA ReadRawKeeps ==
    ASSUME RpcInv, NEW w \in Worker, ReadRaw(w)
    PROVE  RpcInv'
<1>1. /\ work[w].stage = "parse" /\ work[w].req.method # "commitments/submit"
      /\ HandToNode(w, {work[w].req.arg})
      /\ UNCHANGED <<answers, effects, commitments, memPool, serverSide>>
    BY DEF ReadRaw, chainSide, serverSide
<1> QED
    BY <1>1, HandingKeeps

(* The node takes a payment only if no pooled one spends its coins *)
LEMMA PooledKeeps ==
    ASSUME NEW pool, Disjoint(pool), NEW coins, coins \cap (UNION {pool[r] : r \in DOMAIN pool}) = {},
           NEW x, NEW pool2, pool2 = Updated(pool, x, coins)
    PROVE  Disjoint(pool2)
<1>1. /\ DOMAIN pool2 = DOMAIN pool \cup {x} /\ pool2[x] = coins
      /\ \A r \in DOMAIN pool : r # x => pool2[r] = pool[r]
    BY DEF Updated
<1>2. \A r \in DOMAIN pool : pool[r] \cap coins = {}
    OBVIOUS
<1> QED
    BY <1>1, <1>2 DEF Disjoint

(* What the node answers *)
LEMMA SubmitKeeps ==
    ASSUME RpcInv, NEW w \in Worker, Submit(w)
    PROVE  RpcInv'
<1>1. work[w].stage = "submit" /\ UNCHANGED <<commitments, serverSide>>
    BY DEF Submit, chainSide, serverSide
<1>2. CASE SubmitReply(work[w].coins)
    <2> DEFINE a == Answer(0)
    <2>1. /\ Reply(w, a) /\ effects' = effects \cup {work[w].number} /\ \E v : a = Answer(v)
          /\ memPool' = Updated(memPool, work[w].number, work[w].coins)
        BY <1>2 DEF Submit, Effect
    <2>2. work[w].req.method # "commitments/submit"
        BY <1>1, AtWork DEF TaskSound
    <2> HIDE DEF a
    <2>3. AnswerSound(work[w].number, [req |-> work[w].req, reply |-> a], effects', commitments)
        BY <2>1, <2>2, PlainAnswer
    <2>4. work[w].coins \cap (UNION {memPool[r] : r \in DOMAIN memPool}) = {}
        BY <1>2 DEF SubmitReply, Pooled, Range
    <2>5. Disjoint(memPool')
        BY <2>1, <2>4, PooledKeeps DEF RpcInv
    <2> QED
        BY <1>1, <2>1, <2>3, <2>5, ReplyKeeps
<1>3. CASE ~SubmitReply(work[w].coins)
    <2>1. Reply(w, Refused) /\ UNCHANGED <<memPool, effects>>
        BY <1>3 DEF Submit
    <2> QED
        BY <1>1, <2>1, RefusedKeeps
<1> QED
    BY <1>2, <1>3

(* Every step of a worker *)
LEMMA ServeKeeps ==
    ASSUME RpcInv, NEW w \in Worker, Serve(w)
    PROVE  RpcInv'
<1>1. CASE SubmitProposal(w) \/ ChangeGovernance(w) \/ Nominate(w) \/ StopNode(w) \/ NewAddress(w)
    <2>1. "commitments/submit" \notin GovernanceChanges
        BY DEF GovernanceChanges
    <2>2. CASE SubmitProposal(w)
        BY <2>2, PassOnKeeps DEF SubmitProposal
    <2>3. CASE ChangeGovernance(w)
        BY <2>1, <2>3, PassOnKeeps DEF ChangeGovernance
    <2>4. CASE Nominate(w)
        BY <2>4, PassOnKeeps DEF Nominate
    <2>5. CASE StopNode(w)
        BY <2>5, PassOnKeeps DEF StopNode
    <2>6. CASE NewAddress(w)
        BY <2>6, PassOnKeeps DEF NewAddress
    <2> QED
        BY <1>1, <2>2, <2>3, <2>4, <2>5, <2>6
<1> QED
    BY <1>1, RefuseKeeps, ReadKeeps, AddCommitmentKeeps, CountCommitmentsKeeps, CreatePaymentKeeps,
       ReadRawKeeps, SubmitKeeps DEF Serve

-----------------------------------------------------------------------------
(* A request arrives, and is admitted or not *)
LEMMA ArriveKeeps ==
    ASSUME RpcInv, NEW w \in Worker, NEW ip \in Ip, NEW req, NEW most \in {MaxFlood, MaxAdmitted},
           Arrive(w, ip, req, most)
    PROVE  RpcInv'
<1>1. LimiterInv'
    BY ArrivalKeepsLimits DEF RpcInv
<1>2. /\ UNCHANGED <<answers, effects, commitments, memPool, tip, storedTip>>
      /\ work[w] = Free /\ Len(admitted) < most
    BY DEF Arrive, chainSide
<1>3. Len(admitted) \in Nat /\ MaxFlood \in Nat /\ MaxAdmitted \in Nat /\ rpcClock \in Nat /\ admitted \in Seq(Ip \X Int)
    BY LenProperties, RpcAssumption DEF RpcInv, LimiterInv, Admissions
<1> DEFINE number == Len(admitted) + 1
<1>4. \/ UNCHANGED <<work, admitted>>
      \/ /\ work' = [work EXCEPT ![w] = [stage |-> "parse", req |-> req, number |-> number]]
         /\ admitted' = Append(admitted, <<ip, rpcClock>>)
    BY DEF Arrive
<1>5. CASE UNCHANGED <<work, admitted>>
    <2>1. WithinBounds' /\ Disjoint(memPool')
        BY <1>2, <1>5 DEF RpcInv, WithinBounds
    <2>2. RequestsInv(work', answers', effects', commitments', Len(admitted'))
        BY <1>2, <1>5 DEF RpcInv
    <2> QED
        BY <1>1, <2>1, <2>2 DEF RpcInv
<1>6. CASE /\ work' = [work EXCEPT ![w] = [stage |-> "parse", req |-> req, number |-> number]]
           /\ admitted' = Append(admitted, <<ip, rpcClock>>)
    <2>1. Len(admitted') = number
        <3>1. <<ip, rpcClock>> \in Ip \X Int
            BY <1>3
        <3> QED
            BY <1>3, <1>6, <3>1, AppendProperties
    <2>2. number <= MaxAdmitted + MaxFlood
        BY <1>2, <1>3
    <2>3. WithinBounds'
        BY <1>2, <2>1, <2>2 DEF RpcInv, WithinBounds
    <2> DEFINE n == Len(admitted)
               wk2 == work'
    <2>4. RequestsInv(work, answers, effects, commitments, n) /\ n \in Nat /\ number = n + 1
        BY <1>3 DEF RpcInv
    <2>5. work[w] = Free /\ wk2 = [work EXCEPT ![w] = [stage |-> "parse", req |-> req, number |-> number]]
        BY <1>2, <1>6
    <2> HIDE DEF n, wk2, number
    <2>6. RequestsInv(wk2, answers, effects, commitments, number)
        BY ONLY w \in Worker, <2>4, <2>5, RequestAccepted
    <2>7. RequestsInv(work', answers', effects', commitments', Len(admitted'))
        BY <1>2, <2>1, <2>6 DEF wk2
    <2>8. Disjoint(memPool')
        BY <1>2 DEF RpcInv
    <2> QED
        BY <1>1, <2>3, <2>7, <2>8 DEF RpcInv
<1> QED
    BY <1>4, <1>5, <1>6

(* Forgetting clients, idle or not *)
LEMMA ForgetKeeps ==
    ASSUME RpcInv, NEW gone, NEW reset \in BOOLEAN, Forget(gone, reset),
           ~reset => \A ip \in gone : rpcClock - clients[ip].last > IdleTime
    PROVE  RpcInv'
<1>1. LimiterInv'
    BY ForgettingKeepsLimits DEF RpcInv
<1>2. UNCHANGED <<work, answers, effects, commitments, memPool, tip, storedTip>>
    BY DEF Forget, chainSide
<1>3. Len(admitted') = Len(admitted)
    <2>1. admitted' = [k \in DOMAIN admitted |->
                         IF reset /\ admitted[k][1] \in gone THEN <<admitted[k][1], -1>> ELSE admitted[k]]
        BY DEF Forget
    <2>2. DOMAIN admitted' = DOMAIN admitted
        BY <2>1
    <2>3. admitted \in Seq(Ip \X Int) /\ admitted' \in Seq(Ip \X Int)
        BY <1>1 DEF RpcInv, LimiterInv, Admissions
    <2>4. /\ DOMAIN admitted = 1 .. Len(admitted) /\ Len(admitted) \in Nat
          /\ DOMAIN admitted' = 1 .. Len(admitted') /\ Len(admitted') \in Nat
        BY <2>3, LenProperties
    <2> DEFINE m == Len(admitted)
               n == Len(admitted')
    <2>5. 1 .. m = 1 .. n /\ m \in Nat /\ n \in Nat
        BY <2>2, <2>4
    <2> HIDE DEF m, n
    <2>6. m = n
        BY <2>5
    <2> QED
        BY <2>6 DEF m, n
<1>4. RequestsInv(work', answers', effects', commitments', Len(admitted')) /\ WithinBounds' /\ Disjoint(memPool')
    BY <1>2, <1>3 DEF RpcInv, WithinBounds
<1> QED
    BY <1>1, <1>4 DEF RpcInv

(* A block takes payments out of the pool *)
LEMMA BlocksKeep ==
    ASSUME RpcInv, ServerChain
    PROVE  RpcInv'
<1>1. UNCHANGED <<clients, admitted, work, answers, effects, commitments, rpcClock>>
    BY DEF ServerChain, StoreBlockOf, ConnectBlockOf
<1>2. LimiterInv'
    BY <1>1, TimeKeepsLimits DEF RpcInv
<1>3. RequestsInv(work', answers', effects', commitments', Len(admitted'))
    BY <1>1 DEF RpcInv
<1>4. tip \in Nat /\ storedTip \in 0 .. tip /\ tip \in 0 .. MaxTip /\ MaxTip \in Nat
      /\ Len(admitted) <= MaxAdmitted + MaxFlood
    BY RpcAssumption DEF RpcInv, WithinBounds
<1>5. CASE StoreBlockOf
    <2>1. storedTip' = tip /\ UNCHANGED <<memPool, tip>>
        BY <1>5 DEF StoreBlockOf
    <2>2. WithinBounds' /\ Disjoint(memPool')
        BY <1>1, <1>4, <2>1 DEF RpcInv, WithinBounds
    <2> QED
        BY <1>2, <1>3, <2>2 DEF RpcInv
<1>6. ASSUME NEW rs \in SUBSET DOMAIN memPool, ConnectBlockOf(rs)
      PROVE  RpcInv'
    <2>1. tip < MaxTip /\ tip' = tip + 1 /\ storedTip' = storedTip /\ memPool' = memPool
        BY <1>6 DEF ConnectBlockOf
    <2>2. WithinBounds' /\ Disjoint(memPool')
        BY <1>1, <1>4, <2>1 DEF RpcInv, WithinBounds
    <2> QED
        BY <1>2, <1>3, <2>2 DEF RpcInv
<1>7. CASE UnpoolBlock
    <2>1. UNCHANGED <<tip, storedTip>> /\ memPool' = Restrict(memPool, DOMAIN memPool \ applying.txs)
        BY <1>7 DEF UnpoolBlock
    <2>2. WithinBounds'
        BY <1>1, <1>4, <2>1 DEF WithinBounds
    <2>3. /\ DOMAIN memPool' = DOMAIN memPool \ applying.txs
          /\ \A r \in DOMAIN memPool' : memPool'[r] = memPool[r]
        BY <2>1 DEF Restrict
    <2>4. Disjoint(memPool')
        BY <2>3 DEF RpcInv, Disjoint
    <2> QED
        BY <1>2, <1>3, <2>2, <2>4 DEF RpcInv
<1>8. CASE TellWallet
    <2>1. UNCHANGED <<memPool, tip, storedTip>>
        BY <1>8 DEF TellWallet
    <2>2. WithinBounds' /\ Disjoint(memPool')
        BY <1>1, <1>4, <2>1 DEF RpcInv, WithinBounds
    <2> QED
        BY <1>2, <1>3, <2>2 DEF RpcInv
<1> QED
    BY <1>5, <1>6, <1>7, <1>8 DEF ServerChain

(* Time passes, the server stops or starts, or nothing happens here *)
LEMMA QuietKeeps ==
    ASSUME RpcInv, PassTime \/ StartStop \/ UNCHANGED rpcVars
    PROVE  RpcInv'
<1>1. UNCHANGED <<clients, admitted, work, answers, effects, commitments, memPool, tip, storedTip>>
      /\ (rpcClock' = rpcClock \/ rpcClock' = rpcClock + 1)
    BY DEF PassTime, StartStop, rpcVars, chainSide
<1>2. LimiterInv'
    BY <1>1, TimeKeepsLimits DEF RpcInv
<1> QED
    BY <1>1, <1>2 DEF RpcInv, WithinBounds

(* Every step keeps the invariant *)
LEMMA RpcStepKeeps ==
    ASSUME RpcInv, [LimiterStep(Ip, Requests) \/ RequestStep(Requests)]_rpcVars
    PROVE  RpcInv'
<1>1. ASSUME NEW ip \in Ip, ResetIP(ip)
      PROVE  RpcInv'
    BY <1>1, ForgetKeeps DEF ResetIP
<1>2. CASE Cleanup
    BY <1>2, ForgetKeeps DEF Cleanup
<1>3. CASE LimiterStep(Ip, Requests)
    <2>1. ASSUME NEW w \in Worker, NEW ip \in Ip, NEW req \in Requests, Arrive(w, ip, req, MaxFlood)
          PROVE  RpcInv'
        BY <2>1, ArriveKeeps
    <2> QED
        BY <1>1, <1>2, <1>3, <2>1, ServeKeeps, QuietKeeps DEF LimiterStep
<1>4. CASE RequestStep(Requests)
    <2>1. ASSUME NEW w \in Worker, NEW ip \in Ip, NEW req \in Requests, Arrive(w, ip, req, MaxAdmitted)
          PROVE  RpcInv'
        BY <2>1, ArriveKeeps
    <2> QED
        BY <1>4, <2>1, ServeKeeps, BlocksKeep DEF RequestStep
<1> QED
    BY <1>3, <1>4, QuietKeeps

(* At the start nothing was admitted *)
LEMMA RpcStart ==
    ASSUME InitRpc
    PROVE  RpcInv
<1>1. /\ clients = [i \in {} |-> 0] /\ admitted = <<>> /\ work = [w \in Worker |-> Free]
      /\ answers = [r \in {} |-> 0] /\ effects = {} /\ commitments = <<>> /\ memPool = [r \in {} |-> 0]
      /\ tip = 0 /\ storedTip = 0 /\ rpcClock = 0
    BY DEF InitRpc
<1>2. /\ DOMAIN clients = {} /\ DOMAIN admitted = {} /\ DOMAIN answers = {} /\ DOMAIN memPool = {}
      /\ Len(admitted) = 0 /\ admitted \in Admissions /\ commitments \in Seq(Nat)
    BY <1>1, EmptySeq DEF Admissions
<1>3. \A ip, a, b : Cardinality(Hits(admitted, ip, a, b)) = 0
    <2>1. \A ip, a, b : Hits(admitted, ip, a, b) = {}
        BY <1>2 DEF Hits
    <2> QED
        BY <2>1, FS_EmptySet
<1>4. \A ip : WithinLimit(admitted, ip) /\ LongAgo(admitted, ip, rpcClock)
    BY <1>2, <1>3, RpcAssumption DEF WithinLimit, LongAgo
<1>5. LimiterInv
    BY <1>1, <1>2, <1>4 DEF LimiterInv
<1>6. RequestsInv(work, answers, effects, commitments, Len(admitted))
    BY <1>1, <1>2 DEF RequestsInv
<1>7. Disjoint(memPool) /\ WithinBounds
    BY <1>1, <1>2, RpcAssumption DEF Disjoint, WithinBounds
<1> QED
    BY <1>5, <1>6, <1>7 DEF RpcInv

(* The limiter's table covers what it let through, and every request is in one place *)
THEOREM RpcInductive == RpcSpec => []RpcInv
<1>1. InitRpc => RpcInv
    BY RpcStart
<1>2. RpcInv /\ [LimiterStep(Ip, Requests) \/ RequestStep(Requests)]_rpcVars => RpcInv'
    BY RpcStepKeeps
<1> QED
    BY <1>1, <1>2, PTL DEF RpcSpec

(* The counts of the limiter stay below its limit and the stored chain is not above the tip *)
THEOREM RpcTypeCorrect == RpcSpec => []RpcTypeOK
<1>1. RpcInv => RpcTypeOK
    BY DEF RpcInv, LimiterInv, WithinBounds, RpcTypeOK
<1> QED
    BY <1>1, RpcInductive, PTL

(* The limit is kept in the window of the property too *)
LEMMA LimitKept ==
    ASSUME RpcInv, NEW ip \in Ip, NEW t \in 0 .. rpcClock
    PROVE  Cardinality({k \in DOMAIN admitted : admitted[k][1] = ip /\ admitted[k][2] \in t .. t + Window - 1})
              <= 2 * MaxRequestCount
<1> DEFINE S == {k \in DOMAIN admitted : admitted[k][1] = ip /\ admitted[k][2] \in t .. t + Window - 1}
           T == Hits(admitted, ip, t, t + Window - 1)
<1>1. admitted \in Admissions /\ rpcClock \in Nat /\ t \in Nat /\ Window \in Nat /\ MaxRequestCount \in Nat
    BY RpcAssumption DEF RpcInv, LimiterInv
<1>2. CASE Window > 0
    <2>1. Cardinality(T) <= 2 * MaxRequestCount
        BY <1>1, <1>2 DEF RpcInv, LimiterInv, WithinLimit
    <2>2. S = T
        BY <1>1, AdmissionTyped DEF Hits
    <2> HIDE DEF S, T
    <2>3. Cardinality(S) <= 2 * MaxRequestCount
        BY <2>1, <2>2
    <2> QED
        BY <2>3 DEF S
<1>3. CASE Window = 0
    <2>1. S = {}
        BY <1>1, <1>3
    <2>2. Cardinality(S) = 0
        BY <2>1, FS_EmptySet
    <2> HIDE DEF S
    <2>3. Cardinality(S) <= 2 * MaxRequestCount
        BY <1>1, <2>2
    <2> QED
        BY <2>3 DEF S
<1> QED
    BY <1>1, <1>2, <1>3

(* No client is served more than twice the limit in a window, an error left no effect, no coin is spent *)
(* by two pooled payments, and an accepted commitment is in the log and counted                          *)
THEOREM RpcRequestsAreSound == RpcSpec => []RequestsAreSound
<1>1. RpcInv => RequestsAreSound
    <2> SUFFICES ASSUME RpcInv PROVE RequestsAreSound
        OBVIOUS
    <2>1. \A r \in DOMAIN answers : AnswerSound(r, answers[r], effects, commitments)
        BY DEF RpcInv, RequestsInv
    <2>2. \A r \in DOMAIN answers : ~answers[r].reply.ok => r \notin effects
        BY <2>1 DEF AnswerSound
    <2>3. \A r \in DOMAIN answers :
             answers[r].reply.ok /\ answers[r].req.method = "commitments/submit" =>
                \E n \in DOMAIN commitments : commitments[n] = r /\ answers[r].reply.value >= n
        BY <2>1 DEF AnswerSound
    <2>4. \A r, s \in DOMAIN memPool : r # s => memPool[r] \cap memPool[s] = {}
        BY DEF RpcInv, Disjoint
    <2> QED
        BY <2>2, <2>3, <2>4, LimitKept DEF RequestsAreSound
<1> QED
    BY <1>1, RpcInductive, PTL
=============================================================================
