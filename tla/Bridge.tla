------------------------------- MODULE Bridge -------------------------------
(***************************************************************************)
(* The lock-mint / burn-unlock bridge between a home chain, where tokens   *)
(* are locked, and an away chain, where they are minted: TALANTON and      *)
(* DRACHMA in l1_l2_bridge.cpp.  l2_l3_bridge.cpp is the same code for     *)
(* DRACHMA and OBOLOS.                                                     *)
(*                                                                         *)
(* bridge is the BridgeState the four entry points share.  Around it, as   *)
(* the headers describe it: users who lock tokens or burn the wrapped      *)
(* tokens they own, blocks that confirm what was recorded, validators who  *)
(* sign what they saw recorded, and relayers who may deliver the message   *)
(* of a transfer at any time, again and again, in any order.  What is       *)
(* signed is the payload's hash, what is paid is the amount in the payload, *)
(* and no entry point compares the two: the amount a message carries is an  *)
(* input, and the properties say what holds whatever it is, and what holds   *)
(* as long as messages carry the amount of their transfer.                  *)
(***************************************************************************)
EXTENDS Integers, FiniteSets, Sums

CONSTANTS
    Transfer,           \* the BridgeTransferIntents users may make
    Sender,             \* the addresses of their senders
    Home, Away,         \* the two chain identifiers
    Validator,          \* everyone who signs messages
    Trusted,            \* trusted_validator_pubkeys
    MinSigs,            \* min_validator_sigs
    Confirmations,      \* kMinL1Confirmations
    Payload,            \* amounts a payload may carry besides that of its transfer
    MaxListLength,      \* bound: the signatures one message carries
    U64                 \* the modulus of the unsigned amounts

ASSUME BridgeAssumption ==
    /\ Transfer \subseteq [kind : {"lock", "burn"}, sender : Sender,
                           nonce : Nat, amount : 0 .. U64 - 1]
    /\ Home # Away /\ {Home, Away} \cap Sender = {}
    /\ Trusted \subseteq Validator
    /\ MinSigs \in Nat /\ Confirmations \in Nat /\ U64 \in Nat \ {0}
    /\ Payload \subseteq 0 .. U64 - 1 /\ MaxListLength \in Nat

VARIABLES
    bridge,     \* the BridgeState: keys, locked, minted
    depth,      \* of the recorded transfers: blocks since, up to Confirmations
    sigs,       \* of every transfer: the validators whose signatures its relayers hold
    wrapped,    \* of every user: the wrapped tokens owned
    paid,       \* of every transfer: how often it was paid out
    moved       \* of every transfer: by how much its messages moved the totals
vars == <<bridge, depth, sigs, wrapped, paid, moved>>

Recorded == DOMAIN depth

Init ==
    /\ bridge = [keys |-> {}, locked |-> 0, minted |-> 0]
    /\ depth = [i \in {} |-> 0]
    /\ sigs = [i \in Transfer |-> {}]
    /\ wrapped = [s \in Sender |-> 0]
    /\ paid = [i \in Transfer |-> 0]
    /\ moved = [i \in Transfer |-> 0]

-----------------------------------------------------------------------------
(* The keys of processed_nonce_keys: "<sender>:<nonce>" of an intent, and      *)
(* "<origin chain>:<nonce>" of the message about it                            *)
OriginChain(i) == IF i.kind = "lock" THEN Home ELSE Away

IntentKey(i)  == <<i.sender, i.nonce>>
MessageKey(i) == <<OriginChain(i), i.nonce>>

(* Entries of the list whose keys are trusted, each as often as it occurs *)
VerifyValidatorQuorum(list) == Cardinality({k \in DOMAIN list : list[k] \in Trusted}) >= MinSigs

(* Mutant: the total may overflow *)
RecordLockOK_Overflow(b, i) == i.amount # 0 /\ IntentKey(i) \notin b.keys

(* Mutant: the key of the intent is not looked up *)
RecordLockOK_Replay(b, i) == i.amount # 0 /\ i.amount <= U64 - 1 - b.locked

RecordLockOK(b, i) ==
    /\ i.amount # 0 /\ i.amount <= U64 - 1 - b.locked
    /\ IntentKey(i) \notin b.keys

(* RecordTltLock *)
RecordLock(i) ==
    /\ i.kind = "lock"
    /\ RecordLockOK(bridge, i)
    /\ bridge' = [bridge EXCEPT !.keys = @ \cup {IntentKey(i)}, !.locked = @ + i.amount]
    /\ depth' = [j \in Recorded \cup {i} |-> IF j = i THEN 0 ELSE depth[j]]
    /\ UNCHANGED <<sigs, wrapped, paid, moved>>

(* Mutant: the minted supply is left to the unlock *)
BurnFrom_Keep(minted, amount) == minted

(* A burn of more than was minted would be recorded and change no total *)
BurnFrom(minted, amount) == IF amount <= minted THEN minted - amount ELSE minted

(* RecordWtltBurn.  A user burns wrapped tokens of its own. *)
RecordBurn(i) ==
    /\ i.kind = "burn"
    /\ wrapped[i.sender] >= i.amount
    /\ i.amount # 0
    /\ IntentKey(i) \notin bridge.keys
    /\ bridge' = [bridge EXCEPT !.keys = @ \cup {IntentKey(i)},
                                !.minted = BurnFrom(@, i.amount)]
    /\ depth' = [j \in Recorded \cup {i} |-> IF j = i THEN 0 ELSE depth[j]]
    /\ wrapped' = [wrapped EXCEPT ![i.sender] = @ - i.amount]
    /\ UNCHANGED <<sigs, paid, moved>>

-----------------------------------------------------------------------------
(* Signatures a relayer puts into the message of a transfer, in any order and *)
(* with any copies                                                             *)
Lists(i) == UNION {[1 .. n -> sigs[i]] : n \in 0 .. MaxListLength}

(* The first 8 bytes of the payload, or 0 when there are fewer *)
Amounts(i) == {i.amount} \cup Payload

(* Mutant: a message is not checked for replay *)
Accepted_Replay(b, i, list) == depth[i] >= Confirmations /\ VerifyValidatorQuorum(list)

(* The tests ProcessTltLockMint and ProcessWtltBurnUnlock have in common; the *)
(* Merkle proof of a recorded transfer holds.                                  *)
Accepted(b, i, list) ==
    /\ depth[i] >= Confirmations
    /\ MessageKey(i) \notin b.keys
    /\ VerifyValidatorQuorum(list)

(* Mutant: the last locked token cannot be minted *)
MintOK_Strict(b, amount) == amount > 0 => amount < (b.locked - b.minted) % U64

(* What is left to mint is an unsigned difference, as is what is left of the *)
(* type.  An amount of 0 is not looked at and mints nothing.                  *)
MintOK(b, amount) ==
    amount > 0 => /\ amount <= (b.locked - b.minted) % U64
                  /\ amount <= U64 - 1 - b.minted

(* ProcessTltLockMint of a message with these signatures that carries amount *)
Mint(i, amount, list) ==
    /\ i \in Recorded /\ i.kind = "lock"
    /\ Accepted(bridge, i, list)
    /\ MintOK(bridge, amount)
    /\ bridge' = [bridge EXCEPT !.keys = @ \cup {MessageKey(i)}, !.minted = @ + amount]
    /\ wrapped' = [wrapped EXCEPT ![i.sender] = @ + amount]
    /\ paid' = [paid EXCEPT ![i] = @ + 1]
    /\ moved' = [moved EXCEPT ![i] = @ + amount]
    /\ UNCHANGED <<depth, sigs>>

(* An unlock of more than is locked is accepted and changes no total *)
UnlockFrom(locked, amount) == IF amount <= locked THEN locked - amount ELSE locked

(* ProcessWtltBurnUnlock *)
Unlock(i, amount, list) ==
    /\ i \in Recorded /\ i.kind = "burn"
    /\ Accepted(bridge, i, list)
    /\ bridge' = [bridge EXCEPT !.keys = @ \cup {MessageKey(i)},
                                !.locked = UnlockFrom(@, amount)]
    /\ paid' = [paid EXCEPT ![i] = @ + 1]
    /\ moved' = [moved EXCEPT ![i] = @ + (bridge.locked - UnlockFrom(bridge.locked, amount))]
    /\ UNCHANGED <<depth, sigs, wrapped>>

Deliver(i, amount) == \E list \in Lists(i) : Mint(i, amount, list) \/ Unlock(i, amount, list)

-----------------------------------------------------------------------------
(* A block on both chains *)
Tick ==
    /\ \E i \in Recorded : depth[i] < Confirmations
    /\ depth' = [i \in Recorded |-> IF depth[i] < Confirmations THEN depth[i] + 1 ELSE depth[i]]
    /\ UNCHANGED <<bridge, sigs, wrapped, paid, moved>>

(* A validator signs the message of a transfer it saw; relayers keep what it signed *)
Sign(v, i) ==
    /\ i \in Recorded /\ v \notin sigs[i]
    /\ sigs' = [sigs EXCEPT ![i] = @ \cup {v}]
    /\ UNCHANGED <<bridge, depth, wrapped, paid, moved>>

Next ==
    \/ \E i \in Transfer :
          \/ RecordLock(i) \/ RecordBurn(i)
          \/ \E amount \in Amounts(i) : Deliver(i, amount)
          \/ \E v \in Validator : Sign(v, i)
    \/ Tick

Spec == Init /\ [][Next]_vars

(* Blocks keep coming, trusted validators sign, and a relayer delivers the *)
(* message with the amount of its transfer again until it is accepted        *)
Fairness ==
    /\ WF_vars(Tick)
    /\ \A i \in Transfer :
          /\ WF_vars(Deliver(i, i.amount))
          /\ \A v \in Trusted : WF_vars(Sign(v, i))

FairSpec == Spec /\ Fairness

-----------------------------------------------------------------------------
(* The state of the bridge has its type *)
TypeOK ==
    /\ bridge \in [keys   : SUBSET ((Sender \cup {Home, Away}) \X Nat),
                   locked : 0 .. U64 - 1,
                   minted : 0 .. U64 - 1]
    /\ Recorded \subseteq Transfer /\ depth \in [Recorded -> 0 .. Confirmations]
    /\ sigs \in [Transfer -> SUBSET Validator]
    /\ wrapped \in [Sender -> Nat]
    /\ paid \in [Transfer -> Nat]
    /\ moved \in [Transfer -> Nat]

(* "Each (origin_chain_id, destination_chain_id, message_nonce) triple MUST be  *)
(* processed exactly once" (cross_chain_message.h): however often and in what   *)
(* order messages are delivered, a nonce of a direction pays one transfer, once, *)
(* and only a transfer that was recorded.                                        *)
PaidOnce ==
    /\ \A i \in Transfer : paid[i] <= 1 /\ (paid[i] = 1 => i \in Recorded)
    /\ \A i, j \in Transfer :
          paid[i] = 1 /\ paid[j] = 1 /\ i.kind = j.kind /\ i.nonce = j.nonce => i = j

(* What every recorded transfer asked for *)
Asked == [i \in Transfer |-> IF i \in Recorded THEN i.amount ELSE 0]

(* Some transfer was paid by a message that moved another amount than its own *)
Strayed == \E i \in Transfer : paid[i] > 0 /\ moved[i] # i.amount

OnItsWay == [i \in Transfer |-> IF i \in Recorded /\ paid[i] = 0 THEN i.amount ELSE 0]

(* Whatever amounts the messages carry, the two totals differ by what the        *)
(* recorded transfers asked for and the accepted messages did not move (the       *)
(* branches of l1_l2_bridge.cpp:150 and :218 leave a total alone), and the away    *)
(* chain's total is what its users own.  As long as messages carry the amount of   *)
(* their transfer, the locked tokens are the wrapped ones plus what is on its way.  *)
Conservation ==
    /\ bridge.locked + Sum(moved) = bridge.minted + Sum(Asked)
    /\ bridge.minted = Sum(wrapped)
    /\ ~Strayed => bridge.locked = bridge.minted + Sum(OnItsWay)

(* "Guard: minted supply must never exceed locked supply" (l1_l2_bridge.cpp:188): *)
(* NOT kept.  An unlock that carries more than its transfer burnt takes the locked  *)
(* total below the minted one; the difference in the guard then wraps.  It is a      *)
(* consequence of Conservation while nothing has strayed.                            *)
MintedWithinLocked == bridge.minted <= bridge.locked

(* The bridge keeps the promise of Escrow up to the first message that carries *)
(* another amount than its transfer.                                            *)
Promise == INSTANCE Escrow WITH
    sent <- Recorded, arrived <- {i \in Transfer : paid[i] > 0},
    held <- bridge.locked, issued <- bridge.minted
ImplementsEscrow == Promise!Init /\ [][Strayed' \/ Promise!Next]_(Promise!escrowVars)

(* "Destination chain verifies Merkle proof and mints wrapped tokens", "origin  *)
(* chain verifies Merkle proof and unlocks native tokens" (cross_chain_message.h): *)
(* as long as messages carry the amount of their transfer, whatever was locked or   *)
(* burnt is paid out in the end, in full.                                           *)
EveryTransferArrives ==
    \A i \in Transfer : i \in Recorded ~> (paid[i] > 0 /\ moved[i] = i.amount) \/ Strayed
=============================================================================
