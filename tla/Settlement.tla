----------------------------- MODULE Settlement -----------------------------
(***************************************************************************)
(* layer1-talanton/settlement: escrows with their three conditions, M-of-N       *)
(* policies with the signatures gathered for them, and destination tags, each   *)
(* stored as bytes that may come back short or changed.                        *)
(*                                                                          *)
(* A byte stands for itself in counts, types and indices, and for a whole lock   *)
(* time, hash, key or signature otherwise.  A preimage is the number it hashes   *)
(* to; 0 is the hash that nothing hashes to.  A public key is a prefix and a     *)
(* coordinate, <<prefix, X>>; a signature names the X it was made for.          *)
(***************************************************************************)
EXTENDS Integers, Sequences, FiniteSets, SequencesExt

CONSTANTS
    LockTimes,      \* the times that funds may be locked until
    Hashes,         \* hashes with a known preimage
    MaxTime,        \* bound on the clock
    PolicyKeys,     \* public keys that policies are made of
    MaxKeys,        \* MultisigPolicy::MAX_KEYS
    MaxGathered,    \* bound on the signatures handed in
    CodePoints,     \* what is typed into a memo
    MAX_MEMO_SIZE,  \* DestinationTag::MAX_MEMO_SIZE
    MaxPieces       \* bound on the length of a memo in characters

ASSUME SettlementAssumption ==
    /\ LockTimes \subseteq 1 .. MaxTime /\ 0 \notin Hashes /\ Hashes \subseteq Nat
    /\ MaxKeys \in Nat /\ MaxGathered \in Nat
    /\ CodePoints \subseteq Nat /\ MAX_MEMO_SIZE \in Nat /\ MaxPieces \in Nat

VARIABLES
    agreed,         \* history: the escrow that was agreed on
    stored,         \* its bytes
    escrowState,    \* "held", "cut", "changed" or "released"
    releasedAt,     \* history: when, and with which preimages
    blockTime,      \* the time that callers pass
    keys,           \* pubkeys_ of a policy
    threshold,      \* m_
    gathered,       \* signatures_: <<index, X it is valid for, 0 if for none>>
    handedIn,       \* history: all that was handed in
    memo,           \* the memo of a destination tag: its bytes
    typedMemo       \* history: the characters typed, and whether each was one and whole
settlementVars == <<agreed, stored, escrowState, releasedAt, blockTime, keys, threshold, gathered, handedIn, memo, typedMemo>>

-----------------------------------------------------------------------------
TIME_LOCKED == 0
HASH_LOCKED == 1
CONDITIONAL == 2

Locks ==
    [type : {TIME_LOCKED}, time : LockTimes, hash : {0}]
    \cup [type : {HASH_LOCKED}, time : {0}, hash : Hashes]
    \cup [type : {CONDITIONAL}, time : LockTimes, hash : Hashes]

SerializeEscrow(e) ==
    CASE e.type = TIME_LOCKED -> <<e.type, e.time>>
      [] e.type = HASH_LOCKED -> <<e.type, e.hash>>
      [] OTHER                -> <<e.type, e.time, e.hash>>

TypeOnly(type) == [type |-> type, time |-> 0, hash |-> 0]

(* What is too short keeps its type, with the fields of a new object: lock time 0 and hash 0 *)
DeserializeEscrow(data) ==
    IF data = <<>> THEN TypeOnly(TIME_LOCKED)
    ELSE IF Len(data) = 1 THEN TypeOnly(data[1])
    ELSE CASE data[1] = TIME_LOCKED -> [TypeOnly(data[1]) EXCEPT !.time = data[2]]
           [] data[1] = HASH_LOCKED -> [TypeOnly(data[1]) EXCEPT !.hash = data[2]]
           [] data[1] = CONDITIONAL /\ Len(data) > 2 ->
                [type |-> CONDITIONAL, time |-> data[2], hash |-> data[3]]
           [] OTHER -> TypeOnly(data[1])

(* Escrow::IsReleasable with the preimage that was given, 0 for none *)
IsReleasable(e, time, preimage) ==
    CASE e.type = TIME_LOCKED -> time >= e.time
      [] e.type = HASH_LOCKED -> preimage # 0 /\ preimage = e.hash
      [] e.type = CONDITIONAL -> time >= e.time /\ preimage # 0 /\ preimage = e.hash
      [] OTHER                -> FALSE

Preimages == Hashes \cup {0}
AgreementVars == <<agreed, stored, escrowState, releasedAt, blockTime>>
PolicyVars == <<keys, threshold, gathered, handedIn>>
MemoVars == <<memo, typedMemo>>

Pass == blockTime < MaxTime /\ blockTime' = blockTime + 1 /\ UNCHANGED <<agreed, stored, escrowState, releasedAt>>

CutStored ==
    /\ escrowState = "held" /\ escrowState' = "cut"
    /\ \E n \in 0 .. Len(stored) - 1 : stored' = SubSeq(stored, 1, n)
    /\ UNCHANGED <<agreed, releasedAt, blockTime>>

(* The byte of the type becomes one that no escrow has *)
ChangeType ==
    /\ escrowState = "held" /\ escrowState' = "changed" /\ stored' = [stored EXCEPT ![1] = 3]
    /\ UNCHANGED <<agreed, releasedAt, blockTime>>

Release ==
    /\ escrowState # "released"
    /\ \E p \in Preimages :
          /\ IsReleasable(DeserializeEscrow(stored), blockTime, p)
          /\ releasedAt' = <<[time |-> blockTime, preimage |-> p, state |-> escrowState]>>
    /\ escrowState' = "released" /\ UNCHANGED <<agreed, stored, blockTime>>

EscrowStep == UNCHANGED <<PolicyVars, MemoVars>> /\ (Pass \/ CutStored \/ ChangeType \/ Release)

-----------------------------------------------------------------------------
(* The keys of a policy that is made or read: any list, and one more than there may be *)
KeyLists == UNION {[1 .. n -> PolicyKeys] : n \in 0 .. MaxKeys + 1}

(* MultisigPolicy::AddPubKey *)
AddPubKey ==
    /\ Len(keys) < MaxKeys
    /\ \E k \in PolicyKeys : k \notin Range(keys) /\ keys' = Append(keys, k)
    /\ UNCHANGED <<threshold, gathered, handedIn>>

(* Keys are compared as a whole *)
PolicyIsValid == threshold \in 1 .. Len(keys) /\ Len(keys) <= MaxKeys /\ IsInjective(keys)

(* AddSignature keeps the first signature for an index.                                     *)
(* Mutant: every signature is kept                                                          *)
AddSignature_All(signature) == gathered' = Append(gathered, signature)
AddSignature(signature) ==
    gathered' = IF \E i \in DOMAIN gathered : gathered[i][1] = signature[1]
                THEN gathered ELSE Append(gathered, signature)

(* VerifySchnorrSignature drops the prefix of a key *)
XOnly(key) == key[2]

HandIn ==
    /\ Len(handedIn) < MaxGathered
    /\ \E index \in 0 .. MaxKeys, by \in {XOnly(k) : k \in PolicyKeys} \cup {0} :
          AddSignature(<<index, by>>) /\ handedIn' = Append(handedIn, <<index, by>>)
    /\ UNCHANGED <<keys, threshold>>

(* One signature whose index is not of the policy makes all of them useless *)
VerifySignatures ==
    /\ PolicyIsValid /\ Len(gathered) >= threshold
    /\ \A i \in DOMAIN gathered : gathered[i][1] < Len(keys)
    /\ Cardinality({i \in DOMAIN gathered : gathered[i][2] = XOnly(keys[gathered[i][1] + 1])}) >= threshold

MultisigStep == UNCHANGED <<AgreementVars, MemoVars>> /\ (AddPubKey \/ HandIn)

(* Written and read: the policy and the signatures survive, what is short is an empty object *)
SerializePolicy == <<threshold, Len(keys)>> \o keys
DeserializePolicy(data) ==
    IF Len(data) < 2 THEN [m |-> 0, keys |-> <<>>]
    ELSE IF data[2] > MaxKeys \/ Len(data) < 2 + data[2] THEN [m |-> 0, keys |-> <<>>]
    ELSE [m |-> data[1], keys |-> SubSeq(data, 3, 2 + data[2])]
SerializeSignatures == <<Len(gathered)>> \o FlattenSeq(gathered)
DeserializeSignatures(data) ==
    IF data = <<>> THEN <<>>
    ELSE IF data[1] > MaxKeys \/ Len(data) < 1 + 2 * data[1] THEN <<>>
    ELSE [i \in 1 .. data[1] |-> <<data[2 * i], data[2 * i + 1]>>]

(* DestinationTag: a tag, the length of the memo, the memo; both are lost when the memo is short *)
SerializeTag(tag, note) == <<tag, Len(note)>> \o note
DeserializeTag(data) ==
    IF Len(data) < 2 THEN <<0, <<>>>>
    ELSE IF Len(data) < 2 + data[2] THEN <<0, <<>>>> ELSE <<data[1], SubSeq(data, 3, 2 + data[2])>>

(* TagValidator: a lead byte says how many follow, each adds six bits; what could be shorter, stands   *)
(* for half of a pair, or is beyond the last character, is refused                                   *)
BytesFrom(lead) ==
    CASE lead < 128          -> 1
      [] lead \in 193 .. 223 -> 2
      [] lead \in 224 .. 239 -> 3
      [] lead \in 240 .. 247 -> 4
      [] OTHER               -> 0
FirstBits == <<1, 32, 16, 8>>
CodeOf(bytes) == FoldLeft(LAMBDA code, b : code * 64 + (b % 64), bytes[1] % FirstBits[Len(bytes)], Tail(bytes))
LeastOf == <<0, 128, 2048, 65536>>
IsCharacter(bytes) ==
    \/ Len(bytes) = 1
    \/ /\ \A i \in 2 .. Len(bytes) : bytes[i] \in 128 .. 191
       /\ CodeOf(bytes) \in LeastOf[Len(bytes)] .. 1114111 /\ CodeOf(bytes) \notin 55296 .. 57343

ValidateMemo(note) ==
    LET valid[i \in 1 .. Len(note) + 1] ==
            IF i > Len(note) THEN TRUE
            ELSE LET n == BytesFrom(note[i]) IN
                 /\ n > 0 /\ i + n <= Len(note) + 1
                 /\ IsCharacter(SubSeq(note, i, i + n - 1)) /\ valid[i + n]
    IN  Len(note) <= MAX_MEMO_SIZE /\ valid[1]

(* What a user or a program may put into a memo: characters in forms of any length, cut ones, and a     *)
(* byte that only follows others, which cannot complete a cut one                                    *)
Form(code, n) ==
    LET high == code \div 64  higher == high \div 64 IN
    CASE n = 1 -> <<code>>
      [] n = 2 -> <<192 + high, 128 + (code % 64)>>
      [] n = 3 -> <<224 + higher, 128 + (high % 64), 128 + (code % 64)>>
      [] OTHER -> <<240 + higher \div 64, 128 + (higher % 64), 128 + (high % 64), 128 + (code % 64)>>
Shortest(code) == CHOOSE n \in 1 .. 4 : code >= LeastOf[n] /\ \A k \in n + 1 .. 4 : code < LeastOf[k]
IsScalar(code) == code <= 1114111 /\ code \notin 55296 .. 57343
TypeMemo ==
    /\ Len(typedMemo) < MaxPieces
    /\ \/ \E code \in CodePoints : \E n \in Shortest(code) .. 4 : \E k \in 1 .. n :
             /\ memo' = memo \o SubSeq(Form(code, n), 1, k)
             /\ typedMemo' = Append(typedMemo, k = n /\ n = Shortest(code) /\ IsScalar(code))
       \/ memo = <<>> /\ memo' = <<128>> /\ typedMemo' = <<FALSE>>
MemoStep == UNCHANGED <<AgreementVars, PolicyVars>> /\ TypeMemo

InitSettlement ==
    /\ memo = <<>> /\ typedMemo = <<>>
    /\ agreed \in Locks /\ stored = SerializeEscrow(agreed) /\ escrowState = "held"
    /\ releasedAt = <<>> /\ blockTime = 0
    /\ keys \in KeyLists /\ threshold \in 0 .. 2 /\ gathered = <<>> /\ handedIn = <<>>

-----------------------------------------------------------------------------
SettlementTypeOK ==
    /\ escrowState \in {"held", "cut", "changed", "released"} /\ blockTime \in 0 .. MaxTime
    /\ keys \in KeyLists /\ Len(gathered) <= Len(handedIn)

(* Funds leave an escrow only as agreed, whatever becomes of the stored bytes: not before their time  *)
(* and only for the preimage, but for a time lock whose bytes are cut and any escrow whose bytes are     *)
(* cut to nothing, which read as a time lock that is over.                                             *)
(* A policy is satisfied only by signatures for as many different keys of its own as it asks for, in    *)
(* whatever order, with whatever wrong ones, signatures were handed in, and also when it was stored in   *)
(* between; these come from as many signers if no two of its keys differ in the prefix alone, which the  *)
(* code takes for two keys and verifies as one; a short tag is none, and a memo passes if and only if it   *)
(* fits and consists of characters, each whole and in its one form.                                      *)
SettlesAsAgreed ==
    /\ \A r \in Range(releasedAt) :
          \/ IsReleasable(agreed, r.time, r.preimage)
          \/ r.state = "cut" /\ (agreed.type = TIME_LOCKED \/ stored = <<>>)
    /\ VerifySignatures =>
          /\ LET signed == {k \in Range(keys) : \E i \in DOMAIN handedIn : handedIn[i][2] = XOnly(k)} IN
             /\ Cardinality(signed) >= threshold
             /\ \/ Cardinality({XOnly(k) : k \in signed}) >= threshold
                \/ \E k, l \in Range(keys) : k # l /\ XOnly(k) = XOnly(l)
          /\ DeserializePolicy(SerializePolicy) = [m |-> threshold, keys |-> keys]
          /\ DeserializeSignatures(SerializeSignatures) = gathered
    /\ \A n \in 0 .. Len(SerializePolicy) - 1 : DeserializePolicy(SubSeq(SerializePolicy, 1, n)).m = 0
    /\ LET tag == SerializeTag(blockTime, keys) IN
       /\ DeserializeTag(tag) = <<blockTime, keys>>
       /\ \A n \in 0 .. Len(tag) - 1 : DeserializeTag(SubSeq(tag, 1, n)) = <<0, <<>>>>
    /\ ValidateMemo(memo) <=> Len(memo) <= MAX_MEMO_SIZE /\ FALSE \notin Range(typedMemo)
=============================================================================
