------------------------------ MODULE Anchoring ------------------------------
(***************************************************************************)
(* How a finalised block of one layer reaches the layer below it: the stakes of  *)
(* the validators (consensus/pos_consensus.cpp of layers 2 and 3), the           *)
(* commitments their signatures make (common/serialization), the rules a         *)
(* commitment has to pass (ValidateL3Commit, ValidateL2Commit) and the relayers,  *)
(* which are told the last height and the active stake by their operator, at     *)
(* whatever moment that is read, and keep nothing.                             *)
(*                                                                          *)
(* Validators sign what they like, two blocks of one height included, each with  *)
(* the stake the table gives it at that moment, and are slashed at any moment    *)
(* after it.  A relayer checks no signature and knows no table: it takes a text   *)
(* from its command line, whoever wrote it, and asks only that its signatures are  *)
(* not empty and that the stakes as they are written suffice.                     *)
(*                                                                          *)
(* The text of a commitment is the sequence of its eight fields; the last one is  *)
(* a sequence of items, whose parts are the id, the stake and the signature.       *)
(* Names are without separators, and numerals are numbers.                        *)
(***************************************************************************)
EXTENDS Integers, Sequences, FiniteSets, Sums

CONSTANTS
    StakeHolder,        \* the validators
    InitialStake,       \* the table at genesis
    Relayer,
    FinalBlock,         \* <<height, hash>> of the blocks there are to sign
    TableOrder,         \* the order of the vector of validators
    StakeWord,          \* 2^64
    SlotShift,          \* 2^32, above every height
    WrittenStake,       \* stakes that somebody writes into a text
    MaxVotes, MaxSlashes, MaxSignatures, MaxAnchored    \* bounds

(* No token has a supply that three times its amount could not be counted: supply_policy.h *)
ASSUME AnchoringAssumption ==
    /\ IsFiniteSet(StakeHolder) /\ InitialStake \in [StakeHolder -> Nat]
    /\ TableOrder \in Seq(StakeHolder) /\ SlotShift \in Nat
    /\ MaxSlashes \in Nat /\ StakeWord \in Nat /\ 3 * Sum(InitialStake) < StakeWord
    /\ FinalBlock \subseteq (Nat \X STRING) /\ WrittenStake \subseteq Nat

VARIABLES
    source,     \* the chain whose blocks are committed
    stakes,     \* std::vector<Validator>: the stake of each
    votes,      \* the signatures there are: of whom, with which stake, for which block
    slashes,    \* history: how often somebody was slashed
    told,       \* the numbers on the command line of each relayer
    anchored    \* history: what was relayed, the active stake it was measured by, and how much of the
                \* stake it states has no vote behind it
anchorVars == <<source, stakes, votes, slashes, told, anchored>>

OBOLOS == "OBOLOS"
DRACHMA == "DRACHMA"

TotalActiveStake(table) == Sum(table) % StakeWord

(* Whose turn it is: the slot of a height, counted along the stakes in the order of the table.       *)
(* Without stake there is none, which is an exception.                                              *)
StakeUpTo(table) == [k \in 0 .. Len(TableOrder) |-> Sum([i \in 1 .. k |-> table[TableOrder[i]]])]
SelectDeterministicProposer(upTo, epoch, height) ==
    LET cursor == ((epoch * SlotShift + height) % StakeWord) % upTo[Len(TableOrder)]
    IN  TableOrder[CHOOSE k \in DOMAIN TableOrder : upTo[k - 1] <= cursor /\ cursor < upTo[k]]

-----------------------------------------------------------------------------
(* Slashing takes a twentieth or a tenth, rounded down; other reasons are an exception *)
SlashBips == [double_sign |-> 500, equivocation |-> 1000]
SlashedAmount(stake, reason) == ((stake * SlashBips[reason]) % StakeWord) \div 10000

ApplySlashing(v, reason) ==
    /\ slashes < MaxSlashes
    /\ stakes' = [stakes EXCEPT ![v] = @ - SlashedAmount(@, reason)]
    /\ slashes' = slashes + 1
    /\ UNCHANGED <<source, votes, told, anchored>>

(* A validator signs a block; nothing keeps it from signing another one of the same height *)
Signature(v, stake, at) == [id |-> v, stake |-> stake, at |-> at]
SignFinal(v) ==
    /\ Cardinality(votes) < MaxVotes
    /\ \E at \in FinalBlock : votes' = votes \cup {Signature(v, stakes[v], at)}
    /\ UNCHANGED <<source, stakes, slashes, told, anchored>>

-----------------------------------------------------------------------------
(* A commitment as it is built: BuildL3Commitment names nothing upstream *)
Commitment(chain, at, root, upstream, signatures) ==
    [source |-> chain, height |-> at[1], block |-> at[2], root |-> root, upstream |-> upstream,
     signatures |-> signatures]
BuildL3Commitment(at, root, signatures) == Commitment(OBOLOS, at, root, "", signatures)

Items(c) == [i \in DOMAIN c.signatures |-> <<c.signatures[i].id, c.signatures[i].stake, c.signatures[i].signature>>]
Text(c, items) == <<c.source, 0, c.height, c.block, c.root, "set", c.upstream, items>>
EncodeCommitment(c) == Text(c, Items(c))

(* The eighth field ends at the next colon, if there is one: one more colon at the very end is      *)
(* not noticed.  Empty items are passed over, so the signatures keep the places of their items.     *)
HasFields(text) == Len(text) = 8 \/ (Len(text) = 9 /\ text[9] = "")
Tuples(items) == {i \in DOMAIN items : items[i] # <<>>}
DecodeCommitment(text) ==
    [source |-> text[1], height |-> text[3], block |-> text[4], root |-> text[5], upstream |-> text[7],
     signatures |-> [i \in Tuples(text[8]) |->
                        [id |-> text[8][i][1], stake |-> text[8][i][2], signature |-> text[8][i][3]]]]

(* A hash is 64 hexadecimal digits; "short" is none *)
IsHash(h) == h \notin {"", "short"}
ValidatePayloadEncoding(c) ==
    /\ c.height # 0
    /\ IsHash(c.block) /\ IsHash(c.root)
    /\ DOMAIN c.signatures # {}
    /\ c.source = DRACHMA => c.upstream # ""
    /\ c.upstream # "" => IsHash(c.upstream)
    /\ \A i \in DOMAIN c.signatures : c.signatures[i].id # "" /\ c.signatures[i].signature # ""
DecodeOK(text) ==
    /\ HasFields(text)
    /\ text[1] \in {DRACHMA, OBOLOS}
    /\ \A i \in Tuples(text[8]) : Len(text[8][i]) = 3
    /\ ValidatePayloadEncoding(DecodeCommitment(text))

(* Of several signatures of one validator the first counts, with the stake it states *)
FirstOf(sigs, v) == CHOOSE i \in DOMAIN sigs : sigs[i].id = v /\ \A j \in DOMAIN sigs : sigs[j].id = v => i <= j
Signers(sigs) == {sigs[i].id : i \in DOMAIN sigs}
SignedStakeWeight(c) ==
    Sum([v \in Signers(c.signatures) |-> c.signatures[FirstOf(c.signatures, v)].stake]) % StakeWord

(* Two thirds, by multiplying crosswise; a product that does not fit is the largest number *)
Crosswise(n, factor) == IF n <= (StakeWord - 1) \div factor THEN n * factor ELSE StakeWord - 1
ValidateFinalityQuorum(c, active) ==
    active # 0 /\ Crosswise(SignedStakeWeight(c), 3) >= Crosswise(active, 2)

ValidateFrom(c, chain, last, active) ==
    /\ c.source = chain
    /\ c.height > last
    /\ ValidatePayloadEncoding(c)
    /\ ValidateFinalityQuorum(c, active)
ValidateL3Finality(c, last, active) == ValidateFrom(c, OBOLOS, last, active)
ValidateL3Commit(c, last, active) == ValidateFrom(c, OBOLOS, last, active)
ValidateL2Commit(c, anchor, active) == ValidateFrom(c, DRACHMA, anchor.last_finalized_height, active)

(* What a relayer of the one or of the other layer asks *)
Validated(c, args) ==
    IF source = OBOLOS THEN ValidateL3Commit(c, args.last, args.active)
    ELSE ValidateL2Commit(c, [last_finalized_height |-> args.last], args.active)

-----------------------------------------------------------------------------
(* The operator reads the last height the layer below has and the stakes, and starts the relayer *)
LastAnchored == IF anchored = {} THEN 0
                ELSE CHOOSE h \in {a.at[1] : a \in anchored} : \A a \in anchored : a.at[1] <= h
ReadState(r) ==
    /\ told' = [told EXCEPT ![r] = [last |-> LastAnchored, active |-> TotalActiveStake(stakes)]]
    /\ UNCHANGED <<source, stakes, votes, slashes, anchored>>

(* What is built of the votes for a block, and the text a relayer is given of it: whole, without its  *)
(* last field, or with a colon behind it                                                            *)
VotesFor(at) == {x \in votes : x.at = at}
Collected(at) ==
    UNION {[1 .. n -> {[id |-> x.id, stake |-> x.stake, signature |-> "signature"] : x \in VotesFor(at)}] :
             n \in 0 .. MaxSignatures}
Upstream == {"", "short", "up"}
Built(at) ==
    IF source = OBOLOS
    THEN {BuildL3Commitment(at, root, sigs) : root \in {"root", "short"}, sigs \in Collected(at)}
    ELSE {Commitment(DRACHMA, at, "root", up, sigs) : up \in Upstream, sigs \in Collected(at)}
Forms(text) == {text, SubSeq(text, 1, 7), Append(text, "")}

(* Or one somebody wrote: any name with any stake, no signature, a part missing, nothing at all *)
Item(at) ==
    {<<x.id, x.stake, "signature">> : x \in VotesFor(at)}
    \cup (StakeHolder \X WrittenStake \X {"signature"})
    \cup {<<>>, <<"", 1, "signature">>, <<"nobody", 1, "">>, <<"nobody", 1>>}
Handwritten(at) ==
    {Text(Commitment(source, at, "root", "up", <<>>), items) : items \in UNION {[1 .. n -> Item(at)] : n \in 0 .. MaxSignatures}}
Given(at) == Handwritten(at) \cup UNION {Forms(EncodeCommitment(c)) : c \in Built(at)}

(* The part of the stated stake that no vote on record stands for *)
OnRecord(sig, at) == \E x \in VotesFor(at) : x.id = sig.id /\ x.stake = sig.stake
Invented(c) ==
    LET sigs == c.signatures
        unknown == {v \in Signers(sigs) : ~OnRecord(sigs[FirstOf(sigs, v)], <<c.height, c.block>>)}
    IN  Sum([v \in unknown |-> sigs[FirstOf(sigs, v)].stake])

(* main: the text is decoded and validated, and relayed as it is encoded again *)
Relay(r) ==
    /\ Cardinality(anchored) < MaxAnchored
    /\ \E at \in FinalBlock : \E text \in Given(at) :
          /\ DecodeOK(text)
          /\ LET c == DecodeCommitment(text) IN
             /\ Validated(c, told[r])
             /\ anchored' = anchored \cup
                    {[at |-> <<c.height, c.block>>, active |-> told[r].active, invented |-> Invented(c)]}
    /\ UNCHANGED <<source, stakes, votes, slashes, told>>

InitAnchoring ==
    /\ source \in {OBOLOS, DRACHMA} /\ stakes = InitialStake
    /\ votes = {} /\ slashes = 0 /\ anchored = {}
    /\ told = [r \in Relayer |-> [last |-> 0, active |-> TotalActiveStake(InitialStake)]]

AnchoringStep ==
    \/ \E v \in StakeHolder : SignFinal(v)
    \/ \E v \in StakeHolder, reason \in DOMAIN SlashBips : ApplySlashing(v, reason)
    \/ \E r \in Relayer : ReadState(r) \/ Relay(r)

AnchoringSpec == InitAnchoring /\ [][AnchoringStep]_anchorVars

-----------------------------------------------------------------------------
AnchoringTypeOK ==
    /\ source \in {OBOLOS, DRACHMA} /\ slashes \in 0 .. MaxSlashes
    /\ stakes \in [StakeHolder -> Nat] /\ \A v \in StakeHolder : stakes[v] <= InitialStake[v]
    /\ \A x \in votes : x.id \in StakeHolder /\ x.stake \in 0 .. InitialStake[x.id]
    /\ DOMAIN told = Relayer /\ \A r \in Relayer : told[r].active \in 0 .. Sum(InitialStake)

(* Two blocks of one height are both relayed only when validators are on record who signed both, with *)
(* what the two quorums must have in common of the stake at genesis, however often signatures are      *)
(* repeated, stakes are cut or read late: a third of it when nobody was slashed.  A relayer does not    *)
(* verify signatures, so whatever stake a text states without a vote behind it is missing from that:    *)
(* of two texts that state votes only nothing is.                                                    *)
Signed(at) == {x.id : x \in VotesFor(at)}
StakeOf(S) == Sum([v \in S |-> InitialStake[v]])
Accountable(a, b) ==
    a.at[1] = b.at[1] /\ a.at # b.at =>
        3 * StakeOf(Signed(a.at) \cap Signed(b.at)) + 3 * (Sum(InitialStake) + a.invented + b.invented)
            >= 2 * (a.active + b.active)

(* Over as many heights as there is stake every validator proposes as often as it has stake *)
TurnsFollowStake ==
    LET upTo == StakeUpTo(stakes)
        total == upTo[Len(TableOrder)] IN
    \A epoch \in 0 .. 1 : \A v \in StakeHolder :
        Cardinality({h \in 0 .. total - 1 : SelectDeterministicProposer(upTo, epoch, h) = v}) = stakes[v]

AnchorsAreAccountable == \A a, b \in anchored : Accountable(a, b)
=============================================================================
