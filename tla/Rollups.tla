------------------------------ MODULE Rollups ------------------------------
(***************************************************************************)
(* The second layer's chains of batches and blocks: the optimistic rollup     *)
(* with its fraud proofs, the zk rollup with its nullifiers and exits, the      *)
(* plasma chain with its exit game.                                           *)
(*                                                                          *)
(* SHA-256 is injective: a state root is the sequence of transactions hashed  *)
(* into it, the root of a zk state its set of accounts (the commitments are   *)
(* not hashed into it).  Malformed transactions are refused without a change   *)
(* of state and are not offered.                                             *)
(***************************************************************************)
EXTENDS Integers, FiniteSets, Sequences, Functions

CONSTANTS
    RollupTx,       \* transactions of the optimistic rollup
    Periods,        \* challenge periods that may be set; the first period is their maximum
    MaxBatches,     \* bound on batches of the optimistic rollup
    MaxBlocks,      \* bound on plasma blocks
    MaxPending,     \* bound on pending transactions
    MaxZkBatches,   \* bound on zk batches
    ZkTx,           \* transactions of the zk rollup, each with its nullifier
    ZkExiting,      \* the accounts that may ask for an exit
    PlasmaTxs,      \* the sets of transactions of plasma blocks
    MaxExits        \* bound on the exit requests of a transaction

ASSUME RollupAssumption ==
    /\ Periods \subseteq Nat /\ 0 \in Periods /\ {MaxBatches, MaxBlocks, MaxPending, MaxZkBatches, MaxExits} \subseteq Nat
    /\ \E p \in Periods : \A q \in Periods : q <= p
    /\ \A t \in ZkTx : t.nullifier \subseteq Nat /\ IsFiniteSet(t.nullifier)

VARIABLES
    rollup,     \* OptimisticRollup
    draft,      \* the batch an operator created and holds
    zk,         \* ZKRollup and its ZKRollupExitManager
    zkDraft,    \* the batch a zk operator created and holds
    plasma,     \* PlasmaChain
    withdrawn   \* per transaction: its exit requests, its payouts, what its last request promised
rollupVars == <<rollup, draft, zk, zkDraft, plasma, withdrawn>>

None == [none |-> TRUE]
NoRecords == [n \in {} |-> None]
FirstPeriod == CHOOSE p \in Periods : \A q \in Periods : q <= p

(* No method advances current_block_height_ *)
BlockHeight == 0

InitRollups ==
    /\ rollup = [current |-> 0, period |-> FirstPeriod, root |-> <<>>, batches |-> NoRecords,
                 pending |-> <<>>]
    /\ draft = None
    /\ zk = [current |-> 0, root |-> {}, batches |-> NoRecords, pending |-> <<>>, exits |-> NoRecords]
    /\ zkDraft = None
    /\ plasma = [current |-> 0, period |-> FirstPeriod, blocks |-> NoRecords, exits |-> NoRecords]
    /\ withdrawn = [t \in UNION PlasmaTxs |->
                      [requests |-> 0, payouts |-> 0, from |-> 0, wait |-> 0, answered |-> FALSE]]

Recorded(f, k, v) == [x \in DOMAIN f \cup {k} |-> IF x = k THEN v ELSE f[x]]
Removed(f, k) == [x \in DOMAIN f \ {k} |-> f[x]]

-----------------------------------------------------------------------------
(* RollupStateRoot, VerifyBatch, ReExecuteTransaction: one hash per transaction *)
RollupStateRoot(root, txs) == root \o txs

VerifyBatch(b) == b.txs # <<>> /\ b.signed /\ RollupStateRoot(b.before, b.txs) = b.after

AddRollupTransaction(t) ==
    /\ Len(rollup.pending) < MaxPending
    /\ rollup' = [rollup EXCEPT !.pending = Append(@, t)]
    /\ UNCHANGED <<draft, zk, zkDraft, plasma, withdrawn>>

(* The caller completes the batch with a root and a signature: wrong ones included *)
CreateBatch(after, signed) ==
    /\ rollup.current < MaxBatches
    /\ draft' = [id |-> rollup.current + 1, before |-> rollup.root, after |-> after,
                 txs |-> rollup.pending, signed |-> signed]
    /\ rollup' = [rollup EXCEPT !.pending = <<>>]
    /\ UNCHANGED <<zk, zkDraft, plasma, withdrawn>>

SubmitBatch ==
    /\ draft # None
    /\ draft.id = rollup.current + 1
    /\ rollup.current > 0 => draft.before = rollup.root
    /\ rollup' = [rollup EXCEPT
                    !.batches = Recorded(@, draft.id, [batch |-> draft, submitted |-> BlockHeight,
                                                   finalized |-> FALSE, challenged |-> FALSE]),
                    !.current = draft.id,
                    !.root = draft.after]
    /\ UNCHANGED <<draft, zk, zkDraft, plasma, withdrawn>>

(* index counts from 0; the roots of the proof are the challenger's *)
VerifyFraudProof(b, p) ==
    /\ p.index < Len(b.txs)
    /\ p.claimed # p.correct
    /\ RollupStateRoot(b.before, SubSeq(b.txs, 1, p.index + 1)) = p.correct

(* The last transaction is disputed.  For an empty batch the verifier reads the first of no  *)
(* transactions as a witness, which is undefined: at best it returns the proof given here      *)
GenerateFraudProof(b) ==
    [index |-> IF b.txs = <<>> THEN 0 ELSE Len(b.txs) - 1,
     claimed |-> b.after, correct |-> RollupStateRoot(b.before, b.txs)]

(* What the verifier generates for an invalid batch, and proofs against any of its            *)
(* transactions that name a root nobody submitted                                              *)
FraudProofs(b) ==
    (IF VerifyBatch(b) THEN {} ELSE {GenerateFraudProof(b)})
    \cup {[index |-> i - 1, claimed |-> <<"none">>, correct |-> RollupStateRoot(b.before, SubSeq(b.txs, 1, i))]
             : i \in DOMAIN b.txs}

(* Mutant: a final batch is challenged like any other *)
Challengeable_Always(entry) == TRUE

Challengeable(entry) == ~entry.finalized

SubmitFraudProof(id, p) ==
    LET entry == rollup.batches[id] IN
    /\ Challengeable(entry)
    /\ VerifyFraudProof(entry.batch, p)
    /\ LET marked == [rollup EXCEPT !.batches[id].challenged = TRUE]
       IN  rollup' = IF id # rollup.current THEN marked
                     ELSE [marked EXCEPT !.root = entry.batch.before, !.current = @ - 1]
    /\ UNCHANGED <<draft, zk, zkDraft, plasma, withdrawn>>

(* The batches below are not looked at *)
FinalizeBatch(id) ==
    LET entry == rollup.batches[id] IN
    /\ BlockHeight >= entry.submitted + rollup.period
    /\ ~entry.challenged
    /\ rollup' = [rollup EXCEPT !.batches[id].finalized = TRUE]
    /\ UNCHANGED <<draft, zk, zkDraft, plasma, withdrawn>>

SetRollupPeriod(p) ==
    /\ rollup' = [rollup EXCEPT !.period = p]
    /\ UNCHANGED <<draft, zk, zkDraft, plasma, withdrawn>>

RollupStep ==
    \/ \E t \in RollupTx : AddRollupTransaction(t)
    \/ \E signed \in BOOLEAN : \E after \in {RollupStateRoot(rollup.root, rollup.pending), <<"wrong">>} :
          CreateBatch(after, signed)
    \/ SubmitBatch
    \/ \E id \in DOMAIN rollup.batches :
          \/ \E p \in FraudProofs(rollup.batches[id].batch) : SubmitFraudProof(id, p)
          \/ FinalizeBatch(id)
    \/ \E p \in Periods : SetRollupPeriod(p)

-----------------------------------------------------------------------------
(* The zk rollup.  A node of the Merkle tree over the accounts, in their order, is the     *)
(* pair of its children; a level of odd length repeats its last node.                      *)
Rank(account, accounts) == Cardinality({a \in accounts : a < account})
Leaves(accounts) ==
    [i \in 1 .. Cardinality(accounts) |-> <<CHOOSE a \in accounts : Rank(a, accounts) = i - 1>>]
Padded(layer) == IF Len(layer) % 2 = 1 THEN Append(layer, layer[Len(layer)]) ELSE layer
Above(layer) ==
    [i \in 1 .. Len(Padded(layer)) \div 2 |-> <<Padded(layer)[2 * i - 1], Padded(layer)[2 * i]>>]

(* Layer upon layer; the loops stop at the first that is a single node *)
Layers(accounts) ==
    LET layer[n \in 0 .. Cardinality(accounts)] ==
            IF n = 0 THEN Leaves(accounts) ELSE Above(layer[n - 1])
    IN  layer
IsTop(layers, h) == Len(layers[h]) = 1 /\ \A n \in 0 .. h - 1 : Len(layers[n]) > 1
Height(accounts) == CHOOSE h \in 0 .. Cardinality(accounts) : IsTop(Layers(accounts), h)

ComputeMerkleRoot(accounts) == Layers(accounts)[Height(accounts)][1]

(* Where the path of the account passes each layer, counted from 0, and what is beside it *)
Indices(account, accounts) ==
    LET index[n \in 0 .. Cardinality(accounts)] ==
            IF n = 0 THEN Rank(account, accounts) ELSE index[n - 1] \div 2
    IN  index
Sibling(index) == IF index % 2 = 0 THEN index + 1 ELSE index - 1

(* BuildMerkleProof: per layer the sibling and whether it is the right one *)
GetMerkleProof(account, accounts) ==
    [n \in 1 .. Height(accounts) |->
        LET index == Indices(account, accounts)[n - 1]
        IN  [node |-> Padded(Layers(accounts)[n - 1])[Sibling(index) + 1], right |-> index % 2 = 0]]

Climbed(account, proof) ==
    LET node[n \in 0 .. Len(proof)] ==
            IF n = 0 THEN <<account>>
            ELSE IF proof[n].right THEN <<node[n - 1], proof[n].node>> ELSE <<proof[n].node, node[n - 1]>>
    IN  node[Len(proof)]

(* A zk proof is the inputs it was generated for *)
VerifyZkProof(proof, inputs) == proof = inputs

(* GenerateTransferProof adds its witness to the inputs of the transaction *)
TransactionInputs(t) == <<t>>
TransferProof(t, witness) == TransactionInputs(t) \o witness
AddZkTransaction(t, witness) ==
    /\ Len(zk.pending) < MaxPending
    /\ VerifyZkProof(TransferProof(t, witness), TransactionInputs(t))
    /\ zk' = [zk EXCEPT !.pending = Append(@, t)]
    /\ UNCHANGED <<rollup, draft, zkDraft, plasma, withdrawn>>

(* A used nullifier is refused *)
ApplyTransactions(accounts, txs) == accounts \cup UNION {t.nullifier : t \in Range(txs)}

(* The batch lists a refused transaction all the same; the state moves here, before the   *)
(* batch is submitted                                                                     *)
CreateZkBatch ==
    /\ zk.current < MaxZkBatches
    /\ LET after == ApplyTransactions(zk.root, zk.pending) IN
       /\ zkDraft' = [id |-> zk.current + 1, before |-> zk.root, after |-> after, txs |-> zk.pending,
                      signed |-> FALSE, proof |-> None]
       /\ zk' = [zk EXCEPT !.root = after, !.pending = <<>>]
    /\ UNCHANGED <<rollup, draft, plasma, withdrawn>>

BatchInputs(b) == [id |-> b.id, before |-> b.before, after |-> b.after, txs |-> b.txs, signed |-> b.signed]

(* The operator signs and proves the batch, in either order: the signature is proved, too *)
CompleteZkBatch(signsFirst) ==
    /\ zkDraft # None
    /\ LET signed == [zkDraft EXCEPT !.signed = TRUE]
       IN  zkDraft' = [signed EXCEPT !.proof = BatchInputs(IF signsFirst THEN signed ELSE zkDraft)]
    /\ UNCHANGED <<rollup, draft, zk, plasma, withdrawn>>

SubmitZkBatch ==
    /\ zkDraft # None
    /\ zkDraft.id = zk.current + 1
    /\ VerifyZkProof(zkDraft.proof, BatchInputs(zkDraft))
    /\ zkDraft.after = zk.root
    /\ zk' = [zk EXCEPT !.batches = Recorded(@, zkDraft.id, [batch |-> zkDraft, finalized |-> FALSE]),
                        !.current = zkDraft.id]
    /\ UNCHANGED <<rollup, draft, zkDraft, plasma, withdrawn>>

FinalizeZkBatch(id) ==
    /\ zk' = [zk EXCEPT !.batches[id].finalized = TRUE]
    /\ UNCHANGED <<rollup, draft, zkDraft, plasma, withdrawn>>

(* The path must lead to the root the request itself names *)
VerifyExitProof(account, accounts) ==
    Climbed(account, GetMerkleProof(account, accounts)) = ComputeMerkleRoot(accounts)

RequestZkExit(account) ==
    /\ VerifyExitProof(account, zk.root)
    /\ account \in DOMAIN zk.exits => zk.exits[account] = "processed"
    /\ zk' = [zk EXCEPT !.exits = Recorded(@, account, "pending")]
    /\ UNCHANGED <<rollup, draft, zkDraft, plasma, withdrawn>>

ProcessZkExit(account) ==
    /\ zk' = [zk EXCEPT !.exits[account] = "processed"]
    /\ UNCHANGED <<rollup, draft, zkDraft, plasma, withdrawn>>

ZkStep ==
    \/ \E t \in ZkTx, witness \in {<<>>, <<"secret">>} : AddZkTransaction(t, witness)
    \/ CreateZkBatch \/ SubmitZkBatch
    \/ \E signsFirst \in BOOLEAN : CompleteZkBatch(signsFirst)
    \/ \E id \in DOMAIN zk.batches : FinalizeZkBatch(id)
    \/ \E account \in zk.root \cap ZkExiting : RequestZkExit(account)
    \/ \E account \in DOMAIN zk.exits : ProcessZkExit(account)

-----------------------------------------------------------------------------
(* Plasma: the number of blocks is the clock of the exit game *)
SubmitBlock(txs) ==
    /\ plasma.current < MaxBlocks
    /\ plasma' = [plasma EXCEPT !.blocks = Recorded(@, plasma.current + 1, txs), !.current = @ + 1]
    /\ UNCHANGED <<rollup, draft, zk, zkDraft, withdrawn>>

(* An empty proof is refused, and the path of an only transaction is empty *)
VerifyMerkleProof(t, txs) == t \in txs /\ Cardinality(txs) > 1

(* A request replaces the one before it, with its challenge *)
RequestExit(t, n) ==
    /\ withdrawn[t].requests < MaxExits
    /\ VerifyMerkleProof(t, plasma.blocks[n])
    /\ plasma' = [plasma EXCEPT !.exits =
                     Recorded(@, t, [block |-> n, end |-> plasma.current + plasma.period,
                                 challenged |-> FALSE])]
    /\ withdrawn' = [withdrawn EXCEPT ![t] =
                       [requests |-> @.requests + 1, payouts |-> @.payouts, from |-> plasma.current,
                        wait |-> plasma.period, answered |-> FALSE]]
    /\ UNCHANGED <<rollup, draft, zk, zkDraft>>

(* The proof must name the transaction; a path, when given, must lead to its block *)
ChallengeExit(t) ==
    /\ plasma.current < plasma.exits[t].end
    /\ plasma' = [plasma EXCEPT !.exits[t].challenged = TRUE]
    /\ withdrawn' = [withdrawn EXCEPT ![t].answered = TRUE]
    /\ UNCHANGED <<rollup, draft, zk, zkDraft>>

FinalizeExit(t) ==
    LET exit == plasma.exits[t] IN
    /\ plasma.current >= exit.end
    /\ plasma' = [plasma EXCEPT !.exits = Removed(@, t)]
    /\ withdrawn' = IF exit.challenged THEN withdrawn
                    ELSE [withdrawn EXCEPT ![t].payouts = @ + 1]
    /\ UNCHANGED <<rollup, draft, zk, zkDraft>>

SetPlasmaPeriod(p) ==
    /\ plasma' = [plasma EXCEPT !.period = p]
    /\ UNCHANGED <<rollup, draft, zk, zkDraft, withdrawn>>

PlasmaStep ==
    \/ \E txs \in PlasmaTxs : SubmitBlock(txs)
    \/ \E n \in DOMAIN plasma.blocks : \E t \in plasma.blocks[n] : RequestExit(t, n)
    \/ \E t \in DOMAIN plasma.exits : ChallengeExit(t) \/ FinalizeExit(t)
    \/ \E p \in Periods : SetPlasmaPeriod(p)

RollupsSpec == InitRollups /\ [][RollupStep \/ ZkStep \/ PlasmaStep]_rollupVars

-----------------------------------------------------------------------------
RollupsTypeOK ==
    /\ DOMAIN rollup.batches \subseteq 1 .. MaxBatches /\ rollup.current \in 0 .. MaxBatches
    /\ DOMAIN zk.batches = 1 .. zk.current
    /\ DOMAIN plasma.blocks = 1 .. plasma.current
    /\ DOMAIN plasma.exits \subseteq UNION PlasmaTxs

(* Whatever is submitted, challenged and rolled back: the batches up to the current one *)
(* hash into one another and the root is the last one's; what is above it was challenged, *)
(* so it can never become final; of the signed batches the verifier finds invalid, the ones  *)
(* with transactions are open to the proof it generates, and the empty ones, whatever root    *)
(* they name, are not: an empty batch can never be challenged; the zk batches only ever add    *)
(* accounts, and every account of the state has a Merkle path to its root.                    *)
BatchesChain ==
    LET known == rollup.batches IN
    /\ 1 .. rollup.current \subseteq DOMAIN known
    /\ rollup.current > 0 => rollup.root = known[rollup.current].batch.after
    /\ \A n \in 2 .. rollup.current : known[n].batch.before = known[n - 1].batch.after
    /\ \A n \in DOMAIN known : n > rollup.current => known[n].challenged
    /\ \A n \in DOMAIN known :
          LET b == known[n].batch
          IN  /\ b.signed /\ ~VerifyBatch(b)
                    => (VerifyFraudProof(b, GenerateFraudProof(b)) <=> b.txs # <<>>)
              /\ b.txs = <<>> => ~known[n].challenged
    /\ \A n \in 1 .. zk.current :
          /\ zk.batches[n].batch.after \subseteq zk.root
          /\ n > 1 => zk.batches[n - 1].batch.after \subseteq zk.batches[n].batch.before
    /\ \A account \in zk.root : VerifyExitProof(account, zk.root)

(* What is final stays: a final batch is never replaced, challenged or rolled back *)
FinalBatchesStay ==
    \A n \in DOMAIN rollup.batches :
        rollup.batches[n].finalized => rollup'.batches[n] = rollup.batches[n] /\ n <= rollup'.current

(* An exit is paid at most once for every time it was requested, and never before the blocks *)
(* its last request had to wait, nor after a challenge of that request                      *)
ExitsAreDue ==
    \A t \in DOMAIN withdrawn :
        LET asked == withdrawn[t] IN
        withdrawn'[t].payouts # asked.payouts =>
            /\ asked.payouts < asked.requests
            /\ ~asked.answered /\ plasma.current >= asked.from + asked.wait

(* Whatever operators, challengers and users do, and in whatever order *)
FinalStands == []BatchesChain /\ [][FinalBatchesStay /\ ExitsAreDue]_rollupVars
=============================================================================
