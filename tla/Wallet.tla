------------------------------- MODULE Wallet -------------------------------
(***************************************************************************)
(* wallet/wallet.cpp beside the chain that Node::ProcessBlock (core/node/    *)
(* node.cpp) tells it of.  A block first changes the coins of the chain and   *)
(* is passed to the wallet afterwards, except a mined one, which never is.    *)
(* The threads of two peers take wallet_mutex_ only after their blocks are    *)
(* connected, so that the wallet may see blocks in another order.             *)
(*                                                                          *)
(* Keys are derived from a seed and a counter: address n is the n-th of the   *)
(* wallet, also of one made anew from the same seed; 0 is anybody else's.     *)
(* There is one asset; signatures and maturity are abstracted.  Transactions  *)
(* that differ have different identifiers; one without inputs, a coinbase,    *)
(* may stand in two blocks, and then names the same coins again.              *)
(***************************************************************************)
EXTENDS Integers, Sequences, SequencesExt, FiniteSets, FiniteSetsExt, Functions

CONSTANTS
    Offered,        \* transactions of others: [id, ins, outs], with positive identifiers
    Payments,       \* the <<amount, fee>> the wallet is asked to pay
    MaxAddresses,   \* bound on the addresses
    MaxCreated,     \* bound on the transactions the wallet makes
    MaxStored,      \* bound on the blocks
    MaxListed       \* bound on the entries that stored blocks are added to

ASSUME WalletAssumption ==
    /\ {MaxAddresses, MaxCreated, MaxStored, MaxListed} \subseteq Nat /\ Payments \subseteq Nat \X Nat
    /\ \A t \in Offered : \A i \in DOMAIN t.outs : t.outs[i] \in [to : Nat, amount : Nat]

VARIABLES
    ledger,     \* the chain's unspent coins: outpoint to output
    stored,     \* the blocks of the chain, each a sequence of transactions
    pending,    \* the blocks that are connected and not yet passed to the wallet
    addresses,  \* next_index_
    published,  \* history: the highest address ever given out
    utxos,      \* utxos_
    created,    \* history: the transactions the wallet made
    following   \* history: whether the wallet was told of everything, once
walletVars == <<ledger, stored, pending, addresses, published, utxos, created, following>>

InitWallet ==
    /\ ledger = [o \in {} |-> 0] /\ stored = <<>> /\ pending = <<>>
    /\ addresses = 0 /\ published = 0 /\ utxos = <<>> /\ created = {} /\ following = TRUE

OutsOf(t) == {<<t.id, i>> : i \in DOMAIN t.outs}

(* The coins after the transactions of a block, one after the other: a coin that is *)
(* there already is overwritten                                                     *)
Apply(coins, t) == [o \in (DOMAIN coins \ t.ins) \cup OutsOf(t) |->
                       IF o \in OutsOf(t) THEN t.outs[o[2]] ELSE coins[o]]
CoinsAfter(b) == FoldLeft(Apply, ledger, b)
IsOurs(out) == out.to \in 1 .. addresses

-----------------------------------------------------------------------------
GenerateAddress ==
    /\ addresses < MaxAddresses
    /\ addresses' = addresses + 1
    /\ published' = Max({published, addresses + 1})
    /\ following' = (following /\ addresses >= published)
    /\ UNCHANGED <<ledger, stored, pending, utxos, created>>

(* A wallet made from the same seed, as after a restart of the daemon *)
Restore ==
    /\ addresses' = 0 /\ utxos' = <<>>
    /\ following' = (published = 0)
    /\ UNCHANGED <<ledger, stored, pending, published, created>>

(* Node::ValidateAndApplyBlock, with the inputs unspent and the outputs to addresses given *)
(* out; a transaction may spend what an earlier one of its block pays                      *)
Valid(b) ==
    \A i \in DOMAIN b :
       /\ b[i].ins \subseteq DOMAIN CoinsAfter(SubSeq(b, 1, i - 1))
       /\ b[i].ins = {} => i = 1
       /\ \A k \in DOMAIN b[i].outs : b[i].outs[k].to <= published

(* A transaction of the block is one the chain has already, with the same coins *)
Repeats(b) == \E n \in DOMAIN stored : Range(b) \cap Range(stored[n]) # {}

ConnectWalletBlock(b, mined) ==
    /\ Valid(b) /\ Len(stored) < MaxStored
    /\ ledger' = CoinsAfter(b)
    /\ stored' = Append(stored, b)
    /\ pending' = IF mined THEN pending ELSE Append(pending, b)
    /\ following' = (following /\ ~mined /\ ~Repeats(b))
    /\ UNCHANGED <<addresses, published, utxos, created>>

-----------------------------------------------------------------------------
(* Mutant: the loop over the inputs ends with the first *)
Marked_First(es, t) ==
    IF t.ins = {} THEN es ELSE
    LET o == CHOOSE x \in t.ins : TRUE IN
    [i \in DOMAIN es |-> IF es[i].out = o THEN [es[i] EXCEPT !.spent = TRUE] ELSE es[i]]

(* MarkSpent for every input: the first entry of the outpoint only *)
Marked(es, t) ==
    [i \in DOMAIN es |->
        IF es[i].out \in t.ins /\ ~\E j \in 1 .. i - 1 : es[j].out = es[i].out
        THEN [es[i] EXCEPT !.spent = TRUE] ELSE es[i]]

EntryOf(o, out) == [out |-> o, amount |-> out.amount, spent |-> FALSE]

(* AddUTXO for every output that is ours, whether or not it is there already *)
Added(es, t) ==
    FoldLeft(LAMBDA acc, i : IF IsOurs(t.outs[i])
                             THEN Append(acc, EntryOf(<<t.id, i>>, t.outs[i])) ELSE acc,
             es, [i \in DOMAIN t.outs |-> i])

Processed(es, b) == FoldLeft(LAMBDA acc, t : Added(Marked(acc, t), t), es, b)

(* A block overtakes one it spends from *)
Overtakes(n) ==
    \E i \in 1 .. n - 1 : \E t \in Range(pending[i]) : \E u \in Range(pending[n]) :
       u.ins \cap OutsOf(t) # {}

(* Under wallet_mutex_, by whichever thread takes it *)
ProcessPending(n) ==
    /\ n \in DOMAIN pending
    /\ utxos' = Processed(utxos, pending[n])
    /\ pending' = RemoveAt(pending, n)
    /\ following' = (following /\ ~Overtakes(n))
    /\ UNCHANGED <<ledger, stored, addresses, published, created>>

(* SyncWithChain: an order of the coins is the address, then the outpoint, which nothing here *)
(* depends on.  A block that is still to be passed will be counted twice.                     *)
SyncWithChain ==
    LET ours == {o \in DOMAIN ledger : IsOurs(ledger[o])}
    IN  /\ utxos' = [i \in 1 .. Cardinality(ours) |->
                           LET o == SetToSeq(ours)[i] IN EntryOf(o, ledger[o])]
        /\ following' = (pending = <<>>)
        /\ UNCHANGED <<ledger, stored, pending, addresses, published, created>>

(* Node::SyncWalletWithChain: all stored blocks, into the entries that are there *)
SyncWalletWithChain ==
    /\ Len(utxos) <= MaxListed
    /\ utxos' = FoldLeft(LAMBDA acc, b : Processed(acc, b), utxos, stored)
    /\ following' = /\ utxos = <<>> /\ pending = <<>> /\ addresses >= published
                    /\ \A m, n \in DOMAIN stored : m # n => Range(stored[m]) \cap Range(stored[n]) = {}
    /\ UNCHANGED <<ledger, stored, pending, addresses, published, created>>

-----------------------------------------------------------------------------
Spendable(es) == SelectSeq(es, LAMBDA e : ~e.spent)
Total(es) == FoldLeft(LAMBDA acc, e : acc + e.amount, 0, es)

(* First fit: the shortest prefix of the unspent entries that is enough, or nothing *)
SelectCoins(amount) ==
    LET free == Spendable(utxos)
        enough == {n \in 1 .. Len(free) : Total(SubSeq(free, 1, n)) >= amount}
    IN  IF enough = {} THEN <<>> ELSE SubSeq(free, 1, Min(enough))

(* The coins selected are not marked: the next transaction takes the same *)
CreateTransaction(amount, fee) ==
    LET selected == SelectCoins(amount + fee)
        change == Total(selected) - amount - fee
        pay    == <<[to |-> 0, amount |-> amount]>>
        tx     == [id |-> -(Cardinality(created) + 1),
                   ins |-> {selected[i].out : i \in DOMAIN selected},
                   outs |-> IF change > 0
                            THEN Append(pay, [to |-> addresses + 1, amount |-> change]) ELSE pay]
    IN  /\ selected # <<>> /\ Cardinality(created) < MaxCreated
        /\ created' = created \cup {tx}
        /\ IF change > 0
           THEN /\ addresses < MaxAddresses
                /\ addresses' = addresses + 1
                /\ published' = Max({published, addresses + 1})
                /\ following' = (following /\ addresses >= published)
           ELSE UNCHANGED <<addresses, published, following>>
        /\ UNCHANGED <<ledger, stored, pending, utxos>>

WalletStep ==
    \/ GenerateAddress \/ Restore \/ SyncWithChain \/ SyncWalletWithChain
    \/ \E n \in 1 .. MaxStored : ProcessPending(n)
    \/ \E payment \in Payments : CreateTransaction(payment[1], payment[2])
    \/ \E mined \in BOOLEAN : \E t \in Offered \cup created :
          \/ ConnectWalletBlock(<<t>>, mined)
          \/ \E u \in Offered \cup created : ConnectWalletBlock(<<t, u>>, mined)

-----------------------------------------------------------------------------
WalletTypeOK ==
    /\ addresses \in 0 .. MaxAddresses /\ published \in addresses .. MaxAddresses
    /\ \A i \in DOMAIN utxos : utxos[i].amount \in Nat /\ utxos[i].spent \in BOOLEAN
    /\ Cardinality(created) <= MaxCreated

(* A wallet that was told of every block once, or synchronised with the coins and told of   *)
(* the rest, lists as unspent the coins of the chain that pay it, each once: its balance is  *)
(* what it can spend, whatever it sent, received as change or was sent in between, and       *)
(* whichever thread tells it of a block first.  Two cases are excepted, as the code gets     *)
(* them wrong until it synchronises again: a block that overtakes one it spends from, whose  *)
(* coin is entered after it was marked spent, and a coinbase that the chain has twice, which *)
(* is entered twice and marked once.                                                         *)
WalletMatchesChain ==
    following /\ pending = <<>> =>
       LET free == Spendable(utxos) IN
       /\ {free[i].out : i \in DOMAIN free} = {o \in DOMAIN ledger : IsOurs(ledger[o])}
       /\ \A i, j \in DOMAIN free : i # j => free[i].out # free[j].out
       /\ \A i \in DOMAIN free : free[i].amount = ledger[free[i].out].amount
=============================================================================
