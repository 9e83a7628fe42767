----------------------------- MODULE ChainProofs ----------------------------
(***************************************************************************)
(* For any transactions, blocks, issuance schedule and height: what        *)
(* Chain::ConnectBlock and Chain::DisconnectBlock do to a chain, and that  *)
(* its height, tip, block index, supply and UTXO set stay those of the     *)
(* blocks on it, whatever is connected, refused, disconnected, restored;   *)
(* and that the coins of every asset stay within what was issued.          *)
(***************************************************************************)
EXTENDS Chain, SequenceTheorems

-----------------------------------------------------------------------------
(* The loops of ConnectBlock and DisconnectBlock *)

Body(b)  == Tail(BlockTxs[b])
Start(c, b) == [ok |-> TRUE, undo |-> <<>>, utxo |-> AddOutputs(c.utxo, Coinbase(b), c.height + 1, TRUE)]

(* A work list of the loop over N transactions *)
IsWork(g, start, txs, h, N) ==
    g = [n \in 0 .. N |-> IF n = 0 THEN start ELSE ConnectTx(g[n - 1], txs[n], h)]

IsUndoWork(g, start, txs, N) ==
    g = [n \in 0 .. N |-> IF n = N THEN start ELSE DisconnectTx(txs[n + 1], g[n + 1])]

(* A work list exists for the body of every block, however long: each entry *)
(* is what ConnectTx makes of the one before.                                *)
LEMMA ConnectingExists ==
    ASSUME NEW start, NEW txs, NEW h, NEW N \in Nat
    PROVE  \E g : IsWork(g, start, txs, h, N)
<1> DEFINE T == {m \in 0 .. N : ~ \E g : g = [n \in 0 .. m |-> IF n = 0 THEN start ELSE ConnectTx(g[n - 1], txs[n], h)]}
<1>1. SUFFICES ASSUME T # {} PROVE FALSE
    BY DEF IsWork
<1>2. PICK m \in T : \A y \in T : m <= y
    <2>1. T \subseteq Nat
        OBVIOUS
    <2> HIDE DEF T
    <2> QED
        BY <1>1, <2>1, LeastNumber
<1>3. CASE m = 0
    <2> DEFINE g == [n \in 0 .. 0 |-> start]
    <2>1. g = [n \in 0 .. 0 |-> IF n = 0 THEN start ELSE ConnectTx(g[n - 1], txs[n], h)]
        OBVIOUS
    <2> HIDE DEF g
    <2> QED
        BY <1>2, <1>3, <2>1
<1>4. CASE m # 0
    <2>1. m - 1 \in 0 .. N /\ m \in 0 .. N /\ m - 1 \notin T
        <3>1. m \in 0 .. N
            OBVIOUS
        <3> HIDE DEF T
        <3> QED
            BY <1>2, <1>4, <3>1
    <2>2. PICK g : g = [n \in 0 .. m - 1 |-> IF n = 0 THEN start ELSE ConnectTx(g[n - 1], txs[n], h)]
        BY <2>1
    <2> DEFINE w == [n \in 0 .. m |-> IF n = m THEN ConnectTx(g[m - 1], txs[m], h) ELSE g[n]]
    <2>3. ASSUME NEW n \in 0 .. m PROVE w[n] = IF n = 0 THEN start ELSE ConnectTx(w[n - 1], txs[n], h)
        <3>1. CASE n = m
            BY <1>4, <2>1, <3>1
        <3>2. CASE n # m
            <4>1. n \in 0 .. m - 1 /\ w[n] = g[n]
                BY <2>1, <3>2
            <4>2. n # 0 => w[n - 1] = g[n - 1]
                BY <2>1, <3>2
            <4>3. g[n] = IF n = 0 THEN start ELSE ConnectTx(g[n - 1], txs[n], h)
                BY <2>2, <4>1
            <4> QED
                BY <4>1, <4>2, <4>3
        <3> QED
            BY <3>1, <3>2
    <2>4. w = [n \in 0 .. m |-> IF n = 0 THEN start ELSE ConnectTx(w[n - 1], txs[n], h)]
        BY <2>3
    <2> HIDE DEF w
    <2> QED
        BY <1>2, <2>4
<1> QED
    BY <1>3, <1>4

(* The same from the last transaction to the first *)
LEMMA DisconnectingExists ==
    ASSUME NEW start, NEW txs, NEW N \in Nat
    PROVE  \E g : IsUndoWork(g, start, txs, N)
<1> DEFINE T == {m \in 0 .. N : ~ \E g : g = [n \in N - m .. N |-> IF n = N THEN start ELSE DisconnectTx(txs[n + 1], g[n + 1])]}
<1>1. SUFFICES ASSUME T # {} PROVE FALSE
    <2>1. N \notin T => \E g : g = [n \in N - N .. N |-> IF n = N THEN start ELSE DisconnectTx(txs[n + 1], g[n + 1])]
        OBVIOUS
    <2>2. N - N = 0
        OBVIOUS
    <2> QED
        BY <2>1, <2>2 DEF IsUndoWork
<1>2. PICK m \in T : \A y \in T : m <= y
    <2>1. T \subseteq Nat
        OBVIOUS
    <2> HIDE DEF T
    <2> QED
        BY <1>1, <2>1, LeastNumber
<1>3. CASE m = 0
    <2> DEFINE g == [n \in N - m .. N |-> start]
    <2>1. g = [n \in N - m .. N |-> IF n = N THEN start ELSE DisconnectTx(txs[n + 1], g[n + 1])]
        BY <1>3
    <2> HIDE DEF g
    <2> QED
        BY <1>2, <1>3, <2>1
<1>4. CASE m # 0
    <2>1. m - 1 \in 0 .. N /\ m \in 0 .. N /\ m - 1 \notin T
        <3>1. m \in 0 .. N
            OBVIOUS
        <3> HIDE DEF T
        <3> QED
            BY <1>2, <1>4, <3>1
    <2>2. PICK g : g = [n \in N - (m - 1) .. N |-> IF n = N THEN start ELSE DisconnectTx(txs[n + 1], g[n + 1])]
        BY <2>1
    <2> DEFINE k == N - m
               w == [n \in k .. N |-> IF n = k THEN DisconnectTx(txs[k + 1], g[k + 1]) ELSE g[n]]
    <2>3. ASSUME NEW n \in k .. N PROVE w[n] = IF n = N THEN start ELSE DisconnectTx(txs[n + 1], w[n + 1])
        <3>1. CASE n = k
            <4>1. n # N /\ n + 1 \in k .. N /\ n + 1 # k
                BY <1>4, <2>1, <3>1
            <4> QED
                BY <3>1, <4>1
        <3>2. CASE n # k
            <4>1. n \in N - (m - 1) .. N /\ w[n] = g[n]
                BY <2>1, <3>2
            <4>2. n # N => w[n + 1] = g[n + 1]
                BY <2>1, <3>2
            <4>3. g[n] = IF n = N THEN start ELSE DisconnectTx(txs[n + 1], g[n + 1])
                BY <2>2, <4>1
            <4> QED
                BY <4>1, <4>2, <4>3
        <3> QED
            BY <3>1, <3>2
    <2>4. w = [n \in k .. N |-> IF n = N THEN start ELSE DisconnectTx(txs[n + 1], w[n + 1])]
        BY <2>3
    <2> HIDE DEF w
    <2> QED
        BY <1>2, <2>4
<1> QED
    BY <1>3, <1>4

(* The loop of ConnectBlock, entry by entry *)
LEMMA ConnectingSteps ==
    ASSUME NEW c, NEW b, Len(Body(b)) \in Nat
    PROVE  LET f == Connecting(c, b) IN
           /\ f[0] = Start(c, b)
           /\ \A n \in 1 .. Len(Body(b)) : f[n] = ConnectTx(f[n - 1], Body(b)[n], c.height + 1)
<1> DEFINE N == Len(Body(b))
           h == c.height + 1
           f == Connecting(c, b)
<1>1. \E g : IsWork(g, Start(c, b), Body(b), h, N)
    BY ConnectingExists
<1>2. f = [n \in 0 .. N |-> IF n = 0 THEN Start(c, b) ELSE ConnectTx(f[n - 1], Body(b)[n], h)]
    BY <1>1, Zenon DEF Connecting, Body, Start, IsWork
<1> HIDE DEF f
<1>3. f[0] = Start(c, b) /\ \A n \in 1 .. N : f[n] = ConnectTx(f[n - 1], Body(b)[n], h)
    BY <1>2
<1> QED
    BY <1>3 DEF f

(* The loop of DisconnectBlock, entry by entry *)
LEMMA DisconnectingSteps ==
    ASSUME NEW c, NEW b, NEW undo, Len(Body(b)) \in Nat
    PROVE  LET f == Disconnecting(c, b, undo) IN
           /\ f[Len(Body(b))] = [ok |-> TRUE, undo |-> undo, utxo |-> c.utxo]
           /\ \A n \in 0 .. Len(Body(b)) - 1 : f[n] = DisconnectTx(Body(b)[n + 1], f[n + 1])
<1> DEFINE N == Len(Body(b))
           start == [ok |-> TRUE, undo |-> undo, utxo |-> c.utxo]
           f == Disconnecting(c, b, undo)
<1>1. \E g : IsUndoWork(g, start, Body(b), N)
    BY DisconnectingExists
<1>2. f = [n \in 0 .. N |-> IF n = N THEN start ELSE DisconnectTx(Body(b)[n + 1], f[n + 1])]
    BY <1>1, Zenon DEF Disconnecting, Body, IsUndoWork
<1> HIDE DEF f, start
<1>3. f[N] = start /\ \A n \in 0 .. N - 1 : f[n] = DisconnectTx(Body(b)[n + 1], f[n + 1])
    BY <1>2
<1> QED
    BY <1>3 DEF start, f

-----------------------------------------------------------------------------
(* The types of what the loops work on *)

LowCoin == [output : Output, height : 1 .. MaxHeight, coinbase : BOOLEAN]
Records == Seq(Seq(LowCoin))

IsCoinMap(u) == u \in [DOMAIN u -> LowCoin] /\ DOMAIN u \subseteq OutPoint

IsWorkState(s) ==
    /\ s = [ok |-> s.ok, undo |-> s.undo, utxo |-> s.utxo]
    /\ s.ok \in BOOLEAN /\ s.undo \in Records /\ IsCoinMap(s.utxo)

(* A transaction has the outpoints of its outputs, and they are outpoints *)
LEMMA OutPointsTyped ==
    ASSUME NEW t \in Tx
    PROVE  /\ OutPointsOf(t) \subseteq OutPoint
           /\ \A p \in OutPointsOf(t) : p[1] = t /\ p[2] \in DOMAIN TxOutputs[t]
           /\ \A p \in OutPointsOf(t) : TxOutputs[t][p[2]] \in Output
<1>1. TxOutputs[t] \in Seq(Output)
    BY PrimitivesAssumption
<1>2. DOMAIN TxOutputs[t] \subseteq Nat /\ \A i \in DOMAIN TxOutputs[t] : TxOutputs[t][i] \in Output
    BY <1>1, LenProperties
<1> QED
    BY <1>2 DEF OutPointsOf, OutPoint

(* AddOutputs adds the coins of the outputs and removes none *)
LEMMA AddOutputsTyped ==
    ASSUME NEW u, IsCoinMap(u), NEW t \in Tx, NEW h \in 1 .. MaxHeight, NEW coinbase \in BOOLEAN
    PROVE  /\ IsCoinMap(AddOutputs(u, t, h, coinbase))
           /\ DOMAIN AddOutputs(u, t, h, coinbase) = DOMAIN u \cup OutPointsOf(t)
           /\ \A p \in DOMAIN u \ OutPointsOf(t) : AddOutputs(u, t, h, coinbase)[p] = u[p]
<1> DEFINE new == [p \in OutPointsOf(t) |-> [output |-> TxOutputs[t][p[2]], height |-> h, coinbase |-> coinbase]]
           w == AddOutputs(u, t, h, coinbase)
<1>1. \A p \in OutPointsOf(t) : new[p] \in LowCoin
    BY OutPointsTyped DEF LowCoin
<1>2. w = [x \in DOMAIN new \cup DOMAIN u |-> IF x \in DOMAIN new THEN new[x] ELSE u[x]]
    BY DEF AddOutputs, Over
<1>3. DOMAIN new = OutPointsOf(t)
    OBVIOUS
<1> HIDE DEF new, w
<1>4. /\ DOMAIN w = DOMAIN u \cup OutPointsOf(t)
      /\ \A p \in DOMAIN w : w[p] = IF p \in OutPointsOf(t) THEN new[p] ELSE u[p]
      /\ w = [p \in DOMAIN w |-> w[p]]
    BY <1>2, <1>3
<1>5. OutPointsOf(t) \subseteq OutPoint
    BY OutPointsTyped
<1>6. \A p \in DOMAIN w : w[p] \in LowCoin
    BY <1>1, <1>4 DEF IsCoinMap
<1>7. IsCoinMap(w)
    BY <1>4, <1>5, <1>6 DEF IsCoinMap
<1> QED
    BY <1>4, <1>7 DEF w

(* RemoveCoins removes the coins of a set of outpoints and no other *)
LEMMA RemoveCoinsTyped ==
    ASSUME NEW u, IsCoinMap(u), NEW ps
    PROVE  /\ IsCoinMap(RemoveCoins(u, ps))
           /\ DOMAIN RemoveCoins(u, ps) = DOMAIN u \ ps
           /\ \A p \in DOMAIN u \ ps : RemoveCoins(u, ps)[p] = u[p]
BY DEF IsCoinMap, RemoveCoins, Restrict

(* The inputs of a transaction are a sequence of outpoints *)
LEMMA InputsTyped ==
    ASSUME NEW t \in Tx
    PROVE  /\ TxInputs[t] \in Seq(OutPoint) /\ Len(TxInputs[t]) \in Nat
           /\ DOMAIN TxInputs[t] = 1 .. Len(TxInputs[t])
           /\ Range(TxInputs[t]) \subseteq OutPoint
           /\ \A p : p \in Range(TxInputs[t]) <=> \E i \in DOMAIN TxInputs[t] : TxInputs[t][i] = p
<1>1. TxInputs[t] \in Seq(OutPoint)
    BY PrimitivesAssumption
<1>2. DOMAIN TxInputs[t] = 1 .. Len(TxInputs[t]) /\ Len(TxInputs[t]) \in Nat
    BY <1>1, LenProperties
<1>3. \A i \in DOMAIN TxInputs[t] : TxInputs[t][i] \in OutPoint
    BY <1>1, <1>2
<1> QED
    BY <1>1, <1>2, <1>3 DEF Range

(* The undo record of a transaction whose inputs are all coins: the coin of each *)
LEMMA InputCoinsTyped ==
    ASSUME NEW u, IsCoinMap(u), NEW t \in Tx, Range(TxInputs[t]) \subseteq DOMAIN u
    PROVE  /\ InputCoins(u, t) \in Seq(LowCoin)
           /\ Len(InputCoins(u, t)) = Len(TxInputs[t])
           /\ \A i \in DOMAIN TxInputs[t] : InputCoins(u, t)[i] = u[TxInputs[t][i]]
<1> DEFINE n == Len(TxInputs[t])
           coins == InputCoins(u, t)
<1>1. coins = [i \in 1 .. n |-> u[TxInputs[t][i]]] /\ n \in Nat
    BY InputsTyped DEF InputCoins
<1>2. \A i \in 1 .. n : u[TxInputs[t][i]] \in LowCoin
    BY InputsTyped DEF IsCoinMap, Range
<1> HIDE DEF coins
<1>3. coins \in [1 .. n -> LowCoin]
    BY <1>1, <1>2
<1>4. coins \in Seq(LowCoin) /\ Len(coins) = n
    BY <1>1, <1>3
<1> QED
    BY <1>1, <1>4, InputsTyped DEF coins

(* Restored gives back a coin for every input *)
LEMMA RestoredTyped ==
    ASSUME NEW t \in Tx, NEW coins \in Seq(LowCoin), Len(coins) = Len(TxInputs[t])
    PROVE  /\ DOMAIN Restored(t, coins) = Range(TxInputs[t])
           /\ IsCoinMap(Restored(t, coins))
           /\ \A p \in Range(TxInputs[t]) : \E i \in DOMAIN TxInputs[t] :
                 TxInputs[t][i] = p /\ Restored(t, coins)[p] = coins[i]
<1>1. DOMAIN coins = DOMAIN TxInputs[t] /\ \A i \in DOMAIN coins : coins[i] \in LowCoin
    BY InputsTyped
<1>2. ASSUME NEW p \in Range(TxInputs[t])
      PROVE  LET i == CHOOSE j \in DOMAIN coins : TxInputs[t][j] = p IN i \in DOMAIN coins /\ TxInputs[t][i] = p
    <2>1. \E j \in DOMAIN coins : TxInputs[t][j] = p
        BY <1>1 DEF Range
    <2> QED
        BY <2>1
<1>3. /\ DOMAIN Restored(t, coins) = Range(TxInputs[t])
      /\ Restored(t, coins) = [p \in DOMAIN Restored(t, coins) |-> Restored(t, coins)[p]]
      /\ \A p \in Range(TxInputs[t]) : Restored(t, coins)[p] = coins[CHOOSE i \in DOMAIN coins : TxInputs[t][i] = p]
    BY DEF Restored
<1>4. \A p \in Range(TxInputs[t]) : \E i \in DOMAIN TxInputs[t] : TxInputs[t][i] = p /\ Restored(t, coins)[p] = coins[i]
    BY <1>1, <1>2, <1>3
<1>5. \A p \in Range(TxInputs[t]) : Restored(t, coins)[p] \in LowCoin
    BY <1>1, <1>4
<1>6. Range(TxInputs[t]) \subseteq OutPoint
    BY InputsTyped
<1>7. IsCoinMap(Restored(t, coins))
    BY <1>3, <1>5, <1>6 DEF IsCoinMap
<1> QED
    BY <1>3, <1>4, <1>7

-----------------------------------------------------------------------------
(* One transaction connected and taken back *)

(* A transaction that spends coins and is valid finds all its inputs *)
LEMMA ValidFindsInputs ==
    ASSUME NEW u, NEW t, NEW h, ValidateTransaction(u, t, h), ~IsCoinbase(t)
    PROVE  Range(TxInputs[t]) \subseteq DOMAIN u
BY DEF ValidateTransaction

(* ConnectTx, when it succeeds: one more undo record, the inputs gone, the outputs there *)
LEMMA ConnectTxWorks ==
    ASSUME NEW s, IsWorkState(s), NEW t \in Tx, ~IsCoinbase(t), NEW h \in 1 .. MaxHeight, ConnectTx(s, t, h).ok
    PROVE  LET r == ConnectTx(s, t, h) IN
           /\ s.ok /\ IsWorkState(r)
           /\ Range(TxInputs[t]) \subseteq DOMAIN s.utxo
           /\ r.undo = Append(s.undo, InputCoins(s.utxo, t))
           /\ r.utxo = AddOutputs(RemoveCoins(s.utxo, Range(TxInputs[t])), t, h, FALSE)
           /\ DOMAIN r.utxo = (DOMAIN s.utxo \ Range(TxInputs[t])) \cup OutPointsOf(t)
<1> DEFINE r == ConnectTx(s, t, h)
           rest == RemoveCoins(s.utxo, Range(TxInputs[t]))
<1>1. s.ok /\ ValidateTransaction(s.utxo, t, h)
    <2> SUFFICES ASSUME ~s.ok \/ ~ValidateTransaction(s.utxo, t, h) PROVE FALSE
        OBVIOUS
    <2>1. r = [s EXCEPT !.ok = FALSE]
        BY DEF ConnectTx
    <2>2. ~r.ok
        BY <2>1 DEF IsWorkState
    <2> QED
        BY <2>2
<1>2. r = [ok |-> TRUE, undo |-> Append(s.undo, InputCoins(s.utxo, t)), utxo |-> AddOutputs(rest, t, h, FALSE)]
    BY <1>1 DEF ConnectTx
<1>3. Range(TxInputs[t]) \subseteq DOMAIN s.utxo
    BY <1>1, ValidFindsInputs
<1>4. IsCoinMap(s.utxo) /\ s.undo \in Records
    BY DEF IsWorkState
<1>5. IsCoinMap(rest) /\ DOMAIN rest = DOMAIN s.utxo \ Range(TxInputs[t])
    BY <1>4, RemoveCoinsTyped
<1>6. IsCoinMap(AddOutputs(rest, t, h, FALSE)) /\ DOMAIN AddOutputs(rest, t, h, FALSE) = DOMAIN rest \cup OutPointsOf(t)
    BY <1>5, AddOutputsTyped
<1>7. Append(s.undo, InputCoins(s.utxo, t)) \in Records
    BY <1>3, <1>4, InputCoinsTyped DEF Records
<1> HIDE DEF r, rest
<1>8. IsWorkState(r)
    BY <1>2, <1>6, <1>7 DEF IsWorkState
<1>9. /\ r.undo = Append(s.undo, InputCoins(s.utxo, t))
      /\ r.utxo = AddOutputs(rest, t, h, FALSE)
      /\ DOMAIN r.utxo = (DOMAIN s.utxo \ Range(TxInputs[t])) \cup OutPointsOf(t)
    BY <1>2, <1>5, <1>6
<1> QED
    BY <1>1, <1>3, <1>8, <1>9 DEF r, rest

(* ConnectTx, when it fails, leaves the work as it was *)
LEMMA ConnectTxFails ==
    ASSUME NEW s, IsWorkState(s), NEW t, NEW h, ~ConnectTx(s, t, h).ok
    PROVE  /\ IsWorkState(ConnectTx(s, t, h))
           /\ ConnectTx(s, t, h).utxo = s.utxo /\ ConnectTx(s, t, h).undo = s.undo
<1>1. ConnectTx(s, t, h) = [s EXCEPT !.ok = FALSE]
    BY DEF ConnectTx
<1> QED
    BY <1>1 DEF IsWorkState

(* The last record of a longer undo list, and what is left without it *)
LEMMA LastOfAppended ==
    ASSUME NEW S, NEW seq \in Seq(S), NEW e \in S
    PROVE  /\ Append(seq, e) # <<>> /\ Last(Append(seq, e)) = e
           /\ Front(Append(seq, e)) = seq
<1> DEFINE w == Append(seq, e)
<1>1. /\ w \in Seq(S) /\ w # <<>> /\ Len(w) = Len(seq) + 1 /\ Len(seq) \in Nat
      /\ \A i \in 1 .. Len(seq) : w[i] = seq[i]
      /\ w[Len(seq) + 1] = e
    BY AppendProperties, LenProperties
<1> HIDE DEF w
<1>2. Last(w) = e
    BY <1>1 DEF Last
<1>3. SubSeq(w, 1, Len(w) - 1) = seq
    <2>1. \A i \in 1 .. Len(seq) : w[i] \in S
        BY <1>1
    <2>2. Len(w) - 1 = Len(seq)
        BY <1>1
    <2>3. /\ SubSeq(w, 1, Len(seq)) \in Seq(S)
          /\ Len(SubSeq(w, 1, Len(seq))) = IF 1 <= Len(seq) THEN Len(seq) - 1 + 1 ELSE 0
          /\ \A i \in 1 .. Len(seq) - 1 + 1 : SubSeq(w, 1, Len(seq))[i] = w[1 + i - 1]
        BY <1>1, <2>1, SubSeqProperties
    <2>4. Len(SubSeq(w, 1, Len(seq))) = Len(seq)
        BY <1>1, <2>3
    <2>5. \A i \in 1 .. Len(seq) : SubSeq(w, 1, Len(seq))[i] = seq[i]
        BY <1>1, <2>3
    <2>6. SubSeq(w, 1, Len(seq)) = seq
        BY <2>3, <2>4, <2>5, SeqEqual
    <2> QED
        BY <2>2, <2>6
<1> QED
    BY <1>1, <1>2, <1>3 DEF Front, w

(* DisconnectTx undoes a ConnectTx whose outputs replaced nothing *)
LEMMA DisconnectUndoesTx ==
    ASSUME NEW s, IsWorkState(s), NEW t \in Tx, ~IsCoinbase(t), NEW h \in 1 .. MaxHeight, ConnectTx(s, t, h).ok,
           OutPointsOf(t) \cap DOMAIN s.utxo = {}
    PROVE  DisconnectTx(t, ConnectTx(s, t, h)) = s
<1> DEFINE r == ConnectTx(s, t, h)
           spent == Range(TxInputs[t])
           coins == InputCoins(s.utxo, t)
           rest == RemoveCoins(s.utxo, spent)
           removed == RemoveCoins(r.utxo, OutPointsOf(t))
           back == Over(Restored(t, coins), removed)
<1>1. /\ s.ok /\ IsWorkState(r) /\ spent \subseteq DOMAIN s.utxo
      /\ r.undo = Append(s.undo, coins) /\ r.utxo = AddOutputs(rest, t, h, FALSE)
    BY ConnectTxWorks
<1>2. /\ s = [ok |-> s.ok, undo |-> s.undo, utxo |-> s.utxo] /\ s.ok \in BOOLEAN
      /\ IsCoinMap(s.utxo) /\ s.undo \in Seq(Seq(LowCoin)) /\ IsCoinMap(r.utxo)
    BY <1>1 DEF IsWorkState, Records
<1>3. /\ coins \in Seq(LowCoin) /\ Len(coins) = Len(TxInputs[t])
      /\ \A i \in DOMAIN TxInputs[t] : coins[i] = s.utxo[TxInputs[t][i]]
    BY <1>1, <1>2, InputCoinsTyped
<1>4. r.undo # <<>> /\ Last(r.undo) = coins /\ Front(r.undo) = s.undo
    BY <1>1, <1>2, <1>3, LastOfAppended
<1>5. IsCoinMap(rest) /\ DOMAIN rest = DOMAIN s.utxo \ spent /\ \A p \in DOMAIN s.utxo \ spent : rest[p] = s.utxo[p]
    BY <1>2, RemoveCoinsTyped
<1>6. /\ DOMAIN r.utxo = DOMAIN rest \cup OutPointsOf(t)
      /\ \A p \in DOMAIN rest \ OutPointsOf(t) : r.utxo[p] = rest[p]
    <2>1. /\ DOMAIN AddOutputs(rest, t, h, FALSE) = DOMAIN rest \cup OutPointsOf(t)
          /\ \A p \in DOMAIN rest \ OutPointsOf(t) : AddOutputs(rest, t, h, FALSE)[p] = rest[p]
        <3> HIDE DEF r, rest
        <3>1. FALSE \in BOOLEAN
            OBVIOUS
        <3> QED
            BY ONLY <1>5, <3>1, t \in Tx, h \in 1 .. MaxHeight, AddOutputsTyped
    <2> HIDE DEF r, rest
    <2> QED
        BY <1>1, <2>1
<1>7. DOMAIN removed = DOMAIN r.utxo \ OutPointsOf(t) /\ \A p \in DOMAIN r.utxo \ OutPointsOf(t) : removed[p] = r.utxo[p]
    BY <1>2, RemoveCoinsTyped
<1>8. DOMAIN removed = DOMAIN s.utxo \ spent /\ \A p \in DOMAIN s.utxo \ spent : removed[p] = s.utxo[p]
    <2> HIDE DEF r, rest, removed, spent
    <2> QED
        BY <1>5, <1>6, <1>7
<1>9. /\ DOMAIN Restored(t, coins) = spent
      /\ \A p \in spent : Restored(t, coins)[p] = s.utxo[p]
    <2>1. /\ DOMAIN Restored(t, coins) = spent
          /\ \A p \in spent : \E i \in DOMAIN TxInputs[t] : TxInputs[t][i] = p /\ Restored(t, coins)[p] = coins[i]
        BY <1>3, RestoredTyped
    <2> HIDE DEF coins, spent
    <2> QED
        BY <1>3, <2>1
<1>10. back = s.utxo
    <2>1. back = [x \in spent \cup DOMAIN removed |-> IF x \in spent THEN Restored(t, coins)[x] ELSE removed[x]]
        BY <1>9 DEF Over
    <2>2. s.utxo = [x \in DOMAIN s.utxo |-> s.utxo[x]]
        BY <1>2 DEF IsCoinMap
    <2>3. spent \cup DOMAIN removed = DOMAIN s.utxo
        BY <1>1, <1>8
    <2> HIDE DEF back, removed, spent, coins
    <2> QED
        BY <1>8, <1>9, <2>1, <2>2, <2>3
<1>11. DisconnectTx(t, r) = [ok |-> TRUE, undo |-> Front(r.undo), utxo |-> back]
    <2>1. r.ok
        OBVIOUS
    <2>2. Last(r.undo) = coins /\ ~(r.undo = <<>> \/ Len(coins) # Len(TxInputs[t]))
        BY <1>3, <1>4
    <2> HIDE DEF r, coins
    <2> QED
        BY <2>1, <2>2 DEF DisconnectTx
<1> HIDE DEF r, back
<1>12. DisconnectTx(t, r) = [ok |-> TRUE, undo |-> s.undo, utxo |-> s.utxo]
    BY <1>4, <1>10, <1>11
<1>13. s = [ok |-> TRUE, undo |-> s.undo, utxo |-> s.utxo]
    BY <1>1, <1>2
<1> QED
    BY <1>12, <1>13 DEF r

-----------------------------------------------------------------------------
(* What holds of a number and of the one before any, holds from there down *)
LEMMA CountDown ==
    ASSUME NEW N \in Nat, NEW T, N \in T, \A n \in 0 .. N - 1 : n + 1 \in T => n \in T
    PROVE  0 .. N \subseteq T
<1> DEFINE U == {m \in 0 .. N : N - m \in T}
<1>1. 0 \in U
    OBVIOUS
<1>2. ASSUME NEW n \in 1 .. N, n - 1 \in U PROVE n \in U
    <2>1. N - n \in 0 .. N - 1 /\ (N - n) + 1 = N - (n - 1)
        OBVIOUS
    <2>2. N - (n - 1) \in T
        BY <1>2
    <2>3. N - n \in T
        BY <2>1, <2>2
    <2> QED
        BY <2>3
<1>3. 0 .. N \subseteq U
    <2> HIDE DEF U
    <2> QED
        BY <1>1, <1>2, CountUp
<1>4. ASSUME NEW n \in 0 .. N PROVE n \in T
    <2>1. N - n \in 0 .. N /\ N - (N - n) = n
        OBVIOUS
    <2>2. N - n \in U
        BY <1>3, <2>1
    <2> QED
        BY <2>1, <2>2
<1> QED
    BY <1>4

(* A valid block: a coinbase, then transactions that spend coins *)
LEMMA BlockParts ==
    ASSUME NEW b \in Block, BlockIsValid(b)
    PROVE  /\ Coinbase(b) \in Tx /\ IsCoinbase(Coinbase(b)) /\ OutPointsOf(Coinbase(b)) \subseteq Created(b)
           /\ Body(b) \in Seq(Tx) /\ Len(Body(b)) \in Nat
           /\ \A n \in 1 .. Len(Body(b)) :
                 /\ Body(b)[n] \in Tx /\ ~IsCoinbase(Body(b)[n])
                 /\ Range(TxInputs[Body(b)[n]]) # {}
                 /\ OutPointsOf(Body(b)[n]) \subseteq Created(b)
<1> DEFINE txs == BlockTxs[b]
<1>1. txs \in Seq(Tx) /\ txs # <<>>
    BY PrimitivesAssumption DEF BlockIsValid
<1>2. /\ Len(txs) \in Nat /\ DOMAIN txs = 1 .. Len(txs) /\ Head(txs) = txs[1] /\ 1 \in DOMAIN txs
      /\ Head(txs) \in Tx /\ Body(b) \in Seq(Tx) /\ Len(Body(b)) = Len(txs) - 1
      /\ \A n \in 1 .. Len(Body(b)) : Body(b)[n] = txs[n + 1]
    BY <1>1, HeadTailProperties, LenProperties DEF Body
<1>3. Len(Body(b)) \in Nat /\ DOMAIN Body(b) = 1 .. Len(Body(b))
    BY <1>2, LenProperties
<1>4. \A t \in Range(txs) : OutPointsOf(t) \subseteq Created(b)
    BY DEF Created
<1>5. Coinbase(b) \in Range(txs)
    BY <1>2 DEF Coinbase, Range
<1>6. ASSUME NEW n \in 1 .. Len(Body(b))
      PROVE  /\ Body(b)[n] \in Tx /\ ~IsCoinbase(Body(b)[n])
             /\ Range(TxInputs[Body(b)[n]]) # {} /\ OutPointsOf(Body(b)[n]) \subseteq Created(b)
    <2> DEFINE t == Body(b)[n]
    <2>1. n + 1 \in DOMAIN txs /\ t = txs[n + 1] /\ t \in Tx
        BY <1>2, <1>3
    <2>2. t \in Range(txs) /\ t \in Range(Tail(txs))
        BY <1>3, <2>1 DEF Range, Body
    <2> HIDE DEF t
    <2>3. ~IsCoinbase(t) /\ TxIsValid(t)
        BY <2>2 DEF BlockIsValid
    <2>4. TxInputs[t] # <<>>
        BY <2>3 DEF TxIsValid
    <2>5. TxInputs[t] \in Seq(OutPoint) /\ DOMAIN TxInputs[t] = 1 .. Len(TxInputs[t]) /\ Len(TxInputs[t]) \in Nat
        BY <2>1, InputsTyped
    <2>6. 1 \in DOMAIN TxInputs[t]
        BY <2>4, <2>5
    <2>7. Range(TxInputs[t]) # {}
        BY <2>6 DEF Range
    <2>8. OutPointsOf(t) \subseteq Created(b)
        BY <1>4, <2>2
    <2> QED
        BY <2>1, <2>3, <2>7, <2>8 DEF t
<1>7. IsCoinbase(Coinbase(b)) /\ Coinbase(b) \in Tx
    BY <1>2 DEF BlockIsValid, Coinbase
<1> QED
    BY <1>2, <1>3, <1>4, <1>5, <1>6, <1>7

-----------------------------------------------------------------------------
(* The body of a block connected and taken back *)

(* A block offered to a chain that has room for it *)
Fits(c, b) == IsCoinMap(c.utxo) /\ c.height + 1 \in 1 .. MaxHeight /\ b \in Block /\ BlockIsValid(b)

(* Every state of the loop is typed, and none failed before one that succeeded *)
LEMMA LoopTyped ==
    ASSUME NEW c, NEW b, Fits(c, b)
    PROVE  LET f == Connecting(c, b)
               N == Len(Body(b))
           IN  /\ \A n \in 0 .. N : IsWorkState(f[n])
               /\ f[N].ok => \A n \in 0 .. N : f[n].ok
               /\ f[0].ok /\ f[0].undo = <<>>
               /\ f[0].utxo = AddOutputs(c.utxo, Coinbase(b), c.height + 1, TRUE)
               /\ DOMAIN f[0].utxo = DOMAIN c.utxo \cup OutPointsOf(Coinbase(b))
<1> DEFINE f == Connecting(c, b)
           N == Len(Body(b))
           h == c.height + 1
           T == {n \in 0 .. N : IsWorkState(f[n])}
           U == {n \in 0 .. N : f[n].ok}
           coins == AddOutputs(c.utxo, Coinbase(b), h, TRUE)
<1>1. /\ Coinbase(b) \in Tx /\ N \in Nat
      /\ \A n \in 1 .. N : Body(b)[n] \in Tx /\ ~IsCoinbase(Body(b)[n])
    BY BlockParts DEF Fits
<1>2. f[0] = Start(c, b) /\ \A n \in 1 .. N : f[n] = ConnectTx(f[n - 1], Body(b)[n], h)
    BY <1>1, ConnectingSteps
<1>3. IsCoinMap(coins) /\ DOMAIN coins = DOMAIN c.utxo \cup OutPointsOf(Coinbase(b))
    BY <1>1, AddOutputsTyped DEF Fits
<1> HIDE DEF f, N, coins
<1>4. f[0] = [ok |-> TRUE, undo |-> <<>>, utxo |-> coins]
    BY <1>2 DEF Start, coins
<1>5. <<>> \in Records
    BY DEF Records
<1>6. IsWorkState(f[0])
    BY <1>3, <1>4, <1>5 DEF IsWorkState
<1>7. ASSUME NEW n \in 1 .. N, IsWorkState(f[n - 1]) PROVE IsWorkState(f[n]) /\ (f[n].ok => f[n - 1].ok)
    <2> DEFINE t == Body(b)[n]
    <2>1. t \in Tx /\ ~IsCoinbase(t) /\ h \in 1 .. MaxHeight /\ f[n] = ConnectTx(f[n - 1], t, h)
        BY <1>1, <1>2 DEF Fits
    <2> HIDE DEF t, h
    <2>2. CASE ConnectTx(f[n - 1], t, h).ok
        BY <1>7, <2>1, <2>2, ConnectTxWorks
    <2>3. CASE ~ConnectTx(f[n - 1], t, h).ok
        BY <1>7, <2>1, <2>3, ConnectTxFails
    <2> QED
        BY <2>2, <2>3
<1>8. 0 .. N \subseteq T
    <2>1. 0 \in T
        BY <1>1, <1>6
    <2>2. \A n \in 1 .. N : n - 1 \in T => n \in T
        BY <1>1, <1>7
    <2> HIDE DEF T
    <2> QED
        BY <1>1, <2>1, <2>2, CountUp
<1>9. ASSUME f[N].ok PROVE \A n \in 0 .. N : f[n].ok
    <2>1. N \in U
        BY <1>1, <1>9
    <2>2. ASSUME NEW n \in 0 .. N - 1, n + 1 \in U PROVE n \in U
        <3>1. n + 1 \in 1 .. N /\ (n + 1) - 1 = n /\ n \in 0 .. N
            BY <1>1
        <3>2. IsWorkState(f[n])
            BY <1>8, <3>1
        <3>3. f[n].ok
            BY <1>7, <2>2, <3>1, <3>2
        <3> QED
            BY <3>1, <3>3
    <2>3. 0 .. N \subseteq U
        <3> HIDE DEF U
        <3> QED
            BY <1>1, <2>1, <2>2, CountDown
    <2> QED
        BY <2>3
<1>10. \A n \in 0 .. N : IsWorkState(f[n])
    BY <1>8
<1>11. f[0].ok /\ f[0].undo = <<>> /\ f[0].utxo = coins
    BY <1>4
<1> QED
    BY <1>3, <1>9, <1>10, <1>11 DEF f, N, coins

(* A block whose outputs are all new holds no transaction twice: the second   *)
(* would spend what the first spent.  So the outputs of each of its           *)
(* transactions are new when ConnectBlock comes to them.                      *)
LEMMA LoopFresh ==
    ASSUME NEW c, NEW b, Fits(c, b), Created(b) \cap DOMAIN c.utxo = {},
           Connecting(c, b)[Len(Body(b))].ok
    PROVE  \A n \in 1 .. Len(Body(b)) : OutPointsOf(Body(b)[n]) \cap DOMAIN Connecting(c, b)[n - 1].utxo = {}
<1> DEFINE f == Connecting(c, b)
           N == Len(Body(b))
           h == c.height + 1
           body(n) == Body(b)[n]
           Done(n) == {Coinbase(b)} \cup {body(k) : k \in 1 .. n}
           Old(n, p) == p \in DOMAIN c.utxo \/ p[1] \in Done(n)
           A(n) == \A p \in DOMAIN f[n].utxo : Old(n, p)
           B(n) == \A k \in 1 .. n : body(k) \notin Done(k - 1)
           D(n) == \A k \in 1 .. n : \A p \in Range(TxInputs[body(k)]) : p \notin DOMAIN f[n].utxo /\ Old(n, p)
           T == {n \in 0 .. N : A(n) /\ B(n) /\ D(n)}
<1>1. /\ Coinbase(b) \in Tx /\ IsCoinbase(Coinbase(b)) /\ N \in Nat
      /\ \A n \in 1 .. N : /\ body(n) \in Tx /\ ~IsCoinbase(body(n))
                           /\ Range(TxInputs[body(n)]) # {} /\ OutPointsOf(body(n)) \subseteq Created(b)
    BY BlockParts DEF Fits
<1>2. \A n \in 1 .. N : f[n] = ConnectTx(f[n - 1], body(n), h)
    BY <1>1, ConnectingSteps
<1>3. /\ \A n \in 0 .. N : IsWorkState(f[n]) /\ f[n].ok
      /\ DOMAIN f[0].utxo = DOMAIN c.utxo \cup OutPointsOf(Coinbase(b))
    BY LoopTyped
<1>4. h \in 1 .. MaxHeight
    BY DEF Fits
<1> HIDE DEF f, N, h
<1>5. 0 \in T
    <2>1. \A p \in OutPointsOf(Coinbase(b)) : p[1] = Coinbase(b)
        BY <1>1, OutPointsTyped
    <2>2. A(0)
        BY <1>3, <2>1
    <2>3. B(0) /\ D(0)
        OBVIOUS
    <2> QED
        BY <1>1, <2>2, <2>3
<1>6. ASSUME NEW n \in 1 .. N, n - 1 \in T
      PROVE  OutPointsOf(body(n)) \cap DOMAIN f[n - 1].utxo = {} /\ n \in T
    <2> DEFINE m == n - 1
               t == body(n)
               ins == Range(TxInputs[t])
    <2>1. m \in 0 .. N /\ n \in 0 .. N /\ A(m) /\ B(m) /\ D(m) /\ 1 .. n = 1 .. m \cup {n} /\ n - 1 = m
        BY <1>1, <1>6
    <2>2. t \in Tx /\ ~IsCoinbase(t) /\ ins # {} /\ OutPointsOf(t) \subseteq Created(b)
        BY <1>1
    <2>3. IsWorkState(f[m]) /\ f[n] = ConnectTx(f[m], t, h) /\ f[n].ok
        BY <1>2, <1>3, <2>1
    <2>4. ins \subseteq DOMAIN f[m].utxo /\ DOMAIN f[n].utxo = (DOMAIN f[m].utxo \ ins) \cup OutPointsOf(t)
        <3> DEFINE s == f[m]
        <3>1. ConnectTx(s, t, h).ok /\ IsWorkState(s) /\ t \in Tx /\ ~IsCoinbase(t)
            BY <2>2, <2>3
        <3> HIDE DEF m, t, s, T, A, B, D
        <3>2. /\ Range(TxInputs[t]) \subseteq DOMAIN s.utxo
              /\ DOMAIN ConnectTx(s, t, h).utxo = (DOMAIN s.utxo \ Range(TxInputs[t])) \cup OutPointsOf(t)
            BY <1>4, <3>1, ConnectTxWorks
        <3> USE DEF s
        <3> QED
            BY <2>3, <3>2
    <2>5. \A p \in OutPointsOf(t) : p[1] = t /\ p \notin DOMAIN c.utxo
        BY <2>2, OutPointsTyped
    <2>6. t \notin Done(m)
        <3>1. t # Coinbase(b)
            BY <1>1, <2>2
        <3>2. ASSUME NEW k \in 1 .. m, t = body(k) PROVE FALSE
            <4>1. PICK p \in ins : TRUE
                BY <2>2
            <4>2. p \in Range(TxInputs[body(k)])
                BY <3>2, <4>1
            <4>3. p \notin DOMAIN f[m].utxo
                <5> HIDE DEF m, t, ins, Old
                <5> QED
                    BY <2>1, <4>2
            <4> QED
                BY <2>4, <4>1, <4>3
        <3> QED
            BY <3>1, <3>2
    <2> HIDE DEF m, t, ins
    <2>7. \A p : Old(m, p) => p \notin OutPointsOf(t)
        BY <2>5, <2>6
    <2>8. \A p : Old(m, p) => Old(n, p)
        BY <2>1
    <2>9. OutPointsOf(t) \cap DOMAIN f[m].utxo = {}
        <3> HIDE DEF Old
        <3> QED
            BY <2>1, <2>7
    <2>10. A(n)
        <3>1. ASSUME NEW p \in DOMAIN f[n].utxo PROVE Old(n, p)
            <4>1. CASE p \in DOMAIN f[m].utxo
                <5> HIDE DEF Old
                <5> QED
                    BY <2>1, <2>8, <4>1
            <4>2. CASE p \in OutPointsOf(t)
                <5>1. p[1] = body(n) /\ n \in 1 .. n
                    BY <2>1, <2>5, <4>2 DEF t
                <5> QED
                    BY <5>1
            <4> QED
                BY <2>4, <4>1, <4>2
        <3> QED
            BY <3>1
    <2>11. B(n)
        <3>1. body(n) \notin Done(n - 1)
            BY <2>1, <2>6 DEF t
        <3>2. \A k \in 1 .. m : body(k) \notin Done(k - 1)
            BY <2>1
        <3>3. \A k \in 1 .. n : k \in 1 .. m \/ k = n
            BY <2>1
        <3> HIDE DEF body, Done
        <3> QED
            BY <3>1, <3>2, <3>3
    <2>12. D(n)
        <3>1. ASSUME NEW k \in 1 .. n, NEW p \in Range(TxInputs[body(k)])
              PROVE  p \notin DOMAIN f[n].utxo /\ Old(n, p)
            <4>1. CASE k \in 1 .. m
                <5>1. p \notin DOMAIN f[m].utxo /\ Old(m, p)
                    <6> HIDE DEF Old
                    <6> QED
                        BY <2>1, <4>1
                <5> HIDE DEF Old
                <5> QED
                    BY <2>4, <2>7, <2>8, <5>1
            <4>2. CASE k = n
                <5>1. p \in ins
                    BY <4>2 DEF ins, t
                <5>2. Old(m, p)
                    <6> HIDE DEF Old
                    <6> QED
                        BY <2>1, <2>4, <5>1
                <5> HIDE DEF Old
                <5> QED
                    BY <2>4, <2>7, <2>8, <5>1, <5>2
            <4> QED
                BY <2>1, <4>1, <4>2
        <3> QED
            BY <3>1
    <2>13. n \in T
        <3> HIDE DEF A, B, D
        <3> QED
            BY <2>1, <2>10, <2>11, <2>12
    <2> QED
        BY <2>1, <2>9, <2>13 DEF m, t
<1>7. 0 .. N \subseteq T
    <2> HIDE DEF T
    <2> QED
        BY <1>1, <1>5, <1>6, CountUp
<1>8. ASSUME NEW n \in 1 .. N PROVE OutPointsOf(body(n)) \cap DOMAIN f[n - 1].utxo = {}
    <2>1. n - 1 \in T
        <3> HIDE DEF T
        <3> QED
            BY <1>1, <1>7
    <2> QED
        BY <1>6, <2>1
<1> QED
    BY <1>8 DEF f, N

(* From the state of the loop after the last transaction, DisconnectBlock comes *)
(* back to its first state, if no output of the block replaced a coin.          *)
LEMMA LoopUndone ==
    ASSUME NEW c, NEW b, Fits(c, b), Created(b) \cap DOMAIN c.utxo = {},
           Connecting(c, b)[Len(Body(b))].ok,
           NEW d, d.utxo = Connecting(c, b)[Len(Body(b))].utxo
    PROVE  Disconnecting(d, b, Connecting(c, b)[Len(Body(b))].undo)[0] = Connecting(c, b)[0]
<1> DEFINE f == Connecting(c, b)
           N == Len(Body(b))
           h == c.height + 1
           g == Disconnecting(d, b, f[N].undo)
           T == {n \in 0 .. N : g[n] = f[n]}
<1>1. N \in Nat /\ \A n \in 1 .. N : Body(b)[n] \in Tx /\ ~IsCoinbase(Body(b)[n])
    BY BlockParts DEF Fits
<1>2. \A n \in 1 .. N : f[n] = ConnectTx(f[n - 1], Body(b)[n], h)
    BY <1>1, ConnectingSteps
<1>3. /\ g[N] = [ok |-> TRUE, undo |-> f[N].undo, utxo |-> d.utxo]
      /\ \A n \in 0 .. N - 1 : g[n] = DisconnectTx(Body(b)[n + 1], g[n + 1])
    BY <1>1, DisconnectingSteps
<1>4. \A n \in 0 .. N : IsWorkState(f[n]) /\ f[n].ok
    BY LoopTyped
<1>5. \A n \in 1 .. N : OutPointsOf(Body(b)[n]) \cap DOMAIN f[n - 1].utxo = {}
    BY LoopFresh
<1>6. h \in 1 .. MaxHeight /\ d.utxo = f[N].utxo
    BY DEF Fits
<1> HIDE DEF f, N, h, g
<1>7. N \in T
    <2>1. IsWorkState(f[N]) /\ f[N].ok
        BY <1>1, <1>4
    <2>2. f[N] = [ok |-> f[N].ok, undo |-> f[N].undo, utxo |-> f[N].utxo] /\ f[N].ok \in BOOLEAN
        BY <2>1 DEF IsWorkState
    <2> QED
        BY <1>1, <1>3, <1>6, <2>1, <2>2
<1>8. ASSUME NEW n \in 0 .. N - 1, n + 1 \in T PROVE n \in T
    <2> DEFINE t == Body(b)[n + 1]
               s == f[n]
    <2>1. n + 1 \in 1 .. N /\ (n + 1) - 1 = n /\ n \in 0 .. N
        BY <1>1
    <2>2. t \in Tx /\ ~IsCoinbase(t) /\ f[n + 1] = ConnectTx(s, t, h) /\ f[n + 1].ok
        BY <1>1, <1>2, <1>4, <2>1
    <2>3. IsWorkState(s) /\ OutPointsOf(t) \cap DOMAIN s.utxo = {}
        BY <1>4, <1>5, <2>1
    <2>4. g[n] = DisconnectTx(t, f[n + 1])
        BY <1>3, <1>8
    <2>5. ConnectTx(s, t, h).ok
        BY <2>2
    <2> HIDE DEF t, s, T
    <2>6. DisconnectTx(t, ConnectTx(s, t, h)) = s
        BY <1>6, <2>2, <2>3, <2>5, DisconnectUndoesTx
    <2>7. g[n] = f[n]
        BY <2>2, <2>4, <2>6 DEF s
    <2> QED
        BY <2>1, <2>7 DEF T
<1>9. 0 .. N \subseteq T
    <2> HIDE DEF T
    <2> QED
        BY <1>1, <1>7, <1>8, CountDown
<1>10. g[0] = f[0]
    BY <1>1, <1>9
<1> QED
    BY <1>10 DEF f, g, N

-----------------------------------------------------------------------------
(* A block connected and taken back *)

(* Amounts are 64-bit words *)
LEMMA AmountTyped ==
    ASSUME NEW t \in Tx, NEW a
    PROVE  Amount(TxOutputs[t], a) \in 0 .. U64 - 1
<1> DEFINE outs == TxOutputs[t]
           f == [i \in {j \in DOMAIN outs : outs[j].asset = a} |-> outs[i].amount]
<1>1. outs \in Seq(Output) /\ Len(outs) \in Nat /\ DOMAIN outs = 1 .. Len(outs)
    BY PrimitivesAssumption, LenProperties
<1>2. \A i \in DOMAIN outs : outs[i] \in Output
    BY <1>1
<1>3. \A i \in DOMAIN f : f[i] \in Nat
    BY <1>2, PrimitivesAssumption DEF Output
<1>4. IsFiniteSet(1 .. Len(outs))
    BY <1>1, FS_Interval
<1>5. IsFiniteSet(DOMAIN f)
    BY <1>1, <1>4, FS_Subset
<1> HIDE DEF f
<1>6. Sum(f) \in Nat
    BY <1>3, <1>5, FiniteUnits
<1>7. Amount(outs, a) = Sum(f) % U64
    BY DEF Amount, f
<1>8. Sum(f) % U64 \in 0 .. U64 - 1
    BY <1>6, PrimitivesAssumption, Division
<1> QED
    BY <1>7, <1>8

(* What was added to a word and is taken away again *)
LEMMA AddThenSubtract ==
    ASSUME NEW M \in Nat \ {0}, NEW x \in 0 .. M - 1, NEW y \in 0 .. M - 1
    PROVE  (((x + (1 * y)) % M) + ((-1) * y)) % M = x
<1>1. CASE x + y < M
    <2>1. (x + (1 * y)) % M = x + y
        BY <1>1
    <2>2. x % M = x
        OBVIOUS
    <2>3. (x + y) + ((-1) * y) = x
        OBVIOUS
    <2> QED
        BY <2>1, <2>2, <2>3
<1>2. CASE x + y >= M
    <2>1. (x + (1 * y)) % M = (x + y) - M
        <3>1. PICK w \in 0 .. M - 1 : w = (x + y) - M
            BY <1>2
        <3>2. (w + M) % M = w
            OBVIOUS
        <3>3. x + (1 * y) = w + M
            BY <3>1
        <3> QED
            BY <3>1, <3>2, <3>3
    <2>2. (x - M) % M = x
        OBVIOUS
    <2>3. ((x + y) - M) + ((-1) * y) = x - M
        OBVIOUS
    <2> QED
        BY <2>1, <2>2, <2>3
<1> QED
    BY <1>1, <1>2

(* The fields of a chain *)
IsChain(c) ==
    /\ c = [utxo |-> c.utxo, height |-> c.height, tip |-> c.tip, index |-> c.index, supply |-> c.supply]
    /\ IsCoinMap(c.utxo)
    /\ c.height \in 0 .. MaxHeight
    /\ c.tip \in Block \cup {ZeroHash}
    /\ c.index = [x \in DOMAIN c.index |-> c.index[x]] /\ DOMAIN c.index \subseteq Block
    /\ c.supply \in [Asset -> 0 .. U64 - 1]

(* All but the coins *)
SameButCoins(c, d) == c.height = d.height /\ c.tip = d.tip /\ c.index = d.index /\ c.supply = d.supply

(* Supplies stay 64-bit words *)
LEMMA UpdateSupplyTyped ==
    ASSUME NEW supply \in [Asset -> 0 .. U64 - 1], NEW b \in Block, BlockIsValid(b), NEW sign \in {1, -1}
    PROVE  UpdateSupply(supply, b, sign) \in [Asset -> 0 .. U64 - 1]
<1>1. ASSUME NEW a \in Asset PROVE (supply[a] + sign * Amount(TxOutputs[Coinbase(b)], a)) % U64 \in 0 .. U64 - 1
    <2> DEFINE n == Amount(TxOutputs[Coinbase(b)], a)
               x == supply[a]
    <2>1. n \in Int /\ x \in Int /\ U64 \in Nat \ {0}
        BY BlockParts, AmountTyped, PrimitivesAssumption
    <2> HIDE DEF n, x
    <2>2. sign * n \in Int
        BY <2>1
    <2>3. \A y \in Int : y % U64 \in 0 .. U64 - 1
        BY <2>1
    <2>4. x + sign * n \in Int
        BY <2>1, <2>2
    <2>5. (x + sign * n) % U64 \in 0 .. U64 - 1
        BY <2>3, <2>4
    <2> QED
        BY <2>5 DEF x, n
<1> QED
    BY <1>1 DEF UpdateSupply

(* What ConnectBlock returns for a block it connects: done is the end of its loop *)
Connected(c, b, r, done) ==
    /\ Fits(c, b) /\ RewardsAllowed(c.supply, c.height + 1, b)
    /\ done.ok /\ r.undo = done.undo /\ r.undo \in Records
    /\ IsChain(r.chain) /\ r.chain.utxo = done.utxo
    /\ r.chain.height = c.height + 1 /\ r.chain.tip = b
    /\ r.chain.supply = UpdateSupply(c.supply, b, 1)
    /\ DOMAIN r.chain.index = DOMAIN c.index \cup {b}
    /\ r.chain.index[b] = [height |-> c.height + 1, work |-> ChainWork(c, b)]
    /\ \A x \in DOMAIN c.index \ {b} : r.chain.index[x] = c.index[x]

(* A block that is connected *)
LEMMA ConnectBlockWorks ==
    ASSUME NEW c, IsChain(c), c.height < MaxHeight, NEW b \in Block, ConnectBlock(c, b).ok
    PROVE  Connected(c, b, ConnectBlock(c, b), Connecting(c, b)[Len(Body(b))])
<1> DEFINE r == ConnectBlock(c, b)
           h == c.height + 1
           done == Connecting(c, b)[Len(Body(b))]
           entry == [height |-> h, work |-> ChainWork(c, b)]
           index == Over([x \in {b} |-> entry], c.index)
           supply == UpdateSupply(c.supply, b, 1)
           d == [utxo |-> done.utxo, height |-> h, tip |-> b, index |-> index, supply |-> supply]
<1>1. BlockIsValid(b) /\ RewardsAllowed(c.supply, h, b) /\ done.ok
    BY DEF ConnectBlock, Body
<1>2. r = [ok |-> TRUE, undo |-> done.undo, chain |-> d]
    BY <1>1 DEF ConnectBlock, Body
<1>3. Fits(c, b)
    BY <1>1, ChainAssumption DEF Fits, IsChain
<1>4. IsWorkState(done)
    <2>1. Len(Body(b)) \in Nat
        BY <1>1, BlockParts
    <2>2. \A n \in 0 .. Len(Body(b)) : IsWorkState(Connecting(c, b)[n])
        BY <1>3, LoopTyped
    <2> QED
        BY <2>1, <2>2
<1>5. done.undo \in Records /\ IsCoinMap(done.utxo)
    BY <1>4 DEF IsWorkState
<1>6. supply \in [Asset -> 0 .. U64 - 1]
    BY <1>1, UpdateSupplyTyped DEF IsChain
<1>7. /\ DOMAIN index = DOMAIN c.index \cup {b} /\ index[b] = entry
      /\ \A x \in DOMAIN c.index \ {b} : index[x] = c.index[x]
      /\ index = [x \in DOMAIN index |-> index[x]]
    BY DEF Over
<1>8. h \in 0 .. MaxHeight
    BY ChainAssumption DEF IsChain
<1> HIDE DEF r, h, done, index, supply
<1>9. IsChain(d)
    BY <1>5, <1>6, <1>7, <1>8 DEF IsChain
<1>10. /\ r.undo = done.undo /\ r.chain = d /\ d.utxo = done.utxo /\ d.height = h /\ d.tip = b
       /\ d.supply = supply /\ d.index = index
    BY <1>2
<1> HIDE DEF d, entry
<1> QED
    BY <1>1, <1>3, <1>5, <1>7, <1>9, <1>10 DEF Connected, r, h, done, supply, entry

(* A block that is refused: at most the coins change *)
LEMMA ConnectBlockRefuses ==
    ASSUME NEW c, IsChain(c), c.height < MaxHeight, NEW b \in Block, ~ConnectBlock(c, b).ok
    PROVE  IsChain(ConnectBlock(c, b).chain) /\ SameButCoins(ConnectBlock(c, b).chain, c)
<1> DEFINE r == ConnectBlock(c, b)
           done == Connecting(c, b)[Len(Body(b))]
<1>1. CASE ~BlockIsValid(b) \/ ~RewardsAllowed(c.supply, c.height + 1, b)
    <2>1. r.chain = c
        BY <1>1 DEF ConnectBlock
    <2> QED
        BY <2>1 DEF SameButCoins
<1>2. CASE BlockIsValid(b) /\ RewardsAllowed(c.supply, c.height + 1, b)
    <2>1. ~done.ok
        BY <1>2 DEF ConnectBlock, Body
    <2>2. r.chain = [c EXCEPT !.utxo = done.utxo]
        BY <1>2, <2>1 DEF ConnectBlock, Body
    <2>3. Fits(c, b)
        BY <1>2, ChainAssumption DEF Fits, IsChain
    <2>4. Len(Body(b)) \in Nat
        BY <1>2, BlockParts
    <2>5. IsWorkState(done)
        <3>1. \A n \in 0 .. Len(Body(b)) : IsWorkState(Connecting(c, b)[n])
            BY <2>3, LoopTyped
        <3> QED
            BY <2>4, <3>1
    <2>6. IsCoinMap(done.utxo)
        BY <2>5 DEF IsWorkState
    <2> HIDE DEF done, r
    <2>7. /\ r.chain.utxo = done.utxo /\ SameButCoins(r.chain, c)
          /\ r.chain = [utxo |-> done.utxo, height |-> c.height, tip |-> c.tip, index |-> c.index, supply |-> c.supply]
        BY <2>2 DEF IsChain, SameButCoins
    <2>8. IsChain(r.chain)
        BY <2>6, <2>7 DEF IsChain
    <2> QED
        BY <2>7, <2>8 DEF r
<1> QED
    BY <1>1, <1>2

(* What is left of the undo records without the last *)
LEMMA FrontTyped ==
    ASSUME NEW S, NEW seq \in Seq(S), seq # <<>>
    PROVE  /\ Front(seq) \in Seq(S) /\ Last(seq) \in S
           /\ Len(Front(seq)) = Len(seq) - 1 /\ Len(seq) \in Nat \ {0}
           /\ \A i \in 1 .. Len(seq) - 1 : Front(seq)[i] = seq[i]
<1>1. /\ Len(seq) \in Nat \ {0} /\ DOMAIN seq = 1 .. Len(seq)
      /\ \A i \in 1 .. Len(seq) : seq[i] \in S
    BY EmptySeq, LenProperties
<1> DEFINE n == Len(seq) - 1
<1>2. n \in Int /\ n \in Nat /\ \A i \in 1 .. n : seq[i] \in S
    BY <1>1
<1>3. /\ SubSeq(seq, 1, n) \in Seq(S)
      /\ Len(SubSeq(seq, 1, n)) = IF 1 <= n THEN n - 1 + 1 ELSE 0
      /\ \A i \in 1 .. n - 1 + 1 : SubSeq(seq, 1, n)[i] = seq[1 + i - 1]
    BY <1>2, SubSeqProperties
<1>4. Len(SubSeq(seq, 1, n)) = n /\ \A i \in 1 .. n : SubSeq(seq, 1, n)[i] = seq[i]
    <2> HIDE DEF n
    <2> QED
        BY <1>2, <1>3
<1> QED
    BY <1>1, <1>3, <1>4 DEF Front, Last

(* DisconnectTx leaves typed work, whatever it is given *)
LEMMA DisconnectTxTyped ==
    ASSUME NEW s, IsWorkState(s), NEW t \in Tx
    PROVE  IsWorkState(DisconnectTx(t, s))
<1> DEFINE r == DisconnectTx(t, s)
           removed == RemoveCoins(s.utxo, OutPointsOf(t))
           coins == Last(s.undo)
           back == Over(Restored(t, coins), removed)
<1>1. /\ s = [ok |-> s.ok, undo |-> s.undo, utxo |-> s.utxo] /\ s.ok \in BOOLEAN
      /\ IsCoinMap(s.utxo) /\ s.undo \in Seq(Seq(LowCoin))
    BY DEF IsWorkState, Records
<1>2. IsCoinMap(removed)
    BY <1>1, RemoveCoinsTyped
<1>3. CASE ~s.ok
    <2>1. r = s
        BY <1>3 DEF DisconnectTx
    <2> QED
        BY <2>1
<1>4. CASE s.ok /\ (s.undo = <<>> \/ Len(coins) # Len(TxInputs[t]))
    <2>1. r = [s EXCEPT !.ok = FALSE, !.utxo = removed]
        BY <1>4 DEF DisconnectTx
    <2> HIDE DEF r, removed
    <2>2. r = [ok |-> FALSE, undo |-> s.undo, utxo |-> removed]
        BY <1>1, <2>1
    <2>3. IsWorkState(r)
        BY <1>1, <1>2, <2>2 DEF IsWorkState, Records
    <2> QED
        BY <2>3 DEF r
<1>5. CASE s.ok /\ s.undo # <<>> /\ Len(coins) = Len(TxInputs[t])
    <2>1. r = [ok |-> TRUE, undo |-> Front(s.undo), utxo |-> back]
        BY <1>5 DEF DisconnectTx
    <2>2. coins \in Seq(LowCoin) /\ Front(s.undo) \in Records
        BY <1>1, <1>5, FrontTyped DEF Records
    <2>3. IsCoinMap(Restored(t, coins))
        BY <1>5, <2>2, RestoredTyped
    <2>4. IsCoinMap(back)
        <3> HIDE DEF removed, coins
        <3> QED
            BY <1>2, <2>3 DEF IsCoinMap, Over
    <2> HIDE DEF r, back
    <2>5. IsWorkState(r)
        BY <2>1, <2>2, <2>4 DEF IsWorkState
    <2> QED
        BY <2>5 DEF r
<1> QED
    BY <1>1, <1>3, <1>4, <1>5

(* The loop of DisconnectBlock leaves typed work *)
LEMMA UndoLoopTyped ==
    ASSUME NEW c, IsCoinMap(c.utxo), NEW b \in Block, BlockIsValid(b), NEW undo \in Records
    PROVE  IsWorkState(Disconnecting(c, b, undo)[0])
<1> DEFINE N == Len(Body(b))
           g == Disconnecting(c, b, undo)
           T == {n \in 0 .. N : IsWorkState(g[n])}
<1>1. N \in Nat /\ \A n \in 1 .. N : Body(b)[n] \in Tx
    BY BlockParts
<1>2. /\ g[N] = [ok |-> TRUE, undo |-> undo, utxo |-> c.utxo]
      /\ \A n \in 0 .. N - 1 : g[n] = DisconnectTx(Body(b)[n + 1], g[n + 1])
    BY <1>1, DisconnectingSteps
<1> HIDE DEF N, g
<1>3. N \in T
    <2>1. IsWorkState([ok |-> TRUE, undo |-> undo, utxo |-> c.utxo])
        BY DEF IsWorkState
    <2> QED
        BY <1>1, <1>2, <2>1
<1>4. ASSUME NEW n \in 0 .. N - 1, n + 1 \in T PROVE n \in T
    <2>1. n \in 0 .. N /\ n + 1 \in 1 .. N /\ Body(b)[n + 1] \in Tx /\ IsWorkState(g[n + 1])
        BY <1>1, <1>4
    <2>2. IsWorkState(g[n])
        BY <1>2, <2>1, DisconnectTxTyped
    <2> QED
        BY <2>1, <2>2
<1>5. 0 .. N \subseteq T
    <2> HIDE DEF T
    <2> QED
        BY <1>1, <1>3, <1>4, CountDown
<1>6. IsWorkState(g[0])
    BY <1>1, <1>5
<1> QED
    BY <1>6 DEF g

(* DisconnectBlock, whatever it is given: at most the coins change when it fails, *)
(* and the block's entry, its claim and its height go when it does not.            *)
LEMMA DisconnectBlockWorks ==
    ASSUME NEW c, IsChain(c), NEW b \in Block, BlockIsValid(b), NEW undo \in Records
    PROVE  LET r == DisconnectBlock(c, b, undo)
           IN  /\ r.ok \in BOOLEAN /\ IsChain(r.chain)
               /\ ~r.ok => SameButCoins(r.chain, c)
               /\ r.ok => /\ c.height # 0 /\ r.chain.height = c.height - 1
                          /\ r.chain.tip = BlockPrev[b]
                          /\ DOMAIN r.chain.index = DOMAIN c.index \ {b}
                          /\ \A x \in DOMAIN c.index \ {b} : r.chain.index[x] = c.index[x]
                          /\ r.chain.supply = UpdateSupply(c.supply, b, -1)
<1> DEFINE r == DisconnectBlock(c, b, undo)
           done == Disconnecting(c, b, undo)[0]
           coins == RemoveCoins(done.utxo, OutPointsOf(Coinbase(b)))
           index == Restrict(c.index, DOMAIN c.index \ {b})
           supply == UpdateSupply(c.supply, b, -1)
<1>1. /\ c = [utxo |-> c.utxo, height |-> c.height, tip |-> c.tip, index |-> c.index, supply |-> c.supply]
      /\ IsCoinMap(c.utxo) /\ c.supply \in [Asset -> 0 .. U64 - 1] /\ DOMAIN c.index \subseteq Block
      /\ c.height \in 0 .. MaxHeight
    BY DEF IsChain
<1>2. IsWorkState(done)
    BY <1>1, UndoLoopTyped
<1>3. IsCoinMap(done.utxo) /\ done.ok \in BOOLEAN
    BY <1>2 DEF IsWorkState
<1>4. IsCoinMap(coins)
    BY <1>3, RemoveCoinsTyped
<1>5. supply \in [Asset -> 0 .. U64 - 1]
    BY <1>1, UpdateSupplyTyped
<1>6. /\ DOMAIN index = DOMAIN c.index \ {b} /\ \A x \in DOMAIN c.index \ {b} : index[x] = c.index[x]
      /\ index = [x \in DOMAIN index |-> index[x]]
    BY DEF Restrict
<1>7. BlockPrev[b] \in Block \cup {ZeroHash}
    BY PrimitivesAssumption
<1>8. CASE c.height = 0 \/ b # c.tip
    <2>1. r = [ok |-> FALSE, chain |-> c]
        BY <1>8 DEF DisconnectBlock
    <2> HIDE DEF r
    <2>2. r.ok = FALSE /\ r.chain = c
        BY <2>1
    <2> QED
        BY <2>2 DEF r, SameButCoins
<1>9. CASE ~(c.height = 0 \/ b # c.tip) /\ ~done.ok
    <2>1. r = [ok |-> FALSE, chain |-> [c EXCEPT !.utxo = done.utxo]]
        BY <1>9 DEF DisconnectBlock
    <2> HIDE DEF r, done
    <2>2. /\ r.ok = FALSE
          /\ r.chain = [utxo |-> done.utxo, height |-> c.height, tip |-> c.tip, index |-> c.index, supply |-> c.supply]
        BY <1>1, <2>1
    <2>3. IsChain(r.chain) /\ SameButCoins(r.chain, c)
        BY <1>3, <2>2 DEF IsChain, SameButCoins
    <2> QED
        BY <2>2, <2>3 DEF r
<1>10. CASE ~(c.height = 0 \/ b # c.tip) /\ done.ok
    <2> DEFINE d == [utxo |-> coins, height |-> c.height - 1, tip |-> BlockPrev[b], index |-> index, supply |-> supply]
    <2>1. r = [ok |-> TRUE, chain |-> d]
        BY <1>10 DEF DisconnectBlock
    <2>2. c.height - 1 \in 0 .. MaxHeight /\ c.height # 0
        BY <1>1, <1>10, ChainAssumption
    <2> HIDE DEF r, coins, index, supply, done
    <2>3. IsChain(d)
        BY <1>1, <1>4, <1>5, <1>6, <1>7, <2>2 DEF IsChain
    <2>4. r.ok = TRUE /\ r.chain = d /\ d.height = c.height - 1 /\ d.tip = BlockPrev[b] /\ d.index = index /\ d.supply = supply
        BY <2>1
    <2> HIDE DEF d
    <2> QED
        BY <1>6, <2>2, <2>3, <2>4 DEF r, supply
<1> QED
    BY <1>3, <1>8, <1>9, <1>10

(* DisconnectBlock undoes a ConnectBlock whose outputs replaced no coin *)
LEMMA DisconnectUndoesBlock ==
    ASSUME NEW c, IsChain(c), c.height < MaxHeight, NEW b \in Block, ConnectBlock(c, b).ok,
           BlockPrev[b] = c.tip, b \notin DOMAIN c.index, Created(b) \cap DOMAIN c.utxo = {}
    PROVE  LET r == ConnectBlock(c, b) IN DisconnectBlock(r.chain, b, r.undo) = [ok |-> TRUE, chain |-> c]
<1> DEFINE r == ConnectBlock(c, b)
           d == r.chain
           done == Connecting(c, b)[Len(Body(b))]
           start == Connecting(c, b)[0]
           left == Disconnecting(d, b, r.undo)[0]
           outs == OutPointsOf(Coinbase(b))
<1>1. /\ Fits(c, b) /\ done.ok /\ r.undo = done.undo /\ IsChain(d) /\ d.utxo = done.utxo
      /\ d.height = c.height + 1 /\ d.tip = b /\ d.supply = UpdateSupply(c.supply, b, 1)
      /\ DOMAIN d.index = DOMAIN c.index \cup {b}
      /\ \A x \in DOMAIN c.index \ {b} : d.index[x] = c.index[x]
    <2>1. Connected(c, b, r, done)
        BY ConnectBlockWorks
    <2> HIDE DEF r, done
    <2> QED
        BY <2>1 DEF Connected
<1>2. /\ c = [utxo |-> c.utxo, height |-> c.height, tip |-> c.tip, index |-> c.index, supply |-> c.supply]
      /\ IsCoinMap(c.utxo) /\ c.height \in Nat
      /\ c.index = [x \in DOMAIN c.index |-> c.index[x]]
      /\ c.supply \in [Asset -> 0 .. U64 - 1]
    BY DEF IsChain
<1>3. left = start
    <2>1. done.ok /\ d.utxo = done.utxo /\ r.undo = done.undo
        BY <1>1
    <2>2. Disconnecting(d, b, done.undo)[0] = start
        <3> HIDE DEF d
        <3> QED
            BY <1>1, <2>1, LoopUndone
    <2> QED
        BY <2>1, <2>2
<1>4. Coinbase(b) \in Tx /\ outs \subseteq Created(b) /\ BlockIsValid(b)
    BY <1>1, BlockParts DEF Fits
<1>5. start.ok /\ start.utxo = AddOutputs(c.utxo, Coinbase(b), c.height + 1, TRUE)
    BY <1>1, LoopTyped
<1>6. RemoveCoins(start.utxo, outs) = c.utxo
    <2> DEFINE h == c.height + 1
               u == AddOutputs(c.utxo, Coinbase(b), h, TRUE)
    <2>1. /\ IsCoinMap(u) /\ DOMAIN u = DOMAIN c.utxo \cup outs
          /\ \A p \in DOMAIN c.utxo \ outs : u[p] = c.utxo[p]
        <3>1. IsCoinMap(c.utxo) /\ Coinbase(b) \in Tx /\ h \in 1 .. MaxHeight /\ TRUE \in BOOLEAN
            BY <1>1, <1>4 DEF Fits
        <3> DEFINE x == c.utxo
                   t == Coinbase(b)
        <3> HIDE DEF x, t, h
        <3>2. IsCoinMap(x) /\ t \in Tx /\ h \in 1 .. MaxHeight
            BY <3>1 DEF x, t
        <3>3. /\ IsCoinMap(AddOutputs(x, t, h, TRUE))
              /\ DOMAIN AddOutputs(x, t, h, TRUE) = DOMAIN x \cup OutPointsOf(t)
              /\ \A p \in DOMAIN x \ OutPointsOf(t) : AddOutputs(x, t, h, TRUE)[p] = x[p]
            BY <3>2, AddOutputsTyped
        <3> QED
            BY <3>3 DEF x, t
    <2> HIDE DEF u
    <2>2. DOMAIN u \ outs = DOMAIN c.utxo /\ \A p \in DOMAIN c.utxo : u[p] = c.utxo[p]
        BY <1>4, <2>1
    <2>3. RemoveCoins(u, outs) = [p \in DOMAIN c.utxo |-> u[p]]
        BY <2>2 DEF RemoveCoins, Restrict
    <2>4. c.utxo = [p \in DOMAIN c.utxo |-> c.utxo[p]]
        BY <1>2 DEF IsCoinMap
    <2>5. RemoveCoins(u, outs) = c.utxo
        BY <2>2, <2>3, <2>4
    <2> QED
        BY <1>5, <2>5 DEF u, h
<1>7. Restrict(d.index, DOMAIN d.index \ {b}) = c.index
    <2> HIDE DEF d
    <2>1. DOMAIN d.index \ {b} = DOMAIN c.index /\ \A x \in DOMAIN c.index : d.index[x] = c.index[x]
        BY <1>1
    <2>2. Restrict(d.index, DOMAIN d.index \ {b}) = [x \in DOMAIN c.index |-> d.index[x]]
        BY <2>1 DEF Restrict
    <2> QED
        BY <1>2, <2>1, <2>2
<1>8. UpdateSupply(d.supply, b, -1) = c.supply
    <2> DEFINE n(a) == Amount(TxOutputs[Coinbase(b)], a)
    <2>1. ASSUME NEW a \in Asset
          PROVE  (UpdateSupply(c.supply, b, 1)[a] + (-1) * n(a)) % U64 = c.supply[a]
        <3>1. UpdateSupply(c.supply, b, 1)[a] = (c.supply[a] + 1 * n(a)) % U64
            BY DEF UpdateSupply
        <3>2. c.supply[a] \in 0 .. U64 - 1 /\ n(a) \in 0 .. U64 - 1 /\ U64 \in Nat \ {0}
            BY <1>2, <1>4, AmountTyped, PrimitivesAssumption
        <3> HIDE DEF n
        <3>3. (((c.supply[a] + (1 * n(a))) % U64) + ((-1) * n(a))) % U64 = c.supply[a]
            BY <3>2, AddThenSubtract
        <3> QED
            BY <3>1, <3>3
    <2>2. UpdateSupply(UpdateSupply(c.supply, b, 1), b, -1)
             = [a \in Asset |-> (UpdateSupply(c.supply, b, 1)[a] + (-1) * n(a)) % U64]
        BY DEF UpdateSupply
    <2>3. c.supply = [a \in Asset |-> c.supply[a]]
        BY <1>2
    <2> HIDE DEF n
    <2> QED
        BY <1>1, <2>1, <2>2, <2>3
<1>9. d.height # 0 /\ b = d.tip /\ d.height - 1 = c.height
    BY <1>1, <1>2
<1>10. DisconnectBlock(d, b, r.undo) =
          [ok |-> TRUE, chain |-> [utxo |-> RemoveCoins(left.utxo, outs), height |-> d.height - 1, tip |-> BlockPrev[b],
                                   index |-> Restrict(d.index, DOMAIN d.index \ {b}),
                                   supply |-> UpdateSupply(d.supply, b, -1)]]
    <2>1. left.ok
        BY <1>3, <1>5
    <2> HIDE DEF d, r
    <2> QED
        BY <1>9, <2>1 DEF DisconnectBlock
<1> HIDE DEF r, d, left, start, outs
<1>11. DisconnectBlock(d, b, r.undo) =
          [ok |-> TRUE, chain |-> [utxo |-> c.utxo, height |-> c.height, tip |-> c.tip, index |-> c.index, supply |-> c.supply]]
    BY <1>3, <1>6, <1>7, <1>8, <1>9, <1>10
<1> QED
    BY <1>2, <1>11 DEF r, d

-----------------------------------------------------------------------------
(* The chain that a sequence of blocks gives *)

(* The chains along a replay *)
IsReplay(g, blocks, N) ==
    g = [n \in 0 .. N |-> IF n = 0 THEN EmptyChain ELSE ConnectBlock(g[n - 1], blocks[n]).chain]

(* They exist *)
LEMMA ReplayExists ==
    ASSUME NEW blocks, NEW N \in Nat
    PROVE  \E g : IsReplay(g, blocks, N)
<1> DEFINE T == {m \in 0 .. N : \E g : IsReplay(g, blocks, m)}
<1>1. 0 \in T
    <2> DEFINE g == [n \in 0 .. 0 |-> EmptyChain]
    <2>1. g = [n \in 0 .. 0 |-> IF n = 0 THEN EmptyChain ELSE ConnectBlock(g[n - 1], blocks[n]).chain]
        OBVIOUS
    <2> HIDE DEF g
    <2>2. IsReplay(g, blocks, 0)
        BY <2>1 DEF IsReplay
    <2> QED
        BY <2>2
<1>2. ASSUME NEW m \in 1 .. N, m - 1 \in T PROVE m \in T
    <2>1. PICK g : IsReplay(g, blocks, m - 1)
        BY <1>2
    <2> DEFINE w == [n \in 0 .. m |-> IF n = m THEN ConnectBlock(g[m - 1], blocks[m]).chain ELSE g[n]]
    <2>2. ASSUME NEW n \in 0 .. m PROVE w[n] = IF n = 0 THEN EmptyChain ELSE ConnectBlock(w[n - 1], blocks[n]).chain
        <3>1. CASE n = m
            BY <3>1
        <3>2. CASE n # m
            <4>1. n \in 0 .. m - 1 /\ w[n] = g[n]
                BY <3>2
            <4>2. n # 0 => w[n - 1] = g[n - 1]
                BY <3>2
            <4>3. g[n] = IF n = 0 THEN EmptyChain ELSE ConnectBlock(g[n - 1], blocks[n]).chain
                BY <2>1, <4>1 DEF IsReplay
            <4> QED
                BY <4>1, <4>2, <4>3
        <3> QED
            BY <3>1, <3>2
    <2>3. IsReplay(w, blocks, m)
        BY <2>2 DEF IsReplay
    <2> HIDE DEF w
    <2> QED
        BY <2>3
<1>3. 0 .. N \subseteq T
    <2> HIDE DEF T
    <2> QED
        BY <1>1, <1>2, CountUp
<1> QED
    BY <1>3

(* Two of them agree as far as their blocks do *)
LEMMA ReplaysAgree ==
    ASSUME NEW N \in Nat, NEW M \in Nat, N <= M, NEW f, NEW g, NEW blocks, NEW more,
           IsReplay(f, blocks, N), IsReplay(g, more, M), \A n \in 1 .. N : blocks[n] = more[n]
    PROVE  f[N] = g[N]
<1> DEFINE T == {n \in 0 .. N : f[n] = g[n]}
<1>1. /\ f[0] = EmptyChain /\ g[0] = EmptyChain
      /\ \A n \in 1 .. N : f[n] = ConnectBlock(f[n - 1], blocks[n]).chain
      /\ \A n \in 1 .. N : g[n] = ConnectBlock(g[n - 1], more[n]).chain
    BY DEF IsReplay
<1>2. 0 \in T
    BY <1>1
<1>3. ASSUME NEW n \in 1 .. N, n - 1 \in T PROVE n \in T
    <2>1. f[n - 1] = g[n - 1] /\ blocks[n] = more[n] /\ n \in 0 .. N
        BY <1>3
    <2>2. f[n] = g[n]
        BY <1>1, <2>1
    <2> QED
        BY <2>1, <2>2
<1>4. 0 .. N \subseteq T
    <2> HIDE DEF T
    <2> QED
        BY <1>2, <1>3, CountUp
<1> QED
    BY <1>4

(* Replay, one block at a time *)
LEMMA ReplaySteps ==
    /\ Replay(<<>>) = EmptyChain
    /\ \A blocks \in Seq(Block) : \A b \in Block :
          Replay(Append(blocks, b)) = ConnectBlock(Replay(blocks), b).chain
<1>1. ASSUME NEW blocks \in Seq(Block)
      PROVE  \E g : IsReplay(g, blocks, Len(blocks)) /\ Replay(blocks) = g[Len(blocks)]
    <2> DEFINE g == CHOOSE g : IsReplay(g, blocks, Len(blocks))
    <2>1. IsReplay(g, blocks, Len(blocks))
        <3>1. \E f : IsReplay(f, blocks, Len(blocks))
            BY LenProperties, ReplayExists
        <3> QED
            BY <3>1, Zenon
    <2>2. Replay(blocks) = g[Len(blocks)]
        BY DEF Replay, IsReplay
    <2> HIDE DEF g
    <2> QED
        BY <2>1, <2>2
<1>2. Replay(<<>>) = EmptyChain
    <2>1. <<>> \in Seq(Block) /\ Len(<<>>) = 0
        BY EmptySeq
    <2>2. PICK g : IsReplay(g, <<>>, 0) /\ Replay(<<>>) = g[0]
        BY <1>1, <2>1
    <2>3. g[0] = EmptyChain
        BY <2>2 DEF IsReplay
    <2> QED
        BY <2>2, <2>3
<1>3. ASSUME NEW blocks \in Seq(Block), NEW b \in Block
      PROVE  Replay(Append(blocks, b)) = ConnectBlock(Replay(blocks), b).chain
    <2> DEFINE N == Len(blocks)
               more == Append(blocks, b)
    <2>1. /\ N \in Nat /\ more \in Seq(Block) /\ Len(more) = N + 1
          /\ \A n \in 1 .. N : more[n] = blocks[n]
          /\ more[N + 1] = b
        BY AppendProperties, LenProperties
    <2>2. PICK f : IsReplay(f, blocks, N) /\ Replay(blocks) = f[N]
        BY <1>1
    <2>3. PICK g : IsReplay(g, more, N + 1) /\ Replay(more) = g[N + 1]
        BY <1>1, <2>1
    <2> HIDE DEF N, more
    <2>4. f[N] = g[N]
        <3>1. N + 1 \in Nat /\ N <= N + 1 /\ \A n \in 1 .. N : blocks[n] = more[n]
            BY <2>1
        <3> QED
            BY <2>1, <2>2, <2>3, <3>1, ReplaysAgree
    <2>5. g[N + 1] = ConnectBlock(g[N], b).chain
        <3>1. N + 1 \in 0 .. N + 1 /\ N + 1 # 0 /\ (N + 1) - 1 = N
            BY <2>1
        <3>2. g[N + 1] = ConnectBlock(g[(N + 1) - 1], more[N + 1]).chain
            BY <2>3, <3>1 DEF IsReplay
        <3> QED
            BY <2>1, <3>1, <3>2
    <2> QED
        BY <2>2, <2>3, <2>4, <2>5 DEF more
<1> QED
    BY <1>2, <1>3

-----------------------------------------------------------------------------
(* The inductive invariant: what relates a chain to the stack of its blocks *)

Entry == [block : Block, undo : Records]

(* The stack is a path of valid blocks from a genesis block *)
Linked(st) ==
    /\ st \in Seq(Entry)
    /\ \A i \in 1 .. Len(st) :
          /\ BlockIsValid(st[i].block)
          /\ BlockPrev[st[i].block] = IF i = 1 THEN ZeroHash ELSE st[i - 1].block
    /\ \A i, j \in 1 .. Len(st) : st[i].block = st[j].block => i = j

(* Height, tip and index are those of the stack *)
Follows(c, st) ==
    /\ c.height = Len(st)
    /\ c.tip = IF Len(st) = 0 THEN ZeroHash ELSE st[Len(st)].block
    /\ \A b : b \in DOMAIN c.index <=> \E i \in 1 .. Len(st) : st[i].block = b
    /\ \A i \in 1 .. Len(st) : c.index[st[i].block] = [height |-> i, work |-> i]

(* What the coinbases of the stack claimed of an asset *)
Claim(e, a)  == Amount(TxOutputs[Coinbase(e.block)], a)
Claims(st, a) == [i \in DOMAIN st |-> Claim(st[i], a)]

(* The supply is what they claimed, and each claimed what it was due *)
Backed(c, st) ==
    \A a \in Asset :
        /\ c.supply[a] = Sum(Claims(st, a)) /\ c.supply[a] <= MaxSupply[a]
        /\ \A i \in 1 .. Len(st) : Claim(st[i], a) <= GetBlockReward(i, a)

(* The chain below the i-th block of the stack *)
Below(st, i) == Replay(SubSeq(BlocksOf(st), 1, i - 1))

(* The i-th block was connected to it and left its undo data; its coins were new *)
RightlyOn(st, i) ==
    LET c == Below(st, i)
        b == st[i].block
    IN  /\ IsChain(c) /\ c.height < MaxHeight
        /\ BlockPrev[b] = c.tip /\ b \notin DOMAIN c.index
        /\ Created(b) \cap DOMAIN c.utxo = {}
        /\ ConnectBlock(c, b).ok /\ ConnectBlock(c, b).undo = st[i].undo

Replayed(c, st) ==
    /\ c = Replay(BlocksOf(st))
    /\ \A i \in 1 .. Len(st) : RightlyOn(st, i)

Holds(c, st, ta) ==
    /\ IsChain(c) /\ Linked(st) /\ Follows(c, st) /\ Backed(c, st)
    /\ ta \subseteq {"residue", "overwrite", "wrap"}
    /\ ta \subseteq {"wrap"} => Replayed(c, st)

(* It holds of the object and of what a restore would give it *)
ChainInv == Holds(chain, stack, taint) /\ Holds(saved.chain, saved.stack, saved.taint)

-----------------------------------------------------------------------------
(* Stacks that grow and shrink *)

(* A stack with a block more *)
LEMMA Pushed ==
    ASSUME NEW st \in Seq(Entry), NEW e \in Entry
    PROVE  LET new == Append(st, e) IN
           /\ new \in Seq(Entry) /\ Len(new) = Len(st) + 1 /\ Len(st) \in Nat
           /\ \A i \in 1 .. Len(st) : new[i] = st[i]
           /\ new[Len(st) + 1] = e
BY AppendProperties, LenProperties

(* The blocks of a stack *)
LEMMA BlocksTyped ==
    ASSUME NEW st \in Seq(Entry)
    PROVE  /\ BlocksOf(st) \in Seq(Block) /\ Len(BlocksOf(st)) = Len(st) /\ Len(st) \in Nat
           /\ \A i \in 1 .. Len(st) : BlocksOf(st)[i] = st[i].block /\ st[i].block \in Block
           /\ DOMAIN st = 1 .. Len(st)
<1>1. Len(st) \in Nat /\ DOMAIN st = 1 .. Len(st) /\ \A i \in 1 .. Len(st) : st[i] \in Entry
    BY LenProperties
<1>2. \A i \in 1 .. Len(st) : st[i].block \in Block
    BY <1>1 DEF Entry
<1>3. BlocksOf(st) = [i \in 1 .. Len(st) |-> st[i].block]
    BY <1>1 DEF BlocksOf
<1>4. BlocksOf(st) \in Seq(Block) /\ Len(BlocksOf(st)) = Len(st)
    <2>1. BlocksOf(st) \in [1 .. Len(st) -> Block]
        BY <1>2, <1>3
    <2> QED
        BY <1>1, <1>3, <2>1
<1> QED
    BY <1>1, <1>2, <1>3, <1>4

(* Sequences that agree up to n have the same first n elements *)
LEMMA SamePrefix ==
    ASSUME NEW S, NEW s \in Seq(S), NEW t \in Seq(S), NEW n \in Nat, n <= Len(s), n <= Len(t),
           \A i \in 1 .. n : s[i] = t[i]
    PROVE  SubSeq(s, 1, n) = SubSeq(t, 1, n)
<1>1. \A i \in 1 .. n : s[i] \in S /\ t[i] \in S
    BY LenProperties, ElementOfSeq
<1>2. /\ SubSeq(s, 1, n) \in Seq(S) /\ Len(SubSeq(s, 1, n)) = (IF 1 <= n THEN n - 1 + 1 ELSE 0)
      /\ \A i \in 1 .. n - 1 + 1 : SubSeq(s, 1, n)[i] = s[1 + i - 1]
    BY <1>1, SubSeqProperties
<1>3. /\ SubSeq(t, 1, n) \in Seq(S) /\ Len(SubSeq(t, 1, n)) = (IF 1 <= n THEN n - 1 + 1 ELSE 0)
      /\ \A i \in 1 .. n - 1 + 1 : SubSeq(t, 1, n)[i] = t[1 + i - 1]
    BY <1>1, SubSeqProperties
<1>4. Len(SubSeq(s, 1, n)) = n /\ Len(SubSeq(t, 1, n)) = n
    BY <1>2, <1>3
<1>5. \A i \in 1 .. n : SubSeq(s, 1, n)[i] = SubSeq(t, 1, n)[i]
    BY <1>2, <1>3
<1> QED
    BY <1>2, <1>3, <1>4, <1>5, SeqEqual

(* Below two stacks that agree lies the same chain *)
LEMMA SameBelow ==
    ASSUME NEW s \in Seq(Entry), NEW t \in Seq(Entry), NEW i \in Nat \ {0}, i <= Len(s), i <= Len(t),
           \A j \in 1 .. i : s[j] = t[j], RightlyOn(s, i)
    PROVE  RightlyOn(t, i)
<1>1. /\ BlocksOf(s) \in Seq(Block) /\ Len(BlocksOf(s)) = Len(s) /\ Len(s) \in Nat
      /\ \A j \in 1 .. Len(s) : BlocksOf(s)[j] = s[j].block
    BY BlocksTyped
<1>2. /\ BlocksOf(t) \in Seq(Block) /\ Len(BlocksOf(t)) = Len(t) /\ Len(t) \in Nat
      /\ \A j \in 1 .. Len(t) : BlocksOf(t)[j] = t[j].block
    BY BlocksTyped
<1>3. i - 1 \in Nat /\ i - 1 <= Len(BlocksOf(s)) /\ i - 1 <= Len(BlocksOf(t))
    BY <1>1, <1>2
<1>4. \A j \in 1 .. i - 1 : BlocksOf(s)[j] = BlocksOf(t)[j]
    BY <1>1, <1>2
<1>5. SubSeq(BlocksOf(s), 1, i - 1) = SubSeq(BlocksOf(t), 1, i - 1)
    BY <1>1, <1>2, <1>3, <1>4, SamePrefix
<1>6. Below(s, i) = Below(t, i)
    BY <1>5 DEF Below
<1>7. i \in 1 .. i
    OBVIOUS
<1>8. s[i] = t[i]
    BY <1>7
<1> QED
    BY <1>6, <1>8 DEF RightlyOn

-----------------------------------------------------------------------------
(* A child of the tip goes on the stack *)
LEMMA LinkedPushed ==
    ASSUME NEW c, NEW st, Linked(st), Follows(c, st), NEW e \in Entry, BlockIsValid(e.block), BlockPrev[e.block] = c.tip
    PROVE  Linked(Append(st, e)) /\ e.block \notin DOMAIN c.index
<1> DEFINE new == Append(st, e)
           n == Len(st)
           b == e.block
<1>1. /\ new \in Seq(Entry) /\ Len(new) = n + 1 /\ n \in Nat
      /\ \A i \in 1 .. n : new[i] = st[i]
      /\ new[n + 1] = e
    BY Pushed DEF Linked
<1>2. \A i \in 1 .. n : st[i].block \in Block
    BY BlocksTyped DEF Linked
<1>3. \A i \in 1 .. n : BlockPrev[st[i].block] = IF i = 1 THEN ZeroHash ELSE st[i - 1].block
    BY DEF Linked
<1>4. \A i, j \in 1 .. n : st[i].block = st[j].block => i = j
    BY DEF Linked
<1>5. BlockPrev[b] = IF n = 0 THEN ZeroHash ELSE st[n].block
    BY DEF Follows
<1>6. ASSUME NEW j \in 1 .. n, st[j].block = b PROVE FALSE
    <2>1. st[n].block \in Block /\ n \in 1 .. n /\ ZeroHash \notin Block
        BY <1>1, <1>2, PrimitivesAssumption
    <2>2. BlockPrev[st[j].block] = st[n].block
        BY <1>5, <1>6, <2>1
    <2>3. CASE j = 1
        BY <1>3, <2>1, <2>2, <2>3
    <2>4. CASE j # 1
        <3>1. j - 1 \in 1 .. n /\ st[j - 1].block = st[n].block
            BY <1>1, <1>3, <2>2, <2>4
        <3>2. j - 1 = n
            BY <1>4, <2>1, <3>1
        <3> QED
            BY <1>1, <3>2
    <2> QED
        BY <2>3, <2>4
<1> HIDE DEF new, n, b
<1>7. ASSUME NEW i \in 1 .. n + 1
      PROVE  /\ BlockIsValid(new[i].block)
             /\ BlockPrev[new[i].block] = IF i = 1 THEN ZeroHash ELSE new[i - 1].block
    <2>1. CASE i \in 1 .. n
        <3>1. new[i] = st[i] /\ (i # 1 => new[i - 1] = st[i - 1])
            BY <1>1, <2>1
        <3>2. BlockIsValid(st[i].block)
            BY <2>1 DEF Linked, n
        <3> QED
            BY <1>3, <2>1, <3>1, <3>2
    <2>2. CASE i = n + 1
        <3>1. new[i] = e /\ (i # 1 => new[i - 1] = st[n]) /\ (i = 1 <=> n = 0)
            BY <1>1, <2>2
        <3> QED
            BY <1>5, <3>1 DEF b
    <2> QED
        BY <1>1, <2>1, <2>2
<1>8. ASSUME NEW i \in 1 .. n + 1, NEW j \in 1 .. n + 1, new[i].block = new[j].block PROVE i = j
    <2>1. \A k \in 1 .. n + 1 : k \in 1 .. n \/ k = n + 1
        BY <1>1
    <2>2. new[n + 1].block = b /\ \A k \in 1 .. n : new[k].block = st[k].block
        BY <1>1 DEF b
    <2> QED
        BY <1>4, <1>6, <1>8, <2>1, <2>2
<1>9. Linked(new)
    BY <1>1, <1>7, <1>8 DEF Linked
<1>10. b \notin DOMAIN c.index
    BY <1>6 DEF Follows, n
<1> QED
    BY <1>9, <1>10 DEF new, b

(* The index entry of a block counts the blocks below it *)
LEMMA WorkCounts ==
    ASSUME NEW c, NEW st, Linked(st), Follows(c, st), NEW b, BlockPrev[b] = c.tip
    PROVE  ChainWork(c, b) = Len(st) + 1
<1> DEFINE n == Len(st)
<1>1. n \in Nat
    BY LenProperties DEF Linked
<1>2. CASE n = 0
    BY <1>2 DEF Follows, ChainWork
<1>3. CASE n # 0
    <2>1. n \in 1 .. n
        BY <1>1, <1>3
    <2>2. BlockPrev[b] = st[n].block
        BY <1>3 DEF Follows
    <2>3. st[n].block \in DOMAIN c.index /\ c.index[st[n].block] = [height |-> n, work |-> n]
        BY <2>1 DEF Follows
    <2>4. c.height > 0
        BY <1>1, <1>3 DEF Follows
    <2>5. ChainWork(c, b) = c.index[BlockPrev[b]].work + 1
        BY <2>2, <2>3, <2>4 DEF ChainWork
    <2> QED
        BY <2>2, <2>3, <2>5
<1> QED
    BY <1>2, <1>3

(* Height, tip and index follow the stack when a block is connected *)
LEMMA FollowsPushed ==
    ASSUME NEW c, NEW st, Linked(st), Follows(c, st), NEW e \in Entry, BlockPrev[e.block] = c.tip,
           e.block \notin DOMAIN c.index,
           NEW d, d.height = c.height + 1, d.tip = e.block,
           DOMAIN d.index = DOMAIN c.index \cup {e.block},
           d.index[e.block] = [height |-> c.height + 1, work |-> ChainWork(c, e.block)],
           \A x \in DOMAIN c.index \ {e.block} : d.index[x] = c.index[x]
    PROVE  Follows(d, Append(st, e))
<1> DEFINE new == Append(st, e)
           n == Len(st)
           b == e.block
<1>1. /\ new \in Seq(Entry) /\ Len(new) = n + 1 /\ n \in Nat
      /\ \A i \in 1 .. n : new[i] = st[i]
      /\ new[n + 1] = e
    BY Pushed DEF Linked
<1>2. c.height = n /\ ChainWork(c, b) = n + 1
    <2>1. c.height = n
        BY DEF Follows
    <2>2. ChainWork(c, b) = n + 1
        BY WorkCounts
    <2> QED
        BY <2>1, <2>2
<1>3. /\ \A x : x \in DOMAIN c.index <=> \E i \in 1 .. n : st[i].block = x
      /\ \A i \in 1 .. n : c.index[st[i].block] = [height |-> i, work |-> i]
    BY DEF Follows
<1>4. d.index[b] = [height |-> n + 1, work |-> n + 1]
    BY <1>2
<1> HIDE DEF new, n
<1>5. \A k \in 1 .. n + 1 : k \in 1 .. n \/ k = n + 1
    BY <1>1
<1>6. \A x : x \in DOMAIN d.index <=> \E i \in 1 .. n + 1 : new[i].block = x
    <2>1. \A x : x \in DOMAIN d.index <=> x \in DOMAIN c.index \/ x = b
        OBVIOUS
    <2>2. \A x : (\E i \in 1 .. n + 1 : new[i].block = x) <=> (\E i \in 1 .. n : st[i].block = x) \/ x = b
        <3>1. n + 1 \in 1 .. n + 1 /\ \A i \in 1 .. n : i \in 1 .. n + 1
            BY <1>1
        <3> QED
            BY <1>1, <1>5, <3>1
    <2> QED
        BY <1>3, <2>1, <2>2
<1>7. ASSUME NEW i \in 1 .. n + 1 PROVE d.index[new[i].block] = [height |-> i, work |-> i]
    <2>1. CASE i \in 1 .. n
        <3>1. st[i].block \in DOMAIN c.index
            BY <1>3, <2>1
        <3>2. st[i].block # b
            BY <3>1
        <3>3. d.index[st[i].block] = c.index[st[i].block]
            BY <3>1, <3>2
        <3> QED
            BY <1>1, <1>3, <2>1, <3>3
    <2>2. CASE i = n + 1
        BY <1>1, <1>4, <2>2
    <2> QED
        BY <1>5, <2>1, <2>2
<1>8. d.tip = IF Len(new) = 0 THEN ZeroHash ELSE new[Len(new)].block
    BY <1>1
<1>9. d.height = Len(new)
    BY <1>1, <1>2
<1> QED
    BY <1>1, <1>6, <1>7, <1>8, <1>9 DEF Follows, new

(* A stack without its last block *)
LEMMA Popped ==
    ASSUME NEW st, Linked(st), st # <<>>
    PROVE  /\ Front(st) \in Seq(Entry) /\ Len(Front(st)) = Len(st) - 1 /\ Len(st) \in Nat \ {0}
           /\ Last(st) = st[Len(st)] /\ Last(st) \in Entry
           /\ \A i \in 1 .. Len(st) - 1 : Front(st)[i] = st[i]
BY FrontTyped DEF Linked, Last

(* The rest of a path is a path *)
LEMMA LinkedPopped ==
    ASSUME NEW st, Linked(st), st # <<>>
    PROVE  Linked(Front(st))
<1> DEFINE new == Front(st)
           n == Len(st) - 1
<1>1. /\ new \in Seq(Entry) /\ Len(new) = n /\ n \in Nat /\ Len(st) = n + 1
      /\ \A i \in 1 .. n : new[i] = st[i]
    BY Popped
<1>2. \A i \in 1 .. n + 1 : /\ BlockIsValid(st[i].block)
                            /\ BlockPrev[st[i].block] = IF i = 1 THEN ZeroHash ELSE st[i - 1].block
    BY <1>1 DEF Linked
<1>3. \A i, j \in 1 .. n + 1 : st[i].block = st[j].block => i = j
    BY <1>1 DEF Linked
<1> HIDE DEF new, n
<1>4. ASSUME NEW i \in 1 .. n
      PROVE  /\ BlockIsValid(new[i].block)
             /\ BlockPrev[new[i].block] = IF i = 1 THEN ZeroHash ELSE new[i - 1].block
    <2>1. i \in 1 .. n + 1 /\ new[i] = st[i] /\ (i # 1 => new[i - 1] = st[i - 1])
        BY <1>1
    <2> QED
        BY <1>2, <2>1
<1>5. \A i, j \in 1 .. n : new[i].block = new[j].block => i = j
    BY <1>1, <1>3
<1>6. Linked(new)
    BY <1>1, <1>4, <1>5 DEF Linked
<1> QED
    BY <1>6 DEF new

(* Height, tip and index follow the stack when a block is disconnected *)
LEMMA FollowsPopped ==
    ASSUME NEW c, NEW st, Linked(st), st # <<>>, Follows(c, st),
           NEW d, d.height = c.height - 1, d.tip = BlockPrev[Last(st).block],
           DOMAIN d.index = DOMAIN c.index \ {Last(st).block},
           \A x \in DOMAIN c.index \ {Last(st).block} : d.index[x] = c.index[x]
    PROVE  Follows(d, Front(st))
<1> DEFINE new == Front(st)
           n == Len(st) - 1
           b == Last(st).block
<1>1. /\ new \in Seq(Entry) /\ Len(new) = n /\ n \in Nat /\ Len(st) = n + 1
      /\ \A i \in 1 .. n : new[i] = st[i]
      /\ b = st[n + 1].block
    BY Popped
<1>2. \A i, j \in 1 .. n + 1 : st[i].block = st[j].block => i = j
    BY <1>1 DEF Linked
<1>3. BlockPrev[st[n + 1].block] = IF n + 1 = 1 THEN ZeroHash ELSE st[(n + 1) - 1].block
    <2>1. n + 1 \in 1 .. Len(st)
        BY <1>1
    <2> QED
        BY <2>1 DEF Linked
<1>4. c.height = n + 1
    BY <1>1 DEF Follows
<1>5. /\ \A x : x \in DOMAIN c.index <=> \E i \in 1 .. n + 1 : st[i].block = x
      /\ \A i \in 1 .. n + 1 : c.index[st[i].block] = [height |-> i, work |-> i]
    BY <1>1 DEF Follows
<1> HIDE DEF new, n, b
<1>6. /\ DOMAIN d.index = DOMAIN c.index \ {b}
      /\ \A x \in DOMAIN c.index \ {b} : d.index[x] = c.index[x]
      /\ d.height = c.height - 1 /\ d.tip = BlockPrev[b]
    BY DEF b
<1>7. \A k \in 1 .. n + 1 : k \in 1 .. n \/ k = n + 1
    BY <1>1
<1>8. \A i \in 1 .. n : i \in 1 .. n + 1 /\ n + 1 \in 1 .. n + 1 /\ i # n + 1
    BY <1>1
<1>9. \A i \in 1 .. n : st[i].block # b
    BY <1>1, <1>2, <1>8
<1>10. \A x : x \in DOMAIN d.index <=> \E i \in 1 .. n : new[i].block = x
    BY <1>1, <1>5, <1>6, <1>7, <1>8, <1>9
<1>11. ASSUME NEW i \in 1 .. n PROVE d.index[new[i].block] = [height |-> i, work |-> i]
    <2>1. st[i].block \in DOMAIN c.index \ {b}
        BY <1>5, <1>8, <1>9
    <2> QED
        BY <1>1, <1>5, <1>6, <1>8, <2>1
<1>12. d.tip = IF n = 0 THEN ZeroHash ELSE new[n].block
    <2>1. CASE n = 0
        BY <1>1, <1>3, <1>6, <2>1
    <2>2. CASE n # 0
        <3>1. n \in 1 .. n /\ (n + 1) - 1 = n /\ n + 1 # 1
            BY <1>1, <2>2
        <3>2. new[n] = st[n]
            BY <1>1, <3>1
        <3> QED
            BY <1>1, <1>3, <1>6, <2>2, <3>1, <3>2
    <2> QED
        BY <2>1, <2>2
<1>13. d.height = n
    BY <1>1, <1>4, <1>6
<1> QED
    BY <1>1, <1>10, <1>11, <1>12, <1>13 DEF Follows, new

(* The chain of the stack is the one its blocks give when a block is connected *)
LEMMA ReplayedPushed ==
    ASSUME NEW c, NEW st, Linked(st), Replayed(c, st), IsChain(c), c.height < MaxHeight, NEW b \in Block,
           BlockPrev[b] = c.tip, b \notin DOMAIN c.index, Created(b) \cap DOMAIN c.utxo = {},
           ConnectBlock(c, b).ok, ConnectBlock(c, b).undo \in Records
    PROVE  Replayed(ConnectBlock(c, b).chain, Append(st, [block |-> b, undo |-> ConnectBlock(c, b).undo]))
<1> DEFINE r == ConnectBlock(c, b)
           e == [block |-> b, undo |-> r.undo]
           new == Append(st, e)
           n == Len(st)
           blocks == BlocksOf(st)
<1>1. e \in Entry
    BY DEF Entry
<1>2. /\ new \in Seq(Entry) /\ Len(new) = n + 1 /\ n \in Nat /\ st \in Seq(Entry)
      /\ \A i \in 1 .. n : new[i] = st[i]
      /\ new[n + 1] = e
    <2>1. st \in Seq(Entry)
        BY DEF Linked
    <2> HIDE DEF e
    <2> QED
        BY <1>1, <2>1, Pushed
<1>3. /\ blocks \in Seq(Block) /\ Len(blocks) = n
      /\ \A i \in 1 .. n : blocks[i] = st[i].block
    BY <1>2, BlocksTyped
<1> HIDE DEF new, blocks, n
<1>4. /\ BlocksOf(new) \in Seq(Block) /\ Len(BlocksOf(new)) = n + 1
      /\ \A i \in 1 .. n + 1 : BlocksOf(new)[i] = new[i].block
    BY <1>2, BlocksTyped
<1>5. /\ Append(blocks, b) \in Seq(Block) /\ Len(Append(blocks, b)) = n + 1
      /\ \A i \in 1 .. n : Append(blocks, b)[i] = blocks[i]
      /\ Append(blocks, b)[n + 1] = b
    BY <1>3, AppendProperties
<1>6. BlocksOf(new) = Append(blocks, b)
    <2>1. ASSUME NEW i \in 1 .. n + 1 PROVE BlocksOf(new)[i] = Append(blocks, b)[i]
        <3>1. CASE i \in 1 .. n
            <4>1. BlocksOf(new)[i] = st[i].block
                BY ONLY <1>2, <1>4, <3>1, i \in 1 .. n + 1
            <4> QED
                BY ONLY <1>3, <1>5, <3>1, <4>1
        <3>2. CASE i = n + 1
            <4>1. BlocksOf(new)[n + 1] = e.block
                BY <1>2, <1>4, <3>2
            <4> QED
                BY <1>5, <3>2, <4>1
        <3>3. i \in 1 .. n \/ i = n + 1
            BY <1>2
        <3> QED
            BY <3>1, <3>2, <3>3
    <2> QED
        BY <1>4, <1>5, <2>1, SeqEqual
<1>7. c = Replay(blocks)
    BY DEF Replayed, blocks
<1>8. r.chain = Replay(BlocksOf(new))
    BY <1>3, <1>6, <1>7, ReplaySteps
<1>9. ASSUME NEW i \in 1 .. n PROVE RightlyOn(new, i)
    <2>1. RightlyOn(st, i)
        BY DEF Replayed, n
    <2>2. i \in Nat \ {0} /\ i <= Len(st) /\ i <= Len(new) /\ \A j \in 1 .. i : st[j] = new[j]
        BY <1>2 DEF n
    <2> QED
        BY <1>2, <2>1, <2>2, SameBelow
<1>10. RightlyOn(new, n + 1)
    <2>1. Below(new, n + 1) = c
        <3>1. (n + 1) - 1 = n /\ n <= Len(BlocksOf(new)) /\ n <= Len(blocks)
            BY <1>2, <1>3, <1>4
        <3>2. \A i \in 1 .. n : BlocksOf(new)[i] = blocks[i]
            BY <1>5, <1>6
        <3>3. SubSeq(BlocksOf(new), 1, n) = SubSeq(blocks, 1, n)
            BY <1>2, <1>3, <1>4, <3>1, <3>2, SamePrefix
        <3>4. SubSeq(blocks, 1, n) = blocks
            BY <1>3, SubSeqFull
        <3> QED
            BY <1>7, <3>1, <3>3, <3>4 DEF Below
    <2>2. new[n + 1].block = b /\ new[n + 1].undo = r.undo
        BY <1>2
    <2> QED
        BY <2>1, <2>2 DEF RightlyOn
<1>11. \A i \in 1 .. Len(new) : RightlyOn(new, i)
    <2>1. \A i \in 1 .. Len(new) : i \in 1 .. n \/ i = n + 1
        BY <1>2
    <2> QED
        BY <1>9, <1>10, <2>1
<1>12. Replayed(r.chain, new)
    BY <1>8, <1>11 DEF Replayed
<1> QED
    BY <1>12 DEF new

(* And when one is disconnected, which cannot fail *)
LEMMA ReplayedPopped ==
    ASSUME NEW c, NEW st, Linked(st), st # <<>>, Replayed(c, st)
    PROVE  LET r == DisconnectBlock(c, Last(st).block, Last(st).undo)
           IN  r.ok /\ Replayed(r.chain, Front(st))
<1> DEFINE top == Last(st)
           new == Front(st)
           n == Len(st) - 1
           r == DisconnectBlock(c, top.block, top.undo)
           below == Below(st, n + 1)
<1>1. /\ new \in Seq(Entry) /\ Len(new) = n /\ n \in Nat /\ Len(st) = n + 1 /\ st \in Seq(Entry)
      /\ \A i \in 1 .. n : new[i] = st[i]
      /\ top = st[n + 1] /\ top \in Entry
    BY Popped DEF Linked
<1>2. /\ BlocksOf(new) \in Seq(Block) /\ Len(BlocksOf(new)) = n
      /\ \A i \in 1 .. n : BlocksOf(new)[i] = new[i].block
    BY <1>1, BlocksTyped
<1>3. /\ BlocksOf(st) \in Seq(Block) /\ Len(BlocksOf(st)) = n + 1
      /\ \A i \in 1 .. n + 1 : BlocksOf(st)[i] = st[i].block
    BY <1>1, BlocksTyped
<1>4. \A i \in 1 .. n + 1 : RightlyOn(st, i)
    BY <1>1 DEF Replayed
<1>5. c = Replay(BlocksOf(st))
    BY DEF Replayed
<1> HIDE DEF new, n
<1>6. below = Replay(BlocksOf(new))
    <2>1. (n + 1) - 1 = n /\ n <= Len(BlocksOf(new)) /\ n <= Len(BlocksOf(st))
        BY <1>1, <1>2, <1>3
    <2>2. \A i \in 1 .. n : BlocksOf(st)[i] = BlocksOf(new)[i]
        BY <1>1, <1>2, <1>3
    <2>3. SubSeq(BlocksOf(st), 1, n) = SubSeq(BlocksOf(new), 1, n)
        BY <1>1, <1>2, <1>3, <2>1, <2>2, SamePrefix
    <2>4. SubSeq(BlocksOf(new), 1, n) = BlocksOf(new)
        BY <1>2, SubSeqFull
    <2> QED
        BY <2>1, <2>3, <2>4 DEF Below
<1>7. /\ IsChain(below) /\ below.height < MaxHeight /\ BlockPrev[top.block] = below.tip
      /\ top.block \notin DOMAIN below.index /\ Created(top.block) \cap DOMAIN below.utxo = {}
      /\ ConnectBlock(below, top.block).ok /\ ConnectBlock(below, top.block).undo = top.undo
      /\ top.block \in Block
    <2>1. n + 1 \in 1 .. n + 1
        BY <1>1
    <2>2. RightlyOn(st, n + 1)
        BY <1>4, <2>1
    <2>3. top.block \in Block
        BY <1>1 DEF Entry
    <2> QED
        BY <1>1, <2>2, <2>3 DEF RightlyOn
<1>8. c = ConnectBlock(below, top.block).chain
    <2>1. BlocksOf(st) = Append(BlocksOf(new), top.block)
        <3>1. /\ Append(BlocksOf(new), top.block) \in Seq(Block) /\ Len(Append(BlocksOf(new), top.block)) = n + 1
              /\ \A i \in 1 .. n : Append(BlocksOf(new), top.block)[i] = BlocksOf(new)[i]
              /\ Append(BlocksOf(new), top.block)[n + 1] = top.block
            BY <1>2, <1>7, AppendProperties
        <3>2. ASSUME NEW i \in 1 .. n + 1 PROVE BlocksOf(st)[i] = Append(BlocksOf(new), top.block)[i]
            <4>1. CASE i \in 1 .. n
                BY <1>1, <1>2, <1>3, <3>1, <4>1
            <4>2. CASE i = n + 1
                BY <1>1, <1>3, <3>1, <4>2
            <4>3. i \in 1 .. n \/ i = n + 1
                BY <1>1
            <4> QED
                BY <4>1, <4>2, <4>3
        <3> QED
            BY <1>3, <3>1, <3>2, SeqEqual
    <2> HIDE DEF below, top
    <2> QED
        BY <1>2, <1>5, <1>6, <1>7, <2>1, ReplaySteps
<1>9. r = [ok |-> TRUE, chain |-> below]
    <2> HIDE DEF below, top
    <2>1. DisconnectBlock(ConnectBlock(below, top.block).chain, top.block, ConnectBlock(below, top.block).undo)
             = [ok |-> TRUE, chain |-> below]
        BY <1>7, DisconnectUndoesBlock
    <2> QED
        BY <1>7, <1>8, <2>1
<1>10. ASSUME NEW i \in 1 .. n PROVE RightlyOn(new, i)
    <2>1. i \in Nat \ {0} /\ i <= Len(st) /\ i <= Len(new) /\ (\A j \in 1 .. i : st[j] = new[j]) /\ i \in 1 .. n + 1
        BY <1>1
    <2>2. RightlyOn(st, i)
        BY <1>4, <2>1
    <2> QED
        BY <1>1, <2>1, <2>2, SameBelow
<1> HIDE DEF below, r
<1>11. r.ok /\ r.chain = Replay(BlocksOf(new))
    BY <1>6, <1>9
<1>12. Replayed(r.chain, new)
    BY <1>1, <1>10, <1>11 DEF Replayed
<1> QED
    BY <1>11, <1>12 DEF r, new, top

-----------------------------------------------------------------------------
(* The supply and the schedule *)

IsShift(g, reward, times) == g = [n \in 0 .. times |-> IF n = 0 THEN reward ELSE g[n - 1] \div 2]

(* A reward shifted right any number of times is a number *)
LEMMA HalvedTyped ==
    ASSUME NEW reward \in Nat, NEW times \in Nat
    PROVE  Halved(reward, times) \in Nat
<1> DEFINE T == {m \in 0 .. times : \E g : IsShift(g, reward, m)}
<1>1. 0 \in T
    <2> DEFINE g == [n \in 0 .. 0 |-> reward]
    <2>1. g = [n \in 0 .. 0 |-> IF n = 0 THEN reward ELSE g[n - 1] \div 2]
        OBVIOUS
    <2> HIDE DEF g
    <2>2. IsShift(g, reward, 0)
        BY <2>1 DEF IsShift
    <2> QED
        BY <2>2
<1>2. ASSUME NEW m \in 1 .. times, m - 1 \in T PROVE m \in T
    <2>1. PICK g : IsShift(g, reward, m - 1)
        BY <1>2
    <2> DEFINE w == [n \in 0 .. m |-> IF n = m THEN g[m - 1] \div 2 ELSE g[n]]
    <2>2. ASSUME NEW n \in 0 .. m PROVE w[n] = IF n = 0 THEN reward ELSE w[n - 1] \div 2
        <3>1. CASE n = m
            BY <3>1
        <3>2. CASE n # m
            <4>1. n \in 0 .. m - 1 /\ w[n] = g[n]
                BY <3>2
            <4>2. n # 0 => w[n - 1] = g[n - 1]
                BY <3>2
            <4>3. g[n] = IF n = 0 THEN reward ELSE g[n - 1] \div 2
                BY <2>1, <4>1 DEF IsShift
            <4> QED
                BY <4>1, <4>2, <4>3
        <3> QED
            BY <3>1, <3>2
    <2>3. IsShift(w, reward, m)
        BY <2>2 DEF IsShift
    <2> HIDE DEF w
    <2> QED
        BY <2>3
<1>3. times \in T
    <2>1. 0 .. times \subseteq T
        <3> HIDE DEF T
        <3> QED
            BY <1>1, <1>2, CountUp
    <2>2. times \in 0 .. times
        OBVIOUS
    <2> QED
        BY <2>1, <2>2
<1> DEFINE f == CHOOSE g : IsShift(g, reward, times)
<1>4. IsShift(f, reward, times)
    <2>1. \E g : IsShift(g, reward, times)
        BY <1>3
    <2> QED
        BY <2>1, Zenon
<1>5. Halved(reward, times) = f[times]
    BY DEF Halved, IsShift
<1> HIDE DEF f
<1> DEFINE U == {n \in 0 .. times : f[n] \in Nat}
<1>6. f[0] = reward /\ \A n \in 1 .. times : f[n] = f[n - 1] \div 2
    BY <1>4 DEF IsShift
<1>7. 0 \in U
    BY <1>6
<1>8. ASSUME NEW n \in 1 .. times, n - 1 \in U PROVE n \in U
    <2>1. f[n - 1] \in Nat /\ n \in 0 .. times
        BY <1>8
    <2>2. f[n - 1] \div 2 \in Nat
        BY <2>1
    <2> QED
        BY <1>6, <2>1, <2>2
<1>9. 0 .. times \subseteq U
    <2> HIDE DEF U
    <2> QED
        BY <1>7, <1>8, CountUp
<1> QED
    BY <1>5, <1>9

(* The reward of every height is a number *)
LEMMA RewardTyped ==
    ASSUME NEW h \in Nat, NEW a \in Asset
    PROVE  GetBlockReward(h, a) \in Nat
<1> DEFINE halvings == (h - LaunchHeight[a]) \div HalvingInterval
<1>1. InitialReward[a] \in Nat /\ LaunchHeight[a] \in Nat /\ HalvingInterval \in Nat \ {0}
    BY PrimitivesAssumption
<1>2. CASE h < LaunchHeight[a] \/ halvings >= MaxHalvings
    BY <1>2 DEF GetBlockReward
<1>3. CASE ~(h < LaunchHeight[a] \/ halvings >= MaxHalvings)
    <2>1. h - LaunchHeight[a] \in Nat
        BY <1>1, <1>3
    <2>2. halvings \in Nat
        BY <1>1, <2>1, Division
    <2>3. GetBlockReward(h, a) = Halved(InitialReward[a], halvings)
        BY <1>3 DEF GetBlockReward
    <2> HIDE DEF halvings
    <2> QED
        BY <1>1, <2>2, <2>3, HalvedTyped
<1> QED
    BY <1>2, <1>3

(* An asset no output pays out is worth nothing in them *)
LEMMA AmountOfOthers ==
    ASSUME NEW t \in Tx, NEW a, a \notin AssetsOf(TxOutputs[t])
    PROVE  Amount(TxOutputs[t], a) = 0
<1> DEFINE outs == TxOutputs[t]
           f == [i \in {j \in DOMAIN outs : outs[j].asset = a} |-> outs[i].amount]
<1>1. DOMAIN f = {}
    BY DEF AssetsOf, Range
<1>2. Sum(f) = 0
    <2> HIDE DEF f
    <2> QED
        BY <1>1, SumOfNothing
<1>3. Amount(outs, a) = Sum(f) % U64
    BY DEF Amount
<1>4. 0 % U64 = 0
    BY PrimitivesAssumption
<1> QED
    BY <1>2, <1>3, <1>4

(* Smaller amounts have a smaller total *)
LEMMA SumKeepsOrder ==
    ASSUME NEW f, NEW g, IsFiniteSet(DOMAIN g), DOMAIN f = DOMAIN g,
           \A x \in DOMAIN g : f[x] \in Nat /\ g[x] \in Nat /\ f[x] <= g[x]
    PROVE  Sum(f) \in Nat /\ Sum(g) \in Nat /\ Sum(f) <= Sum(g)
<1>1. IsFiniteSet(Units(g)) /\ Sum(g) \in Nat /\ Sum(f) \in Nat
    BY FiniteUnits
<1>2. \A x \in DOMAIN f : \A k \in 1 .. f[x] : k \in 1 .. g[x]
    OBVIOUS
<1>3. ASSUME NEW u \in Units(f) PROVE u \in Units(g)
    <2>1. PICK x \in DOMAIN f : u \in {x} \X (1 .. f[x])
        BY DEF Units
    <2>2. u \in {x} \X (1 .. g[x])
        BY <1>2, <2>1
    <2> QED
        BY <2>2 DEF Units
<1>4. Cardinality(Units(f)) <= Cardinality(Units(g))
    BY <1>1, <1>3, FS_Subset
<1> QED
    BY <1>1, <1>4 DEF Sum

(* What a valid coinbase adds to the supply, asset by asset *)
LEMMA RewardAdds ==
    ASSUME NEW supply \in [Asset -> 0 .. U64 - 1], NEW h \in Nat, NEW b \in Block, BlockIsValid(b),
           RewardsAllowed(supply, h, b), NEW a \in Asset, supply[a] <= MaxSupply[a]
    PROVE  LET x == Amount(TxOutputs[Coinbase(b)], a)
               new == UpdateSupply(supply, b, 1)
           IN  /\ x \in Nat /\ x <= GetBlockReward(h, a)
               /\ new[a] = supply[a] + x /\ new[a] <= MaxSupply[a]
<1> DEFINE x == Amount(TxOutputs[Coinbase(b)], a)
<1>1. x \in 0 .. U64 - 1 /\ supply[a] \in 0 .. U64 - 1 /\ U64 \in Nat \ {0} /\ MaxSupply[a] \in Nat /\ Coinbase(b) \in Tx
    BY BlockParts, AmountTyped, PrimitivesAssumption
<1>2. GetBlockReward(h, a) \in Nat
    BY RewardTyped
<1>3. x <= GetBlockReward(h, a) /\ supply[a] + x < U64 /\ supply[a] + x <= MaxSupply[a]
    <2>1. CASE a \in AssetsOf(TxOutputs[Coinbase(b)])
        BY <2>1 DEF RewardsAllowed, IsValidBlockReward
    <2>2. CASE a \notin AssetsOf(TxOutputs[Coinbase(b)])
        <3>1. x = 0
            BY <1>1, <2>2, AmountOfOthers
        <3> HIDE DEF x
        <3> QED
            BY <1>1, <1>2, <3>1
    <2> QED
        BY <2>1, <2>2
<1>4. UpdateSupply(supply, b, 1)[a] = (supply[a] + 1 * x) % U64
    BY DEF UpdateSupply
<1> HIDE DEF x
<1>5. supply[a] + 1 * x = supply[a] + x /\ supply[a] + x \in 0 .. U64 - 1
    BY <1>1, <1>3
<1>6. \A y \in 0 .. U64 - 1 : y % U64 = y
    BY <1>1
<1> QED
    BY <1>1, <1>3, <1>4, <1>5, <1>6 DEF x

(* The claims of a stack of valid blocks *)
LEMMA ClaimsTyped ==
    ASSUME NEW st, Linked(st), NEW a
    PROVE  /\ DOMAIN Claims(st, a) = 1 .. Len(st) /\ Len(st) \in Nat
           /\ \A i \in 1 .. Len(st) : Claims(st, a)[i] = Claim(st[i], a) /\ Claim(st[i], a) \in 0 .. U64 - 1
           /\ IsFiniteSet(Units(Claims(st, a))) /\ Sum(Claims(st, a)) \in Nat
<1>1. DOMAIN st = 1 .. Len(st) /\ Len(st) \in Nat /\ \A i \in 1 .. Len(st) : st[i].block \in Block
    BY BlocksTyped DEF Linked
<1>2. \A i \in 1 .. Len(st) : Coinbase(st[i].block) \in Tx
    BY <1>1, BlockParts DEF Linked
<1>3. \A i \in 1 .. Len(st) : Claim(st[i], a) \in 0 .. U64 - 1
    BY <1>2, AmountTyped DEF Claim
<1>4. DOMAIN Claims(st, a) = 1 .. Len(st) /\ \A i \in 1 .. Len(st) : Claims(st, a)[i] = Claim(st[i], a)
    BY <1>1 DEF Claims
<1>5. IsFiniteSet(1 .. Len(st))
    BY <1>1, FS_Interval
<1>6. \A i \in 1 .. Len(st) : Claims(st, a)[i] \in Nat
    BY <1>3, <1>4, PrimitivesAssumption
<1>7. IsFiniteSet(Units(Claims(st, a))) /\ Sum(Claims(st, a)) \in Nat
    BY <1>4, <1>5, <1>6, FiniteUnits
<1> QED
    BY <1>1, <1>3, <1>4, <1>7

(* A stack with one block more claims as much more *)
LEMMA ClaimsOfOneMore ==
    ASSUME NEW st, Linked(st), NEW more, Linked(more), Len(more) = Len(st) + 1,
           \A i \in 1 .. Len(st) : more[i] = st[i], NEW a
    PROVE  Sum(Claims(more, a)) = Sum(Claims(st, a)) + Claim(more[Len(st) + 1], a)
<1> DEFINE n == Len(st)
           f == Claims(st, a)
           g == Claims(more, a)
<1>1. /\ DOMAIN f = 1 .. n /\ n \in Nat /\ IsFiniteSet(Units(f))
      /\ \A i \in 1 .. n : f[i] = Claim(st[i], a)
    BY ClaimsTyped
<1>2. /\ DOMAIN g = 1 .. n + 1
      /\ \A i \in 1 .. n + 1 : g[i] = Claim(more[i], a) /\ Claim(more[i], a) \in 0 .. U64 - 1
    BY ClaimsTyped
<1>3. \A i \in 1 .. n : more[i] = st[i]
    OBVIOUS
<1> HIDE DEF f, g, n
<1>4. n + 1 \notin DOMAIN f /\ DOMAIN g = DOMAIN f \cup {n + 1}
    BY <1>1, <1>2
<1>5. \A i \in DOMAIN f : g[i] = f[i]
    BY <1>1, <1>2, <1>3
<1>6. n + 1 \in 1 .. n + 1
    BY <1>1
<1>7. g[n + 1] = Claim(more[n + 1], a) /\ g[n + 1] \in Nat
    BY <1>2, <1>6, PrimitivesAssumption
<1>8. Sum(g) = Sum(f) + g[n + 1]
    <2> DEFINE m == n + 1
    <2>1. m \notin DOMAIN f /\ DOMAIN g = DOMAIN f \cup {m} /\ g[m] \in Nat
        BY <1>4, <1>7
    <2> HIDE DEF m
    <2>2. Sum(g) = Sum(f) + g[m]
        BY <1>1, <1>5, <2>1, SumOneMore
    <2> QED
        BY <2>2 DEF m
<1> QED
    BY <1>7, <1>8 DEF f, g, n

(* The supply stays what was claimed when a block is connected *)
LEMMA BackedPushed ==
    ASSUME NEW c, NEW st, IsChain(c), Linked(st), Follows(c, st), Backed(c, st),
           NEW e \in Entry, BlockIsValid(e.block), RewardsAllowed(c.supply, c.height + 1, e.block),
           Linked(Append(st, e)), NEW d, d.supply = UpdateSupply(c.supply, e.block, 1)
    PROVE  Backed(d, Append(st, e))
<1> DEFINE new == Append(st, e)
           n == Len(st)
<1>1. /\ new \in Seq(Entry) /\ Len(new) = n + 1 /\ n \in Nat
      /\ \A i \in 1 .. n : new[i] = st[i]
      /\ new[n + 1] = e
    BY Pushed DEF Linked
<1>2. c.height = n /\ c.supply \in [Asset -> 0 .. U64 - 1] /\ e.block \in Block
    BY DEF Follows, IsChain, Entry
<1>3. Linked(new)
    OBVIOUS
<1> HIDE DEF new, n
<1>4. ASSUME NEW a \in Asset
      PROVE  /\ d.supply[a] = Sum(Claims(new, a)) /\ d.supply[a] <= MaxSupply[a]
             /\ \A i \in 1 .. n + 1 : Claim(new[i], a) <= GetBlockReward(i, a)
    <2> DEFINE x == Claim(e, a)
               supply == UpdateSupply(c.supply, e.block, 1)
    <2>1. /\ c.supply[a] = Sum(Claims(st, a)) /\ c.supply[a] <= MaxSupply[a]
          /\ \A i \in 1 .. n : Claim(st[i], a) <= GetBlockReward(i, a)
        BY DEF Backed, n
    <2>2. RewardsAllowed(c.supply, n + 1, e.block) /\ n + 1 \in Nat
        BY <1>1, <1>2
    <2>3. x <= GetBlockReward(n + 1, a) /\ supply[a] = c.supply[a] + x /\ supply[a] <= MaxSupply[a]
        BY <1>2, <2>1, <2>2, RewardAdds DEF Claim
    <2>4. Sum(Claims(new, a)) = Sum(Claims(st, a)) + Claim(new[Len(st) + 1], a)
        BY <1>1, <1>3, ClaimsOfOneMore DEF n
    <2>5. new[Len(st) + 1] = e
        BY <1>1 DEF n
    <2> HIDE DEF x, supply
    <2>6. d.supply[a] = Sum(Claims(new, a)) /\ d.supply[a] <= MaxSupply[a]
        BY <2>1, <2>3, <2>4, <2>5 DEF x, supply
    <2>7. ASSUME NEW i \in 1 .. n + 1 PROVE Claim(new[i], a) <= GetBlockReward(i, a)
        <3>1. CASE i \in 1 .. n
            BY <1>1, <2>1, <3>1
        <3>2. CASE i = n + 1
            BY <1>1, <2>3, <3>2 DEF x
        <3>3. i \in 1 .. n \/ i = n + 1
            BY <1>1
        <3> QED
            BY <3>1, <3>2, <3>3
    <2> QED
        BY <2>6, <2>7
<1>5. Backed(d, new)
    BY <1>1, <1>4 DEF Backed
<1> QED
    BY <1>5 DEF new

(* And when one is disconnected *)
LEMMA BackedPopped ==
    ASSUME NEW c, NEW st, IsChain(c), Linked(st), st # <<>>, Backed(c, st),
           NEW d, d.supply = UpdateSupply(c.supply, Last(st).block, -1)
    PROVE  Backed(d, Front(st))
<1> DEFINE new == Front(st)
           n == Len(st) - 1
           e == Last(st)
<1>1. /\ new \in Seq(Entry) /\ Len(new) = n /\ n \in Nat /\ Len(st) = n + 1
      /\ \A i \in 1 .. n : new[i] = st[i]
      /\ e = st[n + 1] /\ e \in Entry
    BY Popped
<1>2. Linked(new) /\ c.supply \in [Asset -> 0 .. U64 - 1]
    BY LinkedPopped DEF IsChain
<1>3. d.supply = UpdateSupply(c.supply, e.block, -1)
    OBVIOUS
<1> HIDE DEF new, n, e
<1>4. ASSUME NEW a \in Asset
      PROVE  /\ d.supply[a] = Sum(Claims(new, a)) /\ d.supply[a] <= MaxSupply[a]
             /\ \A i \in 1 .. n : Claim(new[i], a) <= GetBlockReward(i, a)
    <2> DEFINE x == Claim(e, a)
               rest == Sum(Claims(new, a))
    <2>1. /\ c.supply[a] = Sum(Claims(st, a)) /\ c.supply[a] <= MaxSupply[a]
          /\ \A i \in 1 .. n + 1 : Claim(st[i], a) <= GetBlockReward(i, a)
        BY <1>1 DEF Backed
    <2>2. Sum(Claims(st, a)) = rest + x
        <3>1. \A i \in 1 .. Len(new) : st[i] = new[i]
            BY <1>1
        <3>2. Len(st) = Len(new) + 1 /\ st[Len(new) + 1] = e
            BY <1>1
        <3>3. Sum(Claims(st, a)) = Sum(Claims(new, a)) + Claim(st[Len(new) + 1], a)
            BY <1>2, <3>1, <3>2, ClaimsOfOneMore
        <3> QED
            BY <3>2, <3>3
    <2>3. rest \in Nat /\ x \in 0 .. U64 - 1 /\ U64 \in Nat \ {0}
        <3>1. n + 1 \in 1 .. Len(st)
            BY <1>1
        <3>2. Claim(st[n + 1], a) \in 0 .. U64 - 1
            BY <3>1, ClaimsTyped
        <3> QED
            BY <1>1, <1>2, <3>2, ClaimsTyped, PrimitivesAssumption
    <2>4. c.supply[a] \in 0 .. U64 - 1 /\ MaxSupply[a] \in Nat
        BY <1>2, PrimitivesAssumption
    <2>5. d.supply[a] = (c.supply[a] + (-1) * x) % U64
        BY <1>3 DEF UpdateSupply, Claim
    <2> HIDE DEF x, rest
    <2>6. c.supply[a] + (-1) * x = rest /\ rest \in 0 .. U64 - 1 /\ rest <= MaxSupply[a]
        BY <2>1, <2>2, <2>3, <2>4
    <2>7. \A y \in 0 .. U64 - 1 : y % U64 = y
        BY <2>3
    <2>8. d.supply[a] = rest
        BY <2>5, <2>6, <2>7
    <2>9. ASSUME NEW i \in 1 .. n PROVE Claim(new[i], a) <= GetBlockReward(i, a)
        <3>1. i \in 1 .. n + 1 /\ new[i] = st[i]
            BY <1>1
        <3> QED
            BY <2>1, <3>1
    <2> QED
        BY <2>6, <2>8, <2>9 DEF rest
<1>5. Backed(d, new)
    BY <1>1, <1>4 DEF Backed
<1> QED
    BY <1>5 DEF new

-----------------------------------------------------------------------------
(* The invariant holds of a new object *)
LEMMA EmptyHolds == Holds(EmptyChain, <<>>, {})
<1> DEFINE c == EmptyChain
           st == <<>>
<1>1. c = [utxo |-> EmptyFun, height |-> 0, tip |-> ZeroHash, index |-> EmptyFun, supply |-> [a \in Asset |-> 0]]
    BY DEF EmptyChain
<1>2. DOMAIN EmptyFun = {} /\ EmptyFun = [x \in {} |-> EmptyFun[x]]
    BY DEF EmptyFun
<1>3. st \in Seq(Entry) /\ Len(st) = 0
    BY EmptySeq
<1> HIDE DEF c, st
<1>4. IsChain(c)
    <2>1. IsCoinMap(EmptyFun)
        BY <1>2 DEF IsCoinMap
    <2>2. [a \in Asset |-> 0] \in [Asset -> 0 .. U64 - 1] /\ 0 \in 0 .. MaxHeight
        BY PrimitivesAssumption, ChainAssumption
    <2> QED
        BY <1>1, <1>2, <2>1, <2>2 DEF IsChain
<1>5. Linked(st)
    BY <1>3 DEF Linked
<1>6. Follows(c, st)
    <2>1. c.height = 0 /\ c.tip = ZeroHash /\ c.index = EmptyFun
        BY <1>1
    <2> QED
        BY <1>2, <1>3, <2>1 DEF Follows
<1>7. Backed(c, st)
    <2>1. ASSUME NEW a \in Asset PROVE c.supply[a] = 0 /\ Sum(Claims(st, a)) = 0 /\ 0 <= MaxSupply[a]
        <3>1. DOMAIN Claims(st, a) = {}
            BY <1>3, <1>5, ClaimsTyped
        <3>2. Sum(Claims(st, a)) = 0
            BY <3>1, SumOfNothing
        <3> QED
            BY <1>1, <3>2, PrimitivesAssumption
    <2> QED
        BY <1>3, <2>1 DEF Backed
<1>8. Replayed(c, st)
    <2>1. BlocksOf(st) \in Seq(Block) /\ Len(BlocksOf(st)) = 0
        BY <1>3, BlocksTyped
    <2>2. BlocksOf(st) = <<>>
        BY <2>1, EmptySeq
    <2> QED
        BY <1>3, <2>2, ReplaySteps DEF Replayed, c
<1>9. Holds(c, st, {})
    BY <1>4, <1>5, <1>6, <1>7, <1>8 DEF Holds
<1> QED
    BY <1>9 DEF c, st

(* It holds after a block is connected *)
LEMMA ConnectHolds ==
    ASSUME NEW b \in Block, Holds(chain, stack, taint), Connect(b)
    PROVE  Holds(chain', stack', taint')
<1> DEFINE r == ConnectBlock(chain, b)
           done == Connecting(chain, b)[Len(Body(b))]
           e == [block |-> b, undo |-> r.undo]
           new == Append(stack, e)
<1>1. /\ IsChain(chain) /\ Linked(stack) /\ Follows(chain, stack) /\ Backed(chain, stack)
      /\ taint \subseteq {"residue", "overwrite", "wrap"}
      /\ taint \subseteq {"wrap"} => Replayed(chain, stack)
    BY DEF Holds
<1>2. /\ chain.height < MaxHeight /\ BlockPrev[b] = chain.tip /\ r.ok
      /\ chain' = r.chain /\ stack' = new
    BY DEF Connect, Offered
<1>3. /\ taint \subseteq taint' /\ taint' \subseteq taint \cup {"overwrite", "wrap"}
      /\ Created(b) \cap DOMAIN chain.utxo # {} => "overwrite" \in taint'
    BY DEF Connect, Marks
<1>4. Connected(chain, b, r, done)
    BY <1>1, <1>2, ConnectBlockWorks
<1> HIDE DEF r, done
<1>5. /\ Fits(chain, b) /\ RewardsAllowed(chain.supply, chain.height + 1, b)
      /\ r.undo \in Records /\ IsChain(r.chain)
      /\ r.chain.height = chain.height + 1 /\ r.chain.tip = b
      /\ r.chain.supply = UpdateSupply(chain.supply, b, 1)
      /\ DOMAIN r.chain.index = DOMAIN chain.index \cup {b}
      /\ r.chain.index[b] = [height |-> chain.height + 1, work |-> ChainWork(chain, b)]
      /\ \A x \in DOMAIN chain.index \ {b} : r.chain.index[x] = chain.index[x]
    BY <1>4 DEF Connected
<1>6. e \in Entry /\ e.block = b /\ BlockIsValid(b)
    BY <1>5 DEF Entry, Fits
<1> HIDE DEF e
<1>7. Linked(new) /\ b \notin DOMAIN chain.index
    BY <1>1, <1>2, <1>6, LinkedPushed
<1>8. Follows(r.chain, new)
    <2>1. /\ BlockPrev[e.block] = chain.tip /\ e.block \notin DOMAIN chain.index
          /\ r.chain.height = chain.height + 1 /\ r.chain.tip = e.block
          /\ DOMAIN r.chain.index = DOMAIN chain.index \cup {e.block}
          /\ r.chain.index[e.block] = [height |-> chain.height + 1, work |-> ChainWork(chain, e.block)]
          /\ \A x \in DOMAIN chain.index \ {e.block} : r.chain.index[x] = chain.index[x]
        BY ONLY <1>2, <1>5, <1>6, <1>7
    <2> QED
        BY ONLY <1>1, <1>6, <2>1, FollowsPushed
<1>9. Backed(r.chain, new)
    BY <1>1, <1>5, <1>6, <1>7, BackedPushed
<1>10. taint' \subseteq {"wrap"} => Replayed(r.chain, new)
    <2> SUFFICES ASSUME taint' \subseteq {"wrap"} PROVE Replayed(r.chain, new)
        OBVIOUS
    <2>1. Created(b) \cap DOMAIN chain.utxo = {} /\ taint \subseteq {"wrap"}
        BY <1>3
    <2>2. Replayed(chain, stack)
        BY <1>1, <2>1
    <2>3. Replayed(ConnectBlock(chain, b).chain, Append(stack, [block |-> b, undo |-> ConnectBlock(chain, b).undo]))
        BY <1>1, <1>2, <1>5, <1>7, <2>1, <2>2, ReplayedPushed DEF r
    <2> QED
        BY <2>3 DEF r, e
<1>11. taint' \subseteq {"residue", "overwrite", "wrap"}
    BY <1>1, <1>3
<1> QED
    BY <1>2, <1>5, <1>7, <1>8, <1>9, <1>10, <1>11 DEF Holds

(* Another chain with the same height, tip, index and supply *)
LEMMA SameButCoinsHolds ==
    ASSUME NEW c, NEW d, SameButCoins(d, c), NEW st, Follows(c, st), Backed(c, st)
    PROVE  Follows(d, st) /\ Backed(d, st)
BY DEF SameButCoins, Follows, Backed

(* It holds after a block is refused *)
LEMMA ConnectFailsHolds ==
    ASSUME NEW b \in Block, Holds(chain, stack, taint), ConnectFails(b)
    PROVE  Holds(chain', stack', taint')
<1> DEFINE r == ConnectBlock(chain, b)
<1>1. /\ IsChain(chain) /\ Linked(stack) /\ Follows(chain, stack) /\ Backed(chain, stack)
      /\ taint \subseteq {"residue", "overwrite", "wrap"}
      /\ taint \subseteq {"wrap"} => Replayed(chain, stack)
    BY DEF Holds
<1>2. chain.height < MaxHeight /\ ~r.ok /\ chain' = r.chain /\ stack' = stack
    BY DEF ConnectFails, Offered
<1>3. taint' = IF r.chain # chain THEN taint \cup {"residue"} ELSE taint
    BY DEF ConnectFails
<1>4. IsChain(r.chain) /\ SameButCoins(r.chain, chain)
    BY <1>1, <1>2, ConnectBlockRefuses
<1> HIDE DEF r
<1>5. Follows(r.chain, stack) /\ Backed(r.chain, stack)
    BY <1>1, <1>4, SameButCoinsHolds
<1>6. taint' \subseteq {"wrap"} => Replayed(r.chain, stack)
    BY <1>1, <1>3
<1>7. taint' \subseteq {"residue", "overwrite", "wrap"}
    BY <1>1, <1>3
<1> QED
    BY <1>1, <1>2, <1>4, <1>5, <1>6, <1>7 DEF Holds

(* It holds after the tip is disconnected *)
LEMMA DisconnectHolds ==
    ASSUME Holds(chain, stack, taint), Disconnect
    PROVE  Holds(chain', stack', taint')
<1> DEFINE top == Last(stack)
           r == DisconnectBlock(chain, top.block, top.undo)
<1>1. /\ IsChain(chain) /\ Linked(stack) /\ Follows(chain, stack) /\ Backed(chain, stack)
      /\ taint \subseteq {"residue", "overwrite", "wrap"}
      /\ taint \subseteq {"wrap"} => Replayed(chain, stack)
    BY DEF Holds
<1>2. /\ stack # <<>> /\ chain' = r.chain /\ stack' = (IF r.ok THEN Front(stack) ELSE stack)
      /\ taint' = taint
    BY DEF Disconnect
<1>3. top \in Entry /\ top = stack[Len(stack)] /\ Len(stack) \in 1 .. Len(stack)
    BY <1>1, <1>2, Popped
<1>4. top.block \in Block /\ top.undo \in Records /\ BlockIsValid(top.block)
    BY <1>1, <1>3 DEF Entry, Linked
<1>5. /\ r.ok \in BOOLEAN /\ IsChain(r.chain)
      /\ ~r.ok => SameButCoins(r.chain, chain)
      /\ r.ok => /\ r.chain.height = chain.height - 1 /\ r.chain.tip = BlockPrev[top.block]
                 /\ DOMAIN r.chain.index = DOMAIN chain.index \ {top.block}
                 /\ \A x \in DOMAIN chain.index \ {top.block} : r.chain.index[x] = chain.index[x]
                 /\ r.chain.supply = UpdateSupply(chain.supply, top.block, -1)
    <2> HIDE DEF top
    <2> QED
        BY <1>1, <1>4, DisconnectBlockWorks
<1>6. taint \subseteq {"wrap"} => r.ok /\ Replayed(r.chain, Front(stack))
    BY <1>1, <1>2, ReplayedPopped
<1> HIDE DEF r
<1>7. CASE r.ok
    <2>1. Linked(Front(stack))
        BY <1>1, <1>2, LinkedPopped
    <2>2. Follows(r.chain, Front(stack))
        BY <1>1, <1>2, <1>5, <1>7, FollowsPopped
    <2>3. Backed(r.chain, Front(stack))
        BY <1>1, <1>2, <1>5, <1>7, BackedPopped
    <2>4. stack' = Front(stack)
        BY <1>2, <1>7
    <2> QED
        BY <1>1, <1>2, <1>5, <1>6, <2>1, <2>2, <2>3, <2>4 DEF Holds
<1>8. CASE ~r.ok
    <2>1. Follows(r.chain, stack) /\ Backed(r.chain, stack)
        BY <1>1, <1>5, <1>8, SameButCoinsHolds
    <2>2. stack' = stack /\ ~(taint \subseteq {"wrap"})
        BY <1>2, <1>6, <1>8
    <2> QED
        BY <1>1, <1>2, <1>5, <2>1, <2>2 DEF Holds
<1> QED
    BY <1>5, <1>7, <1>8

(* Every step keeps it *)
LEMMA StepHolds == ChainInv /\ [Next]_vars => ChainInv'
<1> SUFFICES ASSUME ChainInv, [Next]_vars PROVE ChainInv'
    OBVIOUS
<1>1. Holds(chain, stack, taint) /\ Holds(saved.chain, saved.stack, saved.taint)
    BY DEF ChainInv
<1>2. ASSUME NEW b \in Block, Connect(b) PROVE ChainInv'
    BY <1>1, <1>2, ConnectHolds DEF ChainInv, Connect
<1>3. ASSUME NEW b \in Block, ConnectFails(b) PROVE ChainInv'
    BY <1>1, <1>3, ConnectFailsHolds DEF ChainInv, ConnectFails
<1>4. CASE Disconnect
    BY <1>1, <1>4, DisconnectHolds DEF ChainInv, Disconnect
<1>5. CASE CreateSnapshot
    BY <1>1, <1>5 DEF ChainInv, CreateSnapshot
<1>6. CASE RestoreSnapshot
    BY <1>1, <1>6 DEF ChainInv, RestoreSnapshot
<1>7. CASE Reset
    BY <1>1, <1>7, EmptyHolds DEF ChainInv, Reset
<1>8. CASE UNCHANGED vars
    BY <1>1, <1>8 DEF ChainInv, vars
<1> QED
    BY <1>2, <1>3, <1>4, <1>5, <1>6, <1>7, <1>8 DEF Next

(* The inductive invariant: whatever is connected, refused, disconnected,    *)
(* saved and restored, the chain and its snapshot are those of their stacks. *)
THEOREM ChainInductive == Spec => []ChainInv
<1>1. Init => ChainInv
    BY EmptyHolds DEF Init, ChainInv, NoSnapshot
<1> QED
    BY <1>1, StepHolds, PTL DEF Spec

(* Every field of the chain keeps its type: no coin is above the highest block *)
(* and no supply leaves the 64-bit words, even after a block failed half way.  *)
THEOREM ChainTypeCorrect == Spec => []TypeOK
<1>1. ChainInv => TypeOK
    <2> SUFFICES ASSUME ChainInv PROVE TypeOK
        OBVIOUS
    <2>1. IsChain(chain) /\ taint \subseteq {"residue", "overwrite", "wrap"}
        BY DEF ChainInv, Holds
    <2>2. \A p \in DOMAIN chain.utxo : chain.utxo[p] \in LowCoin
        BY <2>1 DEF IsChain, IsCoinMap
    <2>3. LowCoin \subseteq Coin /\ \A coin \in LowCoin : coin.height \in 1 .. MaxHeight
        BY ChainAssumption DEF LowCoin, Coin
    <2>4. Range(chain.utxo) \subseteq LowCoin
        BY <2>2 DEF Range
    <2> QED
        BY <2>1, <2>3, <2>4 DEF TypeOK, IsChain, IsCoinMap
<1> QED
    BY <1>1, ChainInductive, PTL

(* The index of ConnectBlock and DisconnectBlock is exactly the active chain: *)
(* an entry comes and goes with its block, the work counts the blocks below.  *)
THEOREM ChainIndexFollows == Spec => []IndexFollowsStack
<1>1. ChainInv => IndexFollowsStack
    <2> SUFFICES ASSUME ChainInv PROVE IndexFollowsStack
        OBVIOUS
    <2>1. Linked(stack) /\ Follows(chain, stack)
        BY DEF ChainInv, Holds
    <2>2. /\ stack \in Seq(Entry) /\ DOMAIN stack = 1 .. Len(stack) /\ Len(stack) \in Nat
          /\ DOMAIN BlocksOf(stack) = 1 .. Len(stack)
          /\ \A i \in 1 .. Len(stack) : BlocksOf(stack)[i] = stack[i].block
        BY <2>1, BlocksTyped DEF Linked
    <2>3. chain.height = Len(stack) /\ \A i \in DOMAIN stack : chain.index[stack[i].block] = [height |-> i, work |-> i]
        BY <2>1, <2>2 DEF Follows
    <2>4. DOMAIN chain.index = Range(BlocksOf(stack))
        BY <2>1, <2>2 DEF Follows, Range
    <2>5. chain.tip = IF stack = <<>> THEN ZeroHash ELSE Last(stack).block
        <3>1. stack = <<>> <=> Len(stack) = 0
            BY <2>2, EmptySeq
        <3> QED
            BY <2>1, <3>1 DEF Follows, Last
    <2> QED
        BY <2>3, <2>4, <2>5 DEF IndexFollowsStack
<1> QED
    BY <1>1, ChainInductive, PTL

(* "Restores UTXO set using undo data": as long as no block failed half way   *)
(* and none replaced a coin, DisconnectBlock gives back every field of the     *)
(* chain, so the chain is the one its blocks give when connected to a new one. *)
THEOREM ChainUndoIsExact == Spec => []UndoIsExactWithoutOverwrite
<1>1. ChainInv => UndoIsExactWithoutOverwrite
    BY DEF ChainInv, Holds, Replayed, UndoIsExactWithoutOverwrite
<1> QED
    BY <1>1, ChainInductive, PTL

(* The supply the chain accounts for is what the coinbases of its blocks       *)
(* claimed, never more than the schedule releases nor than the cap, also after *)
(* blocks that failed half way and blocks that replaced coins.                 *)
THEOREM ChainSupplyWithinSchedule == Spec => []SupplyWithinSchedule
<1>1. ChainInv => SupplyWithinSchedule
    <2> SUFFICES ASSUME ChainInv, NEW a \in Asset
                 PROVE  LET claimed == Sum([i \in DOMAIN stack |-> Amount(TxOutputs[Coinbase(stack[i].block)], a)])
                        IN  /\ chain.supply[a] = claimed
                            /\ claimed <= Sum([h \in 1 .. chain.height |-> GetBlockReward(h, a)])
                            /\ claimed <= MaxSupply[a]
        BY DEF SupplyWithinSchedule
    <2> DEFINE due == [h \in 1 .. chain.height |-> GetBlockReward(h, a)]
               f == Claims(stack, a)
    <2>1. Linked(stack) /\ Follows(chain, stack) /\ Backed(chain, stack)
        BY DEF ChainInv, Holds
    <2>2. chain.supply[a] = Sum(f) /\ chain.supply[a] <= MaxSupply[a]
        BY <2>1 DEF Backed
    <2>3. f = [i \in DOMAIN stack |-> Amount(TxOutputs[Coinbase(stack[i].block)], a)]
        BY DEF Claims, Claim
    <2>4. /\ DOMAIN f = 1 .. Len(stack) /\ Len(stack) \in Nat
          /\ \A i \in 1 .. Len(stack) : f[i] = Claim(stack[i], a) /\ Claim(stack[i], a) \in 0 .. U64 - 1
        BY <2>1, ClaimsTyped
    <2>5. \A i \in 1 .. Len(stack) : Claim(stack[i], a) <= GetBlockReward(i, a) /\ GetBlockReward(i, a) \in Nat
        BY <2>1, <2>4, RewardTyped DEF Backed
    <2>6. DOMAIN due = 1 .. Len(stack)
        BY <2>1 DEF Follows
    <2>7. \A i \in 1 .. Len(stack) : due[i] = GetBlockReward(i, a)
        BY <2>6
    <2>8. IsFiniteSet(1 .. Len(stack))
        BY <2>4, FS_Interval
    <2> HIDE DEF f, due
    <2>9. \A i \in DOMAIN due : f[i] \in Nat /\ due[i] \in Nat /\ f[i] <= due[i]
        BY <2>4, <2>5, <2>6, <2>7, PrimitivesAssumption
    <2>10. Sum(f) <= Sum(due)
        BY <2>4, <2>6, <2>8, <2>9, SumKeepsOrder
    <2> QED
        BY <2>2, <2>3, <2>10 DEF due
<1> QED
    BY <1>1, ChainInductive, PTL

-----------------------------------------------------------------------------
(* Where the coins of a chain come from, and that no spend took one twice *)

(* The places up to the j-th transaction of the h-th block *)
Upto(st, h, j) == {x \in Places(st) : x[1] < h \/ (x[1] = h /\ x[2] <= j)}

(* The transaction at k created the coin, and none of the places since spent it *)
Source(st, S, k, p) ==
    /\ k \in S /\ p \in OutPointsOf(TxAt(st, k))
    /\ \A m \in S : Before(k, m) => p \notin Range(TxInputs[TxAt(st, m)])

(* Every coin of u has such a source, and carries its height and its kind *)
Described(u, st, S) ==
    \A p \in DOMAIN u : \E k \in S :
        /\ Source(st, S, k, p)
        /\ u[p].height = k[1] /\ (u[p].coinbase <=> IsCoinbase(TxAt(st, k)))

(* The inputs of the transaction at x were coins, mature and unspent *)
SoundAt(st, x) ==
    ~IsCoinbase(TxAt(st, x)) =>
        \A p \in Range(TxInputs[TxAt(st, x)]) : \E k \in Places(st) :
            /\ Before(k, x) /\ p \in OutPointsOf(TxAt(st, k))
            /\ IsCoinbase(TxAt(st, k)) => x[1] >= k[1] + CoinbaseMaturity
            /\ \A m \in Places(st) : Before(k, m) /\ Before(m, x) => p \notin Range(TxInputs[TxAt(st, m)])

(* A place is a block of the stack and a transaction of the block *)
LEMMA PlaceIs ==
    ASSUME NEW st, Linked(st)
    PROVE  /\ \A h \in 1 .. Len(st) : \A j \in 1 .. Len(BlockTxs[st[h].block]) :
                 /\ <<h, j>> \in Places(st) /\ TxAt(st, <<h, j>>) = BlockTxs[st[h].block][j]
                 /\ TxAt(st, <<h, j>>) \in Tx
           /\ \A x \in Places(st) : /\ x = <<x[1], x[2]>> /\ x[1] \in 1 .. Len(st) /\ x[2] \in Nat
                                    /\ x[2] \in 1 .. Len(BlockTxs[st[x[1]].block]) /\ TxAt(st, x) \in Tx
           /\ \A h \in 1 .. Len(st) : Len(BlockTxs[st[h].block]) \in Nat /\ Len(st) \in Nat
<1>1. DOMAIN st = 1 .. Len(st) /\ Len(st) \in Nat /\ \A h \in 1 .. Len(st) : st[h].block \in Block
    BY BlocksTyped DEF Linked
<1>2. \A h \in 1 .. Len(st) : /\ BlockTxs[st[h].block] \in Seq(Tx) /\ Len(BlockTxs[st[h].block]) \in Nat
                              /\ DOMAIN BlockTxs[st[h].block] = 1 .. Len(BlockTxs[st[h].block])
    BY <1>1, LenProperties, PrimitivesAssumption
<1>3. \A h \in 1 .. Len(st) : \A j \in 1 .. Len(BlockTxs[st[h].block]) : BlockTxs[st[h].block][j] \in Tx
    BY <1>2
<1>4. ASSUME NEW x \in Places(st)
      PROVE  x = <<x[1], x[2]>> /\ x[1] \in 1 .. Len(st) /\ x[2] \in 1 .. Len(BlockTxs[st[x[1]].block])
    <2>1. PICK h \in 1 .. Len(st) : x \in {h} \X DOMAIN BlockTxs[st[h].block]
        BY <1>1 DEF Places
    <2> QED
        BY <1>2, <2>1
<1>5. \A h \in 1 .. Len(st) : \A j \in 1 .. Len(BlockTxs[st[h].block]) : <<h, j>> \in Places(st)
    BY <1>1, <1>2 DEF Places
<1>6. \A x \in Places(st) : x[2] \in Nat /\ TxAt(st, x) \in Tx
    BY <1>2, <1>3, <1>4 DEF TxAt
<1>7. \A h \in 1 .. Len(st) : \A j \in 1 .. Len(BlockTxs[st[h].block]) :
          TxAt(st, <<h, j>>) = BlockTxs[st[h].block][j] /\ TxAt(st, <<h, j>>) \in Tx
    BY <1>3 DEF TxAt
<1> QED
    BY <1>1, <1>2, <1>4, <1>5, <1>6, <1>7

(* The place after those up to it *)
LEMMA NextPlace ==
    ASSUME NEW st, Linked(st), NEW h \in 1 .. Len(st), NEW j \in 1 .. Len(BlockTxs[st[h].block])
    PROVE  /\ Upto(st, h, j) = Upto(st, h, j - 1) \cup {<<h, j>>}
           /\ \A k \in Upto(st, h, j - 1) : Before(k, <<h, j>>) /\ ~Before(<<h, j>>, k)
           /\ \A m \in Places(st) : Before(m, <<h, j>>) => m \in Upto(st, h, j - 1)
           /\ ~Before(<<h, j>>, <<h, j>>)
<1>1. <<h, j>> \in Places(st) /\ <<h, j>>[1] = h /\ <<h, j>>[2] = j /\ h \in Nat /\ j \in Nat
    BY PlaceIs
<1>2. \A x \in Places(st) : x = <<x[1], x[2]>> /\ x[1] \in Nat /\ x[2] \in Nat
    BY PlaceIs
<1>3. ASSUME NEW x \in Places(st)
      PROVE  (x[1] < h \/ (x[1] = h /\ x[2] <= j)) <=> (x[1] < h \/ (x[1] = h /\ x[2] <= j - 1)) \/ x = <<h, j>>
    BY <1>1, <1>2
<1>4. Upto(st, h, j) = Upto(st, h, j - 1) \cup {<<h, j>>}
    BY <1>1, <1>3 DEF Upto
<1>5. \A k \in Upto(st, h, j - 1) : Before(k, <<h, j>>) /\ ~Before(<<h, j>>, k)
    BY <1>1, <1>2 DEF Upto, Before
<1>6. \A m \in Places(st) : Before(m, <<h, j>>) => m \in Upto(st, h, j - 1)
    BY <1>1, <1>2 DEF Upto, Before
<1> QED
    BY <1>1, <1>4, <1>5, <1>6 DEF Before

(* The coins AddOutputs puts in *)
LEMMA AddOutputsCoins ==
    ASSUME NEW u, NEW t, NEW h, NEW coinbase \in BOOLEAN, NEW p \in OutPointsOf(t)
    PROVE  AddOutputs(u, t, h, coinbase)[p].height = h /\ AddOutputs(u, t, h, coinbase)[p].coinbase = coinbase
BY DEF AddOutputs, Over

(* A transaction that spends nothing the coins hold, or only ins of them, *)
(* leaves the others described                                              *)
LEMMA DescribedGrows ==
    ASSUME NEW st, Linked(st), NEW h \in 1 .. Len(st), NEW j \in 1 .. Len(BlockTxs[st[h].block]),
           NEW u, Described(u, st, Upto(st, h, j - 1)),
           NEW w, DOMAIN w \subseteq DOMAIN u \cup OutPointsOf(TxAt(st, <<h, j>>)),
           \A p \in DOMAIN w \ OutPointsOf(TxAt(st, <<h, j>>)) :
               w[p] = u[p] /\ p \notin Range(TxInputs[TxAt(st, <<h, j>>)]),
           \A p \in OutPointsOf(TxAt(st, <<h, j>>)) :
               w[p].height = h /\ (w[p].coinbase <=> IsCoinbase(TxAt(st, <<h, j>>)))
    PROVE  Described(w, st, Upto(st, h, j))
<1> DEFINE x == <<h, j>>
           S == Upto(st, h, j - 1)
           T == Upto(st, h, j)
           t == TxAt(st, x)
<1>1. T = S \cup {x} /\ (\A k \in S : Before(k, x) /\ ~Before(x, k)) /\ ~Before(x, x) /\ x[1] = h
    BY NextPlace
<1> HIDE DEF x, S, T
<1>2. ASSUME NEW p \in DOMAIN w
      PROVE  \E k \in T : Source(st, T, k, p) /\ w[p].height = k[1] /\ (w[p].coinbase <=> IsCoinbase(TxAt(st, k)))
    <2>1. CASE p \in OutPointsOf(t)
        <3>1. Source(st, T, x, p)
            BY <1>1, <2>1 DEF Source
        <3>2. w[p].height = h /\ (w[p].coinbase <=> IsCoinbase(t))
            BY <2>1 DEF x
        <3> QED
            BY <1>1, <3>1, <3>2
    <2>2. CASE p \notin OutPointsOf(t)
        <3>1. p \in DOMAIN u /\ w[p] = u[p] /\ p \notin Range(TxInputs[t])
            BY <1>2, <2>2 DEF x
        <3>2. PICK k \in S : Source(st, S, k, p) /\ u[p].height = k[1] /\ (u[p].coinbase <=> IsCoinbase(TxAt(st, k)))
            BY <3>1 DEF Described, S
        <3>3. Source(st, T, k, p)
            BY <1>1, <3>1, <3>2 DEF Source
        <3> QED
            BY <1>1, <3>1, <3>2, <3>3
    <2> QED
        BY <2>1, <2>2
<1> QED
    BY <1>2 DEF Described, T


(* ConnectTx spends coins that are mature *)
LEMMA SpendsMature ==
    ASSUME NEW s, IsWorkState(s), NEW t \in Tx, ~IsCoinbase(t), NEW h, ConnectTx(s, t, h).ok
    PROVE  \A p \in Range(TxInputs[t]) : p \in DOMAIN s.utxo /\ IsSpendable(s.utxo[p], h)
<1>1. ValidateTransaction(s.utxo, t, h)
    <2> SUFFICES ASSUME ~ValidateTransaction(s.utxo, t, h) PROVE FALSE
        OBVIOUS
    <2>1. ConnectTx(s, t, h) = [s EXCEPT !.ok = FALSE]
        BY DEF ConnectTx
    <2>2. ~ConnectTx(s, t, h).ok
        BY <2>1 DEF IsWorkState
    <2> QED
        BY <2>2
<1> QED
    BY <1>1 DEF ValidateTransaction

(* The first transaction of a block is its coinbase, the others are its body *)
LEMMA BlockPlaces ==
    ASSUME NEW b \in Block, BlockIsValid(b)
    PROVE  /\ Len(BlockTxs[b]) = Len(Body(b)) + 1 /\ Len(Body(b)) \in Nat
           /\ BlockTxs[b][1] = Coinbase(b)
           /\ \A n \in 1 .. Len(Body(b)) : BlockTxs[b][n + 1] = Body(b)[n]
<1>1. BlockTxs[b] \in Seq(Tx) /\ BlockTxs[b] # <<>>
    BY PrimitivesAssumption DEF BlockIsValid
<1> QED
    BY <1>1, HeadTailProperties, LenProperties DEF Coinbase, Body

(* The outputs of the transaction at <<h, j>>, added to what it left, are described *)
LEMMA AddedDescribed ==
    ASSUME NEW st, Linked(st), NEW h \in 1 .. Len(st), NEW j \in 1 .. Len(BlockTxs[st[h].block]),
           NEW t \in Tx, t = TxAt(st, <<h, j>>), h \in 1 .. MaxHeight,
           NEW u, Described(u, st, Upto(st, h, j - 1)),
           NEW rest, IsCoinMap(rest), DOMAIN rest \subseteq DOMAIN u,
           \A p \in DOMAIN rest : rest[p] = u[p] /\ p \notin Range(TxInputs[t]),
           NEW coinbase \in BOOLEAN, coinbase <=> IsCoinbase(t)
    PROVE  Described(AddOutputs(rest, t, h, coinbase), st, Upto(st, h, j))
<1> DEFINE w == AddOutputs(rest, t, h, coinbase)
<1>1. /\ DOMAIN w = DOMAIN rest \cup OutPointsOf(t)
      /\ \A p \in DOMAIN rest \ OutPointsOf(t) : w[p] = rest[p]
    BY ONLY IsCoinMap(rest), t \in Tx, h \in 1 .. MaxHeight, coinbase \in BOOLEAN, AddOutputsTyped
<1>2. \A p \in OutPointsOf(t) : w[p].height = h /\ w[p].coinbase = coinbase
    BY AddOutputsCoins
<1> HIDE DEF w
<1>3. \A p \in OutPointsOf(t) : w[p].height = h /\ (w[p].coinbase <=> IsCoinbase(t))
    BY <1>2
<1>4. DOMAIN w \subseteq DOMAIN u \cup OutPointsOf(t)
    BY <1>1
<1>5. \A p \in DOMAIN w \ OutPointsOf(t) : w[p] = u[p] /\ p \notin Range(TxInputs[t])
    BY <1>1
<1>6. /\ DOMAIN w \subseteq DOMAIN u \cup OutPointsOf(TxAt(st, <<h, j>>))
      /\ \A p \in DOMAIN w \ OutPointsOf(TxAt(st, <<h, j>>)) :
             w[p] = u[p] /\ p \notin Range(TxInputs[TxAt(st, <<h, j>>)])
      /\ \A p \in OutPointsOf(TxAt(st, <<h, j>>)) :
             w[p].height = h /\ (w[p].coinbase <=> IsCoinbase(TxAt(st, <<h, j>>)))
    BY <1>3, <1>4, <1>5
<1>7. Described(w, st, Upto(st, h, j))
    BY <1>6, DescribedGrows
<1> QED
    BY <1>7 DEF w

(* No coin a chain has comes from the input of a coinbase *)
LEMMA NoneAtZero ==
    ASSUME NEW st, Linked(st), NEW u, NEW h, NEW j, Described(u, st, Upto(st, h, j)), NEW t, IsCoinbase(t)
    PROVE  \A p \in DOMAIN u : p \notin Range(TxInputs[t])
<1> SUFFICES ASSUME NEW p \in DOMAIN u PROVE p \notin Range(TxInputs[t])
    OBVIOUS
<1>1. PICK k \in Upto(st, h, j) : p \in OutPointsOf(TxAt(st, k))
    BY DEF Described, Source
<1>2. TxAt(st, k) \in Tx
    BY PlaceIs DEF Upto
<1>3. p[1] \in Tx
    BY <1>1, <1>2, OutPointsTyped
<1>4. Range(TxInputs[t]) = {<<ZeroHash, 0>>}
    BY DEF IsCoinbase, CoinbaseInput, Range
<1> QED
    BY <1>3, <1>4, PrimitivesAssumption

(* The transaction at <<h, j>>: the coins it leaves are described, and it is sound *)
LEMMA TxDescribed ==
    ASSUME NEW st, Linked(st), NEW h \in 1 .. Len(st), NEW j \in 1 .. Len(BlockTxs[st[h].block]),
           NEW t \in Tx, t = TxAt(st, <<h, j>>), ~IsCoinbase(t), h \in 1 .. MaxHeight,
           NEW s, IsWorkState(s), ConnectTx(s, t, h).ok, Described(s.utxo, st, Upto(st, h, j - 1))
    PROVE  Described(ConnectTx(s, t, h).utxo, st, Upto(st, h, j)) /\ SoundAt(st, <<h, j>>)
<1> DEFINE u == s.utxo
           ins == Range(TxInputs[t])
           rest == RemoveCoins(u, ins)
           S == Upto(st, h, j - 1)
           x == <<h, j>>
<1>1. ConnectTx(s, t, h).utxo = AddOutputs(rest, t, h, FALSE)
    BY ConnectTxWorks
<1>2. \A p \in ins : p \in DOMAIN u /\ IsSpendable(u[p], h)
    BY SpendsMature
<1>3. IsCoinMap(u) /\ Described(u, st, S)
    BY DEF IsWorkState
<1>4. /\ \A k \in S : Before(k, x) /\ k \in Places(st)
      /\ \A i \in Places(st) : Before(i, x) => i \in S
      /\ x[1] = h
    BY NextPlace DEF Upto
<1> HIDE DEF u, ins
<1>5. /\ IsCoinMap(rest) /\ DOMAIN rest = DOMAIN u \ ins
      /\ \A p \in DOMAIN u \ ins : rest[p] = u[p]
    BY <1>3, RemoveCoinsTyped
<1> HIDE DEF rest, S
<1>6. Described(AddOutputs(rest, t, h, FALSE), st, Upto(st, h, j))
    <2> DEFINE coinbase == FALSE
    <2>1. coinbase \in BOOLEAN /\ (coinbase <=> IsCoinbase(t))
        OBVIOUS
    <2> HIDE DEF coinbase
    <2>2. \A p \in DOMAIN rest : rest[p] = u[p] /\ p \notin Range(TxInputs[t])
        BY <1>5 DEF ins
    <2>3. Described(u, st, Upto(st, h, j - 1)) /\ DOMAIN rest \subseteq DOMAIN u
        BY <1>3, <1>5 DEF S
    <2>4. Described(AddOutputs(rest, t, h, coinbase), st, Upto(st, h, j))
        BY <1>5, <2>1, <2>2, <2>3, AddedDescribed
    <2> QED
        BY <2>4 DEF coinbase
<1> HIDE DEF x
<1>7. ASSUME NEW p \in ins
      PROVE  \E k \in Places(st) :
                /\ Before(k, x) /\ p \in OutPointsOf(TxAt(st, k))
                /\ IsCoinbase(TxAt(st, k)) => x[1] >= k[1] + CoinbaseMaturity
                /\ \A i \in Places(st) : Before(k, i) /\ Before(i, x) => p \notin Range(TxInputs[TxAt(st, i)])
    <2>1. PICK k \in S : /\ Source(st, S, k, p) /\ u[p].height = k[1]
                         /\ (u[p].coinbase <=> IsCoinbase(TxAt(st, k)))
        BY <1>2, <1>3, <1>7 DEF Described
    <2>2. IsCoinbase(TxAt(st, k)) => x[1] >= k[1] + CoinbaseMaturity
        BY <1>2, <1>4, <1>7, <2>1 DEF IsSpendable
    <2> QED
        BY <1>4, <2>1, <2>2 DEF Source
<1>8. SoundAt(st, x)
    BY <1>7 DEF SoundAt, ins, x
<1> QED
    BY <1>1, <1>6, <1>8 DEF x

(* Along the loop of ConnectBlock every coin is described and every spend sound *)
LEMMA LoopDescribed ==
    ASSUME NEW st, Linked(st), NEW h \in 1 .. Len(st), NEW c, Fits(c, st[h].block), c.height + 1 = h,
           Described(c.utxo, st, Upto(st, h, 0)),
           Connecting(c, st[h].block)[Len(Body(st[h].block))].ok
    PROVE  /\ Described(Connecting(c, st[h].block)[Len(Body(st[h].block))].utxo, st, Upto(st, h, Len(BlockTxs[st[h].block])))
           /\ \A j \in 1 .. Len(BlockTxs[st[h].block]) : SoundAt(st, <<h, j>>)
<1> DEFINE b == st[h].block
           f == Connecting(c, b)
           N == Len(Body(b))
           T == {n \in 0 .. N : /\ Described(f[n].utxo, st, Upto(st, h, n + 1))
                                /\ \A j \in 1 .. n + 1 : SoundAt(st, <<h, j>>)}
<1>1. b \in Block /\ BlockIsValid(b) /\ h \in 1 .. MaxHeight /\ IsCoinMap(c.utxo)
    BY DEF Fits
<1>2. /\ Len(BlockTxs[b]) = N + 1 /\ N \in Nat /\ BlockTxs[b][1] = Coinbase(b)
      /\ \A n \in 1 .. N : BlockTxs[b][n + 1] = Body(b)[n]
    BY <1>1, BlockPlaces
<1>3. /\ Coinbase(b) \in Tx /\ IsCoinbase(Coinbase(b))
      /\ \A n \in 1 .. N : Body(b)[n] \in Tx /\ ~IsCoinbase(Body(b)[n])
    BY <1>1, BlockParts
<1>4. \A n \in 1 .. N : f[n] = ConnectTx(f[n - 1], Body(b)[n], h)
    BY <1>2, ConnectingSteps
<1>5. /\ \A n \in 0 .. N : IsWorkState(f[n]) /\ f[n].ok
      /\ f[0].utxo = AddOutputs(c.utxo, Coinbase(b), h, TRUE)
    BY LoopTyped
<1>6. \A j \in 1 .. Len(BlockTxs[b]) : TxAt(st, <<h, j>>) = BlockTxs[b][j]
    BY PlaceIs
<1> HIDE DEF f, N
<1>8. 0 \in T
    <2> DEFINE t == Coinbase(b)
               u == c.utxo
               one == 1
               coinbase == TRUE
    <2>1. /\ one \in 1 .. Len(BlockTxs[st[h].block]) /\ t = TxAt(st, <<h, one>>) /\ one - 1 = 0
          /\ t \in Tx /\ IsCoinbase(t)
          /\ coinbase \in BOOLEAN /\ (coinbase <=> IsCoinbase(t))
        BY <1>2, <1>3, <1>6
    <2>2. Described(u, st, Upto(st, h, one - 1)) /\ IsCoinMap(u)
        BY <1>1, <2>1
    <2> HIDE DEF t, u, one, coinbase, T
    <2>3. \A p \in DOMAIN u : p \notin Range(TxInputs[t])
        BY <2>1, <2>2, NoneAtZero
    <2>4. Described(AddOutputs(u, t, h, coinbase), st, Upto(st, h, one))
        BY <1>1, <2>1, <2>2, <2>3, AddedDescribed
    <2>5. Described(f[0].utxo, st, Upto(st, h, one))
        BY <1>5, <2>4 DEF t, u, coinbase
    <2>6. SoundAt(st, <<h, one>>)
        BY <2>1 DEF SoundAt
    <2>7. one = 1 /\ one = 0 + 1 /\ 0 \in 0 .. N /\ \A j \in 1 .. 0 + 1 : j = one
        BY <1>2 DEF one
    <2>8. Described(f[0].utxo, st, Upto(st, h, 0 + 1)) /\ \A j \in 1 .. 0 + 1 : SoundAt(st, <<h, j>>)
        BY <2>5, <2>6, <2>7
    <2> QED
        BY <2>7, <2>8 DEF T
<1>9. ASSUME NEW n \in 1 .. N, n - 1 \in T PROVE n \in T
    <2> DEFINE j == n + 1
               t == Body(b)[n]
               s == f[n - 1]
    <2>1. n \in 0 .. N /\ j - 1 = n /\ j \in 1 .. Len(BlockTxs[st[h].block]) /\ (n - 1) + 1 = n /\ n - 1 \in 0 .. N
        BY <1>2
    <2>2. Described(s.utxo, st, Upto(st, h, j - 1)) /\ \A i \in 1 .. n : SoundAt(st, <<h, i>>)
        BY <1>9, <2>1
    <2>3. t \in Tx /\ ~IsCoinbase(t) /\ t = TxAt(st, <<h, j>>)
        BY <1>2, <1>3, <1>6, <2>1
    <2>4. IsWorkState(s) /\ f[n] = ConnectTx(s, t, h) /\ f[n].ok
        BY <1>4, <1>5, <2>1
    <2> HIDE DEF j, t, s, T, b
    <2>5. Described(ConnectTx(s, t, h).utxo, st, Upto(st, h, j)) /\ SoundAt(st, <<h, j>>)
        BY <1>1, <2>1, <2>2, <2>3, <2>4, TxDescribed
    <2>6. Described(f[n].utxo, st, Upto(st, h, n + 1))
        BY <2>4, <2>5 DEF j
    <2>7. ASSUME NEW i \in 1 .. n + 1 PROVE SoundAt(st, <<h, i>>)
        <3>1. CASE i \in 1 .. n
            BY <2>2, <3>1
        <3>2. CASE i = j
            BY <2>5, <3>2
        <3>3. i \in 1 .. n \/ i = j
            BY <1>2 DEF j
        <3> QED
            BY <3>1, <3>2, <3>3
    <2> QED
        BY <2>1, <2>6, <2>7 DEF T
<1>10. N \in T
    <2> HIDE DEF T
    <2>1. 0 .. N \subseteq T
        BY <1>2, <1>8, <1>9, CountUp
    <2> QED
        BY <1>2, <2>1
<1>11. Described(f[N].utxo, st, Upto(st, h, N + 1)) /\ \A j \in 1 .. N + 1 : SoundAt(st, <<h, j>>)
    BY <1>10
<1> QED
    BY <1>2, <1>11 DEF f, N


(* The chain below a block, one block at a time *)
LEMMA BelowSteps ==
    ASSUME NEW st, Linked(st)
    PROVE  /\ Below(st, 1) = EmptyChain
           /\ \A n \in 1 .. Len(st) : Below(st, n + 1) = ConnectBlock(Below(st, n), st[n].block).chain
<1> DEFINE blocks == BlocksOf(st)
<1>1. /\ blocks \in Seq(Block) /\ Len(blocks) = Len(st) /\ Len(st) \in Nat
      /\ \A i \in 1 .. Len(st) : blocks[i] = st[i].block /\ st[i].block \in Block
    BY BlocksTyped DEF Linked
<1> HIDE DEF blocks
<1>2. SubSeq(blocks, 1, 1 - 1) = <<>>
    BY <1>1, SubSeqProperties
<1>3. Below(st, 1) = EmptyChain
    BY <1>2, ReplaySteps DEF Below, blocks
<1>4. ASSUME NEW n \in 1 .. Len(st)
      PROVE  Below(st, n + 1) = ConnectBlock(Below(st, n), st[n].block).chain
    <2> DEFINE up == SubSeq(blocks, 1, n)
               low == SubSeq(blocks, 1, n - 1)
               b == blocks[n]
    <2>1. /\ up \in Seq(Block) /\ Len(up) = n /\ \A i \in 1 .. n : up[i] = blocks[i]
          /\ low \in Seq(Block) /\ Len(low) = n - 1 /\ \A i \in 1 .. n - 1 : low[i] = blocks[i]
          /\ b \in Block
        BY <1>1, SubSeqProperties
    <2> HIDE DEF up, low, b
    <2>2. /\ Append(low, b) \in Seq(Block) /\ Len(Append(low, b)) = n
          /\ \A i \in 1 .. n - 1 : Append(low, b)[i] = low[i]
          /\ Append(low, b)[n] = b
        BY <2>1, AppendProperties, LenProperties
    <2>3. \A i \in 1 .. n : up[i] = Append(low, b)[i]
        <3>1. \A i \in 1 .. n : i \in 1 .. n - 1 \/ i = n
            BY <1>1
        <3> QED
            BY <2>1, <2>2, <3>1 DEF b
    <2>4. up = Append(low, b)
        BY <2>1, <2>2, <2>3, SeqEqual
    <2>5. Replay(up) = ConnectBlock(Replay(low), b).chain
        BY <2>1, <2>4, ReplaySteps
    <2>6. Below(st, n + 1) = Replay(up) /\ Below(st, n) = Replay(low)
        <3>1. (n + 1) - 1 = n
            BY <1>1
        <3> QED
            BY <3>1 DEF Below, up, low, blocks
    <2> QED
        BY <1>1, <2>5, <2>6 DEF b
<1> QED
    BY <1>3, <1>4

(* The places of the blocks up to the h-th are those below the next *)
LEMMA UptoNext ==
    ASSUME NEW st, Linked(st), NEW h \in 1 .. Len(st)
    PROVE  Upto(st, h, Len(BlockTxs[st[h].block])) = Upto(st, h + 1, 0)
<1>1. \A x \in Places(st) : /\ x[1] \in Nat /\ x[2] \in Nat /\ x[2] >= 1
                            /\ x[2] <= Len(BlockTxs[st[x[1]].block])
    BY PlaceIs
<1>2. \A x \in Places(st) : (x[1] < h \/ (x[1] = h /\ x[2] <= Len(BlockTxs[st[h].block])))
                            <=> (x[1] < h + 1 \/ (x[1] = h + 1 /\ x[2] <= 0))
    BY <1>1
<1> QED
    BY <1>2 DEF Upto

(* In a chain that its blocks give, every spend is sound *)
LEMMA ReplayedSound ==
    ASSUME NEW c, NEW st, Linked(st), Replayed(c, st)
    PROVE  \A x \in Places(st) : SoundAt(st, x)
<1> DEFINE N == Len(st)
           T == {n \in 0 .. N : /\ Below(st, n + 1).height = n
                                /\ Described(Below(st, n + 1).utxo, st, Upto(st, n + 1, 0))
                                /\ \A x \in Places(st) : x[1] <= n => SoundAt(st, x)}
<1>1. N \in Nat /\ \A x \in Places(st) : x[1] \in 1 .. N
    BY PlaceIs, BlocksTyped DEF Linked
<1>2. 0 \in T
    <2>1. Below(st, 1) = EmptyChain /\ 0 + 1 = 1 /\ 0 \in 0 .. N
        BY <1>1, BelowSteps
    <2>2. Below(st, 1).height = 0 /\ DOMAIN Below(st, 1).utxo = {}
        BY <2>1 DEF EmptyChain, EmptyFun
    <2>3. Described(Below(st, 1).utxo, st, Upto(st, 1, 0))
        BY <2>2 DEF Described
    <2>4. \A x \in Places(st) : x[1] <= 0 => SoundAt(st, x)
        BY <1>1
    <2> QED
        BY <2>1, <2>2, <2>3, <2>4
<1>3. ASSUME NEW h \in 1 .. N, h - 1 \in T PROVE h \in T
    <2> DEFINE u == Below(st, h)
               b == st[h].block
               r == ConnectBlock(u, b)
               done == Connecting(u, b)[Len(Body(b))]
               up == h + 1
    <2>1. (h - 1) + 1 = h /\ h \in 0 .. N /\ h \in Nat
        BY <1>1
    <2>2. /\ u.height = h - 1 /\ Described(u.utxo, st, Upto(st, h, 0))
          /\ \A x \in Places(st) : x[1] <= h - 1 => SoundAt(st, x)
        BY <1>3, <2>1
    <2>3. b \in Block
        BY BlocksTyped DEF Linked
    <2>4. IsChain(u) /\ u.height < MaxHeight /\ r.ok
        BY DEF Replayed, RightlyOn
    <2>5. Below(st, up) = r.chain
        BY BelowSteps
    <2> HIDE DEF u, up, T
    <2>6. Connected(u, b, r, done)
        BY <2>3, <2>4, ConnectBlockWorks
    <2>7. Fits(u, b) /\ done.ok /\ r.chain.utxo = done.utxo /\ r.chain.height = u.height + 1
        BY <2>6 DEF Connected
    <2>8. u.height + 1 = h
        BY <2>1, <2>2
    <2>9. /\ Described(done.utxo, st, Upto(st, h, Len(BlockTxs[b])))
          /\ \A j \in 1 .. Len(BlockTxs[b]) : SoundAt(st, <<h, j>>)
        BY <2>2, <2>7, <2>8, LoopDescribed
    <2>10. Upto(st, h, Len(BlockTxs[b])) = Upto(st, up, 0)
        BY UptoNext DEF up
    <2>11. Described(Below(st, up).utxo, st, Upto(st, up, 0)) /\ Below(st, up).height = h
        BY <2>5, <2>7, <2>8, <2>9, <2>10
    <2>12. ASSUME NEW x \in Places(st), x[1] <= h PROVE SoundAt(st, x)
        <3>1. CASE x[1] <= h - 1
            BY <2>2, <3>1
        <3>2. CASE x[1] = h
            <4>1. x = <<h, x[2]>> /\ x[2] \in 1 .. Len(BlockTxs[b])
                BY <3>2, PlaceIs
            <4> QED
                BY <2>9, <4>1
        <3>3. x[1] <= h - 1 \/ x[1] = h
            BY <1>1, <2>1, <2>12
        <3> QED
            BY <3>1, <3>2, <3>3
    <2> QED
        BY <2>1, <2>11, <2>12 DEF T, up
<1>4. N \in T
    <2> HIDE DEF T
    <2>1. 0 .. N \subseteq T
        BY <1>1, <1>2, <1>3, CountUp
    <2> QED
        BY <1>1, <2>1
<1> QED
    BY <1>1, <1>4

(* Every coin a transaction of the active chain spends was created before it, *)
(* is mature, and was not spent in between (Chain::ValidateTransaction)        *)
THEOREM ChainSpendsAreSound == Spec => []SpendsAreSound
<1>1. ChainInv => SpendsAreSound
    <2> SUFFICES ASSUME ChainInv, taint \subseteq {"wrap"} PROVE \A x \in Places(stack) : SoundAt(stack, x)
        BY DEF SpendsAreSound, SoundAt
    <2>1. Linked(stack) /\ Replayed(chain, stack)
        BY DEF ChainInv, Holds
    <2> QED
        BY <2>1, ReplayedSound
<1> QED
    BY <1>1, ChainInductive, PTL

-----------------------------------------------------------------------------
(* What the coins of a chain are worth.  An outpoint has one output, that of  *)
(* its transaction, so a set of outpoints says what its coins are worth.      *)

Known == {p \in OutPoint : p[1] \in Tx /\ p[2] \in DOMAIN TxOutputs[p[1]]}
Value(p) == TxOutputs[p[1]][p[2]]
Share(p, a)  == IF Value(p).asset = a THEN Value(p).amount ELSE 0
Shares(D, a) == [p \in D |-> Share(p, a)]
Worth(D, a)  == Sum(Shares(D, a))

Finite(D) == D \subseteq Known /\ IsFiniteSet(D)

(* Every coin is the output of its outpoint *)
Theirs(u) == Finite(DOMAIN u) /\ \A p \in DOMAIN u : u[p].output = Value(p)

(* Totals agree when one list of amounts only renames the other *)
LEMMA SumRenamed ==
    ASSUME NEW f, NEW g, NEW m \in Bijection(DOMAIN f, DOMAIN g),
           IsFiniteSet(DOMAIN f), \A x \in DOMAIN f : f[x] \in Nat /\ g[m[x]] = f[x]
    PROVE  Sum(g) = Sum(f) /\ Sum(f) \in Nat
<1> DEFINE n == [u \in Units(f) |-> <<m[u[1]], u[2]>>]
<1>1. IsFiniteSet(Units(f)) /\ Sum(f) \in Nat
    BY FiniteUnits
<1>2. /\ m \in [DOMAIN f -> DOMAIN g]
      /\ \A x, y \in DOMAIN f : m[x] = m[y] => x = y
      /\ \A y \in DOMAIN g : \E x \in DOMAIN f : m[x] = y
    BY DEF Bijection, Injection, Surjection, IsInjective
<1>3. \A u \in Units(f) : u = <<u[1], u[2]>> /\ u[1] \in DOMAIN f /\ u[2] \in 1 .. f[u[1]]
    BY DEF Units
<1>4. \A u \in Units(g) : u = <<u[1], u[2]>> /\ u[1] \in DOMAIN g /\ u[2] \in 1 .. g[u[1]]
    BY DEF Units
<1>5. ASSUME NEW u \in Units(f) PROVE n[u] \in Units(g)
    <2>1. m[u[1]] \in DOMAIN g /\ u[2] \in 1 .. g[m[u[1]]] /\ n[u] = <<m[u[1]], u[2]>>
        BY <1>2, <1>3
    <2> QED
        BY <2>1, UnitOf
<1>6. ASSUME NEW u \in Units(f), NEW v \in Units(f), n[u] = n[v] PROVE u = v
    <2>1. m[u[1]] = m[v[1]] /\ u[2] = v[2]
        BY <1>6
    <2>2. u[1] = v[1]
        BY <1>2, <1>3, <2>1
    <2> QED
        BY <1>3, <2>1, <2>2
<1>7. ASSUME NEW v \in Units(g) PROVE \E u \in Units(f) : n[u] = v
    <2>1. PICK x \in DOMAIN f : m[x] = v[1]
        BY <1>2, <1>4
    <2>2. v[2] \in 1 .. f[x]
        BY <1>4, <2>1
    <2>3. <<x, v[2]>> \in Units(f)
        BY <2>2, UnitOf
    <2>4. n[<<x, v[2]>>] = <<m[x], v[2]>>
        BY <2>3
    <2> QED
        BY <1>4, <2>1, <2>3, <2>4
<1>8. n \in Bijection(Units(f), Units(g))
    <2>1. n \in [Units(f) -> Units(g)]
        BY <1>5
    <2> HIDE DEF n
    <2> QED
        BY <1>6, <1>7, <2>1 DEF Bijection, Injection, Surjection, IsInjective
<1>9. Cardinality(Units(g)) = Cardinality(Units(f))
    BY <1>1, <1>8, FS_Bijection DEF ExistsBijection
<1> QED
    BY <1>1, <1>9 DEF Sum

(* Amounts of zero add nothing *)
LEMMA SumOfSome ==
    ASSUME NEW f, NEW g, DOMAIN f \subseteq DOMAIN g,
           \A x \in DOMAIN f : g[x] = f[x], \A x \in DOMAIN g \ DOMAIN f : g[x] = 0
    PROVE  Sum(f) = Sum(g)
<1>1. \A x, k : <<x, k>> \in Units(f) <=> <<x, k>> \in Units(g)
    <2> SUFFICES ASSUME NEW x, NEW k PROVE <<x, k>> \in Units(f) <=> <<x, k>> \in Units(g)
        OBVIOUS
    <2>1. <<x, k>> \in Units(f) <=> x \in DOMAIN f /\ k \in 1 .. f[x]
        BY UnitOf
    <2>2. <<x, k>> \in Units(g) <=> x \in DOMAIN g /\ k \in 1 .. g[x]
        BY UnitOf
    <2> QED
        BY <2>1, <2>2
<1>2. \A u \in Units(f) : u = <<u[1], u[2]>>
    BY DEF Units
<1>3. \A u \in Units(g) : u = <<u[1], u[2]>>
    BY DEF Units
<1>4. Units(f) = Units(g)
    BY <1>1, <1>2, <1>3
<1> QED
    BY <1>4 DEF Sum

(* An outpoint has its share in an asset *)
LEMMA ShareTyped ==
    ASSUME NEW p \in Known, NEW a
    PROVE  Value(p) \in Output /\ Share(p, a) \in Nat
<1>1. p[1] \in Tx /\ TxOutputs[p[1]] \in Seq(Output) /\ p[2] \in DOMAIN TxOutputs[p[1]]
    BY PrimitivesAssumption DEF Known
<1>2. Value(p) \in Output
    BY <1>1, LenProperties DEF Value
<1> QED
    BY <1>2, PrimitivesAssumption DEF Share, Output

(* More coins are worth no less *)
LEMMA WorthGrows ==
    ASSUME NEW D, Finite(D), NEW E, E \subseteq D, NEW a
    PROVE  Finite(E) /\ Worth(D, a) \in Nat /\ Worth(E, a) \in Nat /\ Worth(E, a) <= Worth(D, a)
<1>1. IsFiniteSet(D) /\ D \subseteq Known
    BY DEF Finite
<1>2. IsFiniteSet(E)
    BY <1>1, FS_Subset
<1>3. /\ DOMAIN Shares(D, a) = D /\ \A p \in D : Shares(D, a)[p] = Share(p, a) /\ Share(p, a) \in Nat
      /\ DOMAIN Shares(E, a) = E /\ \A p \in E : Shares(E, a)[p] = Share(p, a)
    BY <1>1, ShareTyped DEF Shares
<1>4. \A p \in E : Shares(E, a)[p] \in Nat /\ Shares(E, a)[p] <= Shares(D, a)[p]
    BY <1>3
<1>5. Sum(Shares(E, a)) \in Nat /\ Sum(Shares(D, a)) \in Nat /\ Sum(Shares(E, a)) <= Sum(Shares(D, a))
    BY <1>1, <1>3, <1>4, SumMonotone
<1> QED
    BY <1>1, <1>2, <1>5 DEF Finite, Worth

(* Coins split in two are worth the two parts *)
LEMMA WorthSplit ==
    ASSUME NEW D, Finite(D), NEW E, E \subseteq D, NEW a
    PROVE  /\ Worth(D, a) = Worth(E, a) + Worth(D \ E, a)
           /\ Worth(E, a) \in Nat /\ Worth(D \ E, a) \in Nat
<1> DEFINE f == Shares(D, a)
<1>1. IsFiniteSet(D) /\ D \subseteq Known
    BY DEF Finite
<1>2. DOMAIN f = D /\ \A p \in D : f[p] = Share(p, a) /\ Share(p, a) \in Nat
    BY <1>1, ShareTyped DEF Shares
<1>3. Shares(E, a) = [p \in E |-> f[p]] /\ Shares(D \ E, a) = [p \in D \ E |-> f[p]]
    BY <1>2 DEF Shares
<1> HIDE DEF f
<1>4. /\ Sum([p \in E |-> f[p]]) \in Nat /\ Sum([p \in DOMAIN f \ E |-> f[p]]) \in Nat
      /\ Sum(f) = Sum([p \in E |-> f[p]]) + Sum([p \in DOMAIN f \ E |-> f[p]])
    BY <1>1, <1>2, SumSplit
<1> QED
    BY <1>2, <1>3, <1>4 DEF Worth, f

(* Coins put together are worth no more than the two parts *)
LEMMA WorthJoined ==
    ASSUME NEW D, Finite(D), NEW E, Finite(E), NEW a
    PROVE  /\ Finite(D \cup E) /\ Worth(D \cup E, a) <= Worth(D, a) + Worth(E, a)
           /\ Worth(D \cup E, a) \in Nat /\ Worth(D, a) \in Nat /\ Worth(E, a) \in Nat
<1>1. Finite(D \cup E)
    BY FS_Union DEF Finite
<1>2. /\ Worth(D \cup E, a) = Worth(D, a) + Worth((D \cup E) \ D, a)
      /\ Worth(D, a) \in Nat /\ Worth((D \cup E) \ D, a) \in Nat
    BY <1>1, WorthSplit
<1>3. Worth((D \cup E) \ D, a) <= Worth(E, a) /\ Worth(E, a) \in Nat
    BY WorthGrows
<1> QED
    BY <1>1, <1>2, <1>3

(* A remainder is no more than what was divided *)
LEMMA RemainderAtMost ==
    ASSUME NEW x \in Nat, NEW n \in Nat \ {0}
    PROVE  x % n \in Nat /\ x % n <= x /\ (x < n => x % n = x)
<1>1. x \div n \in Nat /\ x % n \in 0 .. n - 1 /\ x = n * (x \div n) + (x % n)
    BY Division
<1>2. n * (x \div n) \in Nat
    BY <1>1
<1> QED
    BY <1>1, <1>2

(* The outputs of a transaction are worth what they add up to *)
LEMMA WorthOfOutputs ==
    ASSUME NEW t \in Tx, AmountsFit(t), NEW a \in Asset
    PROVE  /\ Finite(OutPointsOf(t)) /\ Worth(OutPointsOf(t), a) \in Nat
           /\ Worth(OutPointsOf(t), a) = Amount(TxOutputs[t], a)
<1> DEFINE outs == TxOutputs[t]
           h == [i \in {j \in DOMAIN outs : outs[j].asset = a} |-> outs[i].amount]
           f == [i \in DOMAIN outs |-> IF outs[i].asset = a THEN outs[i].amount ELSE 0]
           g == Shares(OutPointsOf(t), a)
           m == [i \in DOMAIN outs |-> <<t, i>>]
<1>1. outs \in Seq(Output) /\ Len(outs) \in Nat /\ DOMAIN outs = 1 .. Len(outs)
    BY PrimitivesAssumption, LenProperties
<1>2. \A i \in DOMAIN outs : outs[i] \in Output /\ outs[i].amount \in Nat
    <2>1. \A i \in DOMAIN outs : outs[i] \in Output
        BY <1>1, LenProperties
    <2>2. \A o \in Output : o.amount \in Nat
        BY PrimitivesAssumption DEF Output
    <2> QED
        BY <2>1, <2>2
<1>3. IsFiniteSet(DOMAIN outs)
    BY <1>1, FS_Interval
<1>4. OutPointsOf(t) \subseteq Known
    BY OutPointsTyped DEF Known
<1>5. IsFiniteSet(OutPointsOf(t))
    <2>1. IsFiniteSet({t})
        BY FS_Singleton
    <2> QED
        BY <1>3, <2>1, FS_Product DEF OutPointsOf
<1>6. \A i \in DOMAIN outs : /\ <<t, i>> \in OutPointsOf(t) /\ Value(<<t, i>>) = outs[i]
                             /\ Share(<<t, i>>, a) = f[i]
    BY DEF OutPointsOf, Value, Share
<1>7. \A p \in OutPointsOf(t) : \E i \in DOMAIN outs : p = <<t, i>>
    BY DEF OutPointsOf
<1>8. /\ DOMAIN f = DOMAIN outs /\ DOMAIN g = OutPointsOf(t)
      /\ \A p \in OutPointsOf(t) : g[p] = Share(p, a)
    BY DEF Shares
<1>9. \A i \in DOMAIN outs : f[i] \in Nat
    BY <1>2
<1>10. /\ DOMAIN h \subseteq DOMAIN f /\ \A i \in DOMAIN h : f[i] = h[i]
       /\ \A i \in DOMAIN f \ DOMAIN h : f[i] = 0
    OBVIOUS
<1>11. m \in [DOMAIN outs -> OutPointsOf(t)] /\ \A i \in DOMAIN outs : m[i] = <<t, i>>
    BY <1>6
<1>12. Sum(h) < U64 /\ Amount(outs, a) = Sum(h) % U64
    BY DEF AmountsFit, Amount
<1> HIDE DEF outs, h, f, g, m
<1>13. Sum(h) = Sum(f)
    BY <1>10, SumOfSome
<1>14. m \in Bijection(DOMAIN f, DOMAIN g)
    <2>1. \A i, j \in DOMAIN outs : m[i] = m[j] => i = j
        BY <1>11
    <2>2. \A p \in OutPointsOf(t) : \E i \in DOMAIN outs : m[i] = p
        BY <1>7, <1>11
    <2> QED
        BY <1>8, <1>11, <2>1, <2>2 DEF Bijection, Injection, Surjection, IsInjective
<1>15. \A i \in DOMAIN f : f[i] \in Nat /\ g[m[i]] = f[i]
    BY <1>6, <1>8, <1>9, <1>11
<1>16. Sum(g) = Sum(f) /\ Sum(f) \in Nat
    BY <1>3, <1>8, <1>14, <1>15, SumRenamed
<1>17. Amount(outs, a) = Sum(h)
    BY <1>12, <1>13, <1>16, RemainderAtMost, PrimitivesAssumption
<1> QED
    BY <1>4, <1>5, <1>13, <1>16, <1>17 DEF Finite, Worth, g, outs

(* What the inputs of a transaction add up to, they are worth *)
LEMMA WorthOfInputs ==
    ASSUME NEW u, Theirs(u), NEW t \in Tx, Range(TxInputs[t]) \subseteq DOMAIN u,
           IsInjective(TxInputs[t]), NEW a
    PROVE  /\ Amount(InputOutputs(u, t), a) \in Nat /\ Worth(Range(TxInputs[t]), a) \in Nat
           /\ Amount(InputOutputs(u, t), a) <= Worth(Range(TxInputs[t]), a)
<1> DEFINE ins == TxInputs[t]
           outs == InputOutputs(u, t)
           h == [i \in {j \in DOMAIN outs : outs[j].asset = a} |-> outs[i].amount]
           f == [i \in DOMAIN ins |-> Share(ins[i], a)]
           g == Shares(Range(ins), a)
<1>1. DOMAIN ins = 1 .. Len(ins) /\ Len(ins) \in Nat
    BY InputsTyped
<1>2. IsFiniteSet(DOMAIN ins)
    BY <1>1, FS_Interval
<1>3. DOMAIN outs = DOMAIN ins /\ \A i \in DOMAIN ins : outs[i] = u[ins[i]].output
    BY DEF InputOutputs
<1>4. \A i \in DOMAIN ins : ins[i] \in Range(ins) /\ ins[i] \in DOMAIN u
    BY DEF Range
<1>5. \A i \in DOMAIN ins : ins[i] \in Known /\ outs[i] = Value(ins[i])
    BY <1>3, <1>4 DEF Theirs, Finite
<1>6. \A i \in DOMAIN ins : f[i] \in Nat
    BY <1>5, ShareTyped
<1>7. /\ DOMAIN f = DOMAIN ins /\ DOMAIN g = Range(ins)
      /\ \A p \in Range(ins) : g[p] = Share(p, a)
    BY DEF Shares
<1>8. \A i \in DOMAIN ins : f[i] = IF outs[i].asset = a THEN outs[i].amount ELSE 0
    BY <1>5 DEF Share
<1>9. /\ DOMAIN h \subseteq DOMAIN f /\ \A i \in DOMAIN h : f[i] = h[i]
      /\ \A i \in DOMAIN f \ DOMAIN h : f[i] = 0
    BY <1>3, <1>7, <1>8
<1>10. \A i \in DOMAIN ins : f[i] = Share(ins[i], a)
    OBVIOUS
<1>11. Amount(outs, a) = Sum(h) % U64
    BY DEF Amount
<1>12. ins \in [DOMAIN ins -> Range(ins)] /\ \A p \in Range(ins) : \E i \in DOMAIN ins : ins[i] = p
    BY <1>1, InputsTyped DEF Range
<1> HIDE DEF outs, h, f, g
<1>13. Sum(h) = Sum(f)
    BY <1>9, SumOfSome
<1>14. ins \in Bijection(DOMAIN f, DOMAIN g)
    BY <1>7, <1>12 DEF Bijection, Injection, Surjection, IsInjective
<1>15. \A i \in DOMAIN f : f[i] \in Nat /\ g[ins[i]] = f[i]
    BY <1>4, <1>6, <1>7, <1>10
<1>16. Sum(g) = Sum(f) /\ Sum(f) \in Nat
    BY <1>2, <1>7, <1>14, <1>15, SumRenamed
<1>17. Amount(outs, a) \in Nat /\ Amount(outs, a) <= Sum(f)
    BY <1>11, <1>13, <1>16, RemainderAtMost, PrimitivesAssumption
<1> QED
    BY <1>16, <1>17 DEF Worth, g, outs

-----------------------------------------------------------------------------
(* A transaction of a block, connected and taken back *)

AllFit(b) == \A t \in Range(BlockTxs[b]) : AmountsFit(t)

(* Every transaction of a valid block is valid, and fits if all do *)
LEMMA BlockTxsValid ==
    ASSUME NEW b \in Block, BlockIsValid(b), AllFit(b)
    PROVE  /\ TxIsValid(Coinbase(b)) /\ AmountsFit(Coinbase(b))
           /\ \A n \in 1 .. Len(Body(b)) : TxIsValid(Body(b)[n]) /\ AmountsFit(Body(b)[n])
<1> DEFINE txs == BlockTxs[b]
<1>1. txs \in Seq(Tx) /\ txs # <<>>
    BY PrimitivesAssumption DEF BlockIsValid
<1>2. /\ Len(txs) \in Nat /\ DOMAIN txs = 1 .. Len(txs) /\ Head(txs) = txs[1] /\ 1 \in DOMAIN txs
      /\ Len(Body(b)) = Len(txs) - 1
      /\ \A n \in 1 .. Len(Body(b)) : Body(b)[n] = txs[n + 1]
    BY <1>1, HeadTailProperties, LenProperties DEF Body
<1>3. Coinbase(b) \in Range(txs)
    BY <1>2 DEF Coinbase, Range
<1>4. ASSUME NEW n \in 1 .. Len(Body(b)) PROVE Body(b)[n] \in Range(txs)
    <2>1. n + 1 \in DOMAIN txs /\ Body(b)[n] = txs[n + 1]
        BY <1>2
    <2> QED
        BY <2>1 DEF Range
<1> QED
    BY <1>3, <1>4 DEF BlockIsValid, AllFit

(* Outputs that are added are those of their outpoints *)
LEMMA AddOutputsTheirs ==
    ASSUME NEW u, Theirs(u), IsCoinMap(u), NEW t \in Tx,
           NEW h \in 1 .. MaxHeight, NEW coinbase \in BOOLEAN
    PROVE  Theirs(AddOutputs(u, t, h, coinbase))
<1> DEFINE new == [p \in OutPointsOf(t) |-> [output |-> TxOutputs[t][p[2]], height |-> h, coinbase |-> coinbase]]
           w == AddOutputs(u, t, h, coinbase)
<1>1. w = [x \in DOMAIN new \cup DOMAIN u |-> IF x \in DOMAIN new THEN new[x] ELSE u[x]]
    BY DEF AddOutputs, Over
<1>2. \A p \in OutPointsOf(t) : new[p].output = Value(p)
    BY OutPointsTyped DEF Value
<1>3. DOMAIN new = OutPointsOf(t)
    OBVIOUS
<1> HIDE DEF new, w
<1>4. \A p \in DOMAIN w : w[p].output = Value(p)
    BY <1>1, <1>2, <1>3 DEF Theirs
<1>5. Finite(OutPointsOf(t))
    <2>1. IsFiniteSet(DOMAIN TxOutputs[t])
        <3>1. TxOutputs[t] \in Seq(Output)
            BY PrimitivesAssumption
        <3>2. DOMAIN TxOutputs[t] = 1 .. Len(TxOutputs[t]) /\ Len(TxOutputs[t]) \in Nat
            BY <3>1, LenProperties
        <3> QED
            BY <3>2, FS_Interval
    <2>2. IsFiniteSet({t})
        BY FS_Singleton
    <2>3. IsFiniteSet(OutPointsOf(t))
        BY <2>1, <2>2, FS_Product DEF OutPointsOf
    <2> QED
        BY <2>3, OutPointsTyped DEF Finite, Known
<1>6. Finite(DOMAIN w)
    BY <1>1, <1>3, <1>5, FS_Union DEF Finite, Theirs
<1> QED
    BY <1>4, <1>6 DEF Theirs, w

(* So are those that stay when others are removed *)
LEMMA RemoveCoinsTheirs ==
    ASSUME NEW u, Theirs(u), NEW ps
    PROVE  Theirs(RemoveCoins(u, ps))
<1>1. /\ DOMAIN RemoveCoins(u, ps) = DOMAIN u \ ps
      /\ \A p \in DOMAIN u \ ps : RemoveCoins(u, ps)[p] = u[p]
    BY DEF RemoveCoins, Restrict
<1>2. Finite(DOMAIN u \ ps)
    BY FS_Subset DEF Theirs, Finite
<1> QED
    BY <1>1, <1>2 DEF Theirs

(* A transaction that is connected creates nothing, and its undo record holds *)
(* the outputs it spent.                                                       *)
LEMMA ConnectTxConserves ==
    ASSUME NEW s, IsWorkState(s), Theirs(s.utxo),
           NEW t \in Tx, ~IsCoinbase(t), TxIsValid(t), AmountsFit(t), NEW h \in 1 .. MaxHeight, ConnectTx(s, t, h).ok
    PROVE  LET r == ConnectTx(s, t, h) IN
           /\ Theirs(r.utxo)
           /\ \A a \in Asset : Worth(DOMAIN r.utxo, a) <= Worth(DOMAIN s.utxo, a)
<1> DEFINE r == ConnectTx(s, t, h)
           spent == Range(TxInputs[t])
           rest == RemoveCoins(s.utxo, spent)
<1>1. /\ s.ok /\ spent \subseteq DOMAIN s.utxo
      /\ r.utxo = AddOutputs(rest, t, h, FALSE)
      /\ DOMAIN r.utxo = (DOMAIN s.utxo \ spent) \cup OutPointsOf(t)
    BY ConnectTxWorks
<1>2. ValidateTransaction(s.utxo, t, h)
    <2> SUFFICES ASSUME ~ValidateTransaction(s.utxo, t, h) PROVE FALSE
        OBVIOUS
    <2>1. r = [s EXCEPT !.ok = FALSE]
        BY DEF ConnectTx
    <2>2. ~r.ok
        BY <2>1 DEF IsWorkState
    <2> QED
        BY <2>2
<1>3. IsCoinMap(s.utxo)
    BY DEF IsWorkState
<1>4. IsCoinMap(rest) /\ Theirs(rest)
    BY <1>3, RemoveCoinsTyped, RemoveCoinsTheirs
<1> HIDE DEF r, rest, spent
<1>5. Theirs(r.utxo)
    BY <1>1, <1>4, AddOutputsTheirs
<1>6. ASSUME NEW a \in Asset PROVE Worth(DOMAIN r.utxo, a) <= Worth(DOMAIN s.utxo, a)
    <2> DEFINE old == DOMAIN s.utxo
               outs == OutPointsOf(t)
               in == Amount(InputOutputs(s.utxo, t), a)
               out == Amount(TxOutputs[t], a)
    <2>1. Finite(old) /\ spent \subseteq old
        BY <1>1 DEF Theirs
    <2>2. Finite(outs) /\ Worth(outs, a) \in Nat /\ Worth(outs, a) = out
        BY WorthOfOutputs
    <2>3. in \in Nat /\ Worth(spent, a) \in Nat /\ in <= Worth(spent, a)
        BY <1>1, WorthOfInputs DEF spent, TxIsValid
    <2>4. out <= in
        <3>1. CASE a \in AssetsOf(TxOutputs[t])
            <4>1. in >= out
                BY <1>2, <3>1 DEF ValidateTransaction
            <4> QED
                BY <2>2, <2>3, <4>1
        <3>2. CASE a \notin AssetsOf(TxOutputs[t])
            <4>1. out = 0
                BY <3>2, AmountOfOthers
            <4> QED
                BY <2>3, <4>1
        <3> QED
            BY <3>1, <3>2
    <2> HIDE DEF in, out, old, outs
    <2>5. Worth(old, a) = Worth(spent, a) + Worth(old \ spent, a) /\ Worth(old \ spent, a) \in Nat
        BY <2>1, WorthSplit
    <2>6. Finite(old \ spent)
        BY <2>1, WorthGrows
    <2>7. Worth((old \ spent) \cup outs, a) <= Worth(old \ spent, a) + Worth(outs, a)
          /\ Worth((old \ spent) \cup outs, a) \in Nat
        BY <2>2, <2>6, WorthJoined
    <2>8. DOMAIN r.utxo = (old \ spent) \cup outs
        BY <1>1 DEF old, outs
    <2>9. Worth((old \ spent) \cup outs, a) <= Worth(old, a)
        BY <2>2, <2>3, <2>4, <2>5, <2>7
    <2> QED
        BY <2>8, <2>9 DEF old
<1> QED
    BY <1>5, <1>6 DEF r

(* Taken back from coins that are among those it left, with its own undo       *)
(* record, a transaction gives coins that are among those it found.            *)
LEMMA DisconnectTxReturns ==
    ASSUME NEW s, IsWorkState(s), Theirs(s.utxo),
           NEW t \in Tx, ~IsCoinbase(t), NEW h \in 1 .. MaxHeight, ConnectTx(s, t, h).ok,
           NEW w, IsWorkState(w), w.ok, w.undo = ConnectTx(s, t, h).undo, Theirs(w.utxo),
           DOMAIN w.utxo \subseteq DOMAIN ConnectTx(s, t, h).utxo
    PROVE  LET q == DisconnectTx(t, w) IN
           /\ IsWorkState(q) /\ q.ok /\ q.undo = s.undo /\ Theirs(q.utxo)
           /\ DOMAIN q.utxo \subseteq DOMAIN s.utxo
<1> DEFINE r == ConnectTx(s, t, h)
           q == DisconnectTx(t, w)
           spent == Range(TxInputs[t])
           coins == InputCoins(s.utxo, t)
           outs == OutPointsOf(t)
           removed == RemoveCoins(w.utxo, outs)
           old == Restored(t, coins)
           back == Over(old, removed)
<1>1. /\ spent \subseteq DOMAIN s.utxo /\ r.undo = Append(s.undo, coins)
      /\ DOMAIN r.utxo = (DOMAIN s.utxo \ spent) \cup outs
    BY ConnectTxWorks
<1>2. IsCoinMap(s.utxo) /\ s.undo \in Seq(Seq(LowCoin)) /\ IsCoinMap(w.utxo)
    BY DEF IsWorkState, Records
<1>3. /\ coins \in Seq(LowCoin) /\ Len(coins) = Len(TxInputs[t])
      /\ \A i \in DOMAIN TxInputs[t] : coins[i] = s.utxo[TxInputs[t][i]]
    BY <1>1, <1>2, InputCoinsTyped
<1>4. w.undo # <<>> /\ Last(w.undo) = coins /\ Front(w.undo) = s.undo
    BY <1>1, <1>2, <1>3, LastOfAppended
<1>5. /\ DOMAIN old = spent
      /\ \A p \in spent : \E i \in DOMAIN TxInputs[t] : TxInputs[t][i] = p /\ old[p] = coins[i]
    BY <1>3, RestoredTyped
<1>6. q = [ok |-> TRUE, undo |-> s.undo, utxo |-> back]
    <2> HIDE DEF coins, spent
    <2> QED
        BY <1>3, <1>4 DEF DisconnectTx
<1>7. IsWorkState(q)
    BY DisconnectTxTyped
<1>8. /\ DOMAIN removed = DOMAIN w.utxo \ outs
      /\ \A p \in DOMAIN w.utxo \ outs : removed[p] = w.utxo[p]
    BY <1>2, RemoveCoinsTyped
<1>9. /\ DOMAIN back = spent \cup DOMAIN removed
      /\ \A p \in DOMAIN back : back[p] = IF p \in spent THEN old[p] ELSE removed[p]
    <2>1. back = [x \in spent \cup DOMAIN removed |-> IF x \in spent THEN old[x] ELSE removed[x]]
        BY <1>5 DEF Over
    <2> HIDE DEF back, removed, old, spent
    <2> QED
        BY <2>1
<1>10. q.ok /\ q.undo = s.undo /\ q.utxo = back
    BY <1>6
<1> HIDE DEF q, back, old, removed, coins, spent, r
<1>11. DOMAIN back \subseteq DOMAIN s.utxo
    BY <1>1, <1>8, <1>9 DEF r
<1>12. \A p \in spent : old[p].output = Value(p)
    BY <1>1, <1>3, <1>5 DEF Theirs
<1>13. \A p \in DOMAIN removed : removed[p].output = Value(p)
    BY <1>8 DEF Theirs
<1>14. \A p \in DOMAIN back : back[p].output = Value(p)
    BY <1>9, <1>12, <1>13
<1>15. Finite(DOMAIN back)
    BY <1>11, FS_Subset DEF Theirs, Finite
<1> QED
    BY <1>7, <1>10, <1>11, <1>14, <1>15 DEF Theirs, q

-----------------------------------------------------------------------------
(* A block, connected and taken back *)

(* The coins of a chain with a block's outputs are worth its coinbase more at most *)
LEMMA LoopConserves ==
    ASSUME NEW c, NEW b, Fits(c, b), AllFit(b), Theirs(c.utxo), Connecting(c, b)[Len(Body(b))].ok
    PROVE  \A n \in 0 .. Len(Body(b)) :
              /\ Theirs(Connecting(c, b)[n].utxo)
              /\ \A a \in Asset : Worth(DOMAIN Connecting(c, b)[n].utxo, a)
                                    <= Worth(DOMAIN c.utxo, a) + Amount(TxOutputs[Coinbase(b)], a)
<1> DEFINE f == Connecting(c, b)
           N == Len(Body(b))
           h == c.height + 1
           most(a) == Worth(DOMAIN c.utxo, a) + Amount(TxOutputs[Coinbase(b)], a)
           Kept(u) == Theirs(u) /\ \A a \in Asset : Worth(DOMAIN u, a) <= most(a)
           T == {n \in 0 .. N : Kept(f[n].utxo)}
<1>1. /\ N \in Nat /\ \A n \in 1 .. N : Body(b)[n] \in Tx /\ ~IsCoinbase(Body(b)[n])
                                  /\ TxIsValid(Body(b)[n]) /\ AmountsFit(Body(b)[n])
      /\ Coinbase(b) \in Tx /\ AmountsFit(Coinbase(b))
    BY BlockParts, BlockTxsValid DEF Fits
<1>2. \A n \in 1 .. N : f[n] = ConnectTx(f[n - 1], Body(b)[n], h)
    BY <1>1, ConnectingSteps
<1>3. /\ \A n \in 0 .. N : IsWorkState(f[n]) /\ f[n].ok
      /\ f[0].utxo = AddOutputs(c.utxo, Coinbase(b), h, TRUE)
      /\ DOMAIN f[0].utxo = DOMAIN c.utxo \cup OutPointsOf(Coinbase(b))
    BY LoopTyped
<1>4. h \in 1 .. MaxHeight /\ IsCoinMap(c.utxo) /\ Finite(DOMAIN c.utxo)
    BY DEF Fits, Theirs
<1> HIDE DEF f, N, h
<1>5. 0 \in T
    <2>1. Theirs(f[0].utxo)
        <3>1. TRUE \in BOOLEAN
            OBVIOUS
        <3>2. Theirs(AddOutputs(c.utxo, Coinbase(b), h, TRUE))
            BY <1>1, <1>4, <3>1, AddOutputsTheirs
        <3> QED
            BY <1>3, <3>2
    <2>2. ASSUME NEW a \in Asset PROVE Worth(DOMAIN f[0].utxo, a) <= most(a)
        <3>1. /\ Finite(OutPointsOf(Coinbase(b)))
              /\ Worth(OutPointsOf(Coinbase(b)), a) = Amount(TxOutputs[Coinbase(b)], a)
            BY <1>1, WorthOfOutputs
        <3>2. Worth(DOMAIN c.utxo \cup OutPointsOf(Coinbase(b)), a)
                <= Worth(DOMAIN c.utxo, a) + Worth(OutPointsOf(Coinbase(b)), a)
            BY <1>4, <3>1, WorthJoined
        <3> QED
            BY <1>3, <3>1, <3>2
    <2> QED
        BY <1>1, <2>1, <2>2
<1>6. ASSUME NEW n \in 1 .. N, n - 1 \in T PROVE n \in T
    <2> DEFINE t == Body(b)[n]
               s == f[n - 1]
    <2>1. n - 1 \in 0 .. N /\ n \in 0 .. N /\ Kept(s.utxo)
        BY <1>1, <1>6
    <2>2. /\ t \in Tx /\ ~IsCoinbase(t) /\ TxIsValid(t) /\ AmountsFit(t) /\ IsWorkState(s)
          /\ f[n] = ConnectTx(s, t, h) /\ f[n].ok
        BY <1>1, <1>2, <1>3, <2>1
    <2> HIDE DEF s, t, T
    <2>3. ConnectTx(s, t, h).ok /\ Theirs(s.utxo)
        BY <2>1, <2>2
    <2>4. /\ Theirs(ConnectTx(s, t, h).utxo)
          /\ \A a \in Asset : Worth(DOMAIN ConnectTx(s, t, h).utxo, a) <= Worth(DOMAIN s.utxo, a)
        BY <1>4, <2>2, <2>3, ConnectTxConserves
    <2>5. ASSUME NEW a \in Asset PROVE Worth(DOMAIN f[n].utxo, a) <= most(a)
        <3>1. Worth(DOMAIN f[n].utxo, a) <= Worth(DOMAIN s.utxo, a) /\ Worth(DOMAIN s.utxo, a) <= most(a)
            BY <2>1, <2>2, <2>4
        <3>2. Worth(DOMAIN f[n].utxo, a) \in Nat /\ Worth(DOMAIN s.utxo, a) \in Nat /\ Worth(DOMAIN c.utxo, a) \in Nat
            BY <1>4, <2>2, <2>3, <2>4, WorthGrows DEF Theirs
        <3>3. Amount(TxOutputs[Coinbase(b)], a) \in Nat
            BY <1>1, AmountTyped, PrimitivesAssumption
        <3> QED
            BY <3>1, <3>2, <3>3
    <2>6. Kept(f[n].utxo)
        BY <2>2, <2>4, <2>5
    <2> QED
        BY <2>1, <2>6 DEF T
<1>7. 0 .. N \subseteq T
    <2> HIDE DEF T
    <2> QED
        BY <1>1, <1>5, <1>6, CountUp
<1> QED
    BY <1>7 DEF f, N

(* Its transactions taken back from such coins leave such coins *)
LEMMA LoopReturns ==
    ASSUME NEW c, NEW b, Fits(c, b), AllFit(b), Theirs(c.utxo), Connecting(c, b)[Len(Body(b))].ok,
           NEW d, IsCoinMap(d.utxo), Theirs(d.utxo),
           DOMAIN d.utxo \subseteq DOMAIN Connecting(c, b)[Len(Body(b))].utxo
    PROVE  LET done == Disconnecting(d, b, Connecting(c, b)[Len(Body(b))].undo)[0] IN
           /\ done.ok /\ Theirs(done.utxo)
           /\ DOMAIN done.utxo \subseteq DOMAIN c.utxo \cup OutPointsOf(Coinbase(b))
<1> DEFINE f == Connecting(c, b)
           N == Len(Body(b))
           h == c.height + 1
           g == Disconnecting(d, b, f[N].undo)
           Near(w, s) == /\ IsWorkState(w) /\ w.ok /\ w.undo = s.undo /\ Theirs(w.utxo)
                         /\ DOMAIN w.utxo \subseteq DOMAIN s.utxo
           T == {n \in 0 .. N : Near(g[n], f[n])}
<1>1. N \in Nat /\ \A n \in 1 .. N : Body(b)[n] \in Tx /\ ~IsCoinbase(Body(b)[n])
    BY BlockParts DEF Fits
<1>2. \A n \in 1 .. N : f[n] = ConnectTx(f[n - 1], Body(b)[n], h)
    BY <1>1, ConnectingSteps
<1>3. /\ g[N] = [ok |-> TRUE, undo |-> f[N].undo, utxo |-> d.utxo]
      /\ \A n \in 0 .. N - 1 : g[n] = DisconnectTx(Body(b)[n + 1], g[n + 1])
    BY <1>1, DisconnectingSteps
<1>4. /\ \A n \in 0 .. N : IsWorkState(f[n]) /\ f[n].ok
      /\ DOMAIN f[0].utxo = DOMAIN c.utxo \cup OutPointsOf(Coinbase(b))
    BY LoopTyped
<1>5. \A n \in 0 .. N : Theirs(f[n].utxo)
    BY LoopConserves
<1>6. h \in 1 .. MaxHeight /\ DOMAIN d.utxo \subseteq DOMAIN f[N].utxo
    BY DEF Fits
<1> HIDE DEF f, N, h, g
<1>7. N \in T
    <2>1. f[N].undo \in Records
        <3>1. N \in 0 .. N
            BY <1>1
        <3>2. IsWorkState(f[N])
            BY <1>4, <3>1
        <3> QED
            BY <3>2 DEF IsWorkState
    <2>2. g[N].ok /\ g[N].undo = f[N].undo /\ g[N].utxo = d.utxo
        BY <1>3
    <2>3. IsWorkState(g[N])
        BY <1>3, <2>1 DEF IsWorkState
    <2> QED
        BY <1>1, <1>6, <2>2, <2>3
<1>8. ASSUME NEW n \in 0 .. N - 1, n + 1 \in T PROVE n \in T
    <2> DEFINE t == Body(b)[n + 1]
               s == f[n]
               w == g[n + 1]
    <2>1. n + 1 \in 1 .. N /\ (n + 1) - 1 = n /\ n \in 0 .. N
        BY <1>1
    <2>2. t \in Tx /\ ~IsCoinbase(t) /\ f[n + 1] = ConnectTx(s, t, h) /\ f[n + 1].ok
        BY <1>1, <1>2, <1>4, <2>1
    <2>3. IsWorkState(s) /\ Theirs(s.utxo) /\ Near(w, f[n + 1])
        BY <1>4, <1>5, <1>8, <2>1
    <2>4. g[n] = DisconnectTx(t, w)
        BY <1>3
    <2> HIDE DEF t, s, w, T
    <2>5. Near(DisconnectTx(t, w), s)
        BY <1>6, <2>2, <2>3, DisconnectTxReturns
    <2> QED
        BY <2>1, <2>4, <2>5 DEF T, s
<1>9. 0 .. N \subseteq T
    <2> HIDE DEF T
    <2> QED
        BY <1>1, <1>7, <1>8, CountDown
<1>10. Near(g[0], f[0])
    BY <1>1, <1>9
<1> QED
    BY <1>4, <1>10 DEF f, g, N

(* Taking back the block of an entry from coins among X leaves coins among Y *)
Returns(e, X, Y) ==
    \A d : IsChain(d) /\ Theirs(d.utxo) /\ DOMAIN d.utxo \subseteq X /\ d.height # 0 /\ d.tip = e.block =>
        LET r == DisconnectBlock(d, e.block, e.undo)
        IN  r.ok /\ Theirs(r.chain.utxo) /\ DOMAIN r.chain.utxo \subseteq Y

(* A block that is connected adds the worth of its coinbase at most, and its *)
(* undo data takes it back, also when coins were replaced meanwhile.          *)
LEMMA ConnectBlockConserves ==
    ASSUME NEW c, IsChain(c), c.height < MaxHeight, Theirs(c.utxo),
           NEW b \in Block, AllFit(b), ConnectBlock(c, b).ok
    PROVE  LET r == ConnectBlock(c, b) IN
           /\ Theirs(r.chain.utxo)
           /\ \A a \in Asset : Worth(DOMAIN r.chain.utxo, a)
                                 <= Worth(DOMAIN c.utxo, a) + Amount(TxOutputs[Coinbase(b)], a)
           /\ Returns([block |-> b, undo |-> r.undo], DOMAIN r.chain.utxo, DOMAIN c.utxo)
<1> DEFINE r == ConnectBlock(c, b)
           N == Len(Body(b))
           done == Connecting(c, b)[N]
           e == [block |-> b, undo |-> r.undo]
<1>1. Connected(c, b, r, done)
    BY ConnectBlockWorks
<1>2. Fits(c, b) /\ done.ok /\ r.undo = done.undo /\ r.chain.utxo = done.utxo
    BY <1>1 DEF Connected
<1>3. N \in 0 .. N /\ Body(b) \in Seq(Tx)
    BY BlockParts, <1>2 DEF Fits
<1>4. /\ Theirs(done.utxo)
      /\ \A a \in Asset : Worth(DOMAIN done.utxo, a)
                            <= Worth(DOMAIN c.utxo, a) + Amount(TxOutputs[Coinbase(b)], a)
    BY <1>2, <1>3, LoopConserves
<1>5. ASSUME NEW d, IsChain(d), Theirs(d.utxo), DOMAIN d.utxo \subseteq DOMAIN r.chain.utxo,
             d.height # 0, d.tip = b
      PROVE  LET q == DisconnectBlock(d, b, r.undo)
             IN  q.ok /\ Theirs(q.chain.utxo) /\ DOMAIN q.chain.utxo \subseteq DOMAIN c.utxo
    <2> DEFINE q == DisconnectBlock(d, b, r.undo)
               left == Disconnecting(d, b, r.undo)[0]
               outs == OutPointsOf(Coinbase(b))
               coins == RemoveCoins(left.utxo, outs)
    <2>1. IsCoinMap(d.utxo) /\ DOMAIN d.utxo \subseteq DOMAIN done.utxo
        BY <1>2, <1>5 DEF IsChain
    <2>2. left.ok /\ Theirs(left.utxo) /\ DOMAIN left.utxo \subseteq DOMAIN c.utxo \cup outs
        <3> HIDE DEF r
        <3>1. /\ Disconnecting(d, b, done.undo)[0].ok /\ Theirs(Disconnecting(d, b, done.undo)[0].utxo)
              /\ DOMAIN Disconnecting(d, b, done.undo)[0].utxo \subseteq DOMAIN c.utxo \cup outs
            BY <1>2, <1>5, <2>1, LoopReturns
        <3> QED
            BY <1>2, <3>1
    <2>3. Theirs(coins)
        BY <2>2, RemoveCoinsTheirs
    <2>4. DOMAIN coins = DOMAIN left.utxo \ outs
        BY DEF RemoveCoins, Restrict
    <2>5. q.ok /\ q.chain.utxo = coins
        <3> HIDE DEF r
        <3> QED
            BY <1>5, <2>2 DEF DisconnectBlock
    <2> HIDE DEF q, coins, left, outs
    <2> QED
        BY <2>2, <2>3, <2>4, <2>5 DEF q
<1>6. Returns(e, DOMAIN r.chain.utxo, DOMAIN c.utxo)
    <2>1. e.block = b /\ e.undo = r.undo
        OBVIOUS
    <2> HIDE DEF e, r
    <2> QED
        BY <1>5, <2>1 DEF Returns
<1> QED
    BY <1>2, <1>4, <1>6

-----------------------------------------------------------------------------
(* The coins below every block of the stack *)

(* What the first i blocks of the stack claimed *)
Issued(st, i, a) == Sum([k \in 1 .. i |-> Claim(st[k], a)])

(* A bound for the coins on top of each block of the stack: what was issued up *)
(* to it covers them, and taking the block back leads below the one before.     *)
Levels(D, st) ==
    /\ D \in [0 .. Len(st) -> SUBSET Known]
    /\ \A i \in 0 .. Len(st) : Finite(D[i]) /\ \A a \in Asset : Worth(D[i], a) <= Issued(st, i, a)
    /\ \A i \in 1 .. Len(st) : Returns(st[i], D[i], D[i - 1])

Limited(c, st) ==
    /\ Theirs(c.utxo)
    /\ \E D : Levels(D, st) /\ DOMAIN c.utxo \subseteq D[Len(st)]

CoinsHold(c, st, ta) == {"residue", "wrap"} \cap ta = {} => Limited(c, st)

(* It holds of the object and of what a restore would give it *)
SupplyInv ==
    /\ ChainInv
    /\ CoinsHold(chain, stack, taint) /\ CoinsHold(saved.chain, saved.stack, saved.taint)

(* What was issued up to a block does not depend on those above *)
LEMMA IssuedSame ==
    ASSUME NEW s, NEW t, NEW i \in Nat, \A k \in 1 .. i : s[k] = t[k], NEW a
    PROVE  Issued(s, i, a) = Issued(t, i, a)
<1>1. [k \in 1 .. i |-> Claim(s[k], a)] = [k \in 1 .. i |-> Claim(t[k], a)]
    OBVIOUS
<1> QED
    BY <1>1 DEF Issued

(* One block more has issued its claim more *)
LEMMA IssuedMore ==
    ASSUME NEW st, NEW i \in Nat, \A k \in 1 .. i + 1 : \E t \in Tx : Coinbase(st[k].block) = t, NEW a
    PROVE  /\ Issued(st, i, a) \in Nat /\ Claim(st[i + 1], a) \in Nat
           /\ Issued(st, i + 1, a) = Issued(st, i, a) + Claim(st[i + 1], a)
<1> DEFINE f == [k \in 1 .. i |-> Claim(st[k], a)]
           g == [k \in 1 .. i + 1 |-> Claim(st[k], a)]
<1>1. \A k \in 1 .. i + 1 : Claim(st[k], a) \in Nat
    BY AmountTyped, PrimitivesAssumption DEF Claim
<1>2. IsFiniteSet(1 .. i)
    BY FS_Interval
<1>3. /\ DOMAIN f = 1 .. i /\ \A k \in 1 .. i : f[k] \in Nat /\ g[k] = f[k]
      /\ DOMAIN g = (1 .. i) \cup {i + 1} /\ i + 1 \notin 1 .. i
      /\ g[i + 1] = Claim(st[i + 1], a) /\ Claim(st[i + 1], a) \in Nat
    BY <1>1
<1> HIDE DEF f, g
<1>4. IsFiniteSet(Units(f)) /\ Sum(f) \in Nat
    BY <1>2, <1>3, FiniteUnits
<1>5. Sum(g) = Sum(f) + g[i + 1]
    BY <1>3, <1>4, SumOneMore
<1> QED
    BY <1>3, <1>4, <1>5 DEF Issued, f, g

(* No coins, nothing issued *)
LEMMA EmptyLimited == Limited(EmptyChain, <<>>)
<1> DEFINE D == [i \in 0 .. 0 |-> {}]
           st == <<>>
           u == EmptyChain.utxo
<1>1. DOMAIN u = {}
    BY DEF EmptyChain, EmptyFun
<1>2. Finite({})
    BY FS_EmptySet DEF Finite
<1>3. Len(st) = 0 /\ D[0] = {} /\ D \in [0 .. 0 -> SUBSET Known]
    OBVIOUS
<1>4. ASSUME NEW a PROVE Worth({}, a) = 0 /\ Issued(st, 0, a) = 0
    <2>1. Sum(Shares({}, a)) = 0
        BY SumOfNothing DEF Shares
    <2>2. Sum([k \in 1 .. 0 |-> Claim(st[k], a)]) = 0
        BY SumOfNothing
    <2> QED
        BY <2>1, <2>2 DEF Worth, Issued
<1>5. Theirs(u)
    BY <1>1, <1>2 DEF Theirs
<1> HIDE DEF D, st, u
<1>6. Levels(D, st)
    BY <1>2, <1>3, <1>4 DEF Levels
<1>7. DOMAIN u \subseteq D[Len(st)]
    BY <1>1, <1>3
<1> QED
    BY <1>5, <1>6, <1>7 DEF Limited, st, u

(* A block more *)
LEMMA LimitedPushed ==
    ASSUME NEW c, IsChain(c), c.height < MaxHeight, NEW st, Linked(st), Limited(c, st),
           NEW b \in Block, BlockIsValid(b), AllFit(b), ConnectBlock(c, b).ok, ConnectBlock(c, b).undo \in Records
    PROVE  Limited(ConnectBlock(c, b).chain, Append(st, [block |-> b, undo |-> ConnectBlock(c, b).undo]))
<1> DEFINE r == ConnectBlock(c, b)
           e == [block |-> b, undo |-> r.undo]
           new == Append(st, e)
           n == Len(st)
           top == DOMAIN r.chain.utxo
<1>1. e \in Entry /\ e.block = b
    BY DEF Entry
<1>2. /\ Len(new) = n + 1 /\ n \in Nat
      /\ \A i \in 1 .. n : new[i] = st[i]
      /\ new[n + 1] = e
    BY <1>1, Pushed DEF Linked
<1>3. PICK D : Levels(D, st) /\ DOMAIN c.utxo \subseteq D[n]
    BY DEF Limited
<1>4. Theirs(c.utxo)
    BY DEF Limited
<1>5. /\ Theirs(r.chain.utxo)
      /\ \A a \in Asset : Worth(top, a) <= Worth(DOMAIN c.utxo, a) + Amount(TxOutputs[Coinbase(b)], a)
      /\ Returns(e, top, DOMAIN c.utxo)
    BY <1>4, ConnectBlockConserves
<1> HIDE DEF r, e, new, top, n
<1> DEFINE E == [i \in 0 .. n + 1 |-> IF i = n + 1 THEN top ELSE D[i]]
<1>6. /\ D \in [0 .. n -> SUBSET Known]
      /\ \A i \in 0 .. n : Finite(D[i]) /\ \A a \in Asset : Worth(D[i], a) <= Issued(st, i, a)
      /\ \A i \in 1 .. n : Returns(st[i], D[i], D[i - 1])
    BY <1>3 DEF Levels, n
<1>7. Finite(top)
    BY <1>5 DEF Theirs, top
<1>8. \A i \in 1 .. n + 1 : \E t \in Tx : Coinbase(new[i].block) = t
    <2>1. \A i \in 1 .. n : st[i].block \in Block /\ BlockIsValid(st[i].block)
        BY BlocksTyped DEF Linked, n
    <2>2. \A i \in 1 .. n + 1 : new[i].block \in Block /\ BlockIsValid(new[i].block)
        BY <1>1, <1>2, <2>1
    <2> QED
        BY <2>2, BlockParts
<1>9. ASSUME NEW a \in Asset PROVE Worth(top, a) <= Issued(new, n + 1, a)
    <2>1. /\ Issued(new, n, a) \in Nat /\ Claim(new[n + 1], a) \in Nat
          /\ Issued(new, n + 1, a) = Issued(new, n, a) + Claim(new[n + 1], a)
        BY <1>2, <1>8, IssuedMore
    <2>2. Issued(new, n, a) = Issued(st, n, a)
        BY <1>2, IssuedSame
    <2>3. Claim(new[n + 1], a) = Amount(TxOutputs[Coinbase(b)], a)
        BY <1>1, <1>2 DEF Claim
    <2>4. /\ Finite(D[n]) /\ Worth(D[n], a) <= Issued(st, n, a)
          /\ DOMAIN c.utxo \subseteq D[n]
        BY <1>2, <1>3, <1>6
    <2>5. /\ Worth(D[n], a) \in Nat /\ Worth(DOMAIN c.utxo, a) \in Nat
          /\ Worth(DOMAIN c.utxo, a) <= Worth(D[n], a)
        BY <2>4, WorthGrows
    <2>6. Worth(top, a) <= Worth(DOMAIN c.utxo, a) + Claim(new[n + 1], a) /\ Worth(top, a) \in Nat
        BY <1>5, <1>7, <2>3, WorthGrows
    <2> QED
        BY <2>1, <2>2, <2>4, <2>5, <2>6
<1>10. /\ E \in [0 .. n + 1 -> SUBSET Known] /\ E[n + 1] = top
       /\ \A i \in 0 .. n : E[i] = D[i]
    BY <1>2, <1>6, <1>7 DEF Finite
<1> HIDE DEF E
<1>11. ASSUME NEW i \in 0 .. n + 1
       PROVE  Finite(E[i]) /\ \A a \in Asset : Worth(E[i], a) <= Issued(new, i, a)
    <2>1. CASE i = n + 1
        BY <1>7, <1>9, <1>10, <2>1
    <2>2. CASE i # n + 1
        <3>1. i \in 0 .. n /\ i \in Nat
            BY <1>2, <2>2
        <3>2. \A k \in 1 .. i : st[k] = new[k]
            BY <1>2, <3>1
        <3>3. \A a \in Asset : Issued(new, i, a) = Issued(st, i, a)
            BY <3>1, <3>2, IssuedSame
        <3> QED
            BY <1>6, <1>10, <3>1, <3>3
    <2> QED
        BY <2>1, <2>2
<1>12. ASSUME NEW i \in 1 .. n + 1 PROVE Returns(new[i], E[i], E[i - 1])
    <2>1. CASE i = n + 1
        <3>1. i - 1 = n /\ n \in 0 .. n /\ E[i] = top /\ E[i - 1] = D[n] /\ new[i] = e
            BY <1>2, <1>10, <2>1
        <3>2. Returns(e, top, D[n])
            BY <1>3, <1>5 DEF Returns
        <3> QED
            BY <3>1, <3>2
    <2>2. CASE i # n + 1
        <3>1. i \in 1 .. n /\ i \in 0 .. n /\ i - 1 \in 0 .. n
            BY <1>2, <2>2
        <3> QED
            BY <1>2, <1>6, <1>10, <3>1
    <2> QED
        BY <2>1, <2>2
<1>13. Levels(E, new)
    BY <1>2, <1>10, <1>11, <1>12 DEF Levels
<1>14. DOMAIN r.chain.utxo \subseteq E[Len(new)]
    BY <1>2, <1>10 DEF top
<1> QED
    BY <1>5, <1>13, <1>14 DEF Limited, r, e, new

(* A block less *)
LEMMA LimitedPopped ==
    ASSUME NEW c, IsChain(c), NEW st, Linked(st), Follows(c, st), st # <<>>, Limited(c, st)
    PROVE  LET r == DisconnectBlock(c, Last(st).block, Last(st).undo)
           IN  r.ok /\ Limited(r.chain, Front(st))
<1> DEFINE e == Last(st)
           r == DisconnectBlock(c, e.block, e.undo)
           new == Front(st)
           n == Len(st) - 1
<1>1. /\ new \in Seq(Entry) /\ Len(new) = n /\ n \in Nat /\ Len(st) = n + 1
      /\ e = st[n + 1] /\ \A i \in 1 .. n : new[i] = st[i]
    BY Popped
<1>2. c.height # 0 /\ c.tip = e.block
    BY <1>1 DEF Follows
<1>3. PICK D : Levels(D, st) /\ DOMAIN c.utxo \subseteq D[Len(st)]
    BY DEF Limited
<1>4. Theirs(c.utxo)
    BY DEF Limited
<1> HIDE DEF e, r, new, n
<1>5. /\ D \in [0 .. n + 1 -> SUBSET Known]
      /\ \A i \in 0 .. n + 1 : Finite(D[i]) /\ \A a \in Asset : Worth(D[i], a) <= Issued(st, i, a)
      /\ \A i \in 1 .. n + 1 : Returns(st[i], D[i], D[i - 1])
    BY <1>1, <1>3 DEF Levels
<1>6. Returns(e, D[n + 1], D[n])
    <2>1. n + 1 \in 1 .. n + 1 /\ (n + 1) - 1 = n
        BY <1>1
    <2> QED
        BY <1>1, <1>5, <2>1
<1>7. r.ok /\ Theirs(r.chain.utxo) /\ DOMAIN r.chain.utxo \subseteq D[n]
    BY <1>1, <1>2, <1>3, <1>4, <1>6 DEF Returns, r
<1> DEFINE E == [i \in 0 .. n |-> D[i]]
<1>8. E \in [0 .. n -> SUBSET Known] /\ \A i \in 0 .. n : E[i] = D[i] /\ i \in 0 .. n + 1 /\ i \in Nat
    BY <1>1, <1>5
<1> HIDE DEF E
<1>9. ASSUME NEW i \in 0 .. n
      PROVE  Finite(E[i]) /\ \A a \in Asset : Worth(E[i], a) <= Issued(new, i, a)
    <2>1. \A k \in 1 .. i : st[k] = new[k]
        BY <1>1
    <2>2. \A a \in Asset : Issued(new, i, a) = Issued(st, i, a)
        BY <1>8, <2>1, IssuedSame
    <2> QED
        BY <1>5, <1>8, <2>2
<1>10. ASSUME NEW i \in 1 .. n PROVE Returns(new[i], E[i], E[i - 1])
    <2>1. i \in 0 .. n /\ i - 1 \in 0 .. n /\ i \in 1 .. n + 1
        BY <1>1
    <2> QED
        BY <1>1, <1>5, <1>8, <2>1
<1>11. Levels(E, new)
    BY <1>1, <1>8, <1>9, <1>10 DEF Levels
<1>12. DOMAIN r.chain.utxo \subseteq E[Len(new)]
    <2>1. n \in 0 .. n
        BY <1>1
    <2> QED
        BY <1>1, <1>7, <1>8, <2>1
<1> QED
    BY <1>7, <1>11, <1>12 DEF Limited, r, e, new

-----------------------------------------------------------------------------
(* The coins are what was issued *)

(* It holds after a block is connected *)
LEMMA ConnectKeepsCoins ==
    ASSUME NEW b \in Block, Holds(chain, stack, taint), CoinsHold(chain, stack, taint), Connect(b)
    PROVE  CoinsHold(chain', stack', taint')
<1> DEFINE r == ConnectBlock(chain, b)
           done == Connecting(chain, b)[Len(Body(b))]
           e == [block |-> b, undo |-> r.undo]
<1> SUFFICES ASSUME {"residue", "wrap"} \cap taint' = {} PROVE Limited(chain', stack')
    BY DEF CoinsHold
<1>1. IsChain(chain) /\ Linked(stack)
    BY DEF Holds
<1>2. chain.height < MaxHeight /\ r.ok /\ chain' = r.chain /\ stack' = Append(stack, e)
    BY DEF Connect, Offered
<1>3. {"residue", "wrap"} \cap taint = {} /\ AllFit(b)
    BY DEF Connect, Marks, AllFit
<1>4. Limited(chain, stack)
    BY <1>3 DEF CoinsHold
<1>5. Connected(chain, b, r, done)
    BY <1>1, <1>2, ConnectBlockWorks
<1>6. r.undo \in Records /\ BlockIsValid(b)
    BY <1>5 DEF Connected, Fits
<1>7. Limited(ConnectBlock(chain, b).chain, Append(stack, [block |-> b, undo |-> ConnectBlock(chain, b).undo]))
    BY <1>1, <1>2, <1>3, <1>4, <1>6, LimitedPushed
<1> QED
    BY <1>2, <1>7

(* It holds after a block is refused: one that changed anything left its mark *)
LEMMA ConnectFailsKeepsCoins ==
    ASSUME NEW b, CoinsHold(chain, stack, taint), ConnectFails(b)
    PROVE  CoinsHold(chain', stack', taint')
<1> DEFINE r == ConnectBlock(chain, b)
<1>1. /\ chain' = r.chain /\ stack' = stack
      /\ taint' = IF r.chain # chain THEN taint \cup {"residue"} ELSE taint
    BY DEF ConnectFails
<1> HIDE DEF r
<1>2. CASE r.chain # chain
    BY <1>1, <1>2 DEF CoinsHold
<1>3. CASE r.chain = chain
    BY <1>1, <1>3 DEF CoinsHold
<1> QED
    BY <1>2, <1>3

(* It holds after the tip is taken back, which never fails *)
LEMMA DisconnectKeepsCoins ==
    ASSUME Holds(chain, stack, taint), CoinsHold(chain, stack, taint), Disconnect
    PROVE  CoinsHold(chain', stack', taint')
<1> DEFINE top == Last(stack)
           r == DisconnectBlock(chain, top.block, top.undo)
<1>1. IsChain(chain) /\ Linked(stack) /\ Follows(chain, stack)
    BY DEF Holds
<1>2. /\ stack # <<>> /\ chain' = r.chain /\ stack' = (IF r.ok THEN Front(stack) ELSE stack)
      /\ taint' = taint
    BY DEF Disconnect
<1> SUFFICES ASSUME {"residue", "wrap"} \cap taint' = {} PROVE Limited(chain', stack')
    BY DEF CoinsHold
<1>3. Limited(chain, stack)
    BY <1>2 DEF CoinsHold
<1>4. r.ok /\ Limited(r.chain, Front(stack))
    BY <1>1, <1>2, <1>3, LimitedPopped
<1> QED
    BY <1>2, <1>4

(* Until a block fails half way or has outputs whose sum wraps, the coins of   *)
(* the object and of its snapshot are covered by what was issued, and those    *)
(* below every block of the stack by what was issued up to it.                 *)
THEOREM ChainCoinsAreCovered == Spec => []SupplyInv
<1>1. Init => SupplyInv
    <2> SUFFICES ASSUME Init PROVE SupplyInv
        OBVIOUS
    <2>1. ChainInv
        BY EmptyHolds DEF Init, ChainInv, NoSnapshot
    <2> QED
        BY <2>1, EmptyLimited DEF Init, SupplyInv, CoinsHold, NoSnapshot
<1>2. SupplyInv /\ [Next]_vars => SupplyInv'
    <2> SUFFICES ASSUME SupplyInv, [Next]_vars PROVE SupplyInv'
        OBVIOUS
    <2>1. /\ ChainInv /\ Holds(chain, stack, taint)
          /\ CoinsHold(chain, stack, taint) /\ CoinsHold(saved.chain, saved.stack, saved.taint)
        BY DEF SupplyInv, ChainInv
    <2>2. ChainInv'
        BY <2>1, StepHolds
    <2>3. ASSUME NEW b \in Block, Connect(b) PROVE SupplyInv'
        BY <2>1, <2>2, <2>3, ConnectKeepsCoins DEF SupplyInv, Connect
    <2>4. ASSUME NEW b \in Block, ConnectFails(b) PROVE SupplyInv'
        BY <2>1, <2>2, <2>4, ConnectFailsKeepsCoins DEF SupplyInv, ConnectFails
    <2>5. CASE Disconnect
        BY <2>1, <2>2, <2>5, DisconnectKeepsCoins DEF SupplyInv, Disconnect
    <2>6. CASE CreateSnapshot
        BY <2>1, <2>2, <2>6 DEF SupplyInv, CreateSnapshot
    <2>7. CASE RestoreSnapshot
        BY <2>1, <2>2, <2>7 DEF SupplyInv, RestoreSnapshot
    <2>8. CASE Reset
        BY <2>1, <2>2, <2>8, EmptyLimited DEF SupplyInv, CoinsHold, Reset
    <2>9. CASE UNCHANGED vars
        BY <2>1, <2>2, <2>9 DEF SupplyInv, vars
    <2> QED
        BY <2>3, <2>4, <2>5, <2>6, <2>7, <2>8, <2>9 DEF Next
<1> QED
    BY <1>1, <1>2, PTL DEF Spec

(* What was issued is what was due, and coins never hold more of an asset than *)
(* was issued, through connects, disconnects, replaced coins and restores, until *)
(* a block fails half way or the sum of its outputs wraps.                       *)
THEOREM ChainSupplyIsExact == Spec => []SupplyIsExact
<1>1. SupplyInv => UtxoBackedBySupply
    <2> SUFFICES ASSUME SupplyInv, {"residue", "wrap"} \cap taint = {}, NEW a \in Asset
                 PROVE  Sum([p \in {q \in DOMAIN chain.utxo : chain.utxo[q].output.asset = a} |->
                                chain.utxo[p].output.amount]) <= chain.supply[a]
        BY DEF UtxoBackedBySupply
    <2> DEFINE u == chain.utxo
               n == Len(stack)
               some == [p \in {q \in DOMAIN u : u[q].output.asset = a} |-> u[p].output.amount]
               all == Shares(DOMAIN u, a)
    <2>1. /\ Linked(stack) /\ Backed(chain, stack) /\ Limited(chain, stack)
        BY DEF SupplyInv, ChainInv, Holds, CoinsHold
    <2>2. Theirs(u)
        BY <2>1 DEF Limited
    <2>3. PICK D : Levels(D, stack) /\ DOMAIN u \subseteq D[n]
        BY <2>1 DEF Limited
    <2>4. n \in Nat /\ DOMAIN stack = 1 .. n
        BY <2>1, BlocksTyped DEF Linked
    <2>5. Finite(D[n]) /\ Worth(D[n], a) <= Issued(stack, n, a)
        BY <2>3, <2>4 DEF Levels
    <2>6. Worth(DOMAIN u, a) <= Worth(D[n], a) /\ Worth(DOMAIN u, a) \in Nat /\ Worth(D[n], a) \in Nat
        BY <2>3, <2>5, WorthGrows
    <2>7. Issued(stack, n, a) = Sum(Claims(stack, a))
        BY <2>4 DEF Issued, Claims
    <2>8. chain.supply[a] = Sum(Claims(stack, a)) /\ Sum(Claims(stack, a)) \in Nat
        BY <2>1, ClaimsTyped DEF Backed
    <2>9. \A p \in DOMAIN u : all[p] = IF u[p].output.asset = a THEN u[p].output.amount ELSE 0
        BY <2>2 DEF Shares, Share, Theirs
    <2>10. DOMAIN all = DOMAIN u
        BY DEF Shares
    <2>11. /\ DOMAIN some \subseteq DOMAIN all /\ \A p \in DOMAIN some : all[p] = some[p]
           /\ \A p \in DOMAIN all \ DOMAIN some : all[p] = 0
        BY <2>9, <2>10
    <2> HIDE DEF u, n, some, all
    <2>12. Sum(some) = Sum(all)
        BY <2>11, SumOfSome
    <2>13. Sum(all) = Worth(DOMAIN u, a)
        BY DEF Worth, all
    <2>14. Sum(some) <= chain.supply[a]
        BY <2>5, <2>6, <2>7, <2>8, <2>12, <2>13
    <2> QED
        BY <2>14 DEF some, u
<1> QED
    BY <1>1, ChainCoinsAreCovered, ChainSupplyWithinSchedule, PTL DEF SupplyIsExact
=============================================================================
