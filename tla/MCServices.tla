------------------------------ MODULE MCServices ------------------------------
(***************************************************************************)
(* What stands around the chain: the memory pool, the connections and their  *)
(* byte streams, the store of peers, the wallet, and the second and third     *)
(* layer.  They share no state with one another: a behaviour exercises one    *)
(* of them, its focus, and the others stay as they began.                    *)
(***************************************************************************)
EXTENDS Mempool, Peers, PeerStore, Wallet, Wire, Rollups, Channels, Dex, Vm

VARIABLE focus
networkVars == <<poolVars, peersVars, storeVars, walletVars, wireVars>>
layerVars == <<rollupVars, channelVars, dexVars, worldVars, vmVars>>
servicesVars == <<networkVars, layerVars, focus>>

foci == {"pool", "peers", "store", "wallet", "wire", "rollup", "zk", "plasma", "channel", "route",
         "accounts", "book", "amm", "world", "trie", "vm"}

(* txC and txF want the coins of both txA and txB: txC does not pay for the two together, *)
(* txF does, and makes the pool too large beside txE; txD spends an output of txA          *)
b1 == <<"b1", 0>>
b2 == <<"b2", 0>>
b3 == <<"b3", 0>>
baseCoins == {b1, b2, b3}
txA == [id |-> "a", ins |-> {b1}, size |-> 1, fee |-> 4, rbf |-> TRUE]
txB == [id |-> "b", ins |-> {b2}, size |-> 1, fee |-> 3, rbf |-> TRUE]
txC == [id |-> "c", ins |-> {b1, b2}, size |-> 1, fee |-> 8, rbf |-> TRUE]
txD == [id |-> "d", ins |-> {<<"a", 0>>}, size |-> 1, fee |-> 2, rbf |-> FALSE]
txE == [id |-> "e", ins |-> {b3}, size |-> 2, fee |-> 4, rbf |-> FALSE]
txF == [id |-> "f", ins |-> {b1, b2}, size |-> 2, fee |-> 14, rbf |-> TRUE]
txs == {txA, txB, txC, txD, txE, txF}
poolBlocks == {{txA}, {txB, txE}, {txD}}

(* A coinbase of two coins for address 1; a payment out of the second with change to address 2. *)
(* What the wallet pays takes both coins and leaves change, or both of what is left exactly.     *)
offered == {[id |-> 1, ins |-> {}, outs |-> <<[to |-> 1, amount |-> 1], [to |-> 1, amount |-> 2]>>],
            [id |-> 2, ins |-> {<<1, 2>>}, outs |-> <<[to |-> 0, amount |-> 1], [to |-> 2, amount |-> 1]>>]}
payments == {<<1, 1>>}

(* A transaction that is added again uses its nullifier again, and two accounts are a tree of  *)
(* one path each way (the theorem on the paths has trees of any size); a plasma block of two   *)
(* transactions and one of a single one                                                       *)
zkTxs == {[id |-> "x", nullifier |-> {1}], [id |-> "y", nullifier |-> {2}]}
plasmaTxs == {{"p", "q"}, {"q"}}

funding == [taln |-> <<1, 1>>, obl |-> <<1, 0>>]
transfers == {<<1, 0>>, <<2, 1>>}
deposits == {<<2, 6>>, <<1, 3>>}

(* Words are two digits of base 8, and offsets one: a shift of 6 and 7 clears a word, one of 8  *)
(* and more is cut, the memory ends at 6 and offsets wrap above                                *)
zeroWord == <<0, 0>>
contract == <<0, 1>>
accountAddresses == {<<0, 0>>, <<0, 1>>, <<1, 0>>}
storageKeys == {<<0, 1>>, <<2, 0>>}
storageValues == {<<0, 0>>, <<0, 1>>}
pushed == {ToUint256(n) : n \in {0, 1, 2, 3, 5, 6, 7, 9, 63}}
trieKeys == {<<0, 0, 0, 0>>, <<0, 0, 0, 1>>, <<0, 1, 0, 0>>, <<0, 1, 1, 0>>, <<0, 1, 1, 1>>, <<1, 0, 0, 1>>}

Init ==
    /\ focus \in foci
    /\ InitMempool /\ InitPeers /\ InitStore /\ InitWallet /\ InitWire
    /\ InitRollups /\ InitChannels /\ InitDex /\ InitWorld /\ InitVm
    /\ (focus # "peers" => ownHeight = 0)
    /\ (focus # "vm" => ~vm.static)

NetworkStep ==
    /\ UNCHANGED layerVars
    /\ \/ focus = "pool" /\ MempoolStep
          /\ UNCHANGED <<peersVars, storeVars, walletVars, wireVars>>
       \/ focus = "peers" /\ PeersStep
          /\ UNCHANGED <<poolVars, storeVars, walletVars, wireVars>>
       \/ focus = "store" /\ StoreStep
          /\ UNCHANGED <<poolVars, peersVars, walletVars, wireVars>>
       \/ focus = "wallet" /\ WalletStep
          /\ UNCHANGED <<poolVars, peersVars, storeVars, wireVars>>
       \/ focus = "wire" /\ WireStep
          /\ UNCHANGED <<poolVars, peersVars, storeVars, walletVars>>

LayerStep ==
    /\ UNCHANGED networkVars
    /\ \/ /\ \/ focus = "rollup" /\ RollupStep
             \/ focus = "zk" /\ ZkStep
             \/ focus = "plasma" /\ PlasmaStep
          /\ UNCHANGED <<channelVars, dexVars, worldVars, vmVars>>
       \/ /\ \/ focus = "channel" /\ ChannelStep
             \/ focus = "route" /\ RouteStep
             \/ focus = "accounts" /\ AccountStep
          /\ UNCHANGED <<rollupVars, dexVars, worldVars, vmVars>>
       \/ /\ \/ focus = "book" /\ BookStep
             \/ focus = "amm" /\ PoolStep
          /\ UNCHANGED <<rollupVars, channelVars, worldVars, vmVars>>
       \/ /\ \/ focus = "world" /\ WorldStep /\ UNCHANGED vmVars
             \/ focus = "trie" /\ TrieStep /\ UNCHANGED vmVars
             \/ focus = "vm" /\ VmStep
          /\ UNCHANGED <<rollupVars, channelVars, dexVars>>

Next == UNCHANGED focus /\ (NetworkStep \/ LayerStep)

Spec == Init /\ [][Next]_servicesVars

(* Every part keeps its type; a part that is not the focus stands still *)
TypeOK ==
    CASE focus = "pool"                           -> MempoolTypeOK
      [] focus = "peers"                          -> PeersTypeOK
      [] focus = "store"                          -> StoreTypeOK
      [] focus = "wallet"                         -> WalletTypeOK
      [] focus = "wire"                           -> WireTypeOK
      [] focus \in {"rollup", "zk", "plasma"}      -> RollupsTypeOK
      [] focus \in {"channel", "route", "accounts"} -> ChannelsTypeOK
      [] focus \in {"book", "amm"}                -> DexTypeOK
      [] focus \in {"world", "trie"}              -> WorldTypeOK
      [] focus = "vm"                             -> WorldTypeOK /\ VmTypeOK

(* What the machine computes is exact, what the state it writes to commits to is that state, and a *)
(* trie holds what was put into it                                                                  *)
MachineIsExact ==
    /\ focus = "vm" => RunIsExact
    /\ focus \in {"vm", "world"} => RootReflectsState
    /\ focus = "trie" => TrieIsAMap

(* Peers differ in nothing *)
symmetry == Permutations(Peer)
=============================================================================
