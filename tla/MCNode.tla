------------------------------- MODULE MCNode -------------------------------
(***************************************************************************)
(* A small universe for Node.                                              *)
(*                                                                         *)
(*   g             the genesis block: one output per launched asset        *)
(*   `- child      a block on the genesis block                            *)
(*   z0            no parent, coinbase only                                *)
(*   `- a          t1 splits the coin of the genesis block                 *)
(*      |- b       t2 spends one half                                      *)
(*      |- d       two transactions spend that half                        *)
(*      `- e       spends an output of t2                                  *)
(*   y0            no parent, another coinbase                             *)
(*                                                                         *)
(* launched is the genesis block of the runs in which a node can start;    *)
(* staggered has an output in an asset that is launched later, as the      *)
(* genesis block of consensus/genesis.cpp has two.                         *)
(***************************************************************************)
EXTENDS Node

mcTx    == {"cl", "cs", "ck", "cz", "cy", "ca", "cb", "cd", "ce", "t1", "t2", "t3", "t4", "t5"}
mcAsset == {"TALN", "DRM"}
mcBlock == {"launched", "staggered", "child", "z0", "y0", "a", "b", "d", "e"}

taln(n) == [asset |-> "TALN", amount |-> n]
drm(n)  == [asset |-> "DRM",  amount |-> n]

mcTxInputs == [t \in mcTx |->
    CASE t = "t1" -> <<<<"cl", 1>>>>
      [] t = "t5" -> <<<<"cl", 1>>>>
      [] t = "t2" -> <<<<"t1", 1>>>>
      [] t = "t3" -> <<<<"t1", 1>>>>
      [] t = "t4" -> <<<<"t2", 1>>>>
      [] OTHER    -> <<CoinbaseInput>>]

mcTxOutputs == [t \in mcTx |->
    CASE t = "cl" -> <<taln(4)>>
      [] t = "cs" -> <<taln(4), drm(4)>>
      [] t = "t1" -> <<taln(2), taln(2)>>
      [] t = "t5" -> <<taln(3)>>
      [] t \in {"t2", "t3"} -> <<taln(2)>>
      [] OTHER    -> <<taln(1)>>]

mcBlockTxs == [b \in mcBlock |->
    CASE b = "launched"  -> <<"cl">>
      [] b = "staggered" -> <<"cs">>
      [] b = "child"     -> <<"ck">>
      [] b = "z0"        -> <<"cz">>
      [] b = "y0"        -> <<"cy">>
      [] b = "a"         -> <<"ca", "t1">>
      [] b = "b"         -> <<"cb", "t2">>
      [] b = "d"         -> <<"cd", "t2", "t3">>
      [] b = "e"         -> <<"ce", "t4">>]

mcBlockPrev == [b \in mcBlock |->
    CASE b \in {"launched", "staggered", "z0", "y0"} -> ZeroHash
      [] b = "child"            -> Genesis
      [] b \in {"a"}   -> "z0"
      [] OTHER                  -> "a"]

mcBlockSealed   == [b \in mcBlock |-> TRUE]
mcRelayable     == {"t1", "t2", "t4", "t5"}
mcInitialReward == [a \in mcAsset |-> 4]
mcLaunchHeight  == [a \in mcAsset |-> IF a = "TALN" THEN 0 ELSE 3]
mcMaxSupply     == [a \in mcAsset |-> 40]
=============================================================================
