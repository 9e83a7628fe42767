------------------------------ MODULE MCChain -------------------------------
(***************************************************************************)
(* A small universe of blocks for Chain: two assets, one launched two      *)
(* blocks after the other, rewards that halve every two blocks, coinbases  *)
(* that mature after one block.                                            *)
(*                                                                         *)
(*   g                 genesis                                             *)
(*   |- a              its coinbase ca is used again by a2                 *)
(*   |  |- a2          the outputs of ca replace the coins of ca           *)
(*   |  |  `- a3       spends the coin of ca                               *)
(*   |  `- d           two transactions spend the coin of the genesis      *)
(*   |- y1             its coinbase cy is spent by y2, used again by y3    *)
(*   |  `- y2 - y3     and spent again by y4                               *)
(*   |        `- y4                                                        *)
(*   `- b              t1 splits the coin of the genesis                   *)
(*      |- b2          t2 spends a coin of t1 and the coinbase of b        *)
(*      |  |- b3       the second asset is issued; t6 spends t2            *)
(*      |  `- over     claims more than the reward                         *)
(*      |- thin        t5 creates value                                    *)
(*      |- early       t4 spends a coinbase of the block itself            *)
(*      |- wide        the outputs of t0, 2 more than 64, count as 2       *)
(*      `- weak        no proof of work                                    *)
(***************************************************************************)
EXTENDS Chain

mcTx    == {"cg", "ca", "cb", "cc", "cd", "ce", "cf", "cx", "cy", "cz", "t0", "t1", "t2", "t3", "t4", "t5", "t6", "t7", "t8", "t9"}
mcAsset == {"TALN", "DRM"}
mcBlock == {"g", "a", "a2", "a3", "d", "y1", "y2", "y3", "y4", "b", "b2", "b3", "over", "thin", "early", "wide", "weak"}

taln(n) == [asset |-> "TALN", amount |-> n]
drm(n)  == [asset |-> "DRM",  amount |-> n]

mcTxInputs == [t \in mcTx |->
    CASE t = "t1" -> <<<<"cg", 1>>>>
      [] t = "t2" -> <<<<"t1", 1>>, <<"cb", 1>>>>
      [] t = "t3" -> <<<<"cg", 1>>>>
      [] t = "t4" -> <<<<"cf", 1>>>>
      [] t = "t5" -> <<<<"t1", 2>>>>
      [] t = "t0" -> <<<<"t1", 1>>>>
      [] t = "t6" -> <<<<"t2", 1>>>>
      [] t = "t7" -> <<<<"ca", 1>>>>
      [] t \in {"t8", "t9"} -> <<<<"cy", 1>>>>
      [] OTHER    -> <<CoinbaseInput>>]

mcTxOutputs == [t \in mcTx |->
    CASE t = "cg" -> <<taln(4)>>
      [] t = "cc" -> <<taln(2), drm(6)>>
      [] t = "cx" -> <<taln(3)>>
      [] t = "ce" -> <<taln(1), drm(4)>>
      [] t = "t1" -> <<taln(3), taln(1)>>
      [] t = "t2" -> <<taln(4)>>
      [] t = "t3" -> <<taln(4)>>
      [] t \in {"t4", "t8", "t9", "cy", "cz"} -> <<taln(1)>>
      [] t = "t5" -> <<taln(2)>>
      [] t = "t0" -> <<taln(16), taln(16), taln(16), taln(16), taln(2)>>
      [] t = "t6" -> <<taln(2), taln(2)>>
      [] OTHER    -> <<taln(2)>>]

mcBlockTxs == [b \in mcBlock |->
    CASE b = "g"     -> <<"cg">>
      [] b = "a"     -> <<"ca">>
      [] b = "a2"    -> <<"ca">>
      [] b = "a3"    -> <<"ce", "t7">>
      [] b = "d"     -> <<"cd", "t1", "t3">>
      [] b \in {"y1", "y3"} -> <<"cy">>
      [] b = "y2"    -> <<"cd", "t8">>
      [] b = "y4"    -> <<"cz", "t9">>
      [] b = "b"     -> <<"cb", "t1">>
      [] b = "b2"    -> <<"cc", "t2">>
      [] b = "b3"    -> <<"ce", "t6">>
      [] b = "over"  -> <<"cx">>
      [] b = "thin"  -> <<"cd", "t5">>
      [] b = "early" -> <<"cf", "t4">>
      [] b = "wide"  -> <<"cd", "t0">>
      [] b = "weak"  -> <<"cd">>]

mcBlockPrev == [b \in mcBlock |->
    CASE b = "g" -> ZeroHash
      [] b \in {"a", "b", "y1"}         -> "g"
      [] b = "y2" -> "y1"
      [] b = "y3" -> "y2"
      [] b = "y4" -> "y3"
      [] b \in {"a2", "d"}              -> "a"
      [] b = "a3"                       -> "a2"
      [] b \in {"b3", "over"}           -> "b2"
      [] OTHER                          -> "b"]

mcBlockSealed   == [b \in mcBlock |-> b # "weak"]
mcInitialReward == [a \in mcAsset |-> IF a = "TALN" THEN 4 ELSE 6]
mcLaunchHeight  == [a \in mcAsset |-> IF a = "TALN" THEN 0 ELSE 2]
mcMaxSupply     == [a \in mcAsset |-> IF a = "TALN" THEN 16 ELSE 24]
=============================================================================
