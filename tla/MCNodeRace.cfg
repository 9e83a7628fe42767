SPECIFICATION Spec
CONSTANTS
    Tx <- mcTx
    Block <- mcBlock
    Asset <- mcAsset
    ZeroHash = "zero"
    TxInputs <- mcTxInputs
    TxOutputs <- mcTxOutputs
    BlockTxs <- mcBlockTxs
    BlockPrev <- mcBlockPrev
    BlockSealed <- mcBlockSealed
    InitialReward <- mcInitialReward
    LaunchHeight <- mcLaunchHeight
    MaxSupply <- mcMaxSupply
    HalvingInterval = 4
    CoinbaseMaturity = 1
    U64 = 64
    Genesis = "launched"
    Thread = {"net", "miner"}
    Relayable <- mcRelayable
    MaxHeight = 4
INVARIANT
    StartSucceeds
