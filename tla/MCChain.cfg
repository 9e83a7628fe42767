SPECIFICATION Spec
CONSTANTS
    Tx <- mcTx
    Block <- mcBlock
    Asset <- mcAsset
    ZeroHash = "zero"
    TxInputs <- mcTxInputs
    TxOutputs <- mcTxOutputs
    BlockTxs <- mcBlockTxs
    BlockPrev <- mcBlockPrev
    BlockSealed <- mcBlockSealed
    InitialReward <- mcInitialReward
    LaunchHeight <- mcLaunchHeight
    MaxSupply <- mcMaxSupply
    HalvingInterval = 2
    CoinbaseMaturity = 1
    U64 = 64
    MaxHeight = 5
INVARIANTS
    TypeOK
    SupplyIsExact
    UndoIsExactWithoutOverwrite
    IndexFollowsStack
    SpendsAreSound
