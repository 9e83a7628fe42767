SPECIFICATION Spec
CONSTANTS
    Tx <- txs
    BaseCoins <- baseCoins
    PoolBlocks <- poolBlocks
    MaxSize = 3
    MinRelayFee = 1
    RbfIncrement = 2
    MaxTime = 2
    Peer = {p, q}
    MaxConnections = 1
    MaxSocket = 2
    MaxThreads = 2
    MaxOwnHeight = 1
    Known = {"p"}
    Seeds = {"p"}
    Private = {}
    FewPeers = 1
    StartScore = 1
    MaxScore = 2
    GoodScore = 0
    LowScore = 0
    Rewards = {1}
    ViolationCost = 1
    MaxViolations = 2
    BanTimes = {2}
    AutoBan = 1
    MaxStoreTime = 3
    Offered <- offered
    Payments <- payments
    MaxAddresses = 2
    MaxCreated = 2
    MaxStored = 3
    MaxListed = 1
    HeaderSize = 2
    Payloads = {0, 1}
    Room = 3
    MaxMessages = 3
    RollupTx = {"t"}
    Periods = {0, 2}
    MaxBatches = 2
    MaxBlocks = 3
    MaxPending = 1
    MaxZkBatches = 2
    ZkTx <- zkTxs
    ZkExiting = {1}
    PlasmaTxs <- plasmaTxs
    MaxExits = 2
    AmountWidth = 4
    TimeWidth = 8
    Funding <- funding
    MaxSequence = 2
    Disputes = {1, 7}
    Expiries = {1, 2, 3, 4}
    MaxHops = 3
    MaxChannelTime = 4
    Account = {"x", "y"}
    Transfers <- transfers
    Trader = {"x"}
    Price = {1, 2}
    Volume = {1, 2}
    MaxRequests = 4
    PoolWidth = 32768
    Provider = {"p", "q"}
    Deposits <- deposits
    Inputs = {1, 3, 32767}
    FeeRate = 5000
    Address <- accountAddresses
    StorageKey <- storageKeys
    TrieKeys <- trieKeys
    TrieValues = {"u", "w"}
    MaxChanges = 6
    StorageValue <- storageValues
    ZeroWord <- zeroWord
    MaxWrites = 4
    WordBytes = 2
    ByteBits = 3
    OffsetBytes = 1
    Contract <- contract
    ContextWord <- contract
    Pushed <- pushed
    GasLimit = 4
    MaxStack = 3
SYMMETRY symmetry
CHECK_DEADLOCK FALSE
INVARIANTS
    TypeOK
    ConnectionsAreServed
    BansHold
    WalletMatchesChain
    ClaimsSettle
    MachineIsExact
PROPERTIES
    PoolIsSound
    ImplementsChannel
    FinalStands
    DexIsFair
