SPECIFICATION Spec
CONSTANTS
    Ip = {1, 2, 3}
    Worker = {w1, w2}
    Requests <- rpcRequests
    MaxRequestCount = 1
    Window = 2
    BurstSize = 1
    BurstTime = 1
    IdleTime = 2
    Fee = 1
    CoinAmounts <- coinAmounts
    Holders = {"h"}
    MaxAdmitted = 3
    MaxFlood = 5
    MaxClock = 3
    MaxTip = 3
    Subscriber = {"blocks", "addr"}
    TxsOf <- txsOf
    MaxScan = 2
    MaxSeen = 2
    StorageName = {"n"}
    StorageData = {1}
    Thread = {t1, t2}
    MaxStores = 4
    MaxCalls = 1
    ConfigLines <- configLines
    MaxLines = 3
    LayerOverride = {"", "l9"}
    DefaultPort <- defaultPort
    MaxRuns = 2
    BuiltInVendor = {"A"}
    VendorKeySets <- vendorKeySets
    DatabaseFiles <- databaseFiles
    Advisory <- advisory
    DeviceVendor = "A"
    HardenedBit = 2
    PathText = {0, 3, 4}
    MaxSigned = 1
    Direct = 3
    Limit <- limits
    Magic <- magic
    Samples <- samples
    MaxFaults = 2
    MaxWord = 4095
    Decimals = 1
    DrPerTal = 12
    ObPerDr = 6
    Denominations <- denominations
    Amounts = {0, 1, 3, 18, 21, 40, 300, 1000, 4095}
    TypedTexts <- typed
    MaxUnitSteps = 4
    LockTimes = {1, 2}
    Hashes = {1, 2}
    MaxTime = 3
    PolicyKeys <- policyKeys
    MaxKeys = 2
    MaxGathered = 3
    CodePoints = {65, 127, 128, 2047, 2048, 55295, 55296, 57343, 57344, 65535, 65536, 1114111, 1114112}
    MAX_MEMO_SIZE = 7
    MaxPieces = 2
    Days = {0, 1, 3, 9}
    MaxDays = 4
    Checker = {c1, c2}
    MaxCerts = 2
    Address = {a, b}
    Organization = {o, p, q}
    Weights = {0, 3}
    WeightWord = 16
    Screened = {1, 2}
    LargeAmount = 2
    Durations = {0, 1, 6}
    TimeWord = 16
    DefaultThresholds <- slaDefault
    OtherThresholds <- slaOthers
    MaxMembers = 1
    MaxDecisions = 1
    MaxEvents = 2
    MaxRecords = 3
    Radix = 4
    Width = 5
    ExpectedTime = 8
    Spans = {1, 2, 3, 7, 8, 9, 16, 31, 40}
    MaxPeriods = 2
    MiningThread = {m1, m2}
    BlockHash = {768, 272, 4}
    BlockReward <- rewards
    Iterations = 1
    MaxBlockTime = 2
    MaxHeight = 4
    MaxProcesses = 2
    WordSize = 2
    KeySize = 2
    KeyOrder = 250
    MaxDecimal = 20
    TextSamples <- textSamples
    MaxSlips = 2
    StoredCoin = {10, 11}
    StoredOutput = {1, 2}
    MaxWrites = 4
    Party = {"", "a", "b"}
    LedgerWord = 8
    PartAmounts = {0, 1, 3, 7}
    MaxCredited = 10
    MaxEntries = 4
    DidKeys <- didKeys
    Issuers = {"", "i"}
    Shards = 3
    Managers <- managers
    CrossTxs <- crossTxs
    PaidCoin <- paidCoin
    NoKey = "none"
    WalletKeys = {"k", "l"}
    Drafts <- drafts
    CoinbaseDrafts <- coinbaseDrafts
    SupplyCap <- supplyCap
    HeightReward <- heightReward
    MaturityDepth = 2
    AmountWord = 64
    MaxTipHeight = 3
    StakeHolder = {"v1", "v2", "v3"}
    InitialStake <- initialStake
    TableOrder <- tableOrder
    Relayer = {r1, r2}
    FinalBlock <- finalBlocks
    StakeWord = 1048576
    WrittenStake = {10}
    SlotShift = 64
    MaxVotes = 4
    MaxSlashes = 1
    MaxSignatures = 2
    MaxAnchored = 2
CHECK_DEADLOCK FALSE
INVARIANTS
    WalletPaymentsVerify
