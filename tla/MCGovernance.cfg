SPECIFICATION Spec
CONSTANTS
    Citizen = {c1, c2, c3}
    CouncilSize = 2
    Stake = {1, 2}
    MinStake = 2
    Screened = {1}
    Voter = {v1, v2, v3}
    Content <- contents
    MaxProposals = 1
    MaxVoteHeight = 4
    VotingDelay = 1
    VotingPeriod = 1
    ExecutionDelay = 1
    Quorum = 2
    Threshold = 50
    VetoBps = 3334
    Powers = {0, 9}
    PowerCap = 2
    RequireBoule = TRUE
    Guardian = {g1, g2}
    MultisigRequired = 2
    ReserveBps = 1000
    Amounts = {1, 3}
    Fees = {4}
    MaxFunds = 4
    FundWord = 8
    Limits <- limits
    MaxFundHeight = 4
    MaxRecords = 2
    Plans <- plans
    Vesting <- vestings
    SplitConfigs <- splits
    Member = {m1, m2, m3}
    RequiredSigs = 2
    ActionTtl = 1
    MaxActions = 1
    RequiredVotes = 2
    BanDuration = 1
    MaxBlock = 2
SYMMETRY symmetry
CHECK_DEADLOCK FALSE
INVARIANTS
    TypeOK
    VotesCountedOnce
    EffectIsDecided
    ScreenedBeforeVotes
    FundsConserved
    PaymentsAreDue
    QuorumsDecide
