SPECIFICATION Spec
CHECK_DEADLOCK FALSE
CONSTANTS
    u1 = u1
    u2 = u2
    h1 = h1
    Focuses = {"vault", "lending", "rates", "voting", "queue", "enact", "feed"}
    Users = {u1, u2}
    SubAccounts <- MCSubAccounts
    AssetIds = {1, 2, 3, 11, 12}
    NativeAsset = 1
    MinimumBalance <- MCMinimumBalance
    MaxBlock = 4
    Governors = {u1, u2}
    GovernedAssets = {2}
    Root = Root
    NoOrigin = NoOrigin
    MaxVaults = 1
    LpTokens <- MCLpTokens
    One = 2
    MaxStrategies = 1
    CreationDeposit = 1
    VaultExistentialDeposit = 3
    TombstoneDuration = 2
    RentPerBlock = 1
    MinimumDeposit = 0
    MinimumWithdrawal = 0
    Strategists <- MCStrategists
    VaultConfigs <- MCVaultConfigs
    VaultDeposits = {3}
    VaultAmounts = {1, 2}
    Reports = {0}
    NoVault = NoVault
    NoStrategy = NoStrategy
    Existential = Existential
    StrategyIds = {1, 2}
    DefaultStrategy = 1
    AskDeposit = 1
    MaxOrders = 2
    Proceeds = {1}
    MaxLendingCount = 1
    DebtTokens <- MCDebtTokens
    Unit = 1000
    Year = 1
    MarketInputs <- MCMarkets
    MarketUpdates <- MCUpdates
    InitialPool = 1
    RentChecked = 1
    Rent = 1
    PriceSets <- MCPrices
    CollateralAmounts = {2}
    LenderAmounts = {2}
    BorrowAmounts = {1, 2}
    NoMarket = NoMarket
    NoDebt = NoDebt
    Hashes = {h1}
    Decodable = {h1}
    PreimageDeposit = 1
    Treasury <- MCTreasury
    LaunchPeriod = 1
    VotingPeriod = 1
    EnactmentPeriod = 1
    VoteLockingPeriod = 1
    CooloffPeriod = 1
    MinimumDeposit_ = 1
    MaxProposals = 2
    MaxVotes = 1
    FastTrackInputs <- MCFastTrack
    AccountVotes <- MCVotes
    DelegationInputs <- MCDelegations
    VotedAssets = {2}
    Voters = {u1, u2}
    MaxReferenda = 2
    MaxPublicProps = 2
    FeedAssets = {"btc", "eth"}
    ChannelSize = 2
    CacheDuration = 2
    MaxTime = 2
INVARIANTS
    ServiceTypesOK RentBacked  TallyMatchesVotes LockCoversVotes DepositsHeld BakingSound NoTradeLost
PROPERTIES
    ShareValueKept NotDeletedEarly RefinesReferendum AnswersNeverOlder ServiceStops
