SPECIFICATION Spec
CHECK_DEADLOCK FALSE
CONSTANTS
    u1 = u1
    u2 = u2
    Focuses = {"bonds", "crowdloan", "assets", "traits", "uniswap", "curve", "router", "registry", "privilege"}
    Users = {u1, u2}
    SubAccounts <- MCSubAccounts
    AssetIds = {Shadow, 1, 2, 3, 4, 5, 7, 8}
    NativeAsset = 1
    MinimumBalance <- MCMinimumBalance
    MaxBlock = 4
    MinVestedTransfer = 1
    MaxVestingSchedules = 2
    Schedules <- MCSchedules
    VestedAssets = {2}
    Gifts = {1}
    Stake = 1
    MinReward = 1
    OfferIds = {1}
    Offers <- MCOffers
    Infinite = Infinite
    NoOffer = NoOffer
    Remotes = {"r1", "r2"}
    Claimants = {u1, u2}
    InitialPayment = 25
    VestingStep = 2
    RewardLists <- MCRewardLists
    StartBlocks = {1, 2}
    NoReward = NoReward
    NoRemote = NoRemote
    NotStarted = NotStarted
    InitialRanges <- MCRanges
    MaxRanges = 4
    MaxId = 20
    MinRangeSum = 3
    RangeLengths = {1}
    Governors = {u1, u2}
    GovernedAssets <- MCGoverned
    Root = Root
    NoOrigin = NoOrigin
    Shadow = Shadow
    AssetAmounts = {1}
    HeldAssets = {2}
    ManagedAssets = {2}
    MaxSupply = 1
    MaxPools = 1
    PoolInputs <- MCPools
    FeeOne = 4
    DecimalScale = 10000
    PoolAmounts = {1, 2, 3}
    MinimumsWanted = {0, 1}
    NoPool = NoPool
    MaxCurvePools = 1
    CurveInputs <- MCCurves
    PermillOne = 10
    CurveAmounts = {7}
    CurveMinimums = {0, 1}
    NoCurve = NoCurve
    MaxHopsInRoute = 3
    RoutedPairs <- MCPairs
    RouteInputs <- MCRoutes
    RoutedAmounts = {1, 2}
    NoRoute = NoRoute
    LocalAssets = {"pica", "ksm"}
    ForeignAssets = {"f1", "f2"}
    GenesisPairs = {}
    NoAdmin = NoAdmin
    NotMapped = NotMapped
    NoStatus = NoStatus
    PrivilegeFlags = {"PRIVILEGED_LIQUIDATOR"}
    MaxGroup = 2
    MaxMember = 1
    GroupInputs <- MCGroups
    MaxGroups = 2
    NoEntry = NoEntry
INVARIANTS
    UnvestedLocked OffersServed ClaimsAccounted BalancesApart MappingApproved MembersPrivileged
PROPERTIES
     RewardsPaidInFull
