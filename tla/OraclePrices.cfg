SPECIFICATION Spec
CONSTANTS
    NULL = NULL
    o1 = o1
    o2 = o2
    o3 = o3
    x = x
    Accounts = {o1, o2, o3}
    Assets = {x}
    MinStake = 1
    StakeLock = 9
    StalePrice = 1
    MaxAnswerBound = 3
    MaxAssetsCount = 2
    MaxHistory = 1
    MaxPrePrices = 3
    MaxPrice = 9
    ED = 1
    InitialBalance = 3
    Infos <- ThreeOrTwo
    Stakes = {}
    Values = {1, 4}
    MaxBlock = 8
INVARIANTS AnswersInOrder HistoryEndsInPrice
PROPERTIES MajorityDecides PricesSpaced
SYMMETRY AccountSymmetry
CHECK_DEADLOCK FALSE
