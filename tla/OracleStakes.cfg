SPECIFICATION Spec
CONSTANTS
    NULL = NULL
    o1 = o1
    o2 = o2
    x = x
    Accounts = {o1, o2}
    Assets = {x}
    MinStake = 1
    StakeLock = 1
    StalePrice = 1
    MaxAnswerBound = 3
    MaxAssetsCount = 2
    MaxHistory = 1
    MaxPrePrices = 3
    MaxPrice = 9
    ED = 1
    InitialBalance = 3
    Infos <- TwoAnswers
    Stakes = {1}
    Values = {1, 4}
    MaxBlock = 5
INVARIANTS TypeOK KeysPaired StakeBacked
SYMMETRY AccountSymmetry
CHECK_DEADLOCK FALSE
