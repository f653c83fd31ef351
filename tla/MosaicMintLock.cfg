SPECIFICATION Spec
CONSTANTS
    NULL = NULL
    a1 = a1
    n1 = n1
    r1 = r1
    u1 = u1
    Accounts = {u1}
    Assets = {a1}
    Networks = {n1}
    RemoteAssets = {r1}
    MinimumTTL = 1
    MinimumTimeLockPeriod = 1
    MaxBalance = 3
    MaxBlock = 3
    InitialBalance = 0
    Amounts = {1}
    Donations = {}
    TTLs = {}
    LockTimes = {0, 2}
    Periods = {}
    Budgets = {3}
    Factors = {0}
    TransferSizes = {0}
PROPERTIES MintLocksHonoured
