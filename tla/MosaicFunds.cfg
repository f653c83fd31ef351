SPECIFICATION FairSpec
CONSTANTS
    NULL = NULL
    a1 = a1
    n1 = n1
    r1 = r1
    u1 = u1
    Accounts = {u1}
    Assets = {a1}
    Networks = {n1}
    RemoteAssets = {r1}
    MinimumTTL = 1
    MinimumTimeLockPeriod = 1
    MaxBalance = 4
    MaxBlock = 3
    InitialBalance = 1
    Amounts = {1, 2}
    Donations = {1}
    TTLs = {}
    LockTimes = {0}
    Periods = {0, 2}
    Budgets = {2}
    Factors = {1}
    TransferSizes = {2}
INVARIANTS TypeOK EscrowBacksPending MintRateLimited
PROPERTIES RelayerHasItsWindow OutgoingResolves IncomingResolves
