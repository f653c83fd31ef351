SPECIFICATION Spec
CONSTANTS
    NULL = NULL
    a1 = a1
    a2 = a2
    n1 = n1
    n2 = n2
    r1 = r1
    r2 = r2
    u1 = u1
    u2 = u2
    Accounts = {u1, u2}
    Assets = {a1, a2}
    Networks = {n1, n2}
    RemoteAssets = {r1, r2}
    MinimumTTL = 1
    MinimumTimeLockPeriod = 1
    MaxBalance = 1
    MaxBlock = 4
    InitialBalance = 0
    Amounts = {}
    Donations = {}
    TTLs = {1, 2}
    LockTimes = {}
    Periods = {}
    Budgets = {}
    Factors = {}
    TransferSizes = {1}
INVARIANTS RemoteMappingSound
PROPERTIES HandoverAnnounced
SYMMETRY MappingSymmetry
