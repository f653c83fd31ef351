SPECIFICATION Spec
CONSTANTS
    NULL = NULL
    alice = alice
    bob = bob
    base = base
    quote = quote
    Accounts = {alice, bob}
    Assets = {base, quote}
    Pairs <- BothPairs
    Div = 2
    Deposit = 1
    ED = 1
    Endowment = 0
    NativeBalance = 2
    AssetBalance = 2
    Amounts = {1, 2}
    Limits = {2, 3}
    Curves <- Linear
    MaxOrders = 2
    MaxTakes = 2
    MaxTime = 2
INVARIANTS TypeOK TakesLocked DepositsBacked HighestBidFirst
SYMMETRY AccountSymmetry
CHECK_DEADLOCK FALSE
