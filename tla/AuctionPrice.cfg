SPECIFICATION Spec
CONSTANTS
    NULL = NULL
    alice = alice
    bob = bob
    base = base
    quote = quote
    Accounts = {alice, bob}
    Assets = {base, quote}
    Pairs <- OnePair
    Div = 2
    Deposit = 1
    ED = 1
    Endowment = 1
    NativeBalance = 2
    AssetBalance = 3
    Amounts = {1}
    Limits = {2, 4}
    Curves <- Linear
    MaxOrders = 1
    MaxTakes = 1
    MaxTime = 2
INVARIANTS PriceDiminishes
CHECK_DEADLOCK FALSE
