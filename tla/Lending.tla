------------------------------ MODULE Lending -------------------------------
(***************************************************************************)
(* frame/lending over frame/vault and frame/liquidations.  A market lends  *)
(* the funds of its own vault, whose only strategy it is, against          *)
(* collateral kept in the market's account.  A borrower's principal is a   *)
(* debt token on hold; the interest of all borrowers is one balance of     *)
(* debt tokens of the market's account, and what a borrower owes is the    *)
(* principal times the growth of the market's index since he borrowed.     *)
(*                                                                         *)
(* Fixed-point numbers are in parts of Unit, a block is one unit of time   *)
(* and Year of them are a year.  Prices are in the oracle's currency per   *)
(* unit of the asset.                                                      *)
(***************************************************************************)
EXTENDS Vault, Liquidations, InterestRates

CONSTANTS
    MaxLendingCount,
    DebtTokens,        \* market -> its debt token
    MarketInputs,      \* the markets managers may create
    MarketUpdates,     \* the updates they may make
    InitialPool,       \* OracleMarketCreationStake in the borrow asset
    RentChecked,       \* the fee of liquidate(1), which can_borrow looks for
    Rent,              \* the fee of liquidate(2), which borrow takes
    PriceSets,         \* prices the oracle may report: asset -> price
    CollateralAmounts, \* amounts of collateral in calls
    LenderAmounts,     \* amounts lenders move in and out of the vault
    BorrowAmounts,     \* amounts borrowed and repaid
    NoMarket,
    NoDebt             \* an account without entry in a map of the market

MarketIds == 1..MaxLendingCount
MarketAccount(m) == <<"market", m>>

(* Debt tokens are made by currency-factory and stay on hold: nobody can   *)
(* pay with one, and the markets that may be created name other assets.    *)
(* The runtimes give no token but the native one a minimum balance.        *)
DebtIds == {DebtTokens[m] : m \in MarketIds}
Lendable == AssetIds \ DebtIds

Market == [manager: Users, borrow: VaultIds, collateral: Lendable, collateral_factor: Nat,
           model: RateModel, liquidators: Seq(Nat)]

ASSUME MarketTypes ==
    \A m \in MarketIds :
        /\ MarketAccount(m) \in SubAccounts
        /\ MarketAccount(m) \in Strategists
        /\ DebtTokens[m] # NativeAsset
        /\ MinimumBalance[DebtTokens[m]] = 0
        /\ \A id \in VaultIds : LpTokens[id] # DebtTokens[m]
        /\ \A k \in MarketIds : DebtTokens[m] = DebtTokens[k] => m = k

ASSUME LendingTypes ==
    /\ MaxLendingCount \in Nat
    /\ DebtTokens \in [MarketIds -> AssetIds]
    /\ {InitialPool, RentChecked, Rent} \subseteq Nat
    /\ PriceSets \subseteq [AssetIds -> Nat \ {0}]
    /\ CollateralAmounts \cup LenderAmounts \cup BorrowAmounts \subseteq Nat
    /\ MarketInputs \subseteq
          [borrow_asset: Lendable, collateral_asset: Lendable, reserved_factor: 0..One,
           collateral_factor: Nat, model: RateModel, liquidators: Seq(Nat)]
    /\ MarketUpdates \subseteq
          [collateral_factor: Nat, model: RateModel, liquidators: Seq(Nat)]
    /\ NoMarket \notin Market
    /\ NoDebt \notin Nat

VARIABLES
    lending_count,
    markets,              \* market -> NoMarket or its configuration
    borrow_index,         \* market -> index, in parts of Unit
    debt_index,           \* market -> account -> index or NoDebt
    borrow_timestamp,     \* market -> account -> time or NoDebt
    borrow_rent,          \* market -> account -> amount or NoDebt
    account_collateral,   \* market -> account -> amount or NoDebt
    last_block_timestamp,
    prices,               \* the oracle
    soldCollateral        \* history: market -> collateral sold by auctions

loanVars == <<debt_index, borrow_timestamp, borrow_rent, account_collateral>>
marketVars == <<lending_count, markets, borrow_index, last_block_timestamp>>
lendingVars == <<marketVars, loanVars, prices, orders, soldCollateral>>

-----------------------------------------------------------------------------
(* Reading a market.                                                       *)

MarketExists(m) == markets[m] # NoMarket
BorrowAsset(m) == vaults[markets[m].borrow].asset_id

TotalInterest(l, m) == TotalBalance(l, DebtTokens[m], MarketAccount(m))
TotalBorrows(l, m) == Issuance(l, DebtTokens[m]) - TotalInterest(l, m)
TotalCash(l, m) == TotalBalance(l, BorrowAsset(m), MarketAccount(m))

Principal(m, who) == ledger[DebtTokens[m]][who].reserved

(* borrow_balance_current: without an index the account owes nothing.      *)
Owed(m, who) ==
    IF debt_index[m][who] = NoDebt \/ Principal(m, who) = 0 THEN 0
    ELSE (Principal(m, who) * borrow_index[m]) \div debt_index[m][who]

CollateralOf(m, who) ==
    IF account_collateral[m][who] = NoDebt THEN 0 ELSE account_collateral[m][who]

Value(a, n) == prices[a] * n

(* BorrowerData.                                                           *)
UnderCollateralized(collateral, debt, factor) ==
    debt # 0 /\ collateral * Unit < debt * factor
BorrowForCollateral(collateral, debt, factor) ==
    SatSub((collateral * Unit) \div factor, debt)

ShouldLiquidate(m, who) ==
    UnderCollateralized(Value(markets[m].collateral, CollateralOf(m, who)),
                        Value(BorrowAsset(m), Owed(m, who)),
                        markets[m].collateral_factor)

BorrowLimit(m, who) ==
    IF CollateralOf(m, who) = 0 THEN 0
    ELSE BorrowForCollateral(Value(markets[m].collateral, CollateralOf(m, who)),
                             Value(BorrowAsset(m), Owed(m, who)),
                             markets[m].collateral_factor)

-----------------------------------------------------------------------------
(* Markets.                                                                *)

CreateMarket(manager, input) ==
    LET m == lending_count + 1
        vault == [asset_id |-> input.borrow_asset, reserved |-> input.reserved_factor,
                  manager |-> manager,
                  strategies |-> [s \in {MarketAccount(m)} |-> One - input.reserved_factor]]
    IN /\ lending_count < MaxLendingCount
       /\ ValidModel(input.model)
       /\ input.borrow_asset # input.collateral_asset
       /\ input.collateral_factor > Unit
       /\ InitialPool > 0
       /\ CanCreateVault(vault)
       /\ CanTransfer(ledger, input.borrow_asset, manager, MarketAccount(m), InitialPool, FALSE)
       /\ CreatesVault(vault, Existential)
       /\ ledger' = Transfer(ledger, input.borrow_asset, manager, MarketAccount(m), InitialPool)
       /\ lending_count' = m
       /\ markets' = [markets EXCEPT ![m] =
             [manager |-> manager, borrow |-> vault_count + 1,
              collateral |-> input.collateral_asset,
              collateral_factor |-> input.collateral_factor,
              model |-> Validated(input.model), liquidators |-> input.liquidators]]
       /\ borrow_index' = [borrow_index EXCEPT ![m] = Unit]
       /\ UNCHANGED <<now, loanVars, last_block_timestamp, prices, orders, soldCollateral>>

(* By the manager; neither the factor nor the model is validated again.    *)
UpdateMarket(who, m, update) ==
    /\ MarketExists(m) /\ markets[m].manager = who
    /\ markets' = [markets EXCEPT ![m] =
          [@ EXCEPT !.collateral_factor = update.collateral_factor,
                    !.model = update.model, !.liquidators = update.liquidators]]
    /\ UNCHANGED <<now, ledger, vaultVars, lending_count, borrow_index, loanVars,
                   last_block_timestamp, prices, orders, soldCollateral>>

-----------------------------------------------------------------------------
(* Collateral.                                                             *)

CollateralFrame ==
    UNCHANGED <<now, vaultVars, marketVars, debt_index, borrow_timestamp, borrow_rent,
                prices, orders, soldCollateral>>

(* The two calls expect the transfer to succeed after their checks, which  *)
(* do not keep the payer alive: a transfer that would end it is a panic.   *)
DepositCollateral(who, m, n) ==
    LET c == markets[m].collateral IN
    /\ MarketExists(m)
    /\ CanWithdraw(ledger, c, who, n, FALSE)
    /\ CanDeposit(ledger, c, MarketAccount(m), n)
    /\ CanTransfer(ledger, c, who, MarketAccount(m), n, TRUE)
    /\ ledger' = Transfer(ledger, c, who, MarketAccount(m), n)
    /\ account_collateral' = [account_collateral EXCEPT ![m][who] = CollateralOf(m, who) + n]
    /\ CollateralFrame

WithdrawCollateral(who, m, n) ==
    LET c == markets[m].collateral IN
    /\ MarketExists(m)
    /\ n <= CollateralOf(m, who)
    /\ ~UnderCollateralized(Value(c, CollateralOf(m, who) - n),
                            Value(BorrowAsset(m), Owed(m, who)),
                            markets[m].collateral_factor)
    /\ CanDeposit(ledger, c, who, n)
    /\ CanTransfer(ledger, c, MarketAccount(m), who, n, TRUE)
    /\ ledger' = Transfer(ledger, c, MarketAccount(m), who, n)
    /\ account_collateral' = [account_collateral EXCEPT ![m][who] = CollateralOf(m, who) - n]
    /\ CollateralFrame

-----------------------------------------------------------------------------
(* Loans.                                                                  *)

PercentOf(part, whole) == (100 * part) \div GreaterOf(whole, 1)

(* mutant: the shares are rounded up                                       *)
IndexRoundedUp(m, who, n) ==
    LET existing == TotalBalance(ledger, DebtTokens[m], who)
        index    == IF debt_index[m][who] = NoDebt THEN 0 ELSE debt_index[m][who]
    IN (borrow_index[m] * (PercentOf(n, existing + n) + 1)) \div 100
          + (index * (PercentOf(existing, existing + n) + 1)) \div 100

(* updated_account_interest_index: the indices of the old and the new part *)
(* of the loan, weighted by whole percentages.                             *)
UpdatedIndex(m, who, n) ==
    LET existing == TotalBalance(ledger, DebtTokens[m], who)
        index    == IF debt_index[m][who] = NoDebt THEN 0 ELSE debt_index[m][who]
    IN (borrow_index[m] * PercentOf(n, existing + n)) \div 100
          + (index * PercentOf(existing, existing + n)) \div 100

CanBorrow(m, who, n) ==
    /\ borrow_timestamp[m][who] # NoDebt => borrow_timestamp[m][who] < last_block_timestamp
    /\ Value(BorrowAsset(m), n) <= BorrowLimit(m, who)
    /\ CanWithdraw(ledger, BorrowAsset(m), MarketAccount(m), n, FALSE)
    /\ borrow_rent[m][who] = NoDebt => CanWithdraw(ledger, NativeAsset, who, RentChecked, FALSE)
    /\ ~MustLiquidate(capital_structure, markets[m].borrow, MarketAccount(m))

Borrow(who, m, n) ==
    LET acc   == MarketAccount(m)
        minted == Mint(ledger, DebtTokens[m], who, n)
        held  == ReserveFunds(minted, DebtTokens[m], who, n)
        lent  == Transfer(held, BorrowAsset(m), acc, who, n)
        owesRent == borrow_rent[m][who] = NoDebt
    IN /\ MarketExists(m)
       /\ CanBorrow(m, who, n)
       /\ CanMint(ledger, DebtTokens[m], who, n)
       /\ CanTransfer(held, BorrowAsset(m), acc, who, n, TRUE)
       /\ owesRent => CanTransfer(lent, NativeAsset, who, acc, Rent, TRUE)
       /\ ledger' = IF owesRent THEN Transfer(lent, NativeAsset, who, acc, Rent) ELSE lent
       /\ debt_index' = [debt_index EXCEPT ![m][who] = UpdatedIndex(m, who, n)]
       /\ borrow_timestamp' = [borrow_timestamp EXCEPT ![m][who] = last_block_timestamp]
       /\ borrow_rent' = IF owesRent THEN [borrow_rent EXCEPT ![m][who] = Rent] ELSE borrow_rent
       /\ UNCHANGED <<now, vaultVars, marketVars, account_collateral, prices, orders,
                      soldCollateral>>

CanRepay(m, from, who, n) ==
    /\ borrow_timestamp[m][who] # NoDebt
    /\ borrow_timestamp[m][who] # last_block_timestamp
    /\ n > 0 /\ n <= Owed(m, who)
    /\ CanWithdraw(ledger, BorrowAsset(m), from, n, FALSE)
    /\ CanDeposit(ledger, BorrowAsset(m), MarketAccount(m), n)

(* repay_borrow.  The principal is repaid first; what exceeds it is burnt  *)
(* from the market's interest and not paid by anyone.  The loan is closed  *)
(* when the interest of the market is zero, whatever principal is left,    *)
(* and the rent is paid back and stays recorded.                           *)
RepayBorrow(from, m, who, n) ==
    LET acc      == MarketAccount(m)
        debt     == DebtTokens[m]
        released == LesserOf(n, TotalBalance(ledger, debt, who))
        interest == n - released
        left     == TotalInterest(ledger, m) - interest
        burnt    == Burn(ledger, debt, acc, interest)
        freed    == Burn(UnreserveFunds(burnt, debt, who, released), debt, who, released)
        paid     == Transfer(freed, BorrowAsset(m), from, acc, released)
        closed   == left = 0
        refund   == closed /\ borrow_rent[m][who] # NoDebt
    IN /\ MarketExists(m)
       /\ CanRepay(m, from, who, n)
       /\ left >= 0
       /\ CanTransfer(freed, BorrowAsset(m), from, acc, released, FALSE)
       /\ refund => CanTransfer(paid, NativeAsset, acc, who, borrow_rent[m][who], FALSE)
       /\ ledger' = IF refund THEN Transfer(paid, NativeAsset, acc, who, borrow_rent[m][who])
                    ELSE paid
       /\ debt_index' = IF closed THEN [debt_index EXCEPT ![m][who] = NoDebt] ELSE debt_index
       /\ borrow_timestamp' =
             IF closed THEN [borrow_timestamp EXCEPT ![m][who] = NoDebt] ELSE borrow_timestamp
       /\ UNCHANGED <<now, vaultVars, marketVars, borrow_rent, account_collateral, prices,
                      orders, soldCollateral>>

-----------------------------------------------------------------------------
(* Liquidation.                                                            *)

OrderFor(m, who) ==
    [market |-> m, from |-> MarketAccount(m), base |-> markets[m].collateral,
     quote |-> BorrowAsset(m), amount |-> CollateralOf(m, who)]

(* liquidate_internal for one borrower: the collateral is offered and the  *)
(* rent goes to the liquidator.  Neither is taken off the books.           *)
LiquidateOne(a, liquidator, m, who) ==
    LET asked == Liquidated(a.ledger, OrderFor(m, who), markets[m].liquidators)
        rent  == IF borrow_rent[m][who] = NoDebt THEN 0 ELSE borrow_rent[m][who]
    IN IF ~ShouldLiquidate(m, who) THEN a
       ELSE IF /\ a.ok /\ asked.accepted
               /\ CanTransfer(asked.ledger, NativeAsset, MarketAccount(m), liquidator, rent, FALSE)
       THEN [a EXCEPT !.ledger = Transfer(asked.ledger, NativeAsset, MarketAccount(m),
                                          liquidator, rent),
                      !.orders = Append(@, OrderFor(m, who))]
       ELSE [a EXCEPT !.ok = FALSE]

LiquidateAll(liquidator, m, borrowers) ==
    LET done[k \in 0..Len(borrowers)] ==
            IF k = 0 THEN [ok |-> TRUE, ledger |-> ledger, orders |-> orders]
            ELSE LiquidateOne(done[k - 1], liquidator, m, borrowers[k])
    IN done[Len(borrowers)]

(* Transactional: all borrowers of the list or none.  An account that      *)
(* never deposited collateral makes the call fail.                         *)
Liquidate(liquidator, m, borrowers) ==
    LET after == LiquidateAll(liquidator, m, borrowers)
    IN /\ MarketExists(m)
       /\ \A i \in DOMAIN borrowers : account_collateral[m][borrowers[i]] # NoDebt
       /\ after.ok
       /\ Len(after.orders) <= MaxOrders
       /\ ledger' = after.ledger
       /\ orders' = after.orders
       /\ UNCHANGED <<now, vaultVars, marketVars, loanVars, prices, soldCollateral>>

AuctionSells(taker, paid) ==
    /\ orders # <<>>
    /\ CanBeSold(ledger, Head(orders), taker, paid)
    /\ ledger' = Sold(ledger, Head(orders), taker, paid)
    /\ orders' = Tail(orders)
    /\ soldCollateral' = [soldCollateral EXCEPT ![Head(orders).market] =
                            @ + Head(orders).amount]
    /\ UNCHANGED <<now, vaultVars, marketVars, loanVars, prices>>

-----------------------------------------------------------------------------
(* Blocks.                                                                 *)

(* accrue_interest: the rate, which a model that update_market let through *)
(* may not have, and the interest for the time since the last block that   *)
(* was initialized.                                                        *)
Utilization(l, m) == UtilizationRatio(TotalCash(l, m), TotalBorrows(l, m))
RateOf(l, m) == BorrowRate(markets[m].model, Utilization(l, m))

Elapsed == now - last_block_timestamp

Accrued(l, m) ==
    Mint(l, DebtTokens[m], MarketAccount(m),
         AccruedInterest(RateOf(l, m), TotalBorrows(l, m), Elapsed))

(* Each market then draws what its vault offers, or returns what the vault *)
(* asks for, or all it has if the vault is stopped or the strategy gone.   *)
Draws(l, cs, m) ==
    /\ ~MustLiquidate(cs, markets[m].borrow, MarketAccount(m))
    /\ FundsAvailable(l, cs, markets[m].borrow, MarketAccount(m)) > 0

Returned(l, cs, m) ==
    LET cash == Reducible(l, BorrowAsset(m), MarketAccount(m), FALSE)
    IN IF MustLiquidate(cs, markets[m].borrow, MarketAccount(m)) THEN cash
       ELSE LesserOf(cash, -FundsAvailable(l, cs, markets[m].borrow, MarketAccount(m)))

InitializeMarket(a, m) ==
    LET l   == Accrued(a.ledger, m)
        v   == markets[m].borrow
        acc == MarketAccount(m)
        n   == IF Draws(l, a.structure, m) THEN FundsAvailable(l, a.structure, v, acc)
               ELSE Returned(l, a.structure, m)
        index == [a.index EXCEPT ![m] = IncrementIndex(RateOf(a.ledger, m), @, Elapsed)]
    IN IF ~(a.ok /\ RateExists(markets[m].model, Utilization(a.ledger, m)))
       THEN [a EXCEPT !.ok = FALSE]
       ELSE IF Draws(l, a.structure, m) /\ CanStrategyWithdraw(l, v, acc, n)
       THEN [ok |-> TRUE,
             ledger |-> StrategyWithdraw(l, v, acc, n),
             structure |-> WithdrawnStructure(a.structure, v, acc, n),
             index |-> index]
       ELSE IF ~Draws(l, a.structure, m) /\ CanStrategyDeposit(l, v, acc, n)
       THEN [ok |-> TRUE,
             ledger |-> StrategyDeposit(l, v, acc, n),
             structure |-> DepositedStructure(a.structure, v, acc, n),
             index |-> index]
       ELSE [a EXCEPT !.ok = FALSE]

InitializeMarkets ==
    LET done[k \in 0..lending_count] ==
            IF k = 0 THEN [ok |-> TRUE, ledger |-> ledger,
                           structure |-> capital_structure, index |-> borrow_index]
            ELSE InitializeMarket(done[k - 1], k)
    IN done[lending_count]

(* initialize_block, at the time of the block before: all markets, or none *)
(* of them and the time does not move.                                     *)
InitializeBlock ==
    LET after == InitializeMarkets
    IN /\ NextBlock
       /\ ledger' = IF after.ok THEN after.ledger ELSE ledger
       /\ capital_structure' = IF after.ok THEN after.structure ELSE capital_structure
       /\ borrow_index' = IF after.ok THEN after.index ELSE borrow_index
       /\ last_block_timestamp' = IF after.ok THEN now ELSE last_block_timestamp
       /\ UNCHANGED <<vault_count, vaults, lp_tokens_to_vaults, tombstonedAt,
                      lending_count, markets, loanVars, prices, orders, soldCollateral>>

SetPrices(p) ==
    /\ prices' = p
    /\ UNCHANGED <<now, ledger, vaultVars, marketVars, loanVars, orders, soldCollateral>>

LendingInit ==
    /\ lending_count = 0
    /\ markets = [m \in MarketIds |-> NoMarket]
    /\ borrow_index = [m \in MarketIds |-> 0]
    /\ debt_index = [m \in MarketIds |-> [who \in Users |-> NoDebt]]
    /\ borrow_timestamp = [m \in MarketIds |-> [who \in Users |-> NoDebt]]
    /\ borrow_rent = [m \in MarketIds |-> [who \in Users |-> NoDebt]]
    /\ account_collateral = [m \in MarketIds |-> [who \in Users |-> NoDebt]]
    /\ last_block_timestamp = 0
    /\ prices \in PriceSets
    /\ soldCollateral = [m \in MarketIds |-> 0]
    /\ LiquidationsInit

MarketNext(inputs, updates) ==
    \E who \in Users :
        \/ \E input \in inputs : CreateMarket(who, input)
        \/ \E m \in MarketIds, update \in updates : UpdateMarket(who, m, update)

LoanNext ==
    \E who \in Users, m \in MarketIds :
        \/ \E n \in CollateralAmounts :
              DepositCollateral(who, m, n) \/ WithdrawCollateral(who, m, n)
        \/ \E n \in BorrowAmounts : Borrow(who, m, n)
        \/ \E from \in Users, n \in BorrowAmounts : RepayBorrow(from, m, who, n)

LendingNext(inputs, updates) ==
    \/ MarketNext(inputs, updates)
    \/ LoanNext
    \/ \E who \in Users, m \in MarketIds, borrower \in Users :
          \/ Liquidate(who, m, <<borrower>>)
          \/ Liquidate(who, m, <<borrower, borrower>>)
    \/ \E who \in Users, paid \in Proceeds : AuctionSells(who, paid)
    \/ \E id \in VaultIds :
          /\ \/ \E who \in Users, n \in LenderAmounts :
                   DepositVault(who, id, n) \/ WithdrawVault(who, id, n)
             \/ EmergencyShutdown(id)
             \/ StartVault(id)
             \/ \E who \in Users, s \in Strategists : LiquidateStrategy(who, id, s)
          /\ UNCHANGED lendingVars
    \/ \E p \in PriceSets : SetPrices(p)
    \/ InitializeBlock

(* Before the first market debt tokens do not exist, and the accounts that *)
(* will be the markets' hold nothing but, perhaps, native funds.           *)
NothingLent ==
    \A m \in MarketIds :
        /\ \A who \in Accounts : ledger[DebtTokens[m]][who] = NoFunds
        /\ \A a \in AssetIds \ {NativeAsset} : ledger[a][MarketAccount(m)] = NoFunds

(* No market lends, or takes as collateral, the native asset, in which the *)
(* rent of the borrowers comes into the market's account and leaves it.    *)
NoNativeMarkets ==
    \A input \in MarketInputs : NativeAsset \notin {input.borrow_asset, input.collateral_asset}

LendingSpec ==
    /\ ChainInit /\ VaultInit /\ LendingInit /\ NothingLent
    /\ [][LendingNext(MarketInputs, MarketUpdates)]_<<now, ledger, vaultVars, lendingVars>>

-----------------------------------------------------------------------------
(* Properties.                                                             *)

Loans == UNION {{<<m, who>> : who \in Users} : m \in MarketIds}

LendingTypeOK ==
    /\ ledger \in Ledger
    /\ lending_count \in 0..MaxLendingCount
    /\ \A m \in MarketIds : MarketExists(m) <=> m <= lending_count
    /\ borrow_index \in [MarketIds -> Nat]
    /\ {debt_index, borrow_timestamp, borrow_rent, account_collateral}
          \subseteq [MarketIds -> [Users -> Nat \cup {NoDebt}]]
    /\ last_block_timestamp \in 0..now

CollateralAccounted(m) ==
    SumFunction([who \in Users |-> CollateralOf(m, who)])
        = TotalBalance(ledger, markets[m].collateral, MarketAccount(m)) + soldCollateral[m]

OwedCoversPrincipal(m, who) ==
    debt_index[m][who] # NoDebt => debt_index[m][who] <= borrow_index[m]

StrategyBacked(m) ==
    StrategyBalance(capital_structure, markets[m].borrow, MarketAccount(m))
        <= TotalCash(ledger, m) + SumFunction([who \in Users |-> Principal(m, who)])

(* The collateral the accounts are credited with is in the market's        *)
(* account, free or offered for sale, or has been sold: no sequence of     *)
(* deposits, withdrawals and liquidations creates or loses any.  Borrowers *)
(* never owe less than their principal: the weighted index of an account   *)
(* stays at or below the market's, in whatever portions and blocks the     *)
(* loan was taken (updated_account_interest_index).  And what the vault    *)
(* counts as held by its strategy, and pays its depositors shares of, is   *)
(* cash of the market or principal that borrowers hold debt tokens for:    *)
(* through borrowing, repayment by anyone, interest, liquidation, and      *)
(* vault and market moving funds every block.                              *)
LoansBacked ==
    \A m \in MarketIds : MarketExists(m) =>
        /\ CollateralAccounted(m)
        /\ \A who \in Users : OwedCoversPrincipal(m, who)
        /\ StrategyBacked(m)

(* "withdrawable = collateral_balance * collateral_price -                 *)
(* borrower_balance_with_interest * borrow_price * collateral_factor"      *)
(* (lending::withdraw_collateral): whoever withdraws leaves collateral     *)
(* for the debt he has.                                                    *)
WithdrawalLeavesCover ==
    [][\A m \in MarketIds, who \in Users :
          CollateralOf(m, who)' < CollateralOf(m, who)
              => ~UnderCollateralized(Value(markets[m].collateral, CollateralOf(m, who))',
                                      Value(BorrowAsset(m), Principal(m, who))',
                                      markets[m].collateral_factor)]_account_collateral
=============================================================================
