---------------------------- MODULE Liquidations ----------------------------
(***************************************************************************)
(* frame/liquidations: an order is offered to the strategies of a list, in *)
(* order, until one accepts it.  The strategies that exist are those of    *)
(* genesis, both Dutch auctions; what the auction pallet does with an      *)
(* order is the subject of DutchAuction and appears here as its ask, which *)
(* is not transactional, and as one sale per order.                        *)
(***************************************************************************)
EXTENDS Chain

CONSTANTS
    StrategyIds,     \* Strategies: the ids in storage
    DefaultStrategy, \* DefaultStrategyIndex
    AskDeposit,      \* what the auction charges for an order
    MaxOrders,       \* bound: the orders ever accepted
    Proceeds         \* what the takers of an order may pay

AuctionAccount == <<"auction">>

ASSUME LiquidationsTypes ==
    /\ DefaultStrategy \in StrategyIds
    /\ AskDeposit \in Nat
    /\ MaxOrders \in Nat
    /\ Proceeds \subseteq Nat
    /\ AuctionAccount \in SubAccounts

VARIABLE orders  \* the auction's open orders, [from, base, quote, amount]

-----------------------------------------------------------------------------

(* ask on the ledger of a: the deposit is gone when the reserve fails.     *)
Ask(a, order) ==
    LET paid == Transfer(a.ledger, NativeAsset, order.from, AuctionAccount, AskDeposit) IN
    IF \/ order.amount = 0
       \/ ~CanTransfer(a.ledger, NativeAsset, order.from, AuctionAccount, AskDeposit, TRUE)
    THEN a
    ELSE IF ~CanReserve(paid, order.base, order.from, order.amount)
    THEN [a EXCEPT !.ledger = paid]
    ELSE [ledger |-> ReserveFunds(paid, order.base, order.from, order.amount),
          accepted |-> TRUE]

(* liquidate: the first strategy of the list that exists and accepts.      *)
Liquidated(l, order, configuration) ==
    LET list == IF configuration = <<>> THEN <<DefaultStrategy>> ELSE configuration
        asked[k \in 0..Len(list)] ==
            IF k = 0 THEN [ledger |-> l, accepted |-> FALSE]
            ELSE IF asked[k - 1].accepted \/ list[k] \notin StrategyIds THEN asked[k - 1]
            ELSE Ask(asked[k - 1], order)
    IN asked[Len(list)]

(* The auction hands the goods to a taker and the takers' money to the     *)
(* seller.                                                                 *)
Sold(l, order, taker, paid) ==
    LET handed == [l EXCEPT ![order.base][order.from].reserved = @ - order.amount]
    IN Deposit(Transfer(handed, order.quote, taker, order.from, paid),
               order.base, taker, order.amount)

CanBeSold(l, order, taker, paid) ==
    CanTransfer(l, order.quote, taker, order.from, paid, FALSE)

LiquidationsInit == orders = <<>>
=============================================================================
