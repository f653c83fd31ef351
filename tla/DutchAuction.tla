---------------------------- MODULE DutchAuction ----------------------------
(***************************************************************************)
(* The Dutch auction pallet (frame/dutch-auction): sellers put base asset  *)
(* up for sale against a native deposit, takers bid within a block, and    *)
(* on_finalize matches the block's bids, best price first.                 *)
(*                                                                         *)
(* The extrinsics are not #[transactional]: what a call wrote before it    *)
(* failed stays written, and such calls are actions of their own.          *)
(* on_finalize is one handler; its loop over orders and takes is unrolled  *)
(* into steps, during which no call runs.                                  *)
(*                                                                         *)
(* Left out: events, weights, overflow of Balance (amounts are small), and *)
(* the value of the stair-step price, which the code computes and drops.   *)
(***************************************************************************)
EXTENDS Integers, Sequences, FiniteSets, Functions

CONSTANTS
    Accounts,       \* sellers and takers
    Assets,         \* MayBeAssetId
    Pairs,          \* inputs: pairs <<base, quote>> on offer
    NULL,           \* Rust's None
    Div,            \* Ratio::DIV, the unit of prices
    Deposit,        \* fee of the liquidate weight, taken by ask
    ED,             \* existential deposit of the native currency
    Endowment,      \* native balance of the pallet's account at genesis
    NativeBalance,  \* native balance of each account at genesis
    AssetBalance,   \* balance of each account in each asset at genesis
    Amounts,        \* inputs: amounts of base
    Limits,         \* inputs: prices, in units of 1 / Div
    Curves,         \* inputs: TimeReleaseFunction
    MaxOrders,      \* bound: calls of ask
    MaxTakes,       \* bound: takes per order and block
    MaxTime         \* bound: last block

Ids == 1..MaxOrders
Wallets == Accounts \X Assets
Balance == [free : Nat, reserved : Nat]
Curve == [kind : {"linear", "stairstep"}, span : Nat]  \* span: total or step
TakeOf == [from_to : Accounts, amount : Nat, limit : Nat]
SellOf == [from_to : Accounts, base : Assets, quote : Assets, amount : Nat,
           limit : Nat, configuration : Curve, added_at : Nat, deposit : Nat]

ASSUME ParameterTypes ==
    /\ Pairs \subseteq Assets \X Assets /\ Curves \subseteq Curve
    /\ Div \in Nat \ {0} /\ Deposit \in Nat /\ ED \in Nat /\ Endowment \in Nat
    /\ NativeBalance \in Nat /\ AssetBalance \in Nat
    /\ Amounts \subseteq Nat /\ Limits \subseteq Nat
    /\ MaxOrders \in Nat /\ MaxTakes \in Nat /\ MaxTime \in Nat
    /\ NULL \notin SellOf

VARIABLES
    now,            \* UnixTime, one tick per block
    ordersIndex,    \* OrdersIndex
    orders,         \* SellOrders
    takes,          \* Takes: the empty sequence where the map has no key
    balances,       \* MultiCurrency
    native,         \* NativeCurrency: the users
    treasury,       \* NativeCurrency: the pallet's account
    phase,          \* "open" to calls, in "finalize", or "halted" by a panic
    visited,        \* on_finalize: orders already iterated over
    cursor,         \* on_finalize: the order at hand, its local amount, takes left
    served,         \* history: the takes served in this on_finalize
    sold            \* history: the wallets that ever backed an order

ledger == <<balances, native, treasury>>
loop == <<visited, cursor, served>>
vars == <<now, ordersIndex, orders, takes, balances, native, treasury, phase,
          visited, cursor, served, sold>>

-----------------------------------------------------------------------------
(* MultiCurrency.                                                           *)

Least(x, y) == IF x < y THEN x ELSE y

Reserve(b, w, amount) ==
    [b EXCEPT ![w] = [free |-> @.free - amount, reserved |-> @.reserved + amount]]

(* unreserve releases what there is, and never fails.                       *)
Unreserve(b, w, amount) ==
    LET released == Least(amount, b[w].reserved)
    IN  [b EXCEPT ![w] = [free |-> @.free + released, reserved |-> @.reserved - released]]

Transfer(b, from, to, amount) ==
    [[b EXCEPT ![from].free = @ - amount] EXCEPT ![to].free = @ + amount]

-----------------------------------------------------------------------------
(* Prices.                                                                  *)

QuoteAmount(amount, limit) == (amount * limit) \div Div

(* Take::is_valid *)
IsValid(amount, limit) == amount > 0 /\ limit > 0

(* The stair-step price divides by the step; the linear one cannot fail.    *)
PriceFails(curve) == curve.kind = "stairstep" /\ curve.span = 0

LinearPrice(curve, initial, passed) ==
    IF passed >= curve.span THEN 0
    ELSE (initial * (curve.span - passed)) \div curve.span

LimitAccepted(order, limit) == order.limit <= limit

-----------------------------------------------------------------------------
(* Calls.                                                                   *)

NextId == ordersIndex' = ordersIndex + 1
PaysDeposit(u) == native[u] - Deposit >= ED /\ treasury + Deposit >= ED

AskFrame(amount, limit) ==
    /\ phase = "open"
    /\ ordersIndex < MaxOrders
    /\ IsValid(amount, limit)
    /\ NextId
    /\ UNCHANGED <<now, takes, phase, loop>>

Ask(u, pair, amount, limit, curve) ==
    /\ AskFrame(amount, limit)
    /\ PaysDeposit(u)
    /\ balances[<<u, pair[1]>>].free >= amount
    /\ native' = [native EXCEPT ![u] = @ - Deposit]
    /\ treasury' = treasury + Deposit
    /\ balances' = Reserve(balances, <<u, pair[1]>>, amount)
    /\ orders' = [orders EXCEPT ![ordersIndex + 1] =
          [from_to |-> u, base |-> pair[1], quote |-> pair[2], amount |-> amount,
           limit |-> limit, configuration |-> curve, added_at |-> now,
           deposit |-> Deposit]]
    /\ sold' = sold \cup {<<u, pair[1]>>}

(* The deposit cannot be paid: the id is used up.                           *)
AskWithoutDeposit(u, amount, limit) ==
    /\ AskFrame(amount, limit)
    /\ ~PaysDeposit(u)
    /\ UNCHANGED <<orders, ledger, sold>>

(* The base cannot be reserved: the deposit is paid all the same.           *)
AskWithoutBase(u, pair, amount, limit) ==
    /\ AskFrame(amount, limit)
    /\ PaysDeposit(u)
    /\ balances[<<u, pair[1]>>].free < amount
    /\ native' = [native EXCEPT ![u] = @ - Deposit]
    /\ treasury' = treasury + Deposit
    /\ UNCHANGED <<orders, balances, sold>>

TakeHalfLocked(u, id, amount, limit) ==        \* mutant: half the quote is reserved
    /\ phase = "open"
    /\ Len(takes[id]) < MaxTakes
    /\ IsValid(amount, limit)
    /\ orders[id] # NULL
    /\ LimitAccepted(orders[id], limit)
    /\ ~PriceFails(orders[id].configuration)
    /\ balances[<<u, orders[id].quote>>].free >= QuoteAmount(amount, limit)
    /\ balances' = Reserve(balances, <<u, orders[id].quote>>,
                           QuoteAmount(amount, limit) \div 2)
    /\ takes' = [takes EXCEPT ![id] =
                   Append(@, [from_to |-> u, amount |-> amount, limit |-> limit])]
    /\ UNCHANGED <<now, ordersIndex, orders, native, treasury, phase, loop, sold>>

TakeBid(u, id, amount, limit) ==
    /\ phase = "open"
    /\ Len(takes[id]) < MaxTakes
    /\ IsValid(amount, limit)
    /\ orders[id] # NULL
    /\ LimitAccepted(orders[id], limit)
    /\ ~PriceFails(orders[id].configuration)
    /\ balances[<<u, orders[id].quote>>].free >= QuoteAmount(amount, limit)
    /\ balances' = Reserve(balances, <<u, orders[id].quote>>, QuoteAmount(amount, limit))
    /\ takes' = [takes EXCEPT ![id] =
                   Append(@, [from_to |-> u, amount |-> amount, limit |-> limit])]
    /\ UNCHANGED <<now, ordersIndex, orders, native, treasury, phase, loop, sold>>

LiquidateFrame(id) ==
    /\ phase = "open"
    /\ orders[id] # NULL      \* and the caller is orders[id].from_to
    /\ balances' = Unreserve(balances, <<orders[id].from_to, orders[id].base>>,
                             orders[id].amount)
    /\ UNCHANGED <<now, ordersIndex, takes, phase, loop, sold>>

LiquidateKeepingOrder(id) ==                    \* mutant: the order stays
    /\ LiquidateFrame(id)
    /\ treasury - orders[id].deposit >= ED
    /\ treasury' = treasury - orders[id].deposit
    /\ native' = [native EXCEPT ![orders[id].from_to] = @ + orders[id].deposit]
    /\ UNCHANGED orders

Liquidate(id) ==
    /\ LiquidateFrame(id)
    /\ treasury - orders[id].deposit >= ED
    /\ treasury' = treasury - orders[id].deposit
    /\ native' = [native EXCEPT ![orders[id].from_to] = @ + orders[id].deposit]
    /\ orders' = [orders EXCEPT ![id] = NULL]

(* The pallet's account must be kept alive: the base is released, but the   *)
(* order stays.                                                             *)
LiquidateUnpaid(id) ==
    /\ LiquidateFrame(id)
    /\ treasury - orders[id].deposit < ED
    /\ UNCHANGED <<orders, native, treasury>>

-----------------------------------------------------------------------------
(* on_finalize.                                                             *)

BeginFinalize ==
    /\ phase = "open"
    /\ now < MaxTime
    /\ phase' = "finalize"
    /\ UNCHANGED <<now, ordersIndex, orders, takes, ledger, loop, sold>>

CheapestFirst(s) ==                             \* mutant: ascending limits
    LET ahead(i) == {j \in DOMAIN s : \/ s[j].limit < s[i].limit
                                      \/ s[j].limit = s[i].limit /\ j < i}
    IN  [k \in DOMAIN s |-> s[CHOOSE i \in DOMAIN s : Cardinality(ahead(i)) = k - 1]]

(* sort_by is stable: among equal limits, first come first served.  The     *)
(* take at place k has k - 1 takes ahead of it.                             *)
BestFirst(s) ==
    LET ahead(i) == {j \in DOMAIN s : \/ s[j].limit > s[i].limit
                                      \/ s[j].limit = s[i].limit /\ j < i}
    IN  [k \in DOMAIN s |-> s[CHOOSE i \in DOMAIN s : Cardinality(ahead(i)) = k - 1]]

Iterating == phase = "finalize" /\ cursor = NULL

(* The map is iterated in the order of its hashes: any order.  The takes of *)
(* a removed order are passed over.                                         *)
Visit(id) ==
    /\ Iterating
    /\ id \notin visited /\ takes[id] # <<>>
    /\ visited' = visited \cup {id}
    /\ cursor' = IF orders[id] = NULL THEN NULL
                 ELSE [id |-> id, amount |-> orders[id].amount,
                       queue |-> BestFirst(takes[id])]
    /\ UNCHANGED <<now, ordersIndex, orders, takes, ledger, phase, served, sold>>

TakenInFull(take, left) == take.amount          \* mutant: not capped by what is left

TakenAmount(take, left) == Least(take.amount, left)

Serving == phase = "finalize" /\ cursor # NULL /\ cursor.queue # <<>>

Serve(got) ==
    /\ cursor' = [cursor EXCEPT !.amount = @ - got, !.queue = Tail(@)]
    /\ served' = Append(served, [id |-> cursor.id, limit |-> Head(cursor.queue).limit,
                                 asked |-> Head(cursor.queue).amount, got |-> got])
    /\ UNCHANGED <<now, ordersIndex, orders, takes, native, treasury, phase, visited,
                   sold>>

(* The order is sold out: the taker gets its reserve back.                  *)
Refund ==
    LET take == Head(cursor.queue)
    IN  /\ Serving
        /\ cursor.amount = 0
        /\ balances' = Unreserve(balances, <<take.from_to, orders[cursor.id].quote>>,
                                 QuoteAmount(take.amount, take.limit))
        /\ Serve(0)

(* exchange_reserved: both reserves are released, then both sides pay.      *)
Released(seller, base, amount, taker, quote, paid) ==
    Unreserve(Unreserve(balances, <<seller, base>>, amount), <<taker, quote>>, paid)

Fill ==
    LET take == Head(cursor.queue)
        order == orders[cursor.id]
        seller == order.from_to
        taker == take.from_to
        amount == TakenAmount(take, cursor.amount)
        paid == QuoteAmount(amount, take.limit)
        change == QuoteAmount(take.amount, take.limit) - paid
        released == Released(seller, order.base, amount, taker, order.quote, paid)
        delivered == Transfer(released, <<seller, order.base>>, <<taker, order.base>>, amount)
        exchanged == Transfer(delivered, <<taker, order.quote>>, <<seller, order.quote>>, paid)
    IN  /\ Serving
        /\ cursor.amount # 0
        /\ IF /\ released[<<seller, order.base>>].free >= amount
              /\ delivered[<<taker, order.quote>>].free >= paid
           THEN /\ balances' = Unreserve(exchanged, <<taker, order.quote>>, change)
                /\ Serve(amount)
           ELSE \* .expect("we forced locks beforehand")
                /\ phase' = "halted"
                /\ UNCHANGED <<now, ordersIndex, orders, takes, ledger, loop, sold>>

(* A sold out order is removed; an order sold in part is not written back.  *)
Leave ==
    /\ phase = "finalize" /\ cursor # NULL
    /\ cursor.queue = <<>>
    /\ orders' = IF cursor.amount = 0 THEN [orders EXCEPT ![cursor.id] = NULL] ELSE orders
    /\ cursor' = NULL
    /\ UNCHANGED <<now, ordersIndex, takes, ledger, phase, visited, served, sold>>

EndFinalize ==
    /\ Iterating
    /\ \A id \in Ids : takes[id] # <<>> => id \in visited
    /\ takes' = [id \in Ids |-> <<>>]
    /\ phase' = "open"
    /\ now' = now + 1
    /\ visited' = {}
    /\ served' = <<>>
    /\ UNCHANGED <<ordersIndex, orders, cursor, ledger, sold>>

-----------------------------------------------------------------------------

Init ==
    /\ now = 0
    /\ ordersIndex = 0
    /\ orders = [id \in Ids |-> NULL]
    /\ takes = [id \in Ids |-> <<>>]
    /\ balances = [w \in Wallets |-> [free |-> AssetBalance, reserved |-> 0]]
    /\ native = [u \in Accounts |-> NativeBalance]
    /\ treasury = Endowment
    /\ phase = "open"
    /\ visited = {}
    /\ cursor = NULL
    /\ served = <<>>
    /\ sold = {}

SellerCall(u) ==
    \/ \E amount \in Amounts, limit \in Limits :
          \/ AskWithoutDeposit(u, amount, limit)
          \/ \E pair \in Pairs :
                \/ AskWithoutBase(u, pair, amount, limit)
                \/ \E curve \in Curves : Ask(u, pair, amount, limit, curve)
    \/ \E id \in Ids : orders[id] # NULL /\ orders[id].from_to = u
                         /\ (Liquidate(id) \/ LiquidateUnpaid(id))

TakerCall(u) ==
    \E id \in Ids, amount \in Amounts, limit \in Limits : TakeBid(u, id, amount, limit)

OnFinalize ==
    \/ \E id \in Ids : Visit(id)
    \/ Refund
    \/ Fill
    \/ Leave
    \/ EndFinalize

Next ==
    \/ \E u \in Accounts : SellerCall(u) \/ TakerCall(u)
    \/ BeginFinalize
    \/ OnFinalize

Spec == Init /\ [][Next]_vars

-----------------------------------------------------------------------------
(* Properties.                                                              *)

(* Every storage item and every balance keeps its type.                     *)
TypeOK ==
    /\ now \in Nat /\ ordersIndex \in 0..MaxOrders /\ treasury \in Nat
    /\ orders \in [Ids -> SellOf \cup {NULL}]
    /\ takes \in [Ids -> Seq(TakeOf)]
    /\ balances \in [Wallets -> Balance]
    /\ native \in [Accounts -> Nat]
    /\ phase \in {"open", "finalize", "halted"}
    /\ visited \subseteq Ids /\ sold \subseteq Wallets
    /\ cursor \in [id : Ids, amount : Nat, queue : Seq(TakeOf)] \cup {NULL}

PendingTakes(u, x) ==
    {p \in Ids \X (1..MaxTakes) :
        /\ p[2] \in DOMAIN takes[p[1]]
        /\ takes[p[1]][p[2]].from_to = u
        /\ orders[p[1]] # NULL /\ orders[p[1]].quote = x}

QuoteOf(p) == QuoteAmount(takes[p[1]][p[2]].amount, takes[p[1]][p[2]].limit)

OpenOrders == {id \in Ids : orders[id] # NULL}

(* Until the block is finalized, the reserve of a taker that never sold the *)
(* quote asset covers all its pending takes at once, across orders: the     *)
(* locks on_finalize relies on.  (A wallet has one reserve: an order sold   *)
(* in part and then liquidated releases more than it has left of it.)       *)
TakesLocked ==
    phase = "open" =>
        \A w \in Wallets \ sold :
            SumFunction([p \in PendingTakes(w[1], w[2]) |-> QuoteOf(p)])
                <= balances[w].reserved

(* The pallet's account always holds the deposits of all open orders, so    *)
(* liquidate can fail only on the account's own existential deposit.        *)
DepositsBacked ==
    treasury >= Endowment + SumFunction([id \in OpenOrders |-> orders[id].deposit])

(* "Higher takers take first": within a block and an order, bids are served *)
(* by falling limit, and a bid gets something only when every bid before it *)
(* was served in full.                                                      *)
HighestBidFirst ==
    \A i, j \in DOMAIN served :
        (i < j /\ served[i].id = served[j].id) =>
            /\ served[i].limit >= served[j].limit
            /\ served[j].got > 0 => served[i].got = served[i].asked

(* The expectations of on_finalize hold: "we forced locks beforehand".      *)
NoPanic == phase # "halted"

(* "Diminishes with time. Takers can take for price same or higher": a bid  *)
(* at the present price of a linear auction is one that take accepts.       *)
PriceDiminishes ==
    \A id \in OpenOrders, limit \in Limits :
        LET curve == orders[id].configuration
        IN  (/\ curve.kind = "linear"
             /\ limit >= LinearPrice(curve, orders[id].limit, now - orders[id].added_at))
                => LimitAccepted(orders[id], limit)
=============================================================================
