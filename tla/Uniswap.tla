------------------------------ MODULE Uniswap -------------------------------
(***************************************************************************)
(* frame/uniswap-v2 over composable-maths' constant_product: pools of two  *)
(* assets.  Anybody creates a pool, provides liquidity for shares and      *)
(* exchanges one asset for the other; the amounts come from the balances   *)
(* of the pool's account and are not recorded elsewhere.  All calls are    *)
(* transactional.                                                          *)
(***************************************************************************)
EXTENDS Chain, CurrencyFactory, FiniteSetsExt

CONSTANTS
    MaxPools,        \* bound: the pools ever created
    PoolInputs,      \* [pair, fee, owner_fee] of create
    FeeOne,          \* Permill::one()
    DecimalScale,    \* a power of ten that all terminating quotients divide
    PoolAmounts,     \* amounts in calls
    MinimumsWanted,  \* min_receive, min_mint_amount, min_base/quote_amount
    NoPool

PoolIds == 0 .. MaxPools - 1
PoolAccount(p) == <<"pool", p>>

ASSUME UniswapTypes ==
    /\ MaxPools \in Nat
    /\ \A p \in PoolIds : PoolAccount(p) \in SubAccounts
    /\ \A i \in PoolInputs :
          /\ {i.pair.base, i.pair.quote} \subseteq AssetIds
          /\ i.fee \in Nat /\ i.owner_fee \in Nat
    /\ FeeOne \in Nat \ {0}
    /\ DecimalScale \in Nat \ {0}
    /\ PoolAmounts \subseteq Nat
    /\ MinimumsWanted \subseteq Nat

VARIABLES pools, pool_count

poolVars == <<pools, pool_count>>

Swapped(pair) == [base |-> pair.quote, quote |-> pair.base]

Reserve(l, p, a) == l[a][PoolAccount(p)].free

TotalIssuance(l, a) == MapThenSumSet(LAMBDA who : TotalBalance(l, a, who), Accounts)

-----------------------------------------------------------------------------
(* Arithmetic.  A Decimal keeps 28 digits: a quotient that does not        *)
(* terminate is rounded either way, and a result that should be whole may  *)
(* be truncated to the number below.  Weights are equal, so the power is 1.*)

Truncated(num, den, terminates) ==
    LET exact == num \div den
    IN IF num % den = 0 /\ ~terminates /\ exact > 0
       THEN {exact - 1, exact} ELSE {exact}

Terminates(num, den) == (num * DecimalScale) % den = 0

(* mutant: the amount out is rounded up                                    *)
RoundedUp(bi, bo, ai) ==
    IF bi + ai = 0 THEN {} ELSE {(bo * ai + bi + ai - 1) \div (bi + ai)}

\* compute_out_given_in: bo * (1 - bi / (bi + ai)); no value for an empty pool
OutGivenIn(bi, bo, ai) ==
    IF bi + ai = 0 THEN {}
    ELSE Truncated(bo * ai, bi + ai, Terminates(bi, bi + ai))

\* compute_in_given_out: bi * (bo / (bo - ao) - 1)
InGivenOut(bi, bo, ao) ==
    IF ao >= bo THEN {}
    ELSE Truncated(bi * ao, bo - ao, Terminates(bo, bo - ao))

\* multiply_by_rational divides by one instead of zero
ByRational(a, b, c) == (a * b) \div GreaterOf(c, 1)

SquareRoot(n) == Max({r \in 0..n : r * r <= n})

\* compute_deposit_lp: <<quote amount taken, shares minted>>
DepositLp(issued, base, quote, baseAum, quoteAum) ==
    IF issued = 0
    THEN <<quote, SquareRoot(base) * SquareRoot(quote)>>
    ELSE <<ByRational(quoteAum, base, baseAum), ByRational(issued, base, baseAum)>>

-----------------------------------------------------------------------------

CreatePool(who, input) ==
    /\ pool_count < MaxPools
    /\ input.pair.base # input.pair.quote
    /\ input.fee + input.owner_fee < FeeOne
    /\ CreatesId(LP_TOKENS)
    /\ pools' = [pools EXCEPT ![pool_count] =
          [owner |-> who, pair |-> input.pair, lp_token |-> NewId(LP_TOKENS),
           fee |-> input.fee, owner_fee |-> input.owner_fee]]
    /\ pool_count' = pool_count + 1
    /\ UNCHANGED <<now, ledger>>

PoolExists(p) == p \in PoolIds /\ pools[p] # NoPool

AddLiquidity(who, p, base, quote, minMint, keep) ==
    /\ base > 0 /\ PoolExists(p)
    /\ LET pool == pools[p]
           lp == DepositLp(TotalIssuance(ledger, pool.lp_token), base, quote,
                           Reserve(ledger, p, pool.pair.base),
                           Reserve(ledger, p, pool.pair.quote))
           l1 == Transfer(ledger, pool.pair.base, who, PoolAccount(p), base)
           l2 == Transfer(l1, pool.pair.quote, who, PoolAccount(p), lp[1])
       IN /\ lp[1] > 0
          /\ lp[2] >= minMint
          /\ CanTransfer(ledger, pool.pair.base, who, PoolAccount(p), base, keep)
          /\ CanTransfer(l1, pool.pair.quote, who, PoolAccount(p), lp[1], keep)
          /\ CanMint(l2, pool.lp_token, who, lp[2])
          /\ ledger' = Mint(l2, pool.lp_token, who, lp[2])
    /\ UNCHANGED <<now, poolVars, factoryVars>>

RemoveLiquidity(who, p, shares, minBase, minQuote) ==
    /\ PoolExists(p)
    /\ LET pool == pools[p]
           issued == TotalIssuance(ledger, pool.lp_token)
           base == ByRational(shares, Reserve(ledger, p, pool.pair.base), issued)
           quote == ByRational(shares, Reserve(ledger, p, pool.pair.quote), issued)
           l1 == Transfer(ledger, pool.pair.base, PoolAccount(p), who, base)
           l2 == Transfer(l1, pool.pair.quote, PoolAccount(p), who, quote)
       IN /\ base >= minBase /\ quote >= minQuote
          /\ CanTransfer(ledger, pool.pair.base, PoolAccount(p), who, base, FALSE)
          /\ CanTransfer(l1, pool.pair.quote, PoolAccount(p), who, quote, FALSE)
          /\ CanBurn(l2, pool.lp_token, who, shares)
          /\ issued >= shares
          /\ ledger' = Burn(l2, pool.lp_token, who, shares)
    /\ UNCHANGED <<now, poolVars, factoryVars>>

(* exchange with do_compute_swap: `amount' of the quote asset of the pair, *)
(* which may be the pool's or the pool's swapped.  As an operator on       *)
(* ledgers, since a route trades in several pools in a row: the outcomes   *)
(* [out, allowed, ledger] of a trade, or none where there is no value.     *)
SwapOutcomes(l, who, p, pair, amount, minReceive, keep) ==
    LET pool == pools[p]
        acc == PoolAccount(p)
        lpFee == (pool.fee * amount) \div FeeOne
        ownerFee == (pool.owner_fee * amount) \div FeeOne
        in == amount - lpFee - ownerFee
        l1 == Transfer(l, pair.quote, who, acc, amount)
        l2 == Transfer(l1, pair.quote, acc, pool.owner, ownerFee)
    IN {[out |-> out,
         allowed |->
            /\ out > 0 /\ in > 0
            /\ out >= minReceive
            /\ CanTransfer(l, pair.quote, who, acc, amount, keep)
            /\ CanTransfer(l1, pair.quote, acc, pool.owner, ownerFee, FALSE)
            /\ CanTransfer(l2, pair.base, acc, who, out, FALSE),
         ledger |-> Transfer(l2, pair.base, acc, who, out)] :
        out \in OutGivenIn(Reserve(l, p, pair.quote), Reserve(l, p, pair.base), in)}

Exchange(who, p, pair, amount, minReceive, keep) ==
    /\ PoolExists(p)
    /\ pair \in {pools[p].pair, Swapped(pools[p].pair)}
    /\ \E o \in SwapOutcomes(ledger, who, p, pair, amount, minReceive, keep) :
          o.allowed /\ ledger' = o.ledger
    /\ UNCHANGED <<now, poolVars, factoryVars>>

\* get_exchange_value
ExchangeValue(p, asset, amount) ==
    LET pair == pools[p].pair
        quote == Reserve(ledger, p, pair.quote)
        base == Reserve(ledger, p, pair.base)
    IN IF asset = pair.quote THEN OutGivenIn(quote, base, amount)
       ELSE InGivenOut(quote, base, amount)

(* buy and sell: whatever is not the pool's base counts as its quote.      *)
BuyAsset(who, p, asset, amount, keep) ==
    /\ PoolExists(p)
    /\ LET pair == pools[p].pair IN
       \E quoted \in ExchangeValue(p, asset, amount) :
          Exchange(who, p, IF asset = pair.base THEN pair ELSE Swapped(pair),
                   quoted, 0, keep)

SellAsset(who, p, asset, amount, keep) ==
    /\ PoolExists(p)
    /\ LET pair == pools[p].pair IN
       Exchange(who, p, IF asset = pair.base THEN Swapped(pair) ELSE pair,
                amount, 0, keep)

UniswapInit ==
    /\ pools = [p \in PoolIds |-> NoPool]
    /\ pool_count = 0

UniswapNext ==
    \/ \E who \in Users, input \in PoolInputs : CreatePool(who, input)
    \/ \E who \in Users, p \in PoolIds, base, quote \in PoolAmounts,
          min \in MinimumsWanted, keep \in BOOLEAN :
          AddLiquidity(who, p, base, quote, min, keep)
    \/ \E who \in Users, p \in PoolIds, shares \in PoolAmounts,
          min \in MinimumsWanted :
          RemoveLiquidity(who, p, shares, min, min)
    \/ \E who \in Users, p \in PoolIds, amount \in PoolAmounts,
          min \in MinimumsWanted, keep \in BOOLEAN :
          \E pair \in {input.pair : input \in PoolInputs}
                \cup {Swapped(input.pair) : input \in PoolInputs} :
             Exchange(who, p, pair, amount, min, keep)
    \/ \E who \in Users, p \in PoolIds, amount \in PoolAmounts, keep \in BOOLEAN :
          \E asset \in {input.pair.base : input \in PoolInputs}
                \cup {input.pair.quote : input \in PoolInputs} :
             \/ BuyAsset(who, p, asset, amount, keep)
             \/ SellAsset(who, p, asset, amount, keep)

-----------------------------------------------------------------------------

ReserveProduct(l, p) ==
    Reserve(l, p, pools[p].pair.base) * Reserve(l, p, pools[p].pair.quote)

(* As long as no shares are minted or burned, the product of the pool's    *)
(* reserves does not fall.                                                 *)
ProductKept ==
    \A p \in PoolIds :
        /\ PoolExists(p)
        /\ TotalIssuance(ledger, pools[p].lp_token)'
              = TotalIssuance(ledger, pools[p].lp_token)
        => ReserveProduct(ledger, p)' >= ReserveProduct(ledger, p)

(* What is left for the shares of others when some are burned.             *)
ReservesKept ==
    \A p \in PoolIds :
        PoolExists(p) =>
           LET lp == pools[p].lp_token IN
           TotalIssuance(ledger, lp)' < TotalIssuance(ledger, lp) =>
              \A a \in {pools[p].pair.base, pools[p].pair.quote} :
                 Reserve(ledger, p, a)' * TotalIssuance(ledger, lp)
                    >= Reserve(ledger, p, a) * TotalIssuance(ledger, lp)'
=============================================================================
