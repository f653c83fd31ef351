------------------------------ MODULE CurveAmm ------------------------------
(***************************************************************************)
(* frame/curve-amm: pools of two assets that should be worth the same, on  *)
(* the stable-swap curve of maths.rs.  The calls are those of Uniswap; the *)
(* amounts come from two Newton iterations in integers.  As there, what a  *)
(* pool owns is the balance of its account, and every call is              *)
(* transactional.                                                          *)
(***************************************************************************)
EXTENDS Chain, CurrencyFactory, FiniteSetsExt

CONSTANTS
    MaxCurvePools,     \* bound: the pools ever created
    CurveInputs,       \* [pair, amplification_coefficient, fee, protocol_fee] of create
    PermillOne,        \* Permill::one(), even
    CurveAmounts,      \* amounts in calls
    CurveMinimums,     \* min_receive, min_mint_amount, min_base/quote_amount
    NoCurve

CurveIds == 0 .. MaxCurvePools - 1
CurveAccount(p) == <<"curve", p>>

ASSUME CurveTypes ==
    /\ MaxCurvePools \in Nat
    /\ \A p \in CurveIds : CurveAccount(p) \in SubAccounts
    /\ \A i \in CurveInputs :
          /\ {i.pair.base, i.pair.quote} \subseteq AssetIds
          /\ {i.amplification_coefficient, i.fee, i.protocol_fee} \subseteq Nat
    /\ PermillOne \in Nat \ {0}
    /\ CurveAmounts \subseteq Nat
    /\ CurveMinimums \subseteq Nat

VARIABLES curve_pools, curve_pool_count

curveVars == <<curve_pools, curve_pool_count>>

Flipped(pair) == [base |-> pair.quote, quote |-> pair.base]

CurveReserve(l, p, a) == l[a][CurveAccount(p)].free

Issued(l, a) == MapThenSumSet(LAMBDA who : TotalBalance(l, a, who), Accounts)

CurveExists(p) == p \in CurveIds /\ curve_pools[p] # NoCurve

-----------------------------------------------------------------------------
(* maths.rs.  An operator with no value returns the empty set: the call    *)
(* fails.  BigUint::div_unit and multiply_by_rational divide by one where  *)
(* the divisor is zero.                                                    *)

Rounds == 255

Quotient(a, b) == a \div GreaterOf(b, 1)

MulFloor(permill, x) == (permill * x) \div PermillOne

Distance(x, y) == GreaterOf(x, y) - LesserOf(x, y)

(* An iteration stops when it moves by at most one.                        *)
Settled(old, new) == Distance(old, new) <= 1

\* compute_d
ComputeD(base, quote, amp) ==
    LET sum == base + quote
        ann == amp * 4
        NextD(d) ==
            LET dp == Quotient(Quotient(d * d, base * 2) * d, quote * 2)
            IN Quotient((ann * sum + dp * 2) * d, d * (ann - 1) + 3 * dp)
        from[n \in 0..Rounds, d \in Nat] ==
            IF n = 0 THEN {}
            ELSE IF Settled(d, NextD(d)) THEN {NextD(d)} ELSE from[n - 1, NextD(d)]
    IN IF sum = 0 THEN {0}
       ELSE IF ann = 0 THEN {}
       ELSE from[Rounds, sum]

\* compute_base: the new reserve of the base asset for one of the quote asset
ComputeBase(quote, amp, d) ==
    LET dAnn == Quotient(d, amp * 4)
        c == Quotient(dAnn * (d \div 2) * (d \div 2), quote)
        Slope(y) == 2 * y + quote + dAnn - d
        NextY(y) == Quotient(y * y + c, Slope(y))
        from[n \in 0..Rounds, y \in Nat] ==
            IF n = 0 \/ Slope(y) < 0 THEN {}
            ELSE IF Settled(y, NextY(y)) THEN {NextY(y)} ELSE from[n - 1, NextY(y)]
    IN from[Rounds, d]

\* get_exchange_value: an amount of the quote asset in units of the base asset
CurveValue(l, p, asset, amount) ==
    LET pool == curve_pools[p]
        pair == IF asset = pool.pair.base THEN pool.pair ELSE Flipped(pool.pair)
        amp == pool.amplification_coefficient
        base == CurveReserve(l, p, pair.base)
        quote == CurveReserve(l, p, pair.quote)
    IN {base - y : y \in {z \in UNION {ComputeBase(quote + amount, amp, d) :
                                       d \in ComputeD(base, quote, amp)} : z <= base}}

-----------------------------------------------------------------------------

CreateCurve(who, input) ==
    /\ curve_pool_count < MaxCurvePools
    /\ input.pair.base # input.pair.quote
    /\ input.fee + input.protocol_fee < PermillOne
    /\ CreatesId(LP_TOKENS)
    /\ curve_pools' = [curve_pools EXCEPT ![curve_pool_count] =
          [owner |-> who, pair |-> input.pair, lp_token |-> NewId(LP_TOKENS),
           amplification_coefficient |-> input.amplification_coefficient,
           fee |-> input.fee, protocol_fee |-> input.protocol_fee]]
    /\ curve_pool_count' = curve_pool_count + 1
    /\ UNCHANGED <<now, ledger>>

(* What add_liquidity mints, and the fees it sends to the owner, for the   *)
(* reserves before it: the part of the deposit that unbalances the pool    *)
(* pays half the pool's fee.                                               *)
NoFees == [base |-> 0, quote |-> 0]

CurveDeposit(l, p, amounts) ==
    LET pool == curve_pools[p]
        amp == pool.amplification_coefficient
        old == [base |-> CurveReserve(l, p, pool.pair.base),
                quote |-> CurveReserve(l, p, pool.pair.quote)]
        new == [s \in {"base", "quote"} |-> old[s] + amounts[s]]
        issued == Issued(l, pool.lp_token)
        fee == MulFloor(pool.fee, PermillOne \div 2)
        Fees(d0, d1) ==
            [s \in {"base", "quote"} |->
                MulFloor(fee, Distance(Quotient(d1 * old[s], d0), new[s]))]
        Minted(d0, d1) ==
            IF issued = 0 THEN {[mint |-> d1, fees |-> NoFees]}
            ELSE LET fees == Fees(d0, d1) IN
                 IF \E s \in {"base", "quote"} : fees[s] > new[s] THEN {}
                 ELSE
                 {[mint |-> Quotient(issued * (d2 - d0), d0),
                   fees |-> [s \in {"base", "quote"} |->
                               MulFloor(pool.protocol_fee, fees[s])]] :
                    d2 \in {d \in ComputeD(new.base - fees.base,
                                           new.quote - fees.quote, amp) : d >= d0}}
    IN UNION {Minted(d0, d1) :
                 <<d0, d1>> \in {dd \in ComputeD(old.base, old.quote, amp)
                                          \X ComputeD(new.base, new.quote, amp) :
                                   dd[2] > dd[1]}}

CurveAddLiquidity(who, p, base, quote, minMint, keep) ==
    /\ base > 0 /\ quote > 0 /\ CurveExists(p)
    /\ \E lp \in CurveDeposit(ledger, p, [base |-> base, quote |-> quote]) :
          LET pool == curve_pools[p]
              acc == CurveAccount(p)
              l1 == Transfer(ledger, pool.pair.base, who, acc, base)
              l2 == Transfer(l1, pool.pair.quote, who, acc, quote)
              l3 == Transfer(l2, pool.pair.base, acc, pool.owner, lp.fees.base)
              l4 == Transfer(l3, pool.pair.quote, acc, pool.owner, lp.fees.quote)
          IN /\ lp.mint >= minMint
             /\ CanTransfer(ledger, pool.pair.base, who, acc, base, keep)
             /\ CanTransfer(l1, pool.pair.quote, who, acc, quote, keep)
             /\ CanTransfer(l2, pool.pair.base, acc, pool.owner, lp.fees.base, keep)
             /\ CanTransfer(l3, pool.pair.quote, acc, pool.owner, lp.fees.quote, keep)
             /\ CanMint(l4, pool.lp_token, who, lp.mint)
             /\ ledger' = Mint(l4, pool.lp_token, who, lp.mint)
    /\ UNCHANGED <<now, curveVars, factoryVars>>

CurveRemoveLiquidity(who, p, shares, minBase, minQuote) ==
    /\ CurveExists(p)
    /\ LET pool == curve_pools[p]
           acc == CurveAccount(p)
           issued == Issued(ledger, pool.lp_token)
           base == Quotient(shares * CurveReserve(ledger, p, pool.pair.base), issued)
           quote == Quotient(shares * CurveReserve(ledger, p, pool.pair.quote), issued)
           l1 == Transfer(ledger, pool.pair.base, acc, who, base)
           l2 == Transfer(l1, pool.pair.quote, acc, who, quote)
       IN /\ base >= minBase /\ quote >= minQuote
          /\ issued >= shares
          /\ CanTransfer(ledger, pool.pair.base, acc, who, base, FALSE)
          /\ CanTransfer(l1, pool.pair.quote, acc, who, quote, FALSE)
          /\ CanBurn(l2, pool.lp_token, who, shares)
          /\ ledger' = Burn(l2, pool.lp_token, who, shares)
    /\ UNCHANGED <<now, curveVars, factoryVars>>

(* exchange with do_compute_swap, as an operator on ledgers: the outcomes  *)
(* of a trade in which the fees are taken from what comes out.             *)
CurveOutcomes(l, who, p, pair, amount, minReceive, keep) ==
    LET pool == curve_pools[p]
        acc == CurveAccount(p)
        l1 == Transfer(l, pair.quote, who, acc, amount)
        Outcome(value) ==
            LET lpFee == MulFloor(pool.fee, value)
                ownerFee == MulFloor(pool.protocol_fee, lpFee)
                out == value - lpFee
                l2 == Transfer(l1, pair.base, acc, pool.owner, ownerFee)
            IN [out |-> out,
                allowed |->
                   /\ out >= minReceive
                   /\ CanTransfer(l, pair.quote, who, acc, amount, keep)
                   /\ CanTransfer(l1, pair.base, acc, pool.owner, ownerFee, FALSE)
                   /\ CanTransfer(l2, pair.base, acc, who, out, FALSE),
                ledger |-> Transfer(l2, pair.base, acc, who, out)]
    IN {Outcome(value) : value \in CurveValue(l, p, pair.base, amount)}

CurveExchange(who, p, pair, amount, minReceive, keep) ==
    /\ CurveExists(p)
    /\ pair \in {curve_pools[p].pair, Flipped(curve_pools[p].pair)}
    /\ \E o \in CurveOutcomes(ledger, who, p, pair, amount, minReceive, keep) :
          o.allowed /\ ledger' = o.ledger
    /\ UNCHANGED <<now, curveVars, factoryVars>>

(* buy and sell: whatever is not the pool's base counts as its quote.  A   *)
(* purchase trades in what a sale of the amount would bring.               *)
CurveBuy(who, p, asset, amount, keep) ==
    /\ CurveExists(p)
    /\ LET pair == curve_pools[p].pair IN
       \E quoted \in CurveValue(ledger, p, asset, amount) :
          CurveExchange(who, p, IF asset = pair.base THEN pair ELSE Flipped(pair),
                        quoted, 0, keep)

CurveSell(who, p, asset, amount, keep) ==
    /\ CurveExists(p)
    /\ LET pair == curve_pools[p].pair IN
       CurveExchange(who, p, IF asset = pair.base THEN Flipped(pair) ELSE pair,
                     amount, 0, keep)

CurveInit ==
    /\ curve_pools = [p \in CurveIds |-> NoCurve]
    /\ curve_pool_count = 0

CurvePairs == {i.pair : i \in CurveInputs} \cup {Flipped(i.pair) : i \in CurveInputs}

CurveNext ==
    \/ \E who \in Users, input \in CurveInputs : CreateCurve(who, input)
    \/ \E who \in Users, p \in CurveIds, base, quote \in CurveAmounts,
          min \in CurveMinimums, keep \in BOOLEAN :
          CurveAddLiquidity(who, p, base, quote, min, keep)
    \/ \E who \in Users, p \in CurveIds, shares \in CurveAmounts, min \in CurveMinimums :
          CurveRemoveLiquidity(who, p, shares, min, min)
    \/ \E who \in Users, p \in CurveIds, pair \in CurvePairs, amount \in CurveAmounts,
          min \in CurveMinimums, keep \in BOOLEAN :
          CurveExchange(who, p, pair, amount, min, keep)
    \/ \E who \in Users, p \in CurveIds, pair \in CurvePairs, amount \in CurveAmounts,
          keep \in BOOLEAN :
          \/ CurveBuy(who, p, pair.base, amount, keep)
          \/ CurveSell(who, p, pair.base, amount, keep)

-----------------------------------------------------------------------------

(* What is left for the shares of others when some are burned.             *)
CurveReservesKept ==
    \A p \in CurveIds :
        CurveExists(p) =>
           LET lp == curve_pools[p].lp_token IN
           Issued(ledger, lp)' < Issued(ledger, lp) =>
              \A a \in {curve_pools[p].pair.base, curve_pools[p].pair.quote} :
                 CurveReserve(ledger, p, a)' * Issued(ledger, lp)
                    >= CurveReserve(ledger, p, a) * Issued(ledger, lp)'
=============================================================================
