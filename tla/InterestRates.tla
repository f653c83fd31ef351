---------------------------- MODULE InterestRates ---------------------------
(***************************************************************************)
(* The interest rate models of composable-traits' lending/math.rs, in      *)
(* parts of Unit, as a market uses them.  The controller model is written  *)
(* to keep its last error, integral and rate, and get_borrow_rate updates  *)
(* them; but accrue_interest works on a copy of the market that it does    *)
(* not store, so what a market has on record is what it was configured     *)
(* with, and a rate is a function of that.                                 *)
(***************************************************************************)
EXTENDS Integers, Sequences

CONSTANTS
    Unit,  \* FixedU128's one
    Year   \* SECONDS_PER_YEAR_NAIVE, in blocks

ASSUME RateTypes == {Unit, Year} \subseteq Nat \ {0}

(* The models, with the ranges of their fields: percentages, fixed-point   *)
(* numbers with and without sign, and a fixed number of coefficients.      *)
RateModel ==
    [kind: {"jump"}, base: Nat, jump: Nat, full: Nat, target: 0..100]
        \cup [kind: {"curve"}, base: Nat]
        \cup [kind: {"controller"}, kp: Int, ki: Int, kd: Int, error: Int, integral: Int,
              rate: Int, target: Nat]
        \cup [kind: {"double"}, coefficients: Seq(Nat) \ {<<>>}]

FromPercent(p) == (p * Unit) \div 100

\* FixedI128's product, which rounds towards zero
SignedMul(x, y) ==
    IF x * y < 0 THEN -((-(x * y)) \div Unit) ELSE (x * y) \div Unit

UtilizationRatio(cash, borrows) ==
    IF borrows = 0 THEN 0 ELSE (100 * borrows) \div (cash + borrows)

-----------------------------------------------------------------------------

(* JumpModel: two lines that meet at the target utilization.  A market may *)
(* be updated to one that does not rise, and then has no rate on a side.   *)
JumpRateExists(model, utilization) ==
    /\ utilization < model.target => model.base <= model.jump
    /\ utilization > model.target => model.jump <= model.full
JumpRate(model, utilization) ==
    IF utilization < model.target
    THEN ((model.jump - model.base) * utilization) \div model.target + model.base
    ELSE IF utilization = model.target THEN model.jump
    ELSE ((model.full - model.jump) * (utilization - model.target))
            \div (100 - model.target) + model.jump

(* CurveModel: the ninth power, by squaring whole percents.                *)
PercentMul(p, q) == (p * q) \div 100
NinthPower(p) ==
    LET square == PercentMul(p, p)
        fourth == PercentMul(square, square)
    IN PercentMul(p, PercentMul(fourth, fourth))
CurveRate(model, utilization) == FromPercent(NinthPower(utilization)) + model.base

(* DynamicPIDControllerModel: get_output_utilization_ratio.                *)
ControllerRate(model, utilization) ==
    LET error    == model.target - FromPercent(utilization)
        integral == model.integral + SignedMul(model.ki, error)
        control  == SignedMul(model.kp, error) + integral
                       + SignedMul(model.kd, error - model.error)
    IN IF model.rate + control < 0 THEN 0 ELSE model.rate + control

(* DoubleExponentModel: the utilization is squared from one coefficient to *)
(* the next.                                                               *)
CoefficientsSum(c) ==
    LET sum[k \in 0..Len(c)] == IF k = 0 THEN 0 ELSE sum[k - 1] + c[k]
    IN sum[Len(c)]
DoubleExponentRate(model, utilization) ==
    LET c == model.coefficients
        power[k \in DOMAIN c] == IF k = 1 THEN FromPercent(utilization)
                                 ELSE (power[k - 1] * power[k - 1]) \div Unit
        sum[k \in DOMAIN c] == IF k = 1 THEN c[1] * Unit ELSE sum[k - 1] + c[k] * power[k]
    IN sum[Len(c)] \div 100

-----------------------------------------------------------------------------

(* InteresteRateModelIsValid, when a market is created.                    *)
ValidModel(model) ==
    CASE model.kind = "jump" ->
            /\ 10 * model.base <= Unit
            /\ 10 * model.jump <= 3 * Unit
            /\ 2 * model.full <= Unit
            /\ model.base <= model.jump /\ model.jump <= model.full
      [] model.kind = "curve" -> 10 * model.base <= Unit
      [] model.kind = "controller" -> model.target <= Unit
      [] OTHER -> CoefficientsSum(model.coefficients) = 100

(* A validated controller starts without error and integral.               *)
Validated(model) ==
    IF model.kind = "controller" THEN [model EXCEPT !.error = 0, !.integral = 0] ELSE model

RateExists(model, utilization) ==
    model.kind = "jump" => JumpRateExists(model, utilization)

BorrowRate(model, utilization) ==
    CASE model.kind = "jump" -> JumpRate(model, utilization)
      [] model.kind = "curve" -> CurveRate(model, utilization)
      [] model.kind = "controller" -> ControllerRate(model, utilization)
      [] OTHER -> DoubleExponentRate(model, utilization)

IncrementIndex(rate, index, time) == index + (rate * index * time) \div (Unit * Year)
AccruedInterest(rate, borrows, time) == (borrows * rate * time) \div (Unit * Year)
=============================================================================
