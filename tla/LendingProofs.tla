--------------------------- MODULE LendingProofs ----------------------------
(***************************************************************************)
(* Proofs about Lending with its vault and its liquidations, for every     *)
(* number of markets, borrowers and lenders, all amounts, prices and rate  *)
(* models: that loans, collateral and the vault's funds are backed by what *)
(* the accounts of the ledger hold.                                        *)
(***************************************************************************)
EXTENDS Lending, FundsProofs

-----------------------------------------------------------------------------
(* Functions that are defined by recursion over the numbers up to n.       *)

(* One step at a time from b, with values in S.                            *)
Walks(h, S, n, b, step) ==
    /\ h \in [0..n -> S]
    /\ h[0] = b
    /\ \A k \in 1..n : h[k] = step[<<h[k - 1], k>>]

LEMMA WalkExists ==
    ASSUME NEW S, NEW n \in Nat, NEW b \in S, NEW step \in [S \X (1..n) -> S]
    PROVE  \E h : Walks(h, S, n, b, step)
<1> DEFINE bad == {j \in 0..n : ~ \E h : Walks(h, S, j, b, step)}
<1>1. ASSUME ~ \E h : Walks(h, S, n, b, step) PROVE FALSE
  <2>1. n \in bad /\ bad \subseteq Nat
    BY <1>1
  <2> HIDE DEF bad
  <2>2. PICK j \in bad : \A i \in bad : j <= i
    BY <2>1, SmallestSize
  <2>3. j \in 0..n /\ ~ \E h : Walks(h, S, j, b, step)
    BY DEF bad
  <2>4. CASE j = 0
    <3>1. Walks([k \in 0..0 |-> b], S, 0, b, step)
      BY DEF Walks
    <3> QED
      BY <2>3, <2>4, <3>1
  <2>5. CASE j # 0
    <3>1. j - 1 \in 0..n /\ j - 1 \notin bad
      BY <2>2, <2>3, <2>5
    <3>2. PICK h : Walks(h, S, j - 1, b, step)
      BY <3>1 DEF bad
    <3> DEFINE g == [k \in 0..j |-> IF k = j THEN step[<<h[j - 1], j>>] ELSE h[k]]
    <3>3. h[j - 1] \in S
      BY <2>3, <2>5, <3>2 DEF Walks
    <3>4. step[<<h[j - 1], j>>] \in S
      BY <2>3, <2>5, <3>3
    <3>5. \A k \in 0..j : k # j => k \in 0..(j - 1)
      BY <2>3
    <3>6. g \in [0..j -> S]
      BY <3>2, <3>4, <3>5 DEF Walks
    <3>7. g[0] = b
      BY <2>3, <2>5, <3>2 DEF Walks
    <3>8. ASSUME NEW k \in 1..j PROVE g[k] = step[<<g[k - 1], k>>]
      <4>1. k - 1 \in 0..j /\ k - 1 # j /\ k \in 0..j
        BY <2>3
      <4>2. g[k - 1] = h[k - 1]
        BY <4>1
      <4>3. CASE k = j
        BY <4>1, <4>2, <4>3
      <4>4. CASE k # j
        <5>1. k \in 1..(j - 1)
          BY <2>3, <4>4
        <5>2. h[k] = step[<<h[k - 1], k>>]
          BY <3>2, <5>1 DEF Walks
        <5> QED
          BY <4>1, <4>2, <4>4, <5>2
      <4> QED
        BY <4>3, <4>4
    <3> HIDE DEF g
    <3>9. Walks(g, S, j, b, step)
      BY <3>6, <3>7, <3>8 DEF Walks
    <3> QED
      BY <2>3, <3>9
  <2> QED
    BY <2>4, <2>5
<1> QED
  BY <1>1

LEMMA StepsStay ==
    ASSUME NEW S, NEW n \in Nat, NEW h, h[0] \in S,
           \A k \in 1..n : h[k - 1] \in S => h[k] \in S
    PROVE  \A k \in 0..n : h[k] \in S
<1> DEFINE bad == {j \in 0..n : h[j] \notin S}
<1>1. ASSUME bad # {} PROVE FALSE
  <2>1. bad \subseteq Nat
    OBVIOUS
  <2> HIDE DEF bad
  <2>2. PICK j \in bad : \A i \in bad : j <= i
    BY <1>1, <2>1, SmallestSize
  <2>3. j \in 0..n /\ h[j] \notin S
    BY DEF bad
  <2>4. j # 0
    BY <2>3
  <2>5. j - 1 \in 0..n /\ j \in 1..n /\ j - 1 \notin bad
    BY <2>2, <2>3, <2>4
  <2>6. h[j - 1] \in S
    BY <2>5 DEF bad
  <2> QED
    BY <2>3, <2>5, <2>6
<1> QED
  BY <1>1

-----------------------------------------------------------------------------
(* Rates.                                                                  *)

LEMMA TimesNat ==
    ASSUME NEW x \in Nat, NEW y \in Nat
    PROVE  x * y \in Nat
OBVIOUS

LEMMA UtilizationRange ==
    ASSUME NEW cash \in Nat, NEW borrows \in Nat
    PROVE  UtilizationRatio(cash, borrows) \in 0..100
<1>1. CASE borrows = 0
  BY <1>1 DEF UtilizationRatio
<1>2. CASE borrows # 0
  <2>1. /\ 100 * borrows \in Nat /\ cash + borrows \in Nat \ {0}
        /\ 100 * borrows <= 100 * (cash + borrows)
    BY <1>2
  <2>2. (100 * borrows) \div (cash + borrows) <= 100
    BY <2>1, QuotientBelow
  <2>3. (100 * borrows) \div (cash + borrows) \in Nat
    BY <2>1, QuotientType
  <2> QED
    BY <1>2, <2>2, <2>3 DEF UtilizationRatio
<1> QED
  BY <1>1, <1>2

LEMMA PercentNat ==
    ASSUME NEW p \in Nat
    PROVE  /\ FromPercent(p) \in Nat
           /\ \A q \in Nat : PercentMul(p, q) \in Nat
<1>1. Unit \in Nat \ {0}
  BY RateTypes
<1>2. p * Unit \in Nat
  BY <1>1, TimesNat
<1>3. (p * Unit) \div 100 \in Nat
  BY <1>2, QuotientType
<1>4. ASSUME NEW q \in Nat PROVE PercentMul(p, q) \in Nat
  <2>1. p * q \in Nat
    BY TimesNat
  <2> QED
    BY <2>1, QuotientType DEF PercentMul
<1> QED
  BY <1>3, <1>4 DEF FromPercent

LEMMA SignedMulInt ==
    ASSUME NEW x \in Int, NEW y \in Int
    PROVE  SignedMul(x, y) \in Int
<1> DEFINE z == x * y
<1>1. z \in Int
  OBVIOUS
<1>2. Unit \in Nat \ {0}
  BY RateTypes
<1> HIDE DEF z
<1>3. /\ z < 0 => -z \in Nat /\ (-z) \div Unit \in Nat
      /\ ~(z < 0) => z \in Nat /\ z \div Unit \in Nat
  BY <1>1, <1>2, QuotientType
<1>4. SignedMul(x, y) = IF z < 0 THEN -((-z) \div Unit) ELSE z \div Unit
  BY DEF SignedMul, z
<1> QED
  BY <1>1, <1>3, <1>4

LEMMA JumpRateNat ==
    ASSUME NEW model \in [kind: {"jump"}, base: Nat, jump: Nat, full: Nat, target: 0..100],
           NEW u \in 0..100, JumpRateExists(model, u)
    PROVE  JumpRate(model, u) \in Nat
<1>1. /\ model.base \in Nat /\ model.jump \in Nat /\ model.full \in Nat
      /\ model.target \in 0..100
  OBVIOUS
<1>2. CASE u < model.target
  <2>1. model.jump - model.base \in Nat /\ model.target \in Nat \ {0}
    BY <1>1, <1>2 DEF JumpRateExists
  <2>2. (model.jump - model.base) * u \in Nat
    BY <2>1, TimesNat
  <2>3. ((model.jump - model.base) * u) \div model.target \in Nat
    BY <2>1, <2>2, QuotientType
  <2> QED
    BY <1>1, <1>2, <2>3 DEF JumpRate
<1>3. CASE u > model.target
  <2>1. /\ model.full - model.jump \in Nat /\ 100 - model.target \in Nat \ {0}
        /\ u - model.target \in Nat
    BY <1>1, <1>3 DEF JumpRateExists
  <2>2. (model.full - model.jump) * (u - model.target) \in Nat
    BY <2>1, TimesNat
  <2>3. ((model.full - model.jump) * (u - model.target)) \div (100 - model.target) \in Nat
    BY <2>1, <2>2, QuotientType
  <2>4. ~(u < model.target) /\ u # model.target
    BY <1>1, <1>3
  <2> QED
    BY <1>1, <2>3, <2>4 DEF JumpRate
<1>4. CASE u = model.target
  BY <1>1, <1>4 DEF JumpRate
<1> QED
  BY <1>1, <1>2, <1>3, <1>4

LEMMA CurveRateNat ==
    ASSUME NEW model \in [kind: {"curve"}, base: Nat], NEW u \in 0..100
    PROVE  CurveRate(model, u) \in Nat
<1>1. u \in Nat /\ model.base \in Nat
  OBVIOUS
<1> DEFINE square == PercentMul(u, u)
           fourth == PercentMul(square, square)
           eighth == PercentMul(fourth, fourth)
<1>2. square \in Nat
  BY <1>1, PercentNat
<1> HIDE DEF square
<1>3. fourth \in Nat
  BY <1>2, PercentNat
<1> HIDE DEF fourth
<1>4. eighth \in Nat
  BY <1>3, PercentNat
<1> HIDE DEF eighth
<1>5. PercentMul(u, eighth) \in Nat
  BY <1>1, <1>4, PercentNat
<1>6. NinthPower(u) = PercentMul(u, eighth)
  BY DEF NinthPower, square, fourth, eighth
<1>7. FromPercent(NinthPower(u)) \in Nat
  BY <1>5, <1>6, PercentNat
<1> QED
  BY <1>1, <1>7 DEF CurveRate

LEMMA ControllerRateNat ==
    ASSUME NEW model \in [kind: {"controller"}, kp: Int, ki: Int, kd: Int, error: Int,
                          integral: Int, rate: Int, target: Nat],
           NEW u \in 0..100
    PROVE  ControllerRate(model, u) \in Nat
<1>1. /\ model.kp \in Int /\ model.ki \in Int /\ model.kd \in Int /\ model.error \in Int
      /\ model.integral \in Int /\ model.rate \in Int /\ model.target \in Nat
  OBVIOUS
<1> DEFINE error == model.target - FromPercent(u)
           integral == model.integral + SignedMul(model.ki, error)
           control == SignedMul(model.kp, error) + integral
                         + SignedMul(model.kd, error - model.error)
<1>0. u \in Nat
  OBVIOUS
<1>2. error \in Int
  BY <1>0, <1>1, PercentNat
<1> HIDE DEF error
<1>3. error - model.error \in Int
  BY <1>1, <1>2
<1>4. /\ SignedMul(model.ki, error) \in Int /\ SignedMul(model.kp, error) \in Int
      /\ SignedMul(model.kd, error - model.error) \in Int
  BY <1>1, <1>2, <1>3, SignedMulInt
<1>5. control \in Int
  BY <1>1, <1>4
<1> HIDE DEF control
<1>6. ControllerRate(model, u) = IF model.rate + control < 0 THEN 0 ELSE model.rate + control
  BY DEF ControllerRate, control, error
<1> QED
  BY <1>1, <1>5, <1>6

Squares(f, c, u) ==
    f = [k \in DOMAIN c |-> IF k = 1 THEN FromPercent(u) ELSE (f[k - 1] * f[k - 1]) \div Unit]
Weighs(f, c, power) ==
    f = [k \in DOMAIN c |-> IF k = 1 THEN c[1] * Unit ELSE f[k - 1] + c[k] * power[k]]

LEMMA SquaresExist ==
    ASSUME NEW c \in Seq(Nat), NEW u \in Nat
    PROVE  \E f : Squares(f, c, u) /\ \A k \in DOMAIN c : f[k] \in Nat
<1> DEFINE n == Len(c)
           new(x, k) == IF k = 1 THEN FromPercent(u) ELSE (x * x) \div Unit
           step == [p \in Nat \X (1..n) |-> new(p[1], p[2])]
<1>1. n \in Nat /\ DOMAIN c = 1..n /\ Unit \in Nat \ {0} /\ FromPercent(u) \in Nat
  <2>1. Len(c) \in Nat /\ DOMAIN c = 1..Len(c)
    BY LenProperties
  <2>2. Unit \in Nat \ {0} /\ FromPercent(u) \in Nat
    BY RateTypes, PercentNat
  <2> QED
    BY <2>1, <2>2
<1>2. ASSUME NEW x \in Nat, NEW k \in 1..n PROVE new(x, k) \in Nat
  <2>1. x * x \in Nat
    BY TimesNat
  <2>2. (x * x) \div Unit \in Nat
    BY <1>1, <2>1, QuotientType
  <2> QED
    BY <1>1, <2>2
<1>3. step \in [Nat \X (1..n) -> Nat]
  <2> HIDE DEF new, n
  <2> QED
    BY <1>2
<1>4. \A x \in Nat, k \in 1..n : step[<<x, k>>] = new(x, k)
  OBVIOUS
<1> HIDE DEF n, step
<1>5. PICK h : Walks(h, Nat, n, 0, step)
  BY <1>1, <1>3, WalkExists
<1> DEFINE f == [k \in DOMAIN c |-> h[k]]
<1>6. ASSUME NEW k \in DOMAIN c
      PROVE  /\ f[k] \in Nat
             /\ f[k] = IF k = 1 THEN FromPercent(u) ELSE (f[k - 1] * f[k - 1]) \div Unit
  <2>1. k \in 1..n /\ k \in 0..n /\ k - 1 \in 0..n
    BY <1>1
  <2>2. h[k] = step[<<h[k - 1], k>>] /\ h[k - 1] \in Nat /\ h[k] \in Nat
    BY <1>5, <2>1 DEF Walks
  <2>3. h[k] = new(h[k - 1], k)
    BY <1>4, <2>1, <2>2
  <2>4. k # 1 => f[k - 1] = h[k - 1]
    BY <1>1, <2>1
  <2> QED
    BY <2>2, <2>3, <2>4
<1>7. f = [k \in DOMAIN c |-> f[k]]
  OBVIOUS
<1> HIDE DEF f
<1>8. Squares(f, c, u)
  BY <1>6, <1>7 DEF Squares
<1> QED
  BY <1>6, <1>8

LEMMA WeighsExist ==
    ASSUME NEW c \in Seq(Nat), NEW power, \A k \in DOMAIN c : power[k] \in Nat
    PROVE  \E f : Weighs(f, c, power)
<1> DEFINE n == Len(c)
           new(x, k) == IF k = 1 THEN c[1] * Unit ELSE x + c[k] * power[k]
           step == [p \in Nat \X (1..n) |-> new(p[1], p[2])]
<1>1. n \in Nat /\ DOMAIN c = 1..n /\ Unit \in Nat
  BY RateTypes
<1>2. ASSUME NEW x \in Nat, NEW k \in 1..n PROVE new(x, k) \in Nat
  <2>1. c[k] \in Nat /\ power[k] \in Nat
    BY <1>1
  <2>2. c[k] * power[k] \in Nat /\ c[k] * Unit \in Nat
    BY <1>1, <2>1, TimesNat
  <2> QED
    BY <2>2
<1>3. step \in [Nat \X (1..n) -> Nat]
  <2> HIDE DEF new, n
  <2> QED
    BY <1>2
<1>4. \A x \in Nat, k \in 1..n : step[<<x, k>>] = new(x, k)
  OBVIOUS
<1> HIDE DEF n, step
<1>5. PICK h : Walks(h, Nat, n, 0, step)
  BY <1>1, <1>3, WalkExists
<1> DEFINE f == [k \in DOMAIN c |-> h[k]]
<1>6. ASSUME NEW k \in DOMAIN c
      PROVE  f[k] = IF k = 1 THEN c[1] * Unit ELSE f[k - 1] + c[k] * power[k]
  <2>1. k \in 1..n /\ k \in 0..n /\ k - 1 \in 0..n
    BY <1>1
  <2>2. h[k] = step[<<h[k - 1], k>>] /\ h[k - 1] \in Nat
    BY <1>5, <2>1 DEF Walks
  <2>3. h[k] = new(h[k - 1], k)
    BY <1>4, <2>1, <2>2
  <2>4. k # 1 => f[k - 1] = h[k - 1]
    BY <1>1, <2>1
  <2> QED
    BY <2>3, <2>4
<1>7. f = [k \in DOMAIN c |-> f[k]]
  OBVIOUS
<1> HIDE DEF f
<1>8. Weighs(f, c, power)
  BY <1>6, <1>7 DEF Weighs
<1> QED
  BY <1>8

LEMMA SquaresNat ==
    ASSUME NEW c \in Seq(Nat), NEW u \in Nat, NEW f, Squares(f, c, u)
    PROVE  \A k \in DOMAIN c : f[k] \in Nat
<1> DEFINE h == [k \in 0..Len(c) |-> IF k = 0 THEN 0 ELSE f[k]]
<1>1. Len(c) \in Nat /\ DOMAIN c = 1..Len(c) /\ Unit \in Nat \ {0} /\ FromPercent(u) \in Nat
  BY RateTypes, PercentNat
<1>2. h[0] \in Nat
  BY <1>1
<1>3. ASSUME NEW k \in 1..Len(c), h[k - 1] \in Nat PROVE h[k] \in Nat
  <2>1. h[k] = f[k] /\ (k # 1 => f[k - 1] = h[k - 1])
    BY <1>1
  <2>2. f[k] = IF k = 1 THEN FromPercent(u) ELSE (f[k - 1] * f[k - 1]) \div Unit
    BY <1>1 DEF Squares
  <2>3. k # 1 => (f[k - 1] * f[k - 1]) \div Unit \in Nat
    <3> SUFFICES ASSUME k # 1 PROVE (f[k - 1] * f[k - 1]) \div Unit \in Nat
      OBVIOUS
    <3>1. f[k - 1] * f[k - 1] \in Nat
      BY <1>3, <2>1, TimesNat
    <3> QED
      BY <1>1, <3>1, QuotientType
  <2> QED
    BY <1>1, <2>1, <2>2, <2>3
<1>4. \A k \in 0..Len(c) : h[k] \in Nat
  <2> HIDE DEF h
  <2> QED
    BY <1>1, <1>2, <1>3, StepsStay
<1> QED
  BY <1>1, <1>4

LEMMA WeighsNat ==
    ASSUME NEW c \in Seq(Nat), NEW power, \A k \in DOMAIN c : power[k] \in Nat,
           NEW f, Weighs(f, c, power)
    PROVE  \A k \in DOMAIN c : f[k] \in Nat
<1> DEFINE h == [k \in 0..Len(c) |-> IF k = 0 THEN 0 ELSE f[k]]
<1>1. Len(c) \in Nat /\ DOMAIN c = 1..Len(c) /\ Unit \in Nat
  BY RateTypes
<1>2. h[0] \in Nat
  BY <1>1
<1>3. ASSUME NEW k \in 1..Len(c), h[k - 1] \in Nat PROVE h[k] \in Nat
  <2>1. h[k] = f[k] /\ (k # 1 => f[k - 1] = h[k - 1])
    BY <1>1
  <2>2. f[k] = IF k = 1 THEN c[1] * Unit ELSE f[k - 1] + c[k] * power[k]
    BY <1>1 DEF Weighs
  <2>3. c[k] \in Nat /\ power[k] \in Nat
    BY <1>1
  <2>4. c[k] * power[k] \in Nat /\ c[k] * Unit \in Nat
    BY <1>1, <2>3, TimesNat
  <2> QED
    BY <1>3, <2>1, <2>2, <2>4
<1>4. \A k \in 0..Len(c) : h[k] \in Nat
  <2> HIDE DEF h
  <2> QED
    BY <1>1, <1>2, <1>3, StepsStay
<1> QED
  BY <1>1, <1>4

LEMMA DoubleExponentRateNat ==
    ASSUME NEW model \in [kind: {"double"}, coefficients: Seq(Nat) \ {<<>>}], NEW u \in Nat
    PROVE  DoubleExponentRate(model, u) \in Nat
<1> DEFINE c == model.coefficients
           power == CHOOSE f : Squares(f, c, u)
           sum == CHOOSE f : Weighs(f, c, power)
<1>1. c \in Seq(Nat) /\ c # <<>>
  OBVIOUS
<1>2. DoubleExponentRate(model, u) = sum[Len(c)] \div 100
  BY DEF DoubleExponentRate, Squares, Weighs
<1> HIDE DEF c
<1>3. Squares(power, c, u)
  BY <1>1, SquaresExist
<1> HIDE DEF power
<1>4. \A k \in DOMAIN c : power[k] \in Nat
  BY <1>1, <1>3, SquaresNat
<1>5. Weighs(sum, c, power)
  BY <1>1, <1>4, WeighsExist
<1> HIDE DEF sum
<1>6. \A k \in DOMAIN c : sum[k] \in Nat
  BY <1>1, <1>4, <1>5, WeighsNat
<1>7. Len(c) \in DOMAIN c
  BY <1>1
<1>8. sum[Len(c)] \in Nat
  BY <1>6, <1>7
<1> QED
  BY <1>2, <1>8, QuotientType

LEMMA BorrowRateNat ==
    ASSUME NEW model \in RateModel, NEW u \in 0..100, RateExists(model, u)
    PROVE  BorrowRate(model, u) \in Nat
<1>0. u \in Nat
  OBVIOUS
<1>1. CASE model \in [kind: {"jump"}, base: Nat, jump: Nat, full: Nat, target: 0..100]
  <2>1. model.kind = "jump" /\ JumpRateExists(model, u)
    BY <1>1 DEF RateExists
  <2> QED
    BY <1>1, <2>1, JumpRateNat DEF BorrowRate
<1>2. CASE model \in [kind: {"curve"}, base: Nat]
  <2>1. model.kind = "curve"
    BY <1>2
  <2> QED
    BY <1>2, <2>1, CurveRateNat DEF BorrowRate
<1>3. CASE model \in [kind: {"controller"}, kp: Int, ki: Int, kd: Int, error: Int,
                       integral: Int, rate: Int, target: Nat]
  <2>1. model.kind = "controller"
    BY <1>3
  <2> QED
    BY <1>3, <2>1, ControllerRateNat DEF BorrowRate
<1>4. CASE model \in [kind: {"double"}, coefficients: Seq(Nat) \ {<<>>}]
  <2>1. model.kind = "double"
    BY <1>4
  <2> QED
    BY <1>0, <1>4, <2>1, DoubleExponentRateNat DEF BorrowRate
<1> QED
  BY <1>1, <1>2, <1>3, <1>4 DEF RateModel

(* The index of a market never falls, and interest is never negative.      *)
LEMMA IndexGrows ==
    ASSUME NEW rate \in Nat, NEW index \in Nat, NEW time \in Nat, NEW borrows \in Nat
    PROVE  /\ IncrementIndex(rate, index, time) \in Nat
           /\ index <= IncrementIndex(rate, index, time)
           /\ AccruedInterest(rate, borrows, time) \in Nat
<1>1. Unit * Year \in Nat \ {0}
  BY RateTypes
<1> DEFINE year == Unit * Year
           grown == rate * index * time
           paid == borrows * rate * time
<1>2. grown \in Nat /\ paid \in Nat
  BY TimesNat
<1>3. IncrementIndex(rate, index, time) = index + grown \div year
  BY DEF IncrementIndex
<1>4. AccruedInterest(rate, borrows, time) = paid \div year
  BY DEF AccruedInterest
<1>5. year \in Nat \ {0}
  BY <1>1
<1> HIDE DEF year, grown, paid
<1>6. grown \div year \in Nat /\ paid \div year \in Nat
  BY <1>2, <1>5, QuotientType
<1> QED
  BY <1>3, <1>4, <1>6

-----------------------------------------------------------------------------
(* The index of a loan that grows.                                         *)

(* Two shares of a whole, in whole percents, are at most all of it.        *)
LEMMA SharesOfWhole ==
    ASSUME NEW n \in Nat, NEW e \in Nat
    PROVE  /\ PercentOf(n, e + n) \in Nat /\ PercentOf(e, e + n) \in Nat
           /\ PercentOf(n, e + n) + PercentOf(e, e + n) <= 100
<1> DEFINE w == GreaterOf(e + n, 1)
           p == (100 * n) \div w
           q == (100 * e) \div w
<1>1. w \in Nat \ {0} /\ e + n <= w
  BY DEF GreaterOf
<1>2. PercentOf(n, e + n) = p /\ PercentOf(e, e + n) = q
  BY DEF PercentOf
<1> HIDE DEF w
<1>3. 100 * n \in Nat /\ 100 * e \in Nat
  OBVIOUS
<1>4. p \in Nat /\ q \in Nat /\ w * p <= 100 * n /\ w * q <= 100 * e
  BY <1>1, <1>3, QuotientType
<1> HIDE DEF p, q
<1>5. w * p + w * q <= 100 * w
  BY <1>1, <1>4, TimesNat
<1>6. w * (p + q) <= w * 100
  BY <1>1, <1>4, <1>5
<1>7. ASSUME p + q > 100 PROVE FALSE
  <2>1. w * 101 <= w * (p + q)
    BY <1>1, <1>4, <1>7, TimesMonotone
  <2> QED
    BY <1>1, <1>4, <1>6, <2>1
<1> QED
  BY <1>2, <1>4, <1>7

LEMMA WeightedBelow ==
    ASSUME NEW b \in Nat, NEW i \in Nat, i <= b, NEW p \in Nat, NEW q \in Nat, p + q <= 100
    PROVE  /\ (b * p) \div 100 + (i * q) \div 100 \in Nat
           /\ (b * p) \div 100 + (i * q) \div 100 <= b
<1> DEFINE x == (b * p) \div 100
           y == (i * q) \div 100
<1>1. b * p \in Nat /\ i * q \in Nat
  BY TimesNat
<1>2. x \in Nat /\ y \in Nat /\ 100 * x <= b * p /\ 100 * y <= i * q
  BY <1>1, QuotientType
<1> HIDE DEF x, y
<1>3. i * q <= b * q
  <2>1. q * i <= q * b
    BY TimesMonotone
  <2> QED
    BY <2>1
<1>4. b * (p + q) <= b * 100
  BY TimesMonotone
<1>5. b * (p + q) = b * p + b * q
  OBVIOUS
<1>6. b * q \in Nat
  BY TimesNat
<1> HIDE DEF x, y
<1>7. 100 * x + 100 * y <= 100 * b
  BY <1>1, <1>2, <1>3, <1>4, <1>5, <1>6
<1>8. x + y <= b
  BY <1>2, <1>7
<1> QED
  BY <1>2, <1>8 DEF x, y

-----------------------------------------------------------------------------
(* Lending: the inductive invariant.                                       *)

(* What the open orders of a market offer for sale.                        *)
Offered(os, m) ==
    SumFunctionOnSet([i \in DOMAIN os |-> IF os[i].market = m THEN os[i].amount ELSE 0],
                     DOMAIN os)

(* The principal of the loans of a market, and the collateral credited.    *)
Lent(l, m) == SumFunction([who \in Users |-> l[DebtTokens[m]][who].reserved])
Credited(m) == SumFunction([who \in Users |-> CollateralOf(m, who)])

(* Of the debt token of a market the users hold nothing that is free, and  *)
(* its account nothing that is on hold.                                    *)
DebtsHeld(l, m) ==
    /\ l[DebtTokens[m]][MarketAccount(m)].reserved = 0
    /\ \A who \in Users : l[DebtTokens[m]][who].free = 0

(* The claim about a market, with its orders: what they offer is on hold.  *)
Backed(l, cs, os, m) ==
    LET c == markets[m].collateral IN
    /\ Credited(m) = TotalBalance(l, c, MarketAccount(m)) + soldCollateral[m]
    /\ Offered(os, m) <= l[c][MarketAccount(m)].reserved
    /\ StrategyBalance(cs, markets[m].borrow, MarketAccount(m)) <= TotalCash(l, m) + Lent(l, m)

(* The account of a market that is not there yet.                          *)
Unused(l, m) ==
    \A a \in AssetIds \ {NativeAsset} : TotalBalance(l, a, MarketAccount(m)) = 0

FundsSound(l, cs, os) ==
    /\ l \in Ledger
    /\ cs \in Structures
    /\ \A m \in MarketIds : /\ DebtsHeld(l, m)
                            /\ MarketExists(m) => Backed(l, cs, os, m)
                            /\ ~MarketExists(m) => Unused(l, m)

(* Markets name assets that are neither native nor debt tokens, and lend   *)
(* from a vault that is there.                                             *)
MarketSound(m) ==
    LET v == markets[m].borrow IN
    MarketExists(m) =>
        /\ Exists(v)
        /\ markets[m].collateral # NativeAsset
        /\ BorrowAsset(m) # NativeAsset
        /\ BorrowAsset(m) # markets[m].collateral

VaultLends(id) ==
    Exists(id) => /\ id <= vault_count
                  /\ vaults[id].asset_id \notin DebtIds
                  /\ vaults[id].lp_token_id \notin DebtIds

Orders == [market: MarketIds, from: SubAccounts, base: AssetIds, quote: AssetIds, amount: Nat]
OrderSound(o) ==
    /\ MarketExists(o.market)
    /\ o.from = MarketAccount(o.market)
    /\ o.base = markets[o.market].collateral
    /\ o.quote = BorrowAsset(o.market)

Loan(m, who) ==
    /\ OwedCoversPrincipal(m, who)
    /\ ~MarketExists(m) => debt_index[m][who] = NoDebt /\ account_collateral[m][who] = NoDebt

LoanBooks ==
    /\ now \in Nat
    /\ VaultTypeOK
    /\ LendingTypeOK
    /\ markets \in [MarketIds -> Market \cup {NoMarket}]
    /\ soldCollateral \in [MarketIds -> Nat]
    /\ orders \in Seq(Orders)

LendingInv ==
    /\ LoanBooks
    /\ \A m \in MarketIds : /\ MarketSound(m)
                            /\ ~MarketExists(m) => soldCollateral[m] = 0
                            /\ \A who \in Users : Loan(m, who)
    /\ \A id \in VaultIds : VaultLends(id)
    /\ \A i \in DOMAIN orders : OrderSound(orders[i])
    /\ FundsSound(ledger, capital_structure, orders)

-----------------------------------------------------------------------------
(* Accounts and assets of markets.                                         *)

LEMMA MarketAccounts ==
    ASSUME NEW m \in MarketIds
    PROVE  /\ MarketAccount(m) \in Accounts /\ MarketAccount(m) \notin Users
           /\ MarketAccount(m) \in Strategists /\ MarketAccount(m) \in SubAccounts
           /\ \A j \in MarketIds : MarketAccount(j) = MarketAccount(m) => j = m
           /\ \A id \in VaultIds : VaultAccount(id) # MarketAccount(m)
<1>1. MarketAccount(m) \in SubAccounts /\ MarketAccount(m) \in Strategists
  BY MarketTypes
<1>2. \A j \in MarketIds : MarketAccount(j) = MarketAccount(m) => j = m
  BY DEF MarketAccount
<1>3. \A id \in VaultIds : VaultAccount(id) # MarketAccount(m)
  BY DEF MarketAccount, VaultAccount
<1> QED
  BY <1>1, <1>2, <1>3, ChainTypes DEF Accounts

LEMMA UsersFacts ==
    /\ IsFiniteSet(Users) /\ Users \subseteq Accounts
    /\ \A id \in VaultIds : VaultAccount(id) \in Accounts
<1>1. Users \subseteq Accounts /\ IsFiniteSet(Accounts)
  BY VaultTypes DEF Accounts
<1> QED
  BY <1>1, FS_Subset, VaultAccounts

LEMMA DebtTokenFacts ==
    ASSUME NEW m \in MarketIds
    PROVE  /\ DebtTokens[m] \in AssetIds /\ DebtTokens[m] \in DebtIds
           /\ DebtTokens[m] # NativeAsset /\ MinimumBalance[DebtTokens[m]] = 0
           /\ \A j \in MarketIds : DebtTokens[j] = DebtTokens[m] => j = m
BY LendingTypes, MarketTypes DEF DebtIds

LEMMA MarketNames ==
    ASSUME LendingInv, NEW m \in MarketIds, MarketExists(m)
    PROVE  /\ markets[m] \in Market /\ markets[m].borrow \in VaultIds
           /\ Exists(markets[m].borrow)
           /\ markets[m].collateral \in AssetIds /\ markets[m].collateral # NativeAsset
           /\ markets[m].collateral \notin DebtIds
           /\ BorrowAsset(m) \in AssetIds /\ BorrowAsset(m) # NativeAsset
           /\ BorrowAsset(m) \notin DebtIds
           /\ BorrowAsset(m) # markets[m].collateral
           /\ markets[m].collateral # DebtTokens[m] /\ BorrowAsset(m) # DebtTokens[m]
           /\ m \in 1..lending_count
<1>1. markets[m] \in Market
  BY DEF LendingInv, LoanBooks, MarketExists
<1>2. /\ markets[m].borrow \in VaultIds /\ markets[m].collateral \in AssetIds
      /\ markets[m].collateral \notin DebtIds
  BY <1>1 DEF Market, Lendable
<1>3. /\ Exists(markets[m].borrow) /\ markets[m].collateral # NativeAsset
      /\ BorrowAsset(m) # NativeAsset /\ BorrowAsset(m) # markets[m].collateral
  BY DEF LendingInv, MarketSound
<1>4. BorrowAsset(m) \notin DebtIds
  BY <1>2, <1>3 DEF LendingInv, VaultLends, BorrowAsset
<1>5. vaults[markets[m].borrow] \in VaultInfo
  BY <1>2, <1>3 DEF LendingInv, LoanBooks, VaultTypeOK, Exists
<1>6. BorrowAsset(m) \in AssetIds
  BY <1>5 DEF VaultInfo, BorrowAsset
<1>7. DebtTokens[m] \in DebtIds
  BY DebtTokenFacts
<1>8. m <= lending_count /\ lending_count \in Nat
  BY DEF LendingInv, LoanBooks, LendingTypeOK
<1> QED
  BY <1>1, <1>2, <1>3, <1>4, <1>6, <1>7, <1>8 DEF MarketIds

-----------------------------------------------------------------------------
(* What payer and payee hold after a transfer.                             *)

LEMMA KeptMayDie ==
    ASSUME NEW l, NEW a, NEW from, NEW to, NEW n, KeepsAlive(l, a, from, to, n)
    PROVE  MayDie(l, a, from, to, n)
<1>1. CASE n = 0 \/ from = to
  BY <1>1 DEF MayDie, CanTransfer
<1>2. CASE ~(n = 0 \/ from = to)
  <2>1. CanWithdraw(l, a, from, n, TRUE) /\ CanDeposit(l, a, to, n)
    BY <1>2 DEF KeepsAlive, CanTransfer
  <2>2. CanWithdraw(l, a, from, n, FALSE)
    BY <2>1 DEF CanWithdraw
  <2> QED
    BY <2>1, <2>2 DEF MayDie, CanTransfer
<1> QED
  BY <1>1, <1>2

LEMMA Payee ==
    ASSUME NEW l \in Ledger, NEW a \in AssetIds, NEW from \in Accounts, NEW to \in Accounts,
           NEW n \in Nat, MayDie(l, a, from, to, n), from # to,
           NEW m, m = Transfer(l, a, from, to, n)
    PROVE  /\ m \in Ledger
           /\ m[a][to].free = l[a][to].free + n
           /\ m[a][to].reserved = l[a][to].reserved
           /\ TotalBalance(m, a, to) = TotalBalance(l, a, to) + n
           /\ \A b \in AssetIds, w \in Accounts :
                 b # a \/ w \notin {from, to} => m[b][w] = l[b][w]
<1>1. /\ m \in Ledger
      /\ \A b \in AssetIds, w \in Accounts :
            b # a \/ w \notin {from, to} => m[b][w] = l[b][w]
      /\ m[a][to].free = l[a][to].free + n
  BY AllowDeathTransfer
<1>2. l[a][to].free \in Nat /\ l[a][to].reserved \in Nat
  BY LedgerEntries
<1>3. m[a][to].reserved = l[a][to].reserved
  <2>1. CASE n = 0
    BY <2>1 DEF Transfer
  <2>2. CASE n # 0
    <3> DEFINE k == Withdraw(l, a, from, n)
    <3>1. Unlocked(l, a, from, n)
      BY <2>2 DEF MayDie, CanTransfer, CanWithdraw, Unlocked
    <3>2. k \in Ledger /\ k[a][to] = l[a][to]
      BY <3>1, WithdrawFacts
    <3>3. m = Deposit(k, a, to, n)
      BY <2>2 DEF Transfer
    <3> HIDE DEF k
    <3>4. m[a][to] = [k[a][to] EXCEPT !.free = @ + n]
      BY <3>2, <3>3 DEF Deposit, Ledger
    <3>5. l[a][to] \in Entry
      BY LedgerEntries
    <3> QED
      BY <3>2, <3>4, <3>5 DEF Entry
  <2> QED
    BY <2>1, <2>2
<1> QED
  BY <1>1, <1>2, <1>3 DEF TotalBalance

LEMMA Payer ==
    ASSUME NEW l \in Ledger, NEW a \in AssetIds, NEW from \in Accounts, NEW to \in Accounts,
           NEW n \in Nat, KeepsAlive(l, a, from, to, n), from # to,
           NEW m, m = Transfer(l, a, from, to, n)
    PROVE  /\ m \in Ledger
           /\ m[a][from].reserved = l[a][from].reserved
           /\ TotalBalance(m, a, from) = TotalBalance(l, a, from) - n
           /\ \A b \in AssetIds, w \in Accounts :
                 b # a \/ w \notin {from, to} => m[b][w] = l[b][w]
<1>1. /\ m \in Ledger
      /\ TotalBalance(m, a, from) = TotalBalance(l, a, from) - n
      /\ m[a][from].free = l[a][from].free - n
      /\ \A b \in AssetIds, w \in Accounts :
            b # a \/ w \notin {from, to} => m[b][w] = l[b][w]
  BY KeepAliveTransfer
<1>2. /\ l[a][from].free \in Nat /\ l[a][from].reserved \in Nat
      /\ m[a][from].free \in Nat /\ m[a][from].reserved \in Nat
  BY <1>1, LedgerEntries
<1> QED
  BY <1>1, <1>2 DEF TotalBalance

LEMMA ReserveFundsFacts ==
    ASSUME NEW l \in Ledger, NEW a \in AssetIds, NEW who \in Accounts, NEW n \in Nat,
           n <= l[a][who].free, NEW k, k = ReserveFunds(l, a, who, n)
    PROVE  /\ k \in Ledger
           /\ k[a][who].free = l[a][who].free - n
           /\ k[a][who].reserved = l[a][who].reserved + n
           /\ TotalBalance(k, a, who) = TotalBalance(l, a, who)
           /\ \A b \in AssetIds, w \in Accounts : b # a \/ w # who => k[b][w] = l[b][w]
<1> DEFINE e == l[a][who]
           new == [e EXCEPT !.free = e.free - n, !.reserved = e.reserved + n]
<1>1. e \in Entry /\ e.free \in Nat /\ e.reserved \in Nat /\ n <= e.free
  BY LedgerEntries
<1>2. k = [l EXCEPT ![a][who] = new]
  BY DEF ReserveFunds, Ledger, Entry
<1> HIDE DEF e
<1>3. new \in Entry /\ new.free = e.free - n /\ new.reserved = e.reserved + n
  <2>1. e.free - n \in Nat /\ e.reserved + n \in Nat
    BY <1>1
  <2> QED
    BY <1>1, <2>1, Zenon DEF Entry
<1> HIDE DEF new
<1>4. k \in Ledger /\ k[a][who] = new
  BY <1>2, <1>3 DEF Ledger
<1>5. \A b \in AssetIds, w \in Accounts : b # a \/ w # who => k[b][w] = l[b][w]
  BY <1>2 DEF Ledger
<1> QED
  BY <1>1, <1>3, <1>4, <1>5 DEF TotalBalance, e

-----------------------------------------------------------------------------
(* The principal of all loans of a market.                                 *)

Reserves(l, m) == [who \in Users |-> l[DebtTokens[m]][who].reserved]

LEMMA LentIs ==
    ASSUME NEW l \in Ledger, NEW m \in MarketIds
    PROVE  /\ Lent(l, m) = SumFunctionOnSet(Reserves(l, m), Users)
           /\ Lent(l, m) \in Nat
           /\ \A who \in Users : /\ Reserves(l, m)[who] = l[DebtTokens[m]][who].reserved
                                  /\ l[DebtTokens[m]][who].reserved \in Nat
<1>1. Lent(l, m) = SumFunctionOnSet(Reserves(l, m), Users)
  BY DEF Lent, SumFunction, Reserves
<1>2. \A who \in Users : /\ Reserves(l, m)[who] = l[DebtTokens[m]][who].reserved
                         /\ l[DebtTokens[m]][who].reserved \in Nat
  BY UsersFacts, DebtTokenFacts, LedgerEntries DEF Reserves
<1>3. \A who \in Users : Reserves(l, m)[who] \in Nat
  BY <1>2
<1>4. SumFunctionOnSet(Reserves(l, m), Users) \in Nat
  BY <1>3, UsersFacts, SumType
<1> QED
  BY <1>1, <1>2, <1>4

LEMMA LentChange ==
    ASSUME NEW l \in Ledger, NEW k \in Ledger, NEW m \in MarketIds, NEW who \in Users,
           \A w \in Users : w # who => k[DebtTokens[m]][w] = l[DebtTokens[m]][w]
    PROVE  Lent(k, m) = Lent(l, m) - l[DebtTokens[m]][who].reserved
                           + k[DebtTokens[m]][who].reserved
<1> DEFINE f == Reserves(l, m)
           g == Reserves(k, m)
<1>1. /\ Lent(l, m) = SumFunctionOnSet(f, Users)
      /\ \A w \in Users : f[w] = l[DebtTokens[m]][w].reserved /\ f[w] \in Nat
  BY LentIs
<1>2. /\ Lent(k, m) = SumFunctionOnSet(g, Users)
      /\ \A w \in Users : g[w] = k[DebtTokens[m]][w].reserved /\ g[w] \in Nat
  BY LentIs
<1> HIDE DEF f, g
<1>3. \A w \in Users : f[w] \in Int /\ g[w] \in Int
  BY <1>1, <1>2
<1>4. \A w \in Users \ {who} : f[w] = g[w]
  BY <1>1, <1>2
<1>5. SumFunctionOnSet(g, Users) = SumFunctionOnSet(f, Users) - f[who] + g[who]
  BY <1>3, <1>4, UsersFacts, SumChange
<1> QED
  BY <1>1, <1>2, <1>5

LEMMA LentSame ==
    ASSUME NEW l \in Ledger, NEW k \in Ledger, NEW m \in MarketIds,
           \A w \in Users : k[DebtTokens[m]][w] = l[DebtTokens[m]][w]
    PROVE  Lent(k, m) = Lent(l, m)
<1>1. Reserves(k, m) = Reserves(l, m)
  BY DEF Reserves
<1> QED
  BY <1>1, LentIs

-----------------------------------------------------------------------------
(* The collateral that the accounts are credited with.                     *)

Credits(m) == [who \in Users |-> CollateralOf(m, who)]

LEMMA CreditedIs ==
    ASSUME NEW m \in MarketIds,
           account_collateral \in [MarketIds -> [Users -> Nat \cup {NoDebt}]]
    PROVE  /\ Credited(m) = SumFunctionOnSet(Credits(m), Users)
           /\ Credited(m) \in Nat
           /\ \A who \in Users : /\ Credits(m)[who] = CollateralOf(m, who)
                                  /\ CollateralOf(m, who) \in Nat
<1>1. Credited(m) = SumFunctionOnSet(Credits(m), Users)
  BY DEF Credited, SumFunction, Credits
<1>2. \A who \in Users : Credits(m)[who] = CollateralOf(m, who) /\ CollateralOf(m, who) \in Nat
  BY DEF CollateralOf, Credits
<1>3. \A who \in Users : Credits(m)[who] \in Nat
  BY <1>2
<1>4. SumFunctionOnSet(Credits(m), Users) \in Nat
  BY <1>3, UsersFacts, SumType
<1> QED
  BY <1>1, <1>2, <1>4

LEMMA CreditedChange ==
    ASSUME NEW m \in MarketIds, NEW who \in Users, NEW n \in Nat,
           account_collateral \in [MarketIds -> [Users -> Nat \cup {NoDebt}]],
           account_collateral' = [account_collateral EXCEPT ![m][who] = n]
    PROVE  /\ account_collateral' \in [MarketIds -> [Users -> Nat \cup {NoDebt}]]
           /\ Credited(m)' = Credited(m) - CollateralOf(m, who) + n
           /\ \A j \in MarketIds : j # m => Credited(j)' = Credited(j)
<1>1. account_collateral' \in [MarketIds -> [Users -> Nat \cup {NoDebt}]]
  OBVIOUS
<1>2. /\ \A w \in Users : w # who => CollateralOf(m, w)' = CollateralOf(m, w)
      /\ CollateralOf(m, who)' = n
  BY LendingTypes DEF CollateralOf
<1> DEFINE f == Credits(m)
           g == Credits(m)'
<1>3. /\ Credited(m) = SumFunctionOnSet(f, Users)
      /\ \A w \in Users : f[w] = CollateralOf(m, w) /\ f[w] \in Nat
  BY CreditedIs
<1>4. Credited(m)' = SumFunctionOnSet(g, Users)
  BY DEF Credited, SumFunction, Credits
<1>5. \A w \in Users : g[w] = CollateralOf(m, w)'
  BY DEF Credits
<1> HIDE DEF f, g
<1>6. \A w \in Users : f[w] \in Int /\ g[w] \in Int
  BY <1>2, <1>3, <1>5
<1>7. \A w \in Users \ {who} : f[w] = g[w]
  BY <1>2, <1>3, <1>5
<1>8. SumFunctionOnSet(g, Users) = SumFunctionOnSet(f, Users) - f[who] + g[who]
  BY <1>6, <1>7, UsersFacts, SumChange
<1>9. ASSUME NEW j \in MarketIds, j # m PROVE Credited(j)' = Credited(j)
  <2>1. \A w \in Users : CollateralOf(j, w)' = CollateralOf(j, w)
    BY <1>9 DEF CollateralOf
  <2> QED
    BY <2>1 DEF Credited
<1> QED
  BY <1>1, <1>2, <1>3, <1>4, <1>5, <1>8, <1>9

-----------------------------------------------------------------------------
(* What the open orders of a market offer.                                 *)

LEMMA SumUpTo ==
    ASSUME NEW f, NEW n \in Nat, \A i \in 1..(n + 1) : f[i] \in Int
    PROVE  SumFunctionOnSet(f, 1..(n + 1)) = f[n + 1] + SumFunctionOnSet(f, 1..n)
<1>1. /\ IsFiniteSet(1..n) /\ 1..(n + 1) = (1..n) \cup {n + 1} /\ n + 1 \notin 1..n
  BY FS_Interval
<1> QED
  BY <1>1, SumInsert

LEMMA SumShift ==
    ASSUME NEW f, NEW g, NEW n \in Nat, \A i \in 1..(n + 1) : f[i] \in Int,
           \A i \in 1..n : g[i] = f[i + 1]
    PROVE  SumFunctionOnSet(f, 1..(n + 1)) = f[1] + SumFunctionOnSet(g, 1..n)
<1> DEFINE F(j) == SumFunctionOnSet(f, 1..j)
           G(j) == SumFunctionOnSet(g, 1..j)
           bad == {j \in 0..n : F(j + 1) # f[1] + G(j)}
<1>1. ASSUME NEW j \in 0..n PROVE F(j + 1) = f[j + 1] + F(j) /\ F(j) \in Int
  <2>1. j \in Nat /\ \A i \in 1..(j + 1) : f[i] \in Int
    OBVIOUS
  <2>2. IsFiniteSet(1..j) /\ \A i \in 1..j : f[i] \in Int
    BY <2>1, FS_Interval
  <2>3. F(j) \in Int
    BY <2>2, SumType
  <2> QED
    BY <2>1, <2>3, SumUpTo
<1>2. ASSUME NEW j \in 0..n, j # 0 PROVE G(j) = g[j] + G(j - 1) /\ G(j - 1) \in Int
  <2>1. j - 1 \in Nat /\ (j - 1) + 1 = j /\ \A i \in 1..j : g[i] \in Int
    BY <1>2
  <2>2. IsFiniteSet(1..(j - 1)) /\ \A i \in 1..(j - 1) : g[i] \in Int
    BY <2>1, FS_Interval
  <2>3. G(j - 1) \in Int
    BY <2>2, SumType
  <2>4. \A i \in 1..((j - 1) + 1) : g[i] \in Int
    BY <2>1
  <2>5. SumFunctionOnSet(g, 1..((j - 1) + 1)) = g[(j - 1) + 1] + SumFunctionOnSet(g, 1..(j - 1))
    BY <2>1, <2>4, SumUpTo
  <2> QED
    BY <2>1, <2>3, <2>5
<1>3. F(0) = 0 /\ G(0) = 0
  <2>1. 1..0 = {}
    OBVIOUS
  <2> QED
    BY <2>1, SumOfNone
<1> HIDE DEF F, G
<1>4. ASSUME bad # {} PROVE FALSE
  <2>1. bad \subseteq Nat
    OBVIOUS
  <2> HIDE DEF bad
  <2>2. PICK j \in bad : \A i \in bad : j <= i
    BY <1>4, <2>1, SmallestSize
  <2>3. j \in 0..n /\ F(j + 1) # f[1] + G(j)
    BY DEF bad
  <2>4. CASE j = 0
    <3>1. F(0 + 1) = f[0 + 1] + F(0)
      BY <1>1
    <3>2. f[1] \in Int
      OBVIOUS
    <3> QED
      BY <1>3, <2>3, <2>4, <3>1, <3>2
  <2>5. CASE j # 0
    <3>1. j - 1 \in 0..n /\ j - 1 \notin bad /\ j \in 1..n
      BY <2>2, <2>3, <2>5
    <3>2. F((j - 1) + 1) = f[1] + G(j - 1)
      BY <3>1 DEF bad
    <3>3. F(j + 1) = f[j + 1] + F(j) /\ G(j) = g[j] + G(j - 1) /\ G(j - 1) \in Int
      BY <1>1, <1>2, <2>3, <2>5
    <3>4. g[j] = f[j + 1] /\ f[j + 1] \in Int /\ f[1] \in Int /\ (j - 1) + 1 = j
      BY <2>3, <3>1
    <3> QED
      BY <2>3, <3>2, <3>3, <3>4
  <2> QED
    BY <2>4, <2>5
<1> QED
  BY <1>4 DEF F, G

Amounts(os, m) == [i \in DOMAIN os |-> IF os[i].market = m THEN os[i].amount ELSE 0]
AmountFor(o, m) == IF o.market = m THEN o.amount ELSE 0

LEMMA OfferedIs ==
    ASSUME NEW os \in Seq(Orders), NEW m \in MarketIds
    PROVE  /\ Offered(os, m) = SumFunctionOnSet(Amounts(os, m), 1..Len(os))
           /\ Offered(os, m) \in Nat
           /\ \A i \in 1..Len(os) : /\ os[i] \in Orders
                                    /\ Amounts(os, m)[i] = AmountFor(os[i], m)
                                    /\ AmountFor(os[i], m) \in Nat
<1>1. DOMAIN os = 1..Len(os) /\ Len(os) \in Nat /\ \A i \in 1..Len(os) : os[i] \in Orders
  BY LenProperties
<1>2. Offered(os, m) = SumFunctionOnSet(Amounts(os, m), 1..Len(os))
  BY <1>1 DEF Offered, Amounts
<1>3. \A i \in 1..Len(os) : Amounts(os, m)[i] = AmountFor(os[i], m) /\ AmountFor(os[i], m) \in Nat
  BY <1>1 DEF Amounts, AmountFor, Orders
<1>4. IsFiniteSet(1..Len(os)) /\ \A i \in 1..Len(os) : Amounts(os, m)[i] \in Nat
  <2>1. 1 \in Int /\ Len(os) \in Int
    BY <1>1
  <2>2. IsFiniteSet(1..Len(os))
    BY <2>1, FS_Interval
  <2> QED
    BY <1>3, <2>2
<1>5. SumFunctionOnSet(Amounts(os, m), 1..Len(os)) \in Nat
  BY <1>4, SumType
<1> QED
  BY <1>1, <1>2, <1>3, <1>5

LEMMA OfferedAppend ==
    ASSUME NEW os \in Seq(Orders), NEW o \in Orders, NEW m \in MarketIds
    PROVE  /\ Append(os, o) \in Seq(Orders)
           /\ Offered(Append(os, o), m) = Offered(os, m) + AmountFor(o, m)
           /\ AmountFor(o, m) \in Nat
<1> DEFINE f == Amounts(Append(os, o), m)
           g == Amounts(os, m)
           n == Len(os)
<1>1. /\ Append(os, o) \in Seq(Orders) /\ Len(Append(os, o)) = n + 1 /\ n \in Nat
      /\ Append(os, o)[n + 1] = o /\ \A i \in 1..n : Append(os, o)[i] = os[i]
  BY LenProperties
<1>2. /\ Offered(Append(os, o), m) = SumFunctionOnSet(f, 1..(n + 1))
      /\ \A i \in 1..(n + 1) : f[i] = AmountFor(Append(os, o)[i], m) /\ f[i] \in Nat
  BY <1>1, OfferedIs
<1>3. /\ Offered(os, m) = SumFunctionOnSet(g, 1..n) /\ Offered(os, m) \in Nat
      /\ \A i \in 1..n : g[i] = AmountFor(os[i], m)
  BY OfferedIs
<1> HIDE DEF f, g
<1>4. \A i \in 1..(n + 1) : f[i] \in Int
  BY <1>2
<1>5. SumFunctionOnSet(f, 1..(n + 1)) = f[n + 1] + SumFunctionOnSet(f, 1..n)
  BY <1>1, <1>4, SumUpTo
<1>6. \A i \in 1..n : f[i] = g[i]
  BY <1>1, <1>2, <1>3
<1>7. SumFunctionOnSet(f, 1..n) = SumFunctionOnSet(g, 1..n)
  <2>1. 1 \in Int /\ n \in Int
    BY <1>1
  <2>2. IsFiniteSet(1..n)
    BY <2>1, FS_Interval
  <2> QED
    BY <1>6, <2>2, SumSame
<1>8. f[n + 1] = AmountFor(o, m) /\ f[n + 1] \in Nat
  BY <1>1, <1>2
<1> QED
  BY <1>1, <1>2, <1>3, <1>5, <1>7, <1>8

LEMMA OfferedTail ==
    ASSUME NEW os \in Seq(Orders), os # <<>>, NEW m \in MarketIds
    PROVE  /\ Tail(os) \in Seq(Orders) /\ Head(os) \in Orders
           /\ Offered(os, m) = AmountFor(Head(os), m) + Offered(Tail(os), m)
           /\ AmountFor(Head(os), m) \in Nat /\ Offered(Tail(os), m) \in Nat
<1> DEFINE f == Amounts(os, m)
           g == Amounts(Tail(os), m)
           n == Len(os) - 1
<1>1. /\ Tail(os) \in Seq(Orders) /\ Len(Tail(os)) = n /\ n \in Nat /\ Len(os) = n + 1
      /\ Head(os) = os[1] /\ \A i \in 1..n : Tail(os)[i] = os[i + 1]
  BY HeadTailProperties, LenProperties, EmptySeq
<1>2. /\ Offered(os, m) = SumFunctionOnSet(f, 1..(n + 1))
      /\ \A i \in 1..(n + 1) :
            f[i] = AmountFor(os[i], m) /\ f[i] \in Nat /\ os[i] \in Orders
  BY <1>1, OfferedIs
<1>3. /\ Offered(Tail(os), m) = SumFunctionOnSet(g, 1..n) /\ Offered(Tail(os), m) \in Nat
      /\ \A i \in 1..n : g[i] = AmountFor(Tail(os)[i], m)
  BY <1>1, OfferedIs
<1> HIDE DEF f, g, n
<1>4. \A i \in 1..(n + 1) : f[i] \in Int
  BY <1>2
<1>5. \A i \in 1..n : i + 1 \in 1..(n + 1)
  BY <1>1
<1>6. \A i \in 1..n : g[i] = f[i + 1]
  BY <1>1, <1>2, <1>3, <1>5
<1>7. SumFunctionOnSet(f, 1..(n + 1)) = f[1] + SumFunctionOnSet(g, 1..n)
  BY <1>1, <1>4, <1>6, SumShift
<1>8. 1 \in 1..(n + 1)
  BY <1>1
<1> QED
  BY <1>1, <1>2, <1>3, <1>7, <1>8

-----------------------------------------------------------------------------
(* A market whose account and debt token are left alone stays backed.      *)

SameFunds(l, k, m) ==
    /\ \A a \in AssetIds \ {NativeAsset} : k[a][MarketAccount(m)] = l[a][MarketAccount(m)]
    /\ \A who \in Accounts : k[DebtTokens[m]][who] = l[DebtTokens[m]][who]

Owes(cs, m) == StrategyBalance(cs, markets[m].borrow, MarketAccount(m))

LEMMA OwesType ==
    ASSUME LendingInv, NEW cs \in Structures, NEW m \in MarketIds, MarketExists(m)
    PROVE  Owes(cs, m) \in Nat
<1>1. markets[m].borrow \in VaultIds /\ MarketAccount(m) \in Strategists
  BY MarketNames, MarketAccounts
<1>2. cs[markets[m].borrow][MarketAccount(m)] \in StrategyOverview \cup {NoStrategy}
  BY <1>1 DEF Structures
<1> QED
  BY <1>2 DEF Owes, StrategyBalance, StrategyOverview

LEMMA MarketKept ==
    ASSUME LendingInv, NEW l \in Ledger, NEW k \in Ledger, NEW cs \in Structures,
           NEW xs \in Structures, NEW os \in Seq(Orders), NEW ps \in Seq(Orders),
           NEW m \in MarketIds, SameFunds(l, k, m),
           MarketExists(m) => Owes(xs, m) <= Owes(cs, m) /\ Offered(ps, m) <= Offered(os, m)
    PROVE  /\ DebtsHeld(l, m) => DebtsHeld(k, m)
           /\ MarketExists(m) => (Backed(l, cs, os, m) => Backed(k, xs, ps, m))
           /\ Unused(l, m) => Unused(k, m)
<1> DEFINE acc == MarketAccount(m)
           c == markets[m].collateral
           b == BorrowAsset(m)
<1>1. acc \in Accounts /\ Users \subseteq Accounts
  BY MarketAccounts, UsersFacts
<1>2. DebtsHeld(l, m) => DebtsHeld(k, m)
  BY <1>1 DEF DebtsHeld, SameFunds
<1>3. Unused(l, m) => Unused(k, m)
  BY DEF Unused, SameFunds, TotalBalance
<1>4. ASSUME MarketExists(m), Backed(l, cs, os, m) PROVE Backed(k, xs, ps, m)
  <2>1. c \in AssetIds \ {NativeAsset} /\ b \in AssetIds \ {NativeAsset}
    BY <1>4, MarketNames
  <2> HIDE DEF c, b, acc
  <2>2. k[c][acc] = l[c][acc] /\ k[b][acc] = l[b][acc]
    BY <2>1 DEF SameFunds, acc
  <2>3. Lent(k, m) = Lent(l, m) /\ Lent(l, m) \in Nat
    BY <1>1, LentSame, LentIs DEF SameFunds
  <2>4. /\ TotalBalance(k, c, acc) = TotalBalance(l, c, acc)
        /\ TotalBalance(k, b, acc) = TotalBalance(l, b, acc)
        /\ TotalBalance(l, b, acc) \in Nat
        /\ l[c][acc].reserved \in Nat
    BY <1>1, <2>1, <2>2, IssuanceIs, LedgerEntries DEF TotalBalance, acc
  <2>5. /\ Credited(m) = TotalBalance(l, c, acc) + soldCollateral[m]
        /\ Offered(os, m) <= l[c][acc].reserved
        /\ Owes(cs, m) <= TotalBalance(l, b, acc) + Lent(l, m)
    BY <1>4 DEF Backed, c, acc, b, Owes, TotalCash
  <2>6. /\ Offered(os, m) \in Nat /\ Offered(ps, m) \in Nat
        /\ Owes(cs, m) \in Nat /\ Owes(xs, m) \in Nat
    BY <1>4, OfferedIs, OwesType
  <2>7. /\ Credited(m) = TotalBalance(k, c, acc) + soldCollateral[m]
        /\ Offered(ps, m) <= k[c][acc].reserved
        /\ Owes(xs, m) <= TotalBalance(k, b, acc) + Lent(k, m)
    BY <1>4, <2>2, <2>3, <2>4, <2>5, <2>6
  <2> QED
    BY <2>7 DEF Backed, c, acc, b, Owes, TotalCash
<1> QED
  BY <1>2, <1>3, <1>4

(* At most the funds of one market move, and it is still backed.           *)
LEMMA OneMarketMoves ==
    ASSUME LendingInv, NEW l, NEW cs, NEW os \in Seq(Orders), FundsSound(l, cs, os),
           NEW k \in Ledger, NEW xs \in Structures, NEW ps \in Seq(Orders),
           NEW m \in MarketIds,
           \A j \in MarketIds : j # m => SameFunds(l, k, j),
           \A j \in MarketIds : j # m /\ MarketExists(j) =>
              Owes(xs, j) <= Owes(cs, j) /\ Offered(ps, j) <= Offered(os, j),
           DebtsHeld(k, m), MarketExists(m), Backed(k, xs, ps, m)
    PROVE  FundsSound(k, xs, ps)
<1>1. l \in Ledger /\ cs \in Structures
  BY DEF FundsSound
<1>2. ASSUME NEW j \in MarketIds
      PROVE  /\ DebtsHeld(k, j)
             /\ MarketExists(j) => Backed(k, xs, ps, j)
             /\ ~MarketExists(j) => Unused(k, j)
  <2>1. CASE j = m
    BY <2>1
  <2>2. CASE j # m
    <3>1. /\ DebtsHeld(l, j)
          /\ MarketExists(j) => Backed(l, cs, os, j)
          /\ ~MarketExists(j) => Unused(l, j)
      BY DEF FundsSound
    <3>2. /\ DebtsHeld(l, j) => DebtsHeld(k, j)
          /\ MarketExists(j) => (Backed(l, cs, os, j) => Backed(k, xs, ps, j))
          /\ Unused(l, j) => Unused(k, j)
      BY <1>1, <2>2, MarketKept
    <3> QED
      BY <3>1, <3>2
  <2> QED
    BY <2>1, <2>2
<1> QED
  BY <1>2 DEF FundsSound

(* No funds of markets move.                                               *)
LEMMA NoMarketMoves ==
    ASSUME LendingInv, NEW l, NEW cs, NEW os \in Seq(Orders), FundsSound(l, cs, os),
           NEW k \in Ledger, NEW xs \in Structures,
           \A j \in MarketIds : SameFunds(l, k, j),
           \A j \in MarketIds : MarketExists(j) => Owes(xs, j) <= Owes(cs, j)
    PROVE  FundsSound(k, xs, os)
<1>1. l \in Ledger /\ cs \in Structures
  BY DEF FundsSound
<1>2. ASSUME NEW j \in MarketIds
      PROVE  /\ DebtsHeld(k, j)
             /\ MarketExists(j) => Backed(k, xs, os, j)
             /\ ~MarketExists(j) => Unused(k, j)
  <2>1. /\ DebtsHeld(l, j)
        /\ MarketExists(j) => Backed(l, cs, os, j)
        /\ ~MarketExists(j) => Unused(l, j)
    BY DEF FundsSound
  <2>2. Offered(os, j) <= Offered(os, j)
    BY OfferedIs
  <2>3. /\ DebtsHeld(l, j) => DebtsHeld(k, j)
        /\ MarketExists(j) => (Backed(l, cs, os, j) => Backed(k, xs, os, j))
        /\ Unused(l, j) => Unused(k, j)
    BY <1>1, <2>2, MarketKept
  <2> QED
    BY <2>1, <2>3
<1> QED
  BY <1>2 DEF FundsSound

-----------------------------------------------------------------------------
(* From the invariant of the next ledger in the terms of this state to the *)
(* invariant of the next state.                                            *)

SameTerms(j) ==
    /\ markets'[j].collateral = markets[j].collateral
    /\ markets'[j].borrow = markets[j].borrow
    /\ vaults'[markets[j].borrow].asset_id = vaults[markets[j].borrow].asset_id

LEMMA TermsKept ==
    ASSUME NEW j \in MarketIds, SameTerms(j), Credited(j)' = Credited(j),
           soldCollateral'[j] = soldCollateral[j],
           Backed(ledger', capital_structure', orders', j)
    PROVE  Backed(ledger, capital_structure, orders, j)'
<1>1. BorrowAsset(j)' = BorrowAsset(j)
  BY DEF BorrowAsset, SameTerms
<1> QED
  BY <1>1 DEF Backed, TotalCash, Lent, StrategyBalance, Offered, TotalBalance, SameTerms

LEMMA CreditedKept ==
    ASSUME account_collateral' = account_collateral, NEW j
    PROVE  Credited(j)' = Credited(j)
BY DEF Credited, CollateralOf

(* The rest of the invariant, when the terms of the markets do not change. *)
LEMMA TermsSound ==
    ASSUME LendingInv, markets' = markets,
           \A id \in VaultIds : /\ vaults'[id] = NoVault <=> vaults[id] = NoVault
                                /\ vaults'[id].asset_id = vaults[id].asset_id
                                /\ vaults'[id].lp_token_id = vaults[id].lp_token_id,
           vault_count' = vault_count
    PROVE  /\ \A m \in MarketIds : (MarketExists(m)' <=> MarketExists(m)) /\ MarketSound(m)'
           /\ \A m \in MarketIds : MarketExists(m) => SameTerms(m) /\ BorrowAsset(m)' = BorrowAsset(m)
           /\ \A id \in VaultIds : VaultLends(id)'
           /\ \A o \in Orders : OrderSound(o) => OrderSound(o)'
<1>1. \A id \in VaultIds : VaultLends(id)'
  BY DEF LendingInv, VaultLends, Exists
<1>2. \A m \in MarketIds : MarketExists(m)' <=> MarketExists(m)
  BY DEF MarketExists
<1>3. ASSUME NEW m \in MarketIds, MarketExists(m)
      PROVE  SameTerms(m) /\ BorrowAsset(m)' = BorrowAsset(m) /\ Exists(markets[m].borrow)'
  <2>1. markets[m].borrow \in VaultIds /\ Exists(markets[m].borrow)
    BY <1>3, MarketNames
  <2> QED
    BY <2>1 DEF SameTerms, BorrowAsset, Exists
<1>4. ASSUME NEW m \in MarketIds PROVE MarketSound(m)'
  <2>1. MarketSound(m)
    BY DEF LendingInv
  <2> QED
    BY <1>2, <1>3, <2>1 DEF MarketSound
<1>5. ASSUME NEW o \in Orders, OrderSound(o) PROVE OrderSound(o)'
  <2>1. o.market \in MarketIds /\ MarketExists(o.market)
    BY <1>5 DEF Orders, OrderSound
  <2> QED
    BY <1>2, <1>3, <1>5, <2>1 DEF OrderSound
<1> QED
  BY <1>1, <1>2, <1>3, <1>4, <1>5

LEMMA FundsStay ==
    ASSUME \A m \in MarketIds : MarketExists(m)' <=> MarketExists(m),
           \A m \in MarketIds : MarketExists(m) => SameTerms(m),
           account_collateral' = account_collateral, soldCollateral' = soldCollateral,
           FundsSound(ledger', capital_structure', orders')
    PROVE  FundsSound(ledger, capital_structure, orders)'
<1>1. ledger' \in Ledger /\ capital_structure' \in Structures
  BY DEF FundsSound
<1>2. ASSUME NEW j \in MarketIds
      PROVE  /\ DebtsHeld(ledger, j)'
             /\ MarketExists(j)' => Backed(ledger, capital_structure, orders, j)'
             /\ ~MarketExists(j)' => Unused(ledger, j)'
  <2>1. /\ DebtsHeld(ledger', j)
        /\ MarketExists(j) => Backed(ledger', capital_structure', orders', j)
        /\ ~MarketExists(j) => Unused(ledger', j)
    BY DEF FundsSound
  <2>2. DebtsHeld(ledger, j)'
    BY <2>1 DEF DebtsHeld
  <2>3. ~MarketExists(j)' => Unused(ledger, j)'
    BY <2>1 DEF Unused, TotalBalance
  <2>4. ASSUME MarketExists(j)' PROVE Backed(ledger, capital_structure, orders, j)'
    BY <2>1, <2>4, TermsKept, CreditedKept
  <2> QED
    BY <2>2, <2>3, <2>4
<1> QED
  BY <1>1, <1>2 DEF FundsSound

(* Loans and funds may change, and what is said of them is to be shown;    *)
(* the rest follows.                                                       *)
LEMMA LoansStay ==
    ASSUME LendingInv, LoanBooks', markets' = markets, vault_count' = vault_count,
           \A id \in VaultIds : /\ vaults'[id] = NoVault <=> vaults[id] = NoVault
                                /\ vaults'[id].asset_id = vaults[id].asset_id
                                /\ vaults'[id].lp_token_id = vaults[id].lp_token_id,
           account_collateral' = account_collateral, soldCollateral' = soldCollateral,
           \A m \in MarketIds, who \in Users : Loan(m, who)',
           \A i \in DOMAIN orders' : OrderSound(orders'[i]),
           FundsSound(ledger', capital_structure', orders')
    PROVE  LendingInv'
<1>1. /\ \A m \in MarketIds : (MarketExists(m)' <=> MarketExists(m)) /\ MarketSound(m)'
      /\ \A m \in MarketIds : MarketExists(m) => SameTerms(m)
      /\ \A id \in VaultIds : VaultLends(id)'
      /\ \A o \in Orders : OrderSound(o) => OrderSound(o)'
  BY TermsSound
<1>2. FundsSound(ledger, capital_structure, orders)'
  BY <1>1, FundsStay
<1>3. ASSUME NEW i \in DOMAIN orders' PROVE OrderSound(orders[i])'
  <2>1. orders' \in Seq(Orders)
    BY DEF LoanBooks
  <2>2. orders'[i] \in Orders
    BY <2>1
  <2>3. \A o \in Orders : OrderSound(o) => OrderSound(o)'
    BY <1>1
  <2>4. OrderSound(orders'[i])
    OBVIOUS
  <2> QED
    BY <2>2, <2>3, <2>4 DEF OrderSound, MarketExists, BorrowAsset
<1>4. ASSUME NEW m \in MarketIds
      PROVE  (~MarketExists(m) => soldCollateral[m] = 0)'
  <2>1. ~MarketExists(m) => soldCollateral[m] = 0
    BY DEF LendingInv
  <2> QED
    BY <1>1, <2>1
<1> QED
  BY <1>1, <1>2, <1>3, <1>4 DEF LendingInv

-----------------------------------------------------------------------------
(* Calls of the vault, prices, and steps that change nothing.              *)

SameVaults ==
    /\ vaults' \in [VaultIds -> VaultInfo \cup {NoVault}]
    /\ \A id \in VaultIds : /\ vaults'[id] = NoVault <=> vaults[id] = NoVault
                            /\ vaults'[id].asset_id = vaults[id].asset_id
                            /\ vaults'[id].lp_token_id = vaults[id].lp_token_id

LEMMA LoansSame ==
    ASSUME LendingInv, markets' = markets, borrow_index' = borrow_index,
           debt_index' = debt_index, account_collateral' = account_collateral
    PROVE  \A m \in MarketIds, who \in Users : Loan(m, who)'
BY DEF LendingInv, Loan, OwedCoversPrincipal, MarketExists

LEMMA FundsMove ==
    ASSUME LendingInv, SameVaults,
           UNCHANGED <<now, vault_count, lp_tokens_to_vaults, marketVars, loanVars,
                       orders, soldCollateral>>,
           FundsSound(ledger', capital_structure', orders)
    PROVE  LendingInv'
<1>1. /\ now' = now /\ vault_count' = vault_count /\ lp_tokens_to_vaults' = lp_tokens_to_vaults
      /\ lending_count' = lending_count /\ markets' = markets /\ borrow_index' = borrow_index
      /\ last_block_timestamp' = last_block_timestamp /\ debt_index' = debt_index
      /\ borrow_timestamp' = borrow_timestamp /\ borrow_rent' = borrow_rent
      /\ account_collateral' = account_collateral /\ orders' = orders
      /\ soldCollateral' = soldCollateral
  BY DEF marketVars, loanVars
<1>2. ledger' \in Ledger /\ capital_structure' \in Structures
  BY DEF FundsSound
<1>3. LoanBooks'
  <2>1. VaultTypeOK'
    BY <1>1, <1>2 DEF LendingInv, LoanBooks, VaultTypeOK, SameVaults, Structures
  <2>2. LendingTypeOK'
    BY <1>1, <1>2 DEF LendingInv, LoanBooks, LendingTypeOK, MarketExists
  <2> QED
    BY <1>1, <2>1, <2>2 DEF LendingInv, LoanBooks
<1>4. \A m \in MarketIds, who \in Users : Loan(m, who)'
  BY <1>1, LoansSame
<1>5. \A i \in DOMAIN orders' : OrderSound(orders'[i])
  BY <1>1 DEF LendingInv
<1>6. FundsSound(ledger', capital_structure', orders')
  BY <1>1
<1> QED
  BY <1>1, <1>3, <1>4, <1>5, <1>6, LoansStay DEF SameVaults

LEMMA VaultsSame ==
    ASSUME LendingInv, vaults' = vaults
    PROVE  SameVaults
BY DEF LendingInv, LoanBooks, VaultTypeOK, SameVaults

LEMMA InvParts ==
    ASSUME LendingInv
    PROVE  /\ ledger \in Ledger /\ capital_structure \in Structures /\ orders \in Seq(Orders)
           /\ FundsSound(ledger, capital_structure, orders)
           /\ borrow_index \in [MarketIds -> Nat] /\ lending_count \in 0..MaxLendingCount
           /\ {debt_index, borrow_timestamp, borrow_rent, account_collateral}
                 \subseteq [MarketIds -> [Users -> Nat \cup {NoDebt}]]
           /\ now \in Nat /\ last_block_timestamp \in 0..now
           /\ \A m \in MarketIds : MarketExists(m) <=> m <= lending_count
BY DEF LendingInv, LoanBooks, VaultTypeOK, LendingTypeOK, FundsSound, Structures

LEMMA OwesSame ==
    ASSUME LendingInv, NEW cs \in Structures
    PROVE  \A j \in MarketIds : MarketExists(j) => Owes(cs, j) <= Owes(cs, j)
BY OwesType

(* What vaults hand out.                                                   *)
LEMMA LentVaults ==
    ASSUME LendingInv, NEW id \in VaultIds, Exists(id)
    PROVE  /\ vaults[id] \in VaultInfo
           /\ vaults[id].asset_id \in AssetIds /\ vaults[id].asset_id \notin DebtIds
           /\ vaults[id].lp_token_id \in AssetIds /\ vaults[id].lp_token_id \notin DebtIds
           /\ VaultAccount(id) \in Accounts
<1>1. vaults[id] \in VaultInfo
  BY DEF LendingInv, LoanBooks, VaultTypeOK, Exists
<1> QED
  BY <1>1, UsersFacts DEF VaultInfo, LendingInv, VaultLends

(* An asset that is no debt token moves between accounts that are not of   *)
(* markets.                                                                *)
Outside(who) == who \in Accounts /\ \A m \in MarketIds : who # MarketAccount(m)

LEMMA OutsideMoves ==
    ASSUME NEW l, NEW k, NEW a \in AssetIds, a \notin DebtIds, NEW S,
           \A w \in S : Outside(w),
           \A b \in AssetIds, w \in Accounts : b # a \/ w \notin S => k[b][w] = l[b][w]
    PROVE  \A j \in MarketIds : SameFunds(l, k, j)
<1> TAKE j \in MarketIds
<1>1. MarketAccount(j) \in Accounts /\ MarketAccount(j) \notin S
  BY MarketAccounts DEF Outside
<1>2. DebtTokens[j] \in AssetIds /\ DebtTokens[j] # a
  BY DebtTokenFacts
<1> QED
  BY <1>1, <1>2 DEF SameFunds

(* Native funds may move anywhere.                                         *)
LEMMA NativeMove ==
    ASSUME NEW l, NEW k,
           \A b \in AssetIds, w \in Accounts : b # NativeAsset => k[b][w] = l[b][w]
    PROVE  \A j \in MarketIds : SameFunds(l, k, j)
<1> TAKE j \in MarketIds
<1>1. MarketAccount(j) \in Accounts /\ DebtTokens[j] \in AssetIds /\ DebtTokens[j] # NativeAsset
  BY MarketAccounts, DebtTokenFacts
<1> QED
  BY <1>1 DEF SameFunds

LEMMA SameFundsChain ==
    ASSUME NEW l, NEW k, NEW h, NEW j \in MarketIds, SameFunds(l, k, j), SameFunds(k, h, j)
    PROVE  SameFunds(l, h, j)
BY DEF SameFunds

LEMMA OutsideUsers ==
    /\ \A who \in Users : Outside(who)
    /\ \A id \in VaultIds : Outside(VaultAccount(id))
BY UsersFacts, MarketAccounts DEF Outside

(* What is on hold is not touched by a deposit.                            *)
LEMMA DepositInto ==
    ASSUME NEW l \in Ledger, NEW a \in AssetIds, NEW who \in Accounts, NEW n \in Nat,
           NEW k, k = Deposit(l, a, who, n)
    PROVE  /\ k \in Ledger
           /\ k[a][who].free = l[a][who].free + n
           /\ k[a][who].reserved = l[a][who].reserved
           /\ TotalBalance(k, a, who) = TotalBalance(l, a, who) + n
           /\ \A b \in AssetIds, w \in Accounts : b # a \/ w # who => k[b][w] = l[b][w]
<1>1. k[a][who] = [l[a][who] EXCEPT !.free = @ + n]
  BY DEF Deposit, Ledger, Entry
<1>2. k[a][who].reserved = l[a][who].reserved
  BY <1>1, LedgerEntries DEF Entry
<1> QED
  BY <1>2, DepositFacts, DepositTotal

LEMMA DepositVaultBacked ==
    ASSUME LendingInv, NEW who \in Users, NEW id \in VaultIds, NEW n \in Nat,
           DepositVault(who, id, n), UNCHANGED lendingVars
    PROVE  LendingInv'
<1> DEFINE v == vaults[id]
           lp == LpForDeposit(ledger, capital_structure, id, n)
           moved == Transfer(ledger, v.asset_id, who, VaultAccount(id), n)
<1>1. /\ Exists(id) /\ KeepsAlive(ledger, v.asset_id, who, VaultAccount(id), n)
      /\ ledger' = Mint(moved, v.lp_token_id, who, lp)
      /\ UNCHANGED <<now, vaultVars>>
  BY DEF DepositVault, KeepsAlive
<1>2. /\ v.asset_id \in AssetIds /\ v.asset_id \notin DebtIds
      /\ v.lp_token_id \in AssetIds /\ v.lp_token_id \notin DebtIds
      /\ VaultAccount(id) \in Accounts /\ who \in Accounts
  BY <1>1, LentVaults, UsersFacts
<1>3. ledger \in Ledger /\ capital_structure \in Structures
  BY InvParts
<1>4. lp \in Nat
  <2>1. Aum(ledger, capital_structure, id) \in Nat
    BY <1>2, <1>3, AumType
  <2>2. Issuance(ledger, v.lp_token_id) \in Nat
    BY <1>2, <1>3, IssuanceIs
  <2>3. MulDiv(n, Issuance(ledger, v.lp_token_id), Aum(ledger, capital_structure, id)) \in Nat
    BY <2>1, <2>2, MulDivFacts
  <2> QED
    BY <2>3 DEF LpForDeposit
<1> HIDE DEF v, lp
<1>5. /\ moved \in Ledger
      /\ \A b \in AssetIds, w \in Accounts :
            b # v.asset_id \/ w \notin {who, VaultAccount(id)} => moved[b][w] = ledger[b][w]
  BY <1>1, <1>2, <1>3, KeepAliveTransfer
<1> HIDE DEF moved
<1>6. /\ ledger' \in Ledger
      /\ \A b \in AssetIds, w \in Accounts :
            b # v.lp_token_id \/ w \notin {who} => ledger'[b][w] = moved[b][w]
  <2>1. ledger' = Deposit(moved, v.lp_token_id, who, lp)
    BY <1>1 DEF Mint
  <2>2. moved \in Ledger /\ v.lp_token_id \in AssetIds /\ who \in Accounts /\ lp \in Nat
    BY <1>2, <1>4, <1>5
  <2>3. /\ ledger' \in Ledger
        /\ \A b \in AssetIds, w \in Accounts :
              b # v.lp_token_id \/ w # who => ledger'[b][w] = moved[b][w]
    BY <2>1, <2>2, DepositInto
  <2> QED
    BY <2>3
<1>7. \A j \in MarketIds : SameFunds(ledger, moved, j)
  <2>1. \A w \in {who, VaultAccount(id)} : Outside(w)
    BY OutsideUsers
  <2> QED
    BY <1>2, <1>5, <2>1, OutsideMoves
<1>8. \A j \in MarketIds : SameFunds(moved, ledger', j)
  <2>1. \A w \in {who} : Outside(w)
    BY OutsideUsers
  <2> QED
    BY <1>2, <1>6, <2>1, OutsideMoves
<1>9. \A j \in MarketIds : SameFunds(ledger, ledger', j)
  BY <1>7, <1>8, SameFundsChain
<1>10. FundsSound(ledger', capital_structure, orders)
  BY <1>3, <1>6, <1>9, InvParts, NoMarketMoves, OwesSame
<1>11. SameVaults /\ capital_structure' = capital_structure
  BY <1>1, VaultsSame DEF vaultVars
<1> QED
  BY <1>1, <1>10, <1>11, FundsMove DEF vaultVars, lendingVars

LEMMA WithdrawVaultBacked ==
    ASSUME LendingInv, NEW who \in Users, NEW id \in VaultIds, NEW n \in Nat,
           WithdrawVault(who, id, n), UNCHANGED lendingVars
    PROVE  LendingInv'
<1> DEFINE v == vaults[id]
           acc == VaultAccount(id)
           value == LpShareValue(ledger, capital_structure, id, n)
           burnt == Burn(ledger, v.lp_token_id, who, n)
           pays == KeepsAlive(burnt, v.asset_id, acc, who, value)
<1>1. /\ Exists(id) /\ CanWithdraw(ledger, v.lp_token_id, who, n, FALSE)
      /\ ledger' = IF pays THEN Transfer(burnt, v.asset_id, acc, who, value) ELSE burnt
      /\ UNCHANGED <<now, vaultVars>>
  BY DEF WithdrawVault, KeepsAlive
<1>2. /\ v.asset_id \in AssetIds /\ v.asset_id \notin DebtIds
      /\ v.lp_token_id \in AssetIds /\ v.lp_token_id \notin DebtIds
      /\ acc \in Accounts /\ who \in Accounts
  BY <1>1, LentVaults, UsersFacts
<1>3. ledger \in Ledger /\ capital_structure \in Structures
  BY InvParts
<1>4. value \in Nat
  <2>1. Aum(ledger, capital_structure, id) \in Nat
    BY <1>2, <1>3, AumType
  <2>2. Issuance(ledger, v.lp_token_id) \in Nat
    BY <1>2, <1>3, IssuanceIs
  <2> QED
    BY <2>1, <2>2, MulDivFacts DEF LpShareValue
<1> HIDE DEF v, value, acc
<1>5. /\ burnt \in Ledger
      /\ \A b \in AssetIds, w \in Accounts :
            b # v.lp_token_id \/ w \notin {who} => burnt[b][w] = ledger[b][w]
  <2>1. Unlocked(ledger, v.lp_token_id, who, n)
    BY <1>1 DEF CanWithdraw, Unlocked
  <2>2. CASE n = 0
    BY <1>3, <2>2 DEF Burn
  <2>3. CASE n # 0
    <3>1. burnt = Withdraw(ledger, v.lp_token_id, who, n)
      BY <2>3 DEF Burn
    <3> QED
      BY <1>2, <1>3, <2>1, <3>1, WithdrawFacts
  <2> QED
    BY <2>2, <2>3
<1> HIDE DEF burnt
<1>6. \A j \in MarketIds : SameFunds(ledger, burnt, j)
  <2>1. \A w \in {who} : Outside(w)
    BY OutsideUsers
  <2> QED
    BY <1>2, <1>5, <2>1, OutsideMoves
<1>7. ledger' \in Ledger /\ \A j \in MarketIds : SameFunds(burnt, ledger', j)
  <2>1. CASE ~pays
    BY <1>1, <1>5, <2>1 DEF SameFunds
  <2>2. CASE pays
    <3>1. /\ ledger' \in Ledger
          /\ \A b \in AssetIds, w \in Accounts :
                b # v.asset_id \/ w \notin {acc, who} => ledger'[b][w] = burnt[b][w]
      BY <1>1, <1>2, <1>4, <1>5, <2>2, KeepAliveTransfer
    <3>2. \A w \in {acc, who} : Outside(w)
      BY OutsideUsers DEF acc
    <3> QED
      BY <1>2, <3>1, <3>2, OutsideMoves
  <2> QED
    BY <2>1, <2>2
<1>8. \A j \in MarketIds : SameFunds(ledger, ledger', j)
  BY <1>6, <1>7, SameFundsChain
<1>9. FundsSound(ledger', capital_structure, orders)
  BY <1>3, <1>7, <1>8, InvParts, NoMarketMoves, OwesSame
<1>10. SameVaults /\ capital_structure' = capital_structure
  BY <1>1, VaultsSame DEF vaultVars
<1> QED
  BY <1>1, <1>9, <1>10, FundsMove DEF vaultVars, lendingVars

LEMMA CapabilitiesBacked ==
    ASSUME LendingInv, NEW id \in VaultIds, Exists(id), NEW flags \in SUBSET Flags,
           vaults' = [vaults EXCEPT ![id].capabilities = flags],
           UNCHANGED <<now, ledger, vaultBooks, lendingVars>>
    PROVE  LendingInv'
<1>1. vaults[id] \in VaultInfo /\ vaults \in [VaultIds -> VaultInfo \cup {NoVault}]
  BY LentVaults DEF LendingInv, LoanBooks, VaultTypeOK
<1> DEFINE new == [vaults[id] EXCEPT !.capabilities = flags]
<1>2. new \in VaultInfo /\ new.asset_id = vaults[id].asset_id
        /\ new.lp_token_id = vaults[id].lp_token_id
  BY <1>1 DEF VaultInfo
<1>3. new # NoVault /\ vaults[id] # NoVault
  BY <1>1, <1>2, VaultTypes
<1>4. vaults' = [vaults EXCEPT ![id] = new]
  OBVIOUS
<1> HIDE DEF new
<1>5. SameVaults
  BY <1>1, <1>2, <1>3, <1>4 DEF SameVaults
<1>6. FundsSound(ledger', capital_structure', orders)
  BY InvParts DEF vaultBooks
<1> QED
  BY <1>5, <1>6, FundsMove DEF vaultBooks, lendingVars

LEMMA LiquidateStrategyBacked ==
    ASSUME LendingInv, NEW who \in Users, NEW id \in VaultIds, NEW s \in Strategists,
           LiquidateStrategy(who, id, s), UNCHANGED lendingVars
    PROVE  LendingInv'
<1>1. /\ capital_structure' = [capital_structure EXCEPT ![id][s] = NoStrategy]
      /\ UNCHANGED <<now, ledger, vault_count, vaults, lp_tokens_to_vaults>>
  BY DEF LiquidateStrategy
<1>2. ledger \in Ledger /\ capital_structure \in Structures
  BY InvParts
<1>3. capital_structure' \in Structures
  BY <1>1, <1>2 DEF Structures
<1>4. ASSUME NEW j \in MarketIds, MarketExists(j)
      PROVE  Owes(capital_structure', j) <= Owes(capital_structure, j)
  <2> DEFINE i == markets[j].borrow
             t == MarketAccount(j)
  <2>1. i \in VaultIds /\ t \in Strategists
    BY <1>4, MarketNames, MarketAccounts
  <2>2. Owes(capital_structure, j) \in Nat
    BY <1>2, <1>4, OwesType
  <2> HIDE DEF i, t
  <2>3. \/ capital_structure'[i][t] = NoStrategy
        \/ capital_structure'[i][t] = capital_structure[i][t]
    BY <1>1, <1>2, <2>1 DEF Structures
  <2> QED
    BY <2>2, <2>3 DEF Owes, StrategyBalance, i, t
<1>5. \A j \in MarketIds : SameFunds(ledger, ledger, j)
  BY DEF SameFunds
<1>6. FundsSound(ledger, capital_structure', orders)
  BY <1>2, <1>3, <1>4, <1>5, InvParts, NoMarketMoves
<1>7. SameVaults
  BY <1>1, VaultsSame
<1> QED
  BY <1>1, <1>6, <1>7, FundsMove DEF lendingVars

-----------------------------------------------------------------------------
(* Collateral and its sale.                                                *)

(* Only the funds that the accounts S hold of the asset a move.            *)
OnlyMoves(l, k, a, S) ==
    \A b \in AssetIds, w \in Accounts : b # a \/ w \notin S => k[b][w] = l[b][w]

(* An asset that is no debt token moves in or out of one market's account. *)
MovesIn(l, k, m, a) ==
    /\ \A j \in MarketIds : j # m => SameFunds(l, k, j)
    /\ \A w \in Accounts : k[DebtTokens[m]][w] = l[DebtTokens[m]][w]
    /\ \A b \in AssetIds : b # a => k[b][MarketAccount(m)] = l[b][MarketAccount(m)]

LEMMA MarketMove ==
    ASSUME NEW l, NEW k, NEW m \in MarketIds, NEW a \in AssetIds, a \notin DebtIds, NEW S,
           \A w \in S : w = MarketAccount(m) \/ Outside(w), OnlyMoves(l, k, a, S)
    PROVE  MovesIn(l, k, m, a)
<1>1. MarketAccount(m) \in Accounts /\ DebtTokens[m] \in AssetIds /\ DebtTokens[m] # a
  BY MarketAccounts, DebtTokenFacts
<1>2. ASSUME NEW j \in MarketIds, j # m PROVE SameFunds(l, k, j)
  <2>1. MarketAccount(j) \in Accounts /\ MarketAccount(j) # MarketAccount(m)
    BY <1>2, MarketAccounts
  <2>2. MarketAccount(j) \notin S
    BY <2>1 DEF Outside
  <2>3. DebtTokens[j] \in AssetIds /\ DebtTokens[j] # a
    BY DebtTokenFacts
  <2> QED
    BY <2>1, <2>2, <2>3 DEF SameFunds, OnlyMoves
<1> QED
  BY <1>1, <1>2 DEF OnlyMoves, MovesIn

LEMMA DebtsSame ==
    ASSUME NEW l, NEW k, NEW m \in MarketIds, DebtsHeld(l, m),
           \A w \in Accounts : k[DebtTokens[m]][w] = l[DebtTokens[m]][w]
    PROVE  DebtsHeld(k, m)
BY MarketAccounts, UsersFacts DEF DebtsHeld

(* What the invariant says of a market that is there.                      *)
LEMMA BackedParts ==
    ASSUME LendingInv, NEW l, NEW cs, NEW os, FundsSound(l, cs, os), NEW m \in MarketIds,
           MarketExists(m)
    PROVE  /\ l \in Ledger /\ cs \in Structures
           /\ Credited(m) = TotalBalance(l, markets[m].collateral, MarketAccount(m))
                               + soldCollateral[m]
           /\ Offered(os, m) <= l[markets[m].collateral][MarketAccount(m)].reserved
           /\ Owes(cs, m) <= TotalBalance(l, BorrowAsset(m), MarketAccount(m)) + Lent(l, m)
           /\ DebtsHeld(l, m) /\ Lent(l, m) \in Nat /\ Owes(cs, m) \in Nat
           /\ Credited(m) \in Nat /\ soldCollateral[m] \in Nat
           /\ TotalBalance(l, markets[m].collateral, MarketAccount(m)) \in Nat
           /\ TotalBalance(l, BorrowAsset(m), MarketAccount(m)) \in Nat
<1>1. l \in Ledger /\ cs \in Structures /\ DebtsHeld(l, m) /\ Backed(l, cs, os, m)
  BY DEF FundsSound
<1>2. Lent(l, m) \in Nat
  BY <1>1, LentIs
<1>3. Owes(cs, m) \in Nat
  BY <1>1, OwesType
<1>4. Credited(m) \in Nat
  BY CreditedIs, InvParts
<1>5. soldCollateral[m] \in Nat
  BY DEF LendingInv, LoanBooks
<1>6. /\ TotalBalance(l, markets[m].collateral, MarketAccount(m)) \in Nat
      /\ TotalBalance(l, BorrowAsset(m), MarketAccount(m)) \in Nat
  BY <1>1, MarketNames, MarketAccounts, IssuanceIs
<1> QED
  BY <1>1, <1>2, <1>3, <1>4, <1>5, <1>6 DEF Backed, Owes, TotalCash

LEMMA MarketMoves ==
    ASSUME LendingInv, LoanBooks', markets' = markets, vaults' = vaults,
           vault_count' = vault_count, capital_structure' = capital_structure,
           borrow_index' = borrow_index, debt_index' = debt_index,
           NEW m \in MarketIds, MarketExists(m),
           \A j \in MarketIds : j # m =>
              /\ SameFunds(ledger, ledger', j)
              /\ Credited(j)' = Credited(j) /\ soldCollateral'[j] = soldCollateral[j]
              /\ Offered(orders', j) <= Offered(orders, j)
              /\ account_collateral'[j] = account_collateral[j],
           DebtsHeld(ledger', m),
           Credited(m)' = TotalBalance(ledger', markets[m].collateral, MarketAccount(m))
                              + soldCollateral'[m],
           Offered(orders', m) <= ledger'[markets[m].collateral][MarketAccount(m)].reserved,
           Owes(capital_structure, m)
              <= TotalBalance(ledger', BorrowAsset(m), MarketAccount(m)) + Lent(ledger', m),
           \A i \in DOMAIN orders' : OrderSound(orders'[i])
    PROVE  LendingInv'
<1>1. /\ \A j \in MarketIds : (MarketExists(j)' <=> MarketExists(j)) /\ MarketSound(j)'
      /\ \A j \in MarketIds : MarketExists(j) => SameTerms(j) /\ BorrowAsset(j)' = BorrowAsset(j)
      /\ \A id \in VaultIds : VaultLends(id)'
      /\ \A o \in Orders : OrderSound(o) => OrderSound(o)'
  BY TermsSound
<1>2. /\ ledger \in Ledger /\ capital_structure \in Structures /\ orders \in Seq(Orders)
      /\ FundsSound(ledger, capital_structure, orders)
      /\ ledger' \in Ledger /\ orders' \in Seq(Orders)
  BY InvParts DEF LoanBooks, LendingTypeOK
<1>3. ASSUME NEW j \in MarketIds, j # m
      PROVE  /\ DebtsHeld(ledger, j)'
             /\ MarketExists(j)' => Backed(ledger, capital_structure, orders, j)'
             /\ ~MarketExists(j)' => Unused(ledger, j)'
             /\ ~MarketExists(j)' => soldCollateral'[j] = 0
             /\ \A who \in Users : Loan(j, who)'
  <2>1. /\ DebtsHeld(ledger, j)
        /\ MarketExists(j) => Backed(ledger, capital_structure, orders, j)
        /\ ~MarketExists(j) => Unused(ledger, j)
    BY <1>2 DEF FundsSound
  <2>2. MarketExists(j) => /\ Owes(capital_structure, j) <= Owes(capital_structure, j)
                           /\ Offered(orders', j) <= Offered(orders, j)
    BY <1>2, <1>3, OwesSame
  <2>3. SameFunds(ledger, ledger', j)
    BY <1>3
  <2>4. /\ DebtsHeld(ledger, j) => DebtsHeld(ledger', j)
        /\ MarketExists(j) => (Backed(ledger, capital_structure, orders, j)
                                  => Backed(ledger', capital_structure, orders', j))
        /\ Unused(ledger, j) => Unused(ledger', j)
    BY <1>2, <2>2, <2>3, MarketKept
  <2>5. DebtsHeld(ledger, j)'
    BY <2>1, <2>4 DEF DebtsHeld
  <2>6. ~MarketExists(j)' => Unused(ledger, j)'
    BY <1>1, <2>1, <2>4 DEF Unused, TotalBalance
  <2>7. ASSUME MarketExists(j)' PROVE Backed(ledger, capital_structure, orders, j)'
    <3>1. Backed(ledger', capital_structure', orders', j)
      BY <1>1, <2>1, <2>4, <2>7
    <3>2. SameTerms(j) /\ Credited(j)' = Credited(j) /\ soldCollateral'[j] = soldCollateral[j]
      BY <1>1, <1>3, <2>7
    <3> QED
      BY <3>1, <3>2, TermsKept
  <2>8. ~MarketExists(j)' => soldCollateral'[j] = 0
    BY <1>1, <1>3 DEF LendingInv
  <2>9. ASSUME NEW who \in Users PROVE Loan(j, who)'
    <3>1. Loan(j, who) /\ account_collateral'[j] = account_collateral[j]
      BY <1>3 DEF LendingInv
    <3> QED
      BY <1>1, <3>1 DEF Loan, OwedCoversPrincipal
  <2> QED
    BY <2>5, <2>6, <2>7, <2>8, <2>9
<1>4. /\ DebtsHeld(ledger, m)'
      /\ MarketExists(m)'
      /\ Backed(ledger, capital_structure, orders, m)'
  <2>1. DebtsHeld(ledger, m)'
    BY DEF DebtsHeld
  <2>2. BorrowAsset(m)' = BorrowAsset(m) /\ MarketExists(m)'
    BY <1>1
  <2>3. Backed(ledger, capital_structure, orders, m)'
    BY <2>2 DEF Backed, TotalCash, Lent, StrategyBalance, Offered, TotalBalance, Owes
  <2> QED
    BY <2>1, <2>2, <2>3
<1>5. ASSUME NEW who \in Users PROVE Loan(m, who)'
  <2>1. Loan(m, who)
    BY DEF LendingInv
  <2> QED
    BY <1>4, <2>1 DEF Loan, OwedCoversPrincipal
<1>6. FundsSound(ledger, capital_structure, orders)'
  BY <1>2, <1>3, <1>4 DEF FundsSound
<1>7. ASSUME NEW i \in DOMAIN orders' PROVE OrderSound(orders[i])'
  <2>1. orders'[i] \in Orders /\ OrderSound(orders'[i])
    BY <1>2
  <2> QED
    BY <1>1, <2>1 DEF OrderSound, MarketExists, BorrowAsset
<1> QED
  BY <1>1, <1>3, <1>4, <1>5, <1>6, <1>7 DEF LendingInv

(* The books after collateral has been written.                            *)
LEMMA CollateralBooks ==
    ASSUME LendingInv, ledger' \in Ledger, CollateralFrame,
           account_collateral' \in [MarketIds -> [Users -> Nat \cup {NoDebt}]]
    PROVE  LoanBooks'
<1>1. VaultTypeOK'
  BY DEF LendingInv, LoanBooks, VaultTypeOK, CollateralFrame, vaultVars
<1>2. LendingTypeOK'
  BY DEF LendingInv, LoanBooks, LendingTypeOK, MarketExists, CollateralFrame, marketVars
<1> QED
  BY <1>1, <1>2 DEF LendingInv, LoanBooks, CollateralFrame, marketVars

LEMMA CollateralMoves ==
    ASSUME LendingInv, NEW m \in MarketIds, MarketExists(m), NEW who \in Users, NEW n \in Nat,
           CollateralFrame, account_collateral' = [account_collateral EXCEPT ![m][who] = n],
           ledger' \in Ledger,
           \A b \in AssetIds, w \in Accounts :
              b # markets[m].collateral \/ w \notin {who, MarketAccount(m)}
                 => ledger'[b][w] = ledger[b][w],
           ledger'[markets[m].collateral][MarketAccount(m)].reserved
              = ledger[markets[m].collateral][MarketAccount(m)].reserved,
           TotalBalance(ledger', markets[m].collateral, MarketAccount(m))
              = TotalBalance(ledger, markets[m].collateral, MarketAccount(m))
                   - CollateralOf(m, who) + n
    PROVE  LendingInv'
<1> DEFINE c == markets[m].collateral
           b == BorrowAsset(m)
           acc == MarketAccount(m)
<1>1. /\ c \in AssetIds /\ c \notin DebtIds /\ b \in AssetIds /\ b # c
  BY MarketNames
<1>2. /\ account_collateral' \in [MarketIds -> [Users -> Nat \cup {NoDebt}]]
      /\ Credited(m)' = Credited(m) - CollateralOf(m, who) + n
      /\ \A j \in MarketIds : j # m => Credited(j)' = Credited(j)
  BY CreditedChange, InvParts
<1>3. LoanBooks'
  BY <1>2, CollateralBooks
<1>4. FundsSound(ledger, capital_structure, orders) /\ orders \in Seq(Orders)
  BY InvParts
<1>5. /\ Credited(m) = TotalBalance(ledger, c, acc) + soldCollateral[m]
      /\ Offered(orders, m) <= ledger[c][acc].reserved
      /\ Owes(capital_structure, m) <= TotalBalance(ledger, b, acc) + Lent(ledger, m)
      /\ DebtsHeld(ledger, m) /\ soldCollateral[m] \in Nat /\ Credited(m) \in Nat
      /\ ledger \in Ledger /\ TotalBalance(ledger, c, acc) \in Nat
  BY <1>4, BackedParts
<1>6. CollateralOf(m, who) \in Nat
  BY CreditedIs, InvParts
<1>7. \A w \in {who, acc} : w = acc \/ Outside(w)
  BY OutsideUsers
<1> HIDE DEF c, b
<1>8. /\ \A j \in MarketIds : j # m => SameFunds(ledger, ledger', j)
      /\ \A w \in Accounts : ledger'[DebtTokens[m]][w] = ledger[DebtTokens[m]][w]
      /\ \A a \in AssetIds : a # c => ledger'[a][acc] = ledger[a][acc]
  <2> DEFINE S == {who, acc}
  <2>1. OnlyMoves(ledger, ledger', c, S)
    BY DEF c, OnlyMoves
  <2>2. \A w \in S : w = acc \/ Outside(w)
    BY <1>7
  <2> HIDE DEF S
  <2>3. MovesIn(ledger, ledger', m, c)
    BY <1>1, <2>1, <2>2, MarketMove
  <2> QED
    BY <2>3 DEF MovesIn, acc
<1>9. DebtsHeld(ledger', m)
  BY <1>5, <1>8, DebtsSame
<1>10. Lent(ledger', m) = Lent(ledger, m)
  BY <1>5, <1>8, LentSame, UsersFacts
<1>11. TotalBalance(ledger', b, acc) = TotalBalance(ledger, b, acc)
  BY <1>1, <1>8 DEF TotalBalance
<1>12. /\ markets' = markets /\ vaults' = vaults /\ vault_count' = vault_count
       /\ capital_structure' = capital_structure /\ borrow_index' = borrow_index
       /\ debt_index' = debt_index /\ orders' = orders /\ soldCollateral' = soldCollateral
  BY DEF CollateralFrame, vaultVars, marketVars
<1>13. \A j \in MarketIds : j # m =>
          /\ SameFunds(ledger, ledger', j)
          /\ Credited(j)' = Credited(j) /\ soldCollateral'[j] = soldCollateral[j]
          /\ Offered(orders', j) <= Offered(orders, j)
          /\ account_collateral'[j] = account_collateral[j]
  <2>1. \A j \in MarketIds : Offered(orders, j) <= Offered(orders, j)
    BY <1>4, OfferedIs
  <2>2. \A j \in MarketIds : j # m => account_collateral'[j] = account_collateral[j]
    BY InvParts
  <2> QED
    BY <1>2, <1>8, <1>12, <2>1, <2>2
<1>14. Credited(m)' = TotalBalance(ledger', c, acc) + soldCollateral'[m]
  BY <1>2, <1>5, <1>6, <1>12 DEF c
<1>15. Offered(orders', m) <= ledger'[c][acc].reserved
  BY <1>5, <1>12 DEF c
<1>16. Owes(capital_structure, m) <= TotalBalance(ledger', b, acc) + Lent(ledger', m)
  BY <1>5, <1>10, <1>11
<1>17. \A i \in DOMAIN orders' : OrderSound(orders'[i])
  BY <1>12 DEF LendingInv
<1> QED
  BY <1>3, <1>9, <1>12, <1>13, <1>14, <1>15, <1>16, <1>17, MarketMoves DEF b, c

LEMMA DepositCollateralBacked ==
    ASSUME LendingInv, NEW who \in Users, NEW m \in MarketIds, NEW n \in Nat,
           DepositCollateral(who, m, n)
    PROVE  LendingInv'
<1> DEFINE c == markets[m].collateral
           acc == MarketAccount(m)
<1>1. /\ MarketExists(m) /\ KeepsAlive(ledger, c, who, acc, n)
      /\ ledger' = Transfer(ledger, c, who, acc, n)
      /\ account_collateral' = [account_collateral EXCEPT ![m][who] = CollateralOf(m, who) + n]
      /\ CollateralFrame
  BY DEF DepositCollateral, KeepsAlive
<1>2. c \in AssetIds
  BY <1>1, MarketNames
<1>3. ledger \in Ledger
  BY InvParts
<1>4. who \in Accounts /\ acc \in Accounts /\ who # acc
  BY UsersFacts, MarketAccounts
<1>5. CollateralOf(m, who) \in Nat
  BY CreditedIs, InvParts
<1> HIDE DEF c, acc
<1>6. MayDie(ledger, c, who, acc, n)
  BY <1>1, KeptMayDie
<1>7. /\ ledger' \in Ledger
      /\ ledger'[c][acc].reserved = ledger[c][acc].reserved
      /\ TotalBalance(ledger', c, acc) = TotalBalance(ledger, c, acc) + n
      /\ \A b \in AssetIds, w \in Accounts :
            b # c \/ w \notin {who, acc} => ledger'[b][w] = ledger[b][w]
  BY <1>1, <1>2, <1>3, <1>4, <1>6, Payee
<1>8. TotalBalance(ledger, c, acc) \in Nat
  BY <1>2, <1>3, <1>4, IssuanceIs
<1>9. /\ CollateralOf(m, who) + n \in Nat
      /\ TotalBalance(ledger', c, acc)
            = TotalBalance(ledger, c, acc) - CollateralOf(m, who) + (CollateralOf(m, who) + n)
  BY <1>5, <1>7, <1>8
<1> QED
  BY <1>1, <1>7, <1>9, CollateralMoves DEF c, acc

LEMMA WithdrawCollateralBacked ==
    ASSUME LendingInv, NEW who \in Users, NEW m \in MarketIds, NEW n \in Nat,
           WithdrawCollateral(who, m, n)
    PROVE  LendingInv'
<1> DEFINE c == markets[m].collateral
           acc == MarketAccount(m)
<1>1. /\ MarketExists(m) /\ n <= CollateralOf(m, who) /\ KeepsAlive(ledger, c, acc, who, n)
      /\ ledger' = Transfer(ledger, c, acc, who, n)
      /\ account_collateral' = [account_collateral EXCEPT ![m][who] = CollateralOf(m, who) - n]
      /\ CollateralFrame
  BY DEF WithdrawCollateral, KeepsAlive
<1>2. c \in AssetIds
  BY <1>1, MarketNames
<1>3. ledger \in Ledger
  BY InvParts
<1>4. who \in Accounts /\ acc \in Accounts /\ who # acc
  BY UsersFacts, MarketAccounts
<1>5. CollateralOf(m, who) \in Nat
  BY CreditedIs, InvParts
<1> HIDE DEF c, acc
<1>6. /\ ledger' \in Ledger
      /\ ledger'[c][acc].reserved = ledger[c][acc].reserved
      /\ TotalBalance(ledger', c, acc) = TotalBalance(ledger, c, acc) - n
      /\ \A b \in AssetIds, w \in Accounts :
            b # c \/ w \notin {acc, who} => ledger'[b][w] = ledger[b][w]
  BY <1>1, <1>2, <1>3, <1>4, Payer
<1>7. TotalBalance(ledger, c, acc) \in Nat
  BY <1>2, <1>3, <1>4, IssuanceIs
<1>8. /\ CollateralOf(m, who) - n \in Nat
      /\ TotalBalance(ledger', c, acc)
            = TotalBalance(ledger, c, acc) - CollateralOf(m, who) + (CollateralOf(m, who) - n)
  BY <1>1, <1>5, <1>6, <1>7
<1>9. \A b \in AssetIds, w \in Accounts :
         b # c \/ w \notin {who, acc} => ledger'[b][w] = ledger[b][w]
  BY <1>6
<1> QED
  BY <1>1, <1>6, <1>8, <1>9, CollateralMoves DEF c, acc

Handed(l, a, who, n) == [l EXCEPT ![a][who].reserved = @ - n]

LEMMA HandedFacts ==
    ASSUME NEW l \in Ledger, NEW a \in AssetIds, NEW who \in Accounts, NEW n \in Nat,
           n <= l[a][who].reserved, NEW k, k = Handed(l, a, who, n)
    PROVE  /\ k \in Ledger
           /\ k[a][who].reserved = l[a][who].reserved - n
           /\ TotalBalance(k, a, who) = TotalBalance(l, a, who) - n
           /\ OnlyMoves(l, k, a, {who})
<1> DEFINE e == l[a][who]
           new == [e EXCEPT !.reserved = e.reserved - n]
<1>1. e \in Entry /\ e.free \in Nat /\ e.reserved \in Nat /\ n <= e.reserved
  BY LedgerEntries
<1>2. k = [l EXCEPT ![a][who] = new]
  BY DEF Handed, Ledger, Entry
<1> HIDE DEF e
<1>3. new \in Entry /\ new.free = e.free /\ new.reserved = e.reserved - n
  BY <1>1 DEF Entry
<1> HIDE DEF new
<1>4. k \in Ledger /\ k[a][who] = new
  BY <1>2, <1>3 DEF Ledger
<1>5. OnlyMoves(l, k, a, {who})
  BY <1>2 DEF Ledger, OnlyMoves
<1> QED
  BY <1>1, <1>3, <1>4, <1>5 DEF TotalBalance, e

LEMMA SaleFacts ==
    ASSUME NEW l \in Ledger, NEW base \in AssetIds, NEW quote \in AssetIds, base # quote,
           NEW from \in Accounts, NEW taker \in Accounts, taker # from,
           NEW n \in Nat, n <= l[base][from].reserved, NEW paid \in Nat,
           MayDie(l, quote, taker, from, paid), NEW o,
           o.base = base, o.quote = quote, o.from = from, o.amount = n,
           NEW k, k = Sold(l, o, taker, paid)
    PROVE  /\ k \in Ledger
           /\ k[base][from].reserved = l[base][from].reserved - n
           /\ TotalBalance(k, base, from) = TotalBalance(l, base, from) - n
           /\ TotalBalance(k, quote, from) = TotalBalance(l, quote, from) + paid
           /\ \A b \in AssetIds, w \in Accounts :
                 b \notin {base, quote} \/ w \notin {from, taker} => k[b][w] = l[b][w]
<1> DEFINE h == Handed(l, base, from, n)
           t == Transfer(h, quote, taker, from, paid)
<1>1. k = Deposit(t, base, taker, n)
  BY DEF Sold, Handed
<1> HIDE DEF h, t
<1>2. /\ h \in Ledger
      /\ h[base][from].reserved = l[base][from].reserved - n
      /\ TotalBalance(h, base, from) = TotalBalance(l, base, from) - n
      /\ OnlyMoves(l, h, base, {from})
  <2>1. h = Handed(l, base, from, n)
    BY DEF h
  <2> QED
    BY <2>1, HandedFacts, SMTT(30)
<1>3. \A b \in AssetIds, w \in Accounts : b # base \/ w # from => h[b][w] = l[b][w]
  BY <1>2 DEF OnlyMoves
<1>4. h[quote][taker] = l[quote][taker] /\ h[quote][from] = l[quote][from]
  BY <1>3
<1>5. MayDie(h, quote, taker, from, paid)
  BY <1>4 DEF MayDie, CanTransfer, CanWithdraw, CanDeposit, TotalBalance
<1>6. /\ t \in Ledger
      /\ TotalBalance(t, quote, from) = TotalBalance(h, quote, from) + paid
      /\ \A b \in AssetIds, w \in Accounts :
            b # quote \/ w \notin {taker, from} => t[b][w] = h[b][w]
  BY <1>2, <1>5, Payee DEF t
<1>7. /\ k \in Ledger
      /\ \A b \in AssetIds, w \in Accounts : b # base \/ w # taker => k[b][w] = t[b][w]
  <2>1. t \in Ledger /\ base \in AssetIds /\ taker \in Accounts /\ n \in Nat
    BY <1>6
  <2>2. /\ Deposit(t, base, taker, n) \in Ledger
        /\ \A b \in AssetIds, w \in Accounts :
              b # base \/ w # taker => Deposit(t, base, taker, n)[b][w] = t[b][w]
    BY <2>1, DepositFacts
  <2> QED
    BY <1>1, <2>2
<1>8. k[base][from] = h[base][from] /\ k[quote][from] = t[quote][from]
  BY <1>6, <1>7
<1>9. \A b \in AssetIds, w \in Accounts :
         b \notin {base, quote} \/ w \notin {from, taker} => k[b][w] = l[b][w]
  BY <1>3, <1>6, <1>7
<1> QED
  BY <1>2, <1>4, <1>6, <1>7, <1>8, <1>9 DEF TotalBalance

LEMMA AuctionIn ==
    ASSUME LendingInv, NEW taker \in Users, NEW paid \in Nat, AuctionSells(taker, paid),
           NEW m \in MarketIds, m = Head(orders).market
    PROVE  LendingInv'
<1> DEFINE o == Head(orders)
           n == o.amount
           c == markets[m].collateral
           b == BorrowAsset(m)
           acc == MarketAccount(m)
<1>1. /\ orders # <<>> /\ CanBeSold(ledger, o, taker, paid)
      /\ ledger' = Sold(ledger, o, taker, paid) /\ orders' = Tail(orders)
      /\ soldCollateral' = [soldCollateral EXCEPT ![m] = @ + n]
      /\ UNCHANGED <<now, vaultVars, marketVars, loanVars>>
  BY DEF AuctionSells
<1>2. /\ orders \in Seq(Orders) /\ ledger \in Ledger
      /\ FundsSound(ledger, capital_structure, orders)
  BY InvParts
<1>3. /\ o \in Orders /\ orders' \in Seq(Orders)
  <2>1. Tail(orders) \in Seq(Orders) /\ Head(orders) = orders[1] /\ 1 \in DOMAIN orders
    BY <1>1, <1>2, HeadTailProperties, EmptySeq, LenProperties
  <2> QED
    BY <1>1, <1>2, <2>1
<1>4. m \in MarketIds /\ n \in Nat
  BY <1>3 DEF Orders
<1>5. OrderSound(o)
  <2>1. Head(orders) = orders[1] /\ 1 \in DOMAIN orders
    BY <1>1, <1>2, HeadTailProperties, EmptySeq, LenProperties
  <2> QED
    BY <2>1 DEF LendingInv
<1>6. MarketExists(m) /\ o.from = acc /\ o.base = c /\ o.quote = b
  BY <1>5 DEF OrderSound
<1>7. /\ c \in AssetIds /\ c \notin DebtIds /\ b \in AssetIds /\ b \notin DebtIds /\ b # c
  BY <1>4, <1>6, MarketNames
<1>8. acc \in Accounts /\ taker \in Accounts /\ taker # acc
  BY <1>4, MarketAccounts, UsersFacts
<1>9. /\ Credited(m) = TotalBalance(ledger, c, acc) + soldCollateral[m]
      /\ Offered(orders, m) <= ledger[c][acc].reserved
      /\ Owes(capital_structure, m) <= TotalBalance(ledger, b, acc) + Lent(ledger, m)
      /\ DebtsHeld(ledger, m) /\ soldCollateral[m] \in Nat /\ Credited(m) \in Nat
      /\ TotalBalance(ledger, c, acc) \in Nat /\ TotalBalance(ledger, b, acc) \in Nat
      /\ Lent(ledger, m) \in Nat /\ Owes(capital_structure, m) \in Nat
  BY <1>2, <1>4, <1>6, BackedParts
<1>10. ASSUME NEW j \in MarketIds
       PROVE  /\ Offered(orders, j) = AmountFor(o, j) + Offered(orders', j)
              /\ AmountFor(o, j) \in Nat /\ Offered(orders', j) \in Nat
  BY <1>1, <1>2, OfferedTail
<1>11. AmountFor(o, m) = n
  BY DEF AmountFor
<1>12. ledger[c][acc].reserved \in Nat
  BY <1>2, <1>7, <1>8, LedgerEntries
<1>13. n <= ledger[c][acc].reserved /\ Offered(orders', m) <= ledger[c][acc].reserved - n
  <2>1. /\ Offered(orders, m) = AmountFor(o, m) + Offered(orders', m)
        /\ Offered(orders', m) \in Nat
    BY <1>4, <1>10
  <2> HIDE DEF o, n, c, acc
  <2> QED
    BY <1>4, <1>9, <1>11, <1>12, <2>1
<1>14. MayDie(ledger, b, taker, acc, paid)
  BY <1>1, <1>6 DEF CanBeSold, MayDie
<1> HIDE DEF o, n, c, b, acc
<1>15. o.amount = n
  BY DEF n
<1>16. /\ ledger' \in Ledger
       /\ ledger'[c][acc].reserved = ledger[c][acc].reserved - n
       /\ TotalBalance(ledger', c, acc) = TotalBalance(ledger, c, acc) - n
       /\ TotalBalance(ledger', b, acc) = TotalBalance(ledger, b, acc) + paid
       /\ \A a \in AssetIds, w \in Accounts :
             a \notin {c, b} \/ w \notin {acc, taker} => ledger'[a][w] = ledger[a][w]
  BY <1>1, <1>2, <1>4, <1>6, <1>7, <1>8, <1>13, <1>14, <1>15, SaleFacts
<1>17. \A w \in Accounts : ledger'[DebtTokens[m]][w] = ledger[DebtTokens[m]][w]
  <2>1. DebtTokens[m] \in AssetIds /\ DebtTokens[m] \notin {c, b}
    BY <1>4, <1>7, DebtTokenFacts
  <2> QED
    BY <1>16, <2>1
<1>18. ASSUME NEW j \in MarketIds, j # m
       PROVE  SameFunds(ledger, ledger', j) /\ Offered(orders', j) <= Offered(orders, j)
  <2>1. MarketAccount(j) \in Accounts /\ MarketAccount(j) \notin {acc, taker}
    BY <1>4, <1>18, MarketAccounts DEF acc
  <2>2. DebtTokens[j] \in AssetIds /\ DebtTokens[j] \notin {c, b}
    BY <1>7, DebtTokenFacts
  <2>3. SameFunds(ledger, ledger', j)
    BY <1>16, <2>1, <2>2 DEF SameFunds
  <2> QED
    BY <1>10, <2>3
<1>19. DebtsHeld(ledger', m)
  BY <1>4, <1>9, <1>17, DebtsSame
<1>20. Lent(ledger', m) = Lent(ledger, m)
  BY <1>2, <1>4, <1>16, <1>17, LentSame, UsersFacts
<1>21. /\ markets' = markets /\ vaults' = vaults /\ vault_count' = vault_count
       /\ capital_structure' = capital_structure /\ borrow_index' = borrow_index
       /\ debt_index' = debt_index /\ account_collateral' = account_collateral
  BY <1>1 DEF vaultVars, marketVars, loanVars
<1>22. soldCollateral \in [MarketIds -> Nat]
  BY DEF LendingInv, LoanBooks
<1>23. soldCollateral' \in [MarketIds -> Nat] /\ soldCollateral'[m] = soldCollateral[m] + n
  BY <1>1, <1>4, <1>22
<1>24. LoanBooks'
  <2>1. VaultTypeOK'
    BY <1>1 DEF LendingInv, LoanBooks, VaultTypeOK, vaultVars
  <2>2. LendingTypeOK'
    BY <1>1, <1>16 DEF LendingInv, LoanBooks, LendingTypeOK, MarketExists, marketVars, loanVars
  <2> QED
    BY <1>1, <1>3, <1>21, <1>23, <2>1, <2>2 DEF LendingInv, LoanBooks
<1>25. \A j \in MarketIds : j # m =>
          /\ SameFunds(ledger, ledger', j)
          /\ Credited(j)' = Credited(j) /\ soldCollateral'[j] = soldCollateral[j]
          /\ Offered(orders', j) <= Offered(orders, j)
          /\ account_collateral'[j] = account_collateral[j]
  BY <1>1, <1>4, <1>18, <1>21, <1>22, CreditedKept
<1>26. Credited(m)' = TotalBalance(ledger', c, acc) + soldCollateral'[m]
  <2>1. Credited(m)' = Credited(m)
    BY <1>21, CreditedKept
  <2> QED
    BY <1>4, <1>9, <1>16, <1>23, <2>1
<1>27. Offered(orders', m) <= ledger'[c][acc].reserved
  BY <1>13, <1>16
<1>28. Owes(capital_structure, m) <= TotalBalance(ledger', b, acc) + Lent(ledger', m)
  BY <1>9, <1>16, <1>20
<1>29. ASSUME NEW i \in DOMAIN orders' PROVE OrderSound(orders'[i])
  <2>1. \A k \in DOMAIN orders : OrderSound(orders[k])
    BY DEF LendingInv
  <2>2. i + 1 \in DOMAIN orders /\ orders'[i] = orders[i + 1]
    <3>1. /\ Len(Tail(orders)) = Len(orders) - 1 /\ Tail(orders) \in Seq(Orders)
          /\ \A k \in 1..Len(Tail(orders)) : Tail(orders)[k] = orders[k + 1]
      BY <1>1, <1>2, HeadTailProperties, EmptySeq
    <3>2. /\ Len(orders) \in Nat /\ DOMAIN orders = 1..Len(orders)
          /\ DOMAIN Tail(orders) = 1..Len(Tail(orders))
      BY <1>2, <3>1, LenProperties
    <3> QED
      BY <1>1, <3>1, <3>2
  <2> QED
    BY <2>1, <2>2
<1> QED
  BY <1>4, <1>6, <1>19, <1>21, <1>24, <1>25, <1>26, <1>27, <1>28, <1>29, MarketMoves DEF b, c, acc

LEMMA AuctionBacked ==
    ASSUME LendingInv, NEW taker \in Users, NEW paid \in Nat, AuctionSells(taker, paid)
    PROVE  LendingInv'
<1>1. orders # <<>> /\ orders \in Seq(Orders)
  BY InvParts DEF AuctionSells
<1>2. Head(orders) = orders[1] /\ 1 \in DOMAIN orders
  BY <1>1, HeadTailProperties, EmptySeq, LenProperties
<1>3. Head(orders) \in Orders
  BY <1>1, <1>2
<1>4. Head(orders).market \in MarketIds
  BY <1>3 DEF Orders
<1>5. PICK m \in MarketIds : m = Head(orders).market
  BY <1>4
<1> QED
  BY <1>5, AuctionIn

-----------------------------------------------------------------------------
(* Loans.                                                                  *)

LEMMA DepositHold ==
    ASSUME NEW l \in Ledger, NEW a \in AssetIds, NEW who \in Accounts, NEW n \in Nat
    PROVE  Deposit(l, a, who, n)[a][who].reserved = l[a][who].reserved
<1>1. Deposit(l, a, who, n)[a][who] = [l[a][who] EXCEPT !.free = @ + n]
  BY DEF Deposit, Ledger, Entry
<1> QED
  BY <1>1, LedgerEntries DEF Entry

LEMMA NativePaid ==
    ASSUME LendingInv, NEW l, NEW cs, NEW os \in Seq(Orders), FundsSound(l, cs, os),
           NEW from \in Accounts, NEW to \in Accounts, NEW n \in Nat,
           MayDie(l, NativeAsset, from, to, n),
           NEW k, k = Transfer(l, NativeAsset, from, to, n)
    PROVE  FundsSound(k, cs, os) /\ \A j \in MarketIds : SameFunds(l, k, j)
<1>1. l \in Ledger /\ cs \in Structures /\ NativeAsset \in AssetIds
  BY ChainTypes DEF FundsSound
<1>2. /\ k \in Ledger
      /\ \A b \in AssetIds, w \in Accounts :
            b # NativeAsset \/ w \notin {from, to} => k[b][w] = l[b][w]
  BY <1>1, AllowDeathTransfer
<1>3. \A b \in AssetIds, w \in Accounts : b # NativeAsset => k[b][w] = l[b][w]
  BY <1>2
<1>4. \A j \in MarketIds : SameFunds(l, k, j)
  BY <1>3, NativeMove
<1> QED
  BY <1>1, <1>2, <1>4, NoMarketMoves, OwesSame

(* A loan is paid out: a debt token on hold for every unit.                *)
LEMMA LoanPaid ==
    ASSUME LendingInv, NEW l, NEW cs, NEW os \in Seq(Orders), FundsSound(l, cs, os),
           NEW m \in MarketIds, MarketExists(m), NEW who \in Users, NEW n \in Nat,
           NEW held, held = ReserveFunds(Mint(l, DebtTokens[m], who, n), DebtTokens[m], who, n),
           KeepsAlive(held, BorrowAsset(m), MarketAccount(m), who, n),
           NEW k, k = Transfer(held, BorrowAsset(m), MarketAccount(m), who, n)
    PROVE  FundsSound(k, cs, os)
<1> DEFINE d == DebtTokens[m]
           b == BorrowAsset(m)
           c == markets[m].collateral
           acc == MarketAccount(m)
           minted == Deposit(l, d, who, n)
<1>1. /\ d \in AssetIds /\ d \in DebtIds /\ b \in AssetIds /\ b \notin DebtIds
      /\ c \in AssetIds /\ c \notin DebtIds /\ b # c
  BY MarketNames, DebtTokenFacts
<1>2. acc \in Accounts /\ who \in Accounts /\ who # acc /\ Outside(who)
  BY MarketAccounts, UsersFacts, OutsideUsers
<1>3. /\ l \in Ledger /\ cs \in Structures
      /\ Credited(m) = TotalBalance(l, c, acc) + soldCollateral[m]
      /\ Offered(os, m) <= l[c][acc].reserved
      /\ Owes(cs, m) <= TotalBalance(l, b, acc) + Lent(l, m)
      /\ DebtsHeld(l, m) /\ Lent(l, m) \in Nat /\ Owes(cs, m) \in Nat
      /\ TotalBalance(l, b, acc) \in Nat
  BY BackedParts
<1>4. l[d][who].free = 0 /\ l[d][who].reserved \in Nat
  BY <1>1, <1>2, <1>3, LedgerEntries DEF DebtsHeld
<1> HIDE DEF d, b, c, acc
<1>5. /\ minted \in Ledger /\ minted[d][who].free = n
      /\ minted[d][who].reserved = l[d][who].reserved
      /\ \A a \in AssetIds, w \in Accounts : a # d \/ w # who => minted[a][w] = l[a][w]
  <2>1. /\ minted \in Ledger /\ minted[d][who].free = l[d][who].free + n
        /\ minted[d][who].reserved = l[d][who].reserved
        /\ \A a \in AssetIds, w \in Accounts : a # d \/ w # who => minted[a][w] = l[a][w]
    <3>1. l \in Ledger /\ d \in AssetIds /\ who \in Accounts /\ n \in Nat
      BY <1>1, <1>2, <1>3
    <3>2. minted[d][who].reserved = l[d][who].reserved
      BY <3>1, DepositHold
    <3>3. /\ minted \in Ledger /\ minted[d][who].free = l[d][who].free + n
          /\ \A a \in AssetIds, w \in Accounts : a # d \/ w # who => minted[a][w] = l[a][w]
      BY <3>1, DepositFacts
    <3> QED
      BY <3>2, <3>3
  <2> QED
    BY <1>4, <2>1
<1>6. held = ReserveFunds(minted, d, who, n)
  BY DEF Mint, d
<1> HIDE DEF minted
<1>7. /\ held \in Ledger /\ held[d][who].free = 0
      /\ held[d][who].reserved = l[d][who].reserved + n
      /\ \A a \in AssetIds, w \in Accounts : a # d \/ w # who => held[a][w] = l[a][w]
  <2>1. n <= minted[d][who].free /\ minted \in Ledger
    BY <1>5
  <2>2. /\ held \in Ledger /\ held[d][who].free = minted[d][who].free - n
        /\ held[d][who].reserved = minted[d][who].reserved + n
        /\ \A a \in AssetIds, w \in Accounts : a # d \/ w # who => held[a][w] = minted[a][w]
    BY <1>1, <1>2, <1>6, <2>1, ReserveFundsFacts
  <2> QED
    BY <1>5, <2>2
<1>8. KeepsAlive(held, b, acc, who, n) /\ k = Transfer(held, b, acc, who, n)
  BY DEF b, acc
<1>9. /\ k \in Ledger
      /\ TotalBalance(k, b, acc) = TotalBalance(held, b, acc) - n
      /\ OnlyMoves(held, k, b, {acc, who})
  <2>1. held \in Ledger
    BY <1>7
  <2>2. /\ k \in Ledger
        /\ TotalBalance(k, b, acc) = TotalBalance(held, b, acc) - n
        /\ \A a \in AssetIds, w \in Accounts :
              a # b \/ w \notin {acc, who} => k[a][w] = held[a][w]
    BY <1>1, <1>2, <1>8, <2>1, Payer
  <2> QED
    BY <2>2 DEF OnlyMoves
<1>10. \A w \in {acc, who} : w = MarketAccount(m) \/ Outside(w)
  BY <1>2 DEF acc
<1>11. /\ \A j \in MarketIds : j # m => SameFunds(held, k, j)
       /\ \A w \in Accounts : k[DebtTokens[m]][w] = held[DebtTokens[m]][w]
       /\ \A a \in AssetIds : a # b => k[a][MarketAccount(m)] = held[a][MarketAccount(m)]
  <2> DEFINE S == {acc, who}
  <2>1. OnlyMoves(held, k, b, S)
    BY <1>9
  <2>2. \A w \in S : w = MarketAccount(m) \/ Outside(w)
    BY <1>10
  <2>3. b \in AssetIds /\ b \notin DebtIds
    BY <1>1
  <2> HIDE DEF S
  <2>4. MovesIn(held, k, m, b)
    BY <2>1, <2>2, <2>3, MarketMove
  <2> QED
    BY <2>4 DEF MovesIn
<1>12. ASSUME NEW j \in MarketIds, j # m PROVE SameFunds(l, k, j)
  <2>1. /\ MarketAccount(j) \in Accounts /\ MarketAccount(j) # who
        /\ DebtTokens[j] \in AssetIds /\ DebtTokens[j] # d
    BY <1>12, MarketAccounts, DebtTokenFacts DEF d
  <2>2. SameFunds(l, held, j)
    BY <1>7, <2>1 DEF SameFunds
  <2> QED
    BY <1>11, <1>12, <2>2, SameFundsChain
<1>13. DebtsHeld(k, m)
  <2>1. DebtsHeld(held, m)
    BY <1>1, <1>2, <1>3, <1>7, UsersFacts DEF DebtsHeld, d, acc
  <2> QED
    BY <1>11, <2>1, DebtsSame
<1>14. Lent(k, m) = Lent(l, m) + n
  <2>1. Lent(k, m) = Lent(held, m)
    BY <1>7, <1>9, <1>11, UsersFacts, LentSame
  <2>2. \A w \in Users : w # who => held[DebtTokens[m]][w] = l[DebtTokens[m]][w]
    BY <1>1, <1>7, UsersFacts DEF d
  <2>3. Lent(held, m) = Lent(l, m) - l[d][who].reserved + held[d][who].reserved
    BY <1>3, <1>7, <2>2, LentChange DEF d
  <2> QED
    BY <1>3, <1>4, <1>7, <2>1, <2>3
<1>15. k[c][acc] = l[c][acc]
  <2>1. k[c][acc] = held[c][acc]
    BY <1>1, <1>11 DEF acc
  <2> QED
    BY <1>1, <1>2, <1>7, <2>1
<1>16. TotalBalance(k, b, acc) = TotalBalance(l, b, acc) - n
  <2>1. held[b][acc] = l[b][acc]
    BY <1>1, <1>2, <1>7
  <2> QED
    BY <1>9, <2>1 DEF TotalBalance
<1>17. Backed(k, cs, os, m)
  <2>1. /\ Credited(m) = TotalBalance(k, c, acc) + soldCollateral[m]
        /\ Offered(os, m) <= k[c][acc].reserved
    BY <1>3, <1>15 DEF TotalBalance
  <2>2. Owes(cs, m) <= TotalBalance(k, b, acc) + Lent(k, m)
    BY <1>3, <1>14, <1>16
  <2> QED
    BY <2>1, <2>2 DEF Backed, Owes, TotalCash, c, acc, b
<1>18. \A j \in MarketIds : j # m /\ MarketExists(j) =>
          Owes(cs, j) <= Owes(cs, j) /\ Offered(os, j) <= Offered(os, j)
  BY <1>3, OwesSame, OfferedIs
<1> QED
  BY <1>3, <1>9, <1>12, <1>13, <1>17, <1>18, OneMarketMoves

(* The index of a loan that grows stays at or below the market's.          *)
LEMMA UpdatedBelow ==
    ASSUME LendingInv, NEW m \in MarketIds, NEW who \in Users, NEW n \in Nat
    PROVE  UpdatedIndex(m, who, n) \in Nat /\ UpdatedIndex(m, who, n) <= borrow_index[m]
<1> DEFINE e == TotalBalance(ledger, DebtTokens[m], who)
           i == IF debt_index[m][who] = NoDebt THEN 0 ELSE debt_index[m][who]
           x == borrow_index[m]
           p == PercentOf(n, e + n)
           q == PercentOf(e, e + n)
<1>1. e \in Nat
  BY InvParts, IssuanceIs, DebtTokenFacts, UsersFacts
<1>2. x \in Nat
  BY InvParts
<1>3. i \in Nat /\ i <= x
  <2>1. debt_index[m][who] \in Nat \cup {NoDebt}
    BY InvParts
  <2>2. debt_index[m][who] # NoDebt => debt_index[m][who] <= x
    BY DEF LendingInv, Loan, OwedCoversPrincipal
  <2> HIDE DEF x
  <2> QED
    BY <1>2, <2>1, <2>2
<1>4. p \in Nat /\ q \in Nat /\ p + q <= 100
  BY <1>1, SharesOfWhole
<1>5. UpdatedIndex(m, who, n) = (x * p) \div 100 + (i * q) \div 100
  BY DEF UpdatedIndex
<1> HIDE DEF e, i, x, p, q
<1>6. (x * p) \div 100 + (i * q) \div 100 \in Nat /\ (x * p) \div 100 + (i * q) \div 100 <= x
  BY <1>2, <1>3, <1>4, WeightedBelow
<1> QED
  BY <1>5, <1>6 DEF x

(* One entry of a map of the loans is written.                             *)
LEMMA EntryWritten ==
    ASSUME NEW f \in [MarketIds -> [Users -> Nat \cup {NoDebt}]], NEW m \in MarketIds,
           NEW who \in Users, NEW x \in Nat \cup {NoDebt}
    PROVE  /\ [f EXCEPT ![m][who] = x] \in [MarketIds -> [Users -> Nat \cup {NoDebt}]]
           /\ \A j \in MarketIds, w \in Users :
                 [f EXCEPT ![m][who] = x][j][w] = IF j = m /\ w = who THEN x ELSE f[j][w]
OBVIOUS

LEMMA LoanWritten ==
    ASSUME LendingInv,
           UNCHANGED <<now, vaultVars, marketVars, account_collateral, orders, soldCollateral>>,
           {debt_index', borrow_timestamp', borrow_rent'}
              \subseteq [MarketIds -> [Users -> Nat \cup {NoDebt}]],
           \A m \in MarketIds, who \in Users :
              \/ debt_index'[m][who] = debt_index[m][who]
              \/ debt_index'[m][who] = NoDebt
              \/ MarketExists(m) /\ debt_index'[m][who] <= borrow_index[m],
           FundsSound(ledger', capital_structure, orders)
    PROVE  LendingInv'
<1>1. /\ now' = now /\ vault_count' = vault_count /\ lp_tokens_to_vaults' = lp_tokens_to_vaults
      /\ vaults' = vaults /\ capital_structure' = capital_structure
      /\ lending_count' = lending_count /\ markets' = markets /\ borrow_index' = borrow_index
      /\ last_block_timestamp' = last_block_timestamp
      /\ account_collateral' = account_collateral /\ orders' = orders
      /\ soldCollateral' = soldCollateral
  BY DEF vaultVars, marketVars
<1>2. ledger' \in Ledger
  BY DEF FundsSound
<1>3. LoanBooks'
  <2>1. VaultTypeOK'
    BY <1>1 DEF LendingInv, LoanBooks, VaultTypeOK
  <2>2. account_collateral' \in [MarketIds -> [Users -> Nat \cup {NoDebt}]]
    BY <1>1, InvParts
  <2>3. LendingTypeOK'
    BY <1>1, <1>2, <2>2 DEF LendingInv, LoanBooks, LendingTypeOK, MarketExists
  <2> QED
    BY <1>1, <2>1, <2>3 DEF LendingInv, LoanBooks
<1>4. ASSUME NEW m \in MarketIds, NEW who \in Users PROVE Loan(m, who)'
  <2>1. Loan(m, who)
    BY DEF LendingInv
  <2>2. \/ debt_index'[m][who] = debt_index[m][who]
        \/ debt_index'[m][who] = NoDebt
        \/ MarketExists(m) /\ debt_index'[m][who] <= borrow_index[m]
    OBVIOUS
  <2> QED
    BY <1>1, <2>1, <2>2 DEF Loan, OwedCoversPrincipal, MarketExists
<1>5. \A i \in DOMAIN orders' : OrderSound(orders'[i])
  BY <1>1 DEF LendingInv
<1>6. FundsSound(ledger', capital_structure', orders')
  BY <1>1
<1> QED
  BY <1>1, <1>3, <1>4, <1>5, <1>6, LoansStay

LEMMA BorrowBacked ==
    ASSUME LendingInv, NEW who \in Users, NEW m \in MarketIds, NEW n \in Nat,
           Borrow(who, m, n)
    PROVE  LendingInv'
<1> DEFINE acc == MarketAccount(m)
           held == ReserveFunds(Mint(ledger, DebtTokens[m], who, n), DebtTokens[m], who, n)
           lent == Transfer(held, BorrowAsset(m), acc, who, n)
           owesRent == borrow_rent[m][who] = NoDebt
<1>1. /\ MarketExists(m)
      /\ KeepsAlive(held, BorrowAsset(m), acc, who, n)
      /\ owesRent => KeepsAlive(lent, NativeAsset, who, acc, Rent)
      /\ ledger' = IF owesRent THEN Transfer(lent, NativeAsset, who, acc, Rent) ELSE lent
      /\ debt_index' = [debt_index EXCEPT ![m][who] = UpdatedIndex(m, who, n)]
      /\ borrow_timestamp' = [borrow_timestamp EXCEPT ![m][who] = last_block_timestamp]
      /\ borrow_rent' = IF owesRent THEN [borrow_rent EXCEPT ![m][who] = Rent] ELSE borrow_rent
      /\ UNCHANGED <<now, vaultVars, marketVars, account_collateral, orders, soldCollateral>>
  BY DEF Borrow, KeepsAlive
<1>2. /\ FundsSound(ledger, capital_structure, orders) /\ orders \in Seq(Orders)
      /\ debt_index \in [MarketIds -> [Users -> Nat \cup {NoDebt}]]
      /\ borrow_timestamp \in [MarketIds -> [Users -> Nat \cup {NoDebt}]]
      /\ borrow_rent \in [MarketIds -> [Users -> Nat \cup {NoDebt}]]
      /\ last_block_timestamp \in Nat
  BY InvParts
<1> HIDE DEF held, lent
<1>3. FundsSound(lent, capital_structure, orders)
  BY <1>1, <1>2, LoanPaid DEF held, lent
<1>4. Rent \in Nat /\ acc \in Accounts /\ who \in Accounts
  BY LendingTypes, MarketAccounts, UsersFacts
<1>5. FundsSound(ledger', capital_structure, orders)
  <2>1. CASE ~owesRent
    BY <1>1, <1>3, <2>1
  <2>2. CASE owesRent
    <3>1. MayDie(lent, NativeAsset, who, acc, Rent)
      BY <1>1, <2>2, KeptMayDie
    <3>2. ledger' = Transfer(lent, NativeAsset, who, acc, Rent)
      BY <1>1, <2>2
    <3> QED
      BY <1>2, <1>3, <1>4, <3>1, <3>2, NativePaid
  <2> QED
    BY <2>1, <2>2
<1>6. UpdatedIndex(m, who, n) \in Nat /\ UpdatedIndex(m, who, n) <= borrow_index[m]
  BY UpdatedBelow
<1>7. {debt_index', borrow_timestamp', borrow_rent'}
         \subseteq [MarketIds -> [Users -> Nat \cup {NoDebt}]]
  BY <1>1, <1>2, <1>4, <1>6, EntryWritten
<1>8. ASSUME NEW j \in MarketIds, NEW w \in Users
      PROVE  \/ debt_index'[j][w] = debt_index[j][w]
             \/ MarketExists(j) /\ debt_index'[j][w] <= borrow_index[j]
  BY <1>1, <1>2, <1>6
<1> QED
  BY <1>1, <1>5, <1>7, <1>8, LoanWritten

(* A debt token has no minimum balance: burning it reaps nobody.           *)
LEMMA BurnFacts ==
    ASSUME NEW l \in Ledger, NEW a \in AssetIds, NEW who \in Accounts, NEW n \in Nat,
           MinimumBalance[a] = 0, n <= l[a][who].free
    PROVE  /\ Burn(l, a, who, n) \in Ledger
           /\ Burn(l, a, who, n)[a][who].free = l[a][who].free - n
           /\ Burn(l, a, who, n)[a][who].reserved = l[a][who].reserved
           /\ \A b \in AssetIds, w \in Accounts :
                 b # a \/ w # who => Burn(l, a, who, n)[b][w] = l[b][w]
<1> DEFINE e == l[a][who]
           new == [e EXCEPT !.free = e.free - n]
           k == Withdraw(l, a, who, n)
<1>1. e \in Entry /\ e.free \in Nat /\ e.reserved \in Nat /\ n <= e.free
  BY LedgerEntries
<1>2. CASE n = 0
  BY <1>1, <1>2 DEF Burn
<1>3. CASE n # 0
  <2>1. Burn(l, a, who, n) = k
    BY <1>3 DEF Burn
  <2>2. TotalBalance(l, a, who) = e.free + e.reserved
    BY DEF TotalBalance
  <2>3. ~(TotalBalance(l, a, who) - n < MinimumBalance[a])
    BY <1>1, <2>2
  <2>4. k = [l EXCEPT ![a][who] = new]
    BY <2>3 DEF Withdraw
  <2> HIDE DEF e, k
  <2>5. new \in Entry /\ new.free = e.free - n /\ new.reserved = e.reserved
    BY <1>1 DEF Entry
  <2> HIDE DEF new
  <2>6. /\ k \in Ledger /\ k[a][who] = new
        /\ \A b \in AssetIds, w \in Accounts : b # a \/ w # who => k[b][w] = l[b][w]
    BY <2>4, <2>5 DEF Ledger
  <2> QED
    BY <2>1, <2>5, <2>6 DEF e
<1> QED
  BY <1>2, <1>3

LEMMA UnreserveFacts ==
    ASSUME NEW l \in Ledger, NEW a \in AssetIds, NEW who \in Accounts, NEW n \in Nat,
           n <= l[a][who].reserved
    PROVE  /\ UnreserveFunds(l, a, who, n) \in Ledger
           /\ UnreserveFunds(l, a, who, n)[a][who].free = l[a][who].free + n
           /\ UnreserveFunds(l, a, who, n)[a][who].reserved = l[a][who].reserved - n
           /\ \A b \in AssetIds, w \in Accounts :
                 b # a \/ w # who => UnreserveFunds(l, a, who, n)[b][w] = l[b][w]
<1> DEFINE e == l[a][who]
           new == [e EXCEPT !.free = e.free + n, !.reserved = e.reserved - n]
           k == UnreserveFunds(l, a, who, n)
<1>1. e \in Entry /\ e.free \in Nat /\ e.reserved \in Nat /\ n <= e.reserved
  BY LedgerEntries
<1>2. LesserOf(n, e.reserved) = n
  BY <1>1 DEF LesserOf
<1>3. k = [l EXCEPT ![a][who] = new]
  BY <1>2 DEF UnreserveFunds, Ledger, Entry
<1> HIDE DEF e, k
<1>4. new \in Entry /\ new.free = e.free + n /\ new.reserved = e.reserved - n
  <2>1. e.free + n \in Nat /\ e.reserved - n \in Nat
    BY <1>1
  <2> QED
    BY <1>1, <2>1, Zenon DEF Entry
<1> HIDE DEF new
<1>5. /\ k \in Ledger /\ k[a][who] = new
      /\ \A b \in AssetIds, w \in Accounts : b # a \/ w # who => k[b][w] = l[b][w]
  BY <1>3, <1>4 DEF Ledger
<1> QED
  BY <1>4, <1>5 DEF e, k

(* The part of a payment that is principal goes into the market's account  *)
(* and the debt tokens for it are burnt; interest is burnt.                *)
LEMMA LoanRepaid ==
    ASSUME LendingInv, NEW l, NEW cs, NEW os \in Seq(Orders), FundsSound(l, cs, os),
           NEW m \in MarketIds, MarketExists(m), NEW who \in Users, NEW from \in Users,
           NEW n \in Nat, NEW released,
           released = LesserOf(n, TotalBalance(l, DebtTokens[m], who)),
           TotalInterest(l, m) - (n - released) >= 0,
           NEW burnt, burnt = Burn(l, DebtTokens[m], MarketAccount(m), n - released),
           NEW freed, freed = Burn(UnreserveFunds(burnt, DebtTokens[m], who, released),
                                   DebtTokens[m], who, released),
           MayDie(freed, BorrowAsset(m), from, MarketAccount(m), released),
           NEW k, k = Transfer(freed, BorrowAsset(m), from, MarketAccount(m), released)
    PROVE  FundsSound(k, cs, os)
<1> DEFINE d == DebtTokens[m]
           b == BorrowAsset(m)
           c == markets[m].collateral
           acc == MarketAccount(m)
           interest == n - released
           back == UnreserveFunds(burnt, d, who, released)
<1>1. /\ d \in AssetIds /\ d \in DebtIds /\ b \in AssetIds /\ b \notin DebtIds
      /\ c \in AssetIds /\ c \notin DebtIds /\ b # c /\ MinimumBalance[d] = 0
  BY MarketNames, DebtTokenFacts
<1>2. /\ acc \in Accounts /\ who \in Accounts /\ who # acc
      /\ from \in Accounts /\ from # acc /\ Outside(from)
  BY MarketAccounts, UsersFacts, OutsideUsers
<1>3. /\ l \in Ledger /\ cs \in Structures
      /\ Credited(m) = TotalBalance(l, c, acc) + soldCollateral[m]
      /\ Offered(os, m) <= l[c][acc].reserved
      /\ Owes(cs, m) <= TotalBalance(l, b, acc) + Lent(l, m)
      /\ DebtsHeld(l, m) /\ Lent(l, m) \in Nat /\ Owes(cs, m) \in Nat
      /\ TotalBalance(l, b, acc) \in Nat
  BY BackedParts
<1>4. /\ l[d][who].free = 0 /\ l[d][who].reserved \in Nat
      /\ l[d][acc].reserved = 0 /\ l[d][acc].free \in Nat
  BY <1>1, <1>2, <1>3, LedgerEntries DEF DebtsHeld
<1>5. /\ released \in Nat /\ interest \in Nat /\ released <= l[d][who].reserved
      /\ interest <= l[d][acc].free
  <2>1. TotalBalance(l, d, who) = l[d][who].reserved /\ TotalInterest(l, m) = l[d][acc].free
    BY <1>4 DEF TotalBalance, TotalInterest
  <2>2. released = LesserOf(n, l[d][who].reserved)
    BY <2>1
  <2> HIDE DEF d, acc
  <2>3. released \in Nat /\ released <= n /\ released <= l[d][who].reserved
    BY <1>4, <2>2 DEF LesserOf
  <2> QED
    BY <1>4, <2>1, <2>3
<1> HIDE DEF d, b, c, acc, interest
<1>6. /\ burnt \in Ledger
      /\ burnt[d][acc].reserved = l[d][acc].reserved
      /\ \A a \in AssetIds, w \in Accounts : a # d \/ w # acc => burnt[a][w] = l[a][w]
  <2>1. burnt = Burn(l, d, acc, interest)
    BY DEF d, acc, interest
  <2>2. /\ Burn(l, d, acc, interest) \in Ledger
        /\ Burn(l, d, acc, interest)[d][acc].reserved = l[d][acc].reserved
        /\ \A a \in AssetIds, w \in Accounts :
              a # d \/ w # acc => Burn(l, d, acc, interest)[a][w] = l[a][w]
    BY <1>1, <1>2, <1>3, <1>5, BurnFacts
  <2> QED
    BY <2>1, <2>2
<1>7. burnt[d][who] = l[d][who]
  BY <1>1, <1>2, <1>6
<1>8. /\ back \in Ledger
      /\ back[d][who].free = released /\ back[d][who].reserved = l[d][who].reserved - released
      /\ \A a \in AssetIds, w \in Accounts : a # d \/ w # who => back[a][w] = burnt[a][w]
  <2>1. /\ back \in Ledger
        /\ back[d][who].free = burnt[d][who].free + released
        /\ back[d][who].reserved = burnt[d][who].reserved - released
        /\ \A a \in AssetIds, w \in Accounts : a # d \/ w # who => back[a][w] = burnt[a][w]
    BY <1>1, <1>2, <1>5, <1>6, <1>7, UnreserveFacts
  <2> QED
    BY <1>4, <1>5, <1>7, <2>1
<1> HIDE DEF back
<1>9. /\ freed \in Ledger
      /\ freed[d][who].free = 0 /\ freed[d][who].reserved = l[d][who].reserved - released
      /\ \A a \in AssetIds, w \in Accounts : a # d \/ w # who => freed[a][w] = back[a][w]
  <2>1. freed = Burn(back, d, who, released)
    BY DEF d, back
  <2>2. back \in Ledger /\ released <= back[d][who].free
    BY <1>5, <1>8
  <2>3. /\ Burn(back, d, who, released) \in Ledger
        /\ Burn(back, d, who, released)[d][who].free = back[d][who].free - released
        /\ Burn(back, d, who, released)[d][who].reserved = back[d][who].reserved
        /\ \A a \in AssetIds, w \in Accounts :
              a # d \/ w # who => Burn(back, d, who, released)[a][w] = back[a][w]
    BY <1>1, <1>2, <1>5, <2>2, BurnFacts
  <2> QED
    BY <1>5, <1>8, <2>1, <2>3
<1>10. /\ \A a \in AssetIds, w \in Accounts : a # d => freed[a][w] = l[a][w]
       /\ \A w \in Accounts : w \notin {who, acc} => freed[d][w] = l[d][w]
       /\ freed[d][acc].reserved = 0
  <2>1. freed[d][acc] = burnt[d][acc]
    BY <1>1, <1>2, <1>8, <1>9
  <2> QED
    BY <1>1, <1>4, <1>6, <1>8, <1>9, <2>1
<1>11. MayDie(freed, b, from, acc, released) /\ k = Transfer(freed, b, from, acc, released)
  BY DEF b, acc
<1>12. /\ k \in Ledger
       /\ TotalBalance(k, b, acc) = TotalBalance(freed, b, acc) + released
       /\ OnlyMoves(freed, k, b, {from, acc})
  <2>1. freed \in Ledger
    BY <1>9
  <2>2. /\ k \in Ledger
        /\ TotalBalance(k, b, acc) = TotalBalance(freed, b, acc) + released
        /\ \A a \in AssetIds, w \in Accounts :
              a # b \/ w \notin {from, acc} => k[a][w] = freed[a][w]
    BY <1>1, <1>2, <1>5, <1>11, <2>1, Payee
  <2> QED
    BY <2>2 DEF OnlyMoves
<1>13. /\ \A j \in MarketIds : j # m => SameFunds(freed, k, j)
       /\ \A w \in Accounts : k[DebtTokens[m]][w] = freed[DebtTokens[m]][w]
       /\ \A a \in AssetIds : a # b => k[a][MarketAccount(m)] = freed[a][MarketAccount(m)]
  <2> DEFINE S == {from, acc}
  <2>1. OnlyMoves(freed, k, b, S)
    BY <1>12
  <2>2. \A w \in S : w = MarketAccount(m) \/ Outside(w)
    BY <1>2 DEF acc
  <2>3. b \in AssetIds /\ b \notin DebtIds
    BY <1>1
  <2> HIDE DEF S
  <2>4. MovesIn(freed, k, m, b)
    BY <2>1, <2>2, <2>3, MarketMove
  <2> QED
    BY <2>4 DEF MovesIn
<1>14. ASSUME NEW j \in MarketIds, j # m PROVE SameFunds(l, k, j)
  <2>1. /\ MarketAccount(j) \in Accounts /\ MarketAccount(j) \notin {who, acc}
        /\ DebtTokens[j] \in AssetIds /\ DebtTokens[j] # d
    BY <1>14, MarketAccounts, DebtTokenFacts DEF d, acc
  <2>2. \A a \in AssetIds : freed[a][MarketAccount(j)] = l[a][MarketAccount(j)]
    BY <1>10, <2>1
  <2>3. SameFunds(l, freed, j)
    BY <1>10, <2>1, <2>2 DEF SameFunds
  <2> QED
    BY <1>13, <1>14, <2>3, SameFundsChain
<1>15. DebtsHeld(k, m)
  <2>1. DebtsHeld(freed, m)
    <3>1. \A w \in Users : l[d][w].free = 0 /\ w \in Accounts /\ w # acc
      BY <1>3, UsersFacts, MarketAccounts DEF DebtsHeld, d, acc
    <3>2. \A w \in Users : freed[d][w].free = 0
      BY <1>9, <1>10, <3>1
    <3> QED
      BY <1>10, <3>2 DEF DebtsHeld, d, acc
  <2> QED
    BY <1>13, <2>1, DebtsSame
<1>16. Lent(k, m) = Lent(l, m) - released
  <2>1. Lent(k, m) = Lent(freed, m)
    BY <1>9, <1>12, <1>13, UsersFacts, LentSame
  <2>2. \A w \in Users : w # who => freed[DebtTokens[m]][w] = l[DebtTokens[m]][w]
    BY <1>10, UsersFacts, MarketAccounts DEF d, acc
  <2>3. Lent(freed, m) = Lent(l, m) - l[d][who].reserved + freed[d][who].reserved
    BY <1>3, <1>9, <2>2, LentChange DEF d
  <2> QED
    BY <1>3, <1>4, <1>5, <1>9, <2>1, <2>3
<1>17. k[c][acc] = l[c][acc]
  <2>1. k[c][acc] = freed[c][acc]
    BY <1>1, <1>13 DEF acc
  <2> QED
    BY <1>1, <1>2, <1>10, <2>1
<1>18. TotalBalance(k, b, acc) = TotalBalance(l, b, acc) + released
  <2>1. freed[b][acc] = l[b][acc]
    BY <1>1, <1>2, <1>10
  <2> QED
    BY <1>12, <2>1 DEF TotalBalance
<1>19. Backed(k, cs, os, m)
  <2>1. /\ Credited(m) = TotalBalance(k, c, acc) + soldCollateral[m]
        /\ Offered(os, m) <= k[c][acc].reserved
    BY <1>3, <1>17 DEF TotalBalance
  <2>2. Owes(cs, m) <= TotalBalance(k, b, acc) + Lent(k, m)
    BY <1>3, <1>5, <1>16, <1>18
  <2> QED
    BY <2>1, <2>2 DEF Backed, Owes, TotalCash, c, acc, b
<1>20. \A j \in MarketIds : j # m /\ MarketExists(j) =>
          Owes(cs, j) <= Owes(cs, j) /\ Offered(os, j) <= Offered(os, j)
  BY <1>3, OwesSame, OfferedIs
<1> QED
  BY <1>3, <1>12, <1>14, <1>15, <1>19, <1>20, OneMarketMoves

LEMMA RepayBacked ==
    ASSUME LendingInv, NEW from \in Users, NEW m \in MarketIds, NEW who \in Users,
           NEW n \in Nat, RepayBorrow(from, m, who, n)
    PROVE  LendingInv'
<1> DEFINE acc == MarketAccount(m)
           debt == DebtTokens[m]
           released == LesserOf(n, TotalBalance(ledger, debt, who))
           left == TotalInterest(ledger, m) - (n - released)
           burnt == Burn(ledger, debt, acc, n - released)
           freed == Burn(UnreserveFunds(burnt, debt, who, released), debt, who, released)
           paid == Transfer(freed, BorrowAsset(m), from, acc, released)
           closed == left = 0
           refund == closed /\ borrow_rent[m][who] # NoDebt
<1>1. /\ MarketExists(m)
      /\ left >= 0
      /\ MayDie(freed, BorrowAsset(m), from, acc, released)
      /\ refund => MayDie(paid, NativeAsset, acc, who, borrow_rent[m][who])
      /\ ledger' = IF refund THEN Transfer(paid, NativeAsset, acc, who, borrow_rent[m][who])
                   ELSE paid
      /\ debt_index' = IF closed THEN [debt_index EXCEPT ![m][who] = NoDebt] ELSE debt_index
      /\ borrow_timestamp' =
            IF closed THEN [borrow_timestamp EXCEPT ![m][who] = NoDebt] ELSE borrow_timestamp
      /\ borrow_rent' = borrow_rent
      /\ UNCHANGED <<now, vaultVars, marketVars, account_collateral, orders, soldCollateral>>
  BY DEF RepayBorrow, MayDie
<1>2. /\ FundsSound(ledger, capital_structure, orders) /\ orders \in Seq(Orders)
      /\ debt_index \in [MarketIds -> [Users -> Nat \cup {NoDebt}]]
      /\ borrow_timestamp \in [MarketIds -> [Users -> Nat \cup {NoDebt}]]
      /\ borrow_rent \in [MarketIds -> [Users -> Nat \cup {NoDebt}]]
  BY InvParts
<1>3. FundsSound(paid, capital_structure, orders)
  <2> HIDE DEF released, burnt, freed, paid
  <2>1. /\ released = LesserOf(n, TotalBalance(ledger, DebtTokens[m], who))
        /\ burnt = Burn(ledger, DebtTokens[m], MarketAccount(m), n - released)
        /\ freed = Burn(UnreserveFunds(burnt, DebtTokens[m], who, released),
                        DebtTokens[m], who, released)
        /\ paid = Transfer(freed, BorrowAsset(m), from, MarketAccount(m), released)
    BY DEF released, burnt, freed, paid
  <2> QED
    BY <1>1, <1>2, <2>1, LoanRepaid
<1> HIDE DEF released, burnt, freed, paid, left
<1>4. acc \in Accounts /\ who \in Accounts
  BY MarketAccounts, UsersFacts
<1>5. FundsSound(ledger', capital_structure, orders)
  <2>1. CASE ~refund
    BY <1>1, <1>3, <2>1
  <2>2. CASE refund
    <3> DEFINE r == borrow_rent[m][who]
    <3>1. r \in Nat
      BY <1>2, <2>2
    <3>2. ledger' = Transfer(paid, NativeAsset, acc, who, r)
      BY <1>1, <2>2
    <3>3. MayDie(paid, NativeAsset, acc, who, r)
      BY <1>1, <2>2
    <3> HIDE DEF r
    <3> QED
      BY <1>2, <1>3, <1>4, <3>1, <3>2, <3>3, NativePaid
  <2> QED
    BY <2>1, <2>2
<1>6. {debt_index', borrow_timestamp', borrow_rent'}
         \subseteq [MarketIds -> [Users -> Nat \cup {NoDebt}]]
  BY <1>1, <1>2, EntryWritten
<1>7. ASSUME NEW j \in MarketIds, NEW w \in Users
      PROVE  debt_index'[j][w] = debt_index[j][w] \/ debt_index'[j][w] = NoDebt
  BY <1>1, <1>2
<1> QED
  BY <1>1, <1>5, <1>6, <1>7, LoanWritten

-----------------------------------------------------------------------------
(* Liquidation.                                                            *)

(* What an order offers is put on hold.                                    *)
LEMMA OrderHeld ==
    ASSUME LendingInv, NEW l, NEW cs, NEW os \in Seq(Orders), FundsSound(l, cs, os),
           NEW m \in MarketIds, MarketExists(m), NEW o \in Orders, o.market = m,
           o.amount <= l[markets[m].collateral][MarketAccount(m)].free,
           NEW k, k = ReserveFunds(l, markets[m].collateral, MarketAccount(m), o.amount)
    PROVE  FundsSound(k, cs, Append(os, o))
<1> DEFINE n == o.amount
           b == BorrowAsset(m)
           c == markets[m].collateral
           acc == MarketAccount(m)
<1>1. /\ b \in AssetIds /\ c \in AssetIds /\ c \notin DebtIds /\ b # c /\ n \in Nat
  BY MarketNames DEF Orders
<1>2. acc \in Accounts
  BY MarketAccounts
<1>3. /\ l \in Ledger /\ cs \in Structures
      /\ Credited(m) = TotalBalance(l, c, acc) + soldCollateral[m]
      /\ Offered(os, m) <= l[c][acc].reserved
      /\ Owes(cs, m) <= TotalBalance(l, b, acc) + Lent(l, m)
      /\ DebtsHeld(l, m)
  BY BackedParts
<1>4. l[c][acc].reserved \in Nat /\ n <= l[c][acc].free
  BY <1>1, <1>2, <1>3, LedgerEntries
<1>5. k = ReserveFunds(l, c, acc, n)
  OBVIOUS
<1> HIDE DEF n, b, c, acc
<1>6. /\ k \in Ledger
      /\ k[c][acc].reserved = l[c][acc].reserved + n
      /\ TotalBalance(k, c, acc) = TotalBalance(l, c, acc)
      /\ \A a \in AssetIds, w \in Accounts : a # c \/ w # acc => k[a][w] = l[a][w]
  BY <1>1, <1>2, <1>3, <1>4, <1>5, ReserveFundsFacts
<1>7. /\ \A j \in MarketIds : j # m => SameFunds(l, k, j)
      /\ \A w \in Accounts : k[DebtTokens[m]][w] = l[DebtTokens[m]][w]
      /\ \A a \in AssetIds : a # c => k[a][MarketAccount(m)] = l[a][MarketAccount(m)]
  <2> DEFINE S == {acc}
  <2>1. OnlyMoves(l, k, c, S)
    BY <1>6 DEF OnlyMoves
  <2>2. \A w \in S : w = MarketAccount(m) \/ Outside(w)
    BY DEF acc
  <2> HIDE DEF S
  <2>3. MovesIn(l, k, m, c)
    BY <1>1, <2>1, <2>2, MarketMove
  <2> QED
    BY <2>3 DEF MovesIn
<1>8. /\ Append(os, o) \in Seq(Orders)
      /\ \A j \in MarketIds : /\ Offered(Append(os, o), j) = Offered(os, j) + AmountFor(o, j)
                              /\ Offered(os, j) \in Nat
  BY OfferedAppend, OfferedIs
<1>9. AmountFor(o, m) = n /\ \A j \in MarketIds : j # m => AmountFor(o, j) = 0
  BY DEF AmountFor, n
<1>10. DebtsHeld(k, m)
  BY <1>3, <1>7, DebtsSame
<1>11. Backed(k, cs, Append(os, o), m)
  <2>1. /\ Credited(m) = TotalBalance(k, c, acc) + soldCollateral[m]
        /\ Offered(Append(os, o), m) <= k[c][acc].reserved
    BY <1>1, <1>3, <1>4, <1>6, <1>8, <1>9
  <2>2. k[b][acc] = l[b][acc]
    BY <1>1, <1>2, <1>6
  <2>3. Lent(k, m) = Lent(l, m)
    BY <1>3, <1>6, <1>7, UsersFacts, LentSame
  <2>4. Owes(cs, m) <= TotalBalance(k, b, acc) + Lent(k, m)
    BY <1>3, <2>2, <2>3 DEF TotalBalance
  <2> QED
    BY <2>1, <2>4 DEF Backed, Owes, TotalCash, c, acc, b
<1>12. \A j \in MarketIds : j # m /\ MarketExists(j) =>
          Owes(cs, j) <= Owes(cs, j) /\ Offered(Append(os, o), j) <= Offered(os, j)
  <2>1. \A j \in MarketIds : j # m => Offered(Append(os, o), j) <= Offered(os, j)
    BY <1>8, <1>9
  <2>2. \A j \in MarketIds : MarketExists(j) => Owes(cs, j) <= Owes(cs, j)
    BY <1>3, OwesSame
  <2> QED
    BY <2>1, <2>2
<1> QED
  BY <1>3, <1>6, <1>7, <1>8, <1>10, <1>11, <1>12, OneMarketMoves

(* What asking strategies for the order o may end in.                      *)
Asking(cs, os, o) ==
    {a \in [ledger: Ledger, accepted: BOOLEAN] :
        FundsSound(a.ledger, cs, IF a.accepted THEN Append(os, o) ELSE os)}

LEMMA AskKeeps ==
    ASSUME LendingInv, NEW cs, NEW os \in Seq(Orders), NEW m \in MarketIds, MarketExists(m),
           NEW o \in Orders, o.market = m, OrderSound(o),
           NEW a \in Asking(cs, os, o), ~a.accepted
    PROVE  Ask(a, o) \in Asking(cs, os, o)
<1> DEFINE paid == Transfer(a.ledger, NativeAsset, o.from, AuctionAccount, AskDeposit)
           done == ReserveFunds(paid, o.base, o.from, o.amount)
<1>1. /\ a \in [ledger: Ledger, accepted: BOOLEAN] /\ a.ledger \in Ledger
      /\ FundsSound(a.ledger, cs, os)
  BY DEF Asking
<1>2. /\ o.from = MarketAccount(m) /\ o.base = markets[m].collateral /\ o.amount \in Nat
  BY DEF OrderSound, Orders
<1>3. /\ o.from \in Accounts /\ AuctionAccount \in Accounts /\ AskDeposit \in Nat
      /\ o.base \in AssetIds
  BY <1>2, MarketAccounts, LiquidationsTypes, MarketNames DEF Accounts
<1>4. CASE \/ o.amount = 0
           \/ ~CanTransfer(a.ledger, NativeAsset, o.from, AuctionAccount, AskDeposit, TRUE)
  BY <1>4 DEF Ask
<1>5. CASE ~(\/ o.amount = 0
             \/ ~CanTransfer(a.ledger, NativeAsset, o.from, AuctionAccount, AskDeposit, TRUE))
  <2>1. KeepsAlive(a.ledger, NativeAsset, o.from, AuctionAccount, AskDeposit)
    BY <1>5 DEF KeepsAlive
  <2>2. MayDie(a.ledger, NativeAsset, o.from, AuctionAccount, AskDeposit)
    BY <2>1, KeptMayDie
  <2>3. FundsSound(paid, cs, os)
    BY <1>1, <1>3, <2>2, NativePaid
  <2> HIDE DEF paid
  <2>4. paid \in Ledger
    BY <2>3 DEF FundsSound
  <2>5. CASE ~CanReserve(paid, o.base, o.from, o.amount)
    <3>1. Ask(a, o) = [a EXCEPT !.ledger = paid]
      BY <1>5, <2>5 DEF Ask, paid
    <3>2. /\ [a EXCEPT !.ledger = paid] \in [ledger: Ledger, accepted: BOOLEAN]
          /\ [a EXCEPT !.ledger = paid].ledger = paid
          /\ [a EXCEPT !.ledger = paid].accepted = a.accepted
      BY <1>1, <2>4
    <3> QED
      BY <2>3, <3>1, <3>2 DEF Asking
  <2>6. CASE CanReserve(paid, o.base, o.from, o.amount)
    <3>1. Ask(a, o) = [ledger |-> done, accepted |-> TRUE]
      BY <1>5, <2>6 DEF Ask, paid
    <3>2. o.amount <= paid[o.base][o.from].free
      BY <1>2, <1>3, <1>5, <2>4, <2>6, LedgerEntries DEF CanReserve
    <3>3. FundsSound(done, cs, Append(os, o))
      BY <1>2, <2>3, <3>2, OrderHeld
    <3>4. done \in Ledger
      BY <3>3 DEF FundsSound
    <3> HIDE DEF done
    <3>5. Ask(a, o) \in [ledger: Ledger, accepted: BOOLEAN]
            /\ Ask(a, o).ledger = done /\ Ask(a, o).accepted = TRUE
      BY <3>1, <3>4
    <3> QED
      BY <3>3, <3>5 DEF Asking
  <2> QED
    BY <2>5, <2>6
<1> QED
  BY <1>4, <1>5

(* The recursion of Liquidated over a list of strategies.                  *)
AskedOne(a, o, list, k) ==
    IF a.accepted \/ list[k] \notin StrategyIds THEN a ELSE Ask(a, o)
AskedAll(f, l, o, list) ==
    f = [k \in 0..Len(list) |->
            IF k = 0 THEN [ledger |-> l, accepted |-> FALSE]
            ELSE IF f[k - 1].accepted \/ list[k] \notin StrategyIds THEN f[k - 1]
            ELSE Ask(f[k - 1], o)]

LEMMA AskedAllExists ==
    ASSUME NEW l, NEW o, NEW list, Len(list) \in Nat, NEW S,
           [ledger |-> l, accepted |-> FALSE] \in S,
           \A a \in S, k \in 1..Len(list) : AskedOne(a, o, list, k) \in S
    PROVE  \E f : AskedAll(f, l, o, list)
<1> DEFINE n == Len(list)
           b == [ledger |-> l, accepted |-> FALSE]
           step == [p \in S \X (1..n) |-> AskedOne(p[1], o, list, p[2])]
<1>1. n \in Nat /\ b \in S
  OBVIOUS
<1>2. \A a \in S, k \in 1..n : AskedOne(a, o, list, k) \in S
  OBVIOUS
<1> HIDE DEF n, b
<1>3. step \in [S \X (1..n) -> S]
  BY <1>2
<1>4. \A a \in S, k \in 1..n : step[<<a, k>>] = AskedOne(a, o, list, k)
  OBVIOUS
<1> HIDE DEF step
<1>5. PICK h : Walks(h, S, n, b, step)
  BY <1>1, <1>3, WalkExists
<1>6. h \in [0..n -> S] /\ h[0] = b
  BY <1>5 DEF Walks
<1>7. ASSUME NEW k \in 0..n, k # 0
      PROVE  h[k] = AskedOne(h[k - 1], o, list, k)
  <2>1. k \in 1..n /\ k - 1 \in 0..n
    BY <1>1, <1>7
  <2>2. h[k] = step[<<h[k - 1], k>>] /\ h[k - 1] \in S
    BY <1>5, <1>6, <2>1 DEF Walks
  <2> QED
    BY <1>4, <2>1, <2>2
<1>8. ASSUME NEW k \in 0..n
      PROVE  h[k] = IF k = 0 THEN [ledger |-> l, accepted |-> FALSE]
                    ELSE IF h[k - 1].accepted \/ list[k] \notin StrategyIds THEN h[k - 1]
                    ELSE Ask(h[k - 1], o)
  <2>1. CASE k = 0
    BY <1>6, <2>1 DEF b
  <2>2. CASE k # 0
    BY <1>7, <2>2 DEF AskedOne
  <2> QED
    BY <2>1, <2>2
<1>9. h = [k \in 0..n |-> h[k]]
  BY <1>6
<1>10. h = [k \in 0..n |->
              IF k = 0 THEN [ledger |-> l, accepted |-> FALSE]
              ELSE IF h[k - 1].accepted \/ list[k] \notin StrategyIds THEN h[k - 1]
              ELSE Ask(h[k - 1], o)]
  BY <1>8, <1>9, Zenon
<1> QED
  BY <1>10 DEF AskedAll, n

LEMMA AskedAllStays ==
    ASSUME NEW l, NEW o, NEW list, Len(list) \in Nat, NEW S, NEW f, AskedAll(f, l, o, list),
           [ledger |-> l, accepted |-> FALSE] \in S,
           \A a \in S, k \in 1..Len(list) : AskedOne(a, o, list, k) \in S
    PROVE  f[Len(list)] \in S
<1> DEFINE n == Len(list)
<1>1. f[0] \in S
  BY DEF AskedAll
<1>2. ASSUME NEW k \in 1..n, f[k - 1] \in S PROVE f[k] \in S
  <2>1. k \in 0..n /\ k # 0
    OBVIOUS
  <2>2. f[k] = AskedOne(f[k - 1], o, list, k)
    BY <2>1 DEF AskedAll, AskedOne
  <2> QED
    BY <1>2, <2>2
<1>3. \A k \in 0..n : f[k] \in S
  BY <1>1, <1>2, StepsStay
<1> QED
  BY <1>3

LEMMA LiquidatedKeeps ==
    ASSUME LendingInv, NEW l, NEW cs, NEW os \in Seq(Orders), FundsSound(l, cs, os),
           NEW m \in MarketIds, MarketExists(m), NEW o \in Orders, o.market = m, OrderSound(o)
    PROVE  Liquidated(l, o, markets[m].liquidators) \in Asking(cs, os, o)
<1> DEFINE conf == markets[m].liquidators
           list == IF conf = <<>> THEN <<DefaultStrategy>> ELSE conf
           asked == CHOOSE f : AskedAll(f, l, o, list)
           S == Asking(cs, os, o)
<1>1. conf \in Seq(Nat)
  BY MarketNames DEF Market
<1>2. Len(list) \in Nat
  BY <1>1, LenProperties
<1>3. Liquidated(l, o, conf) = asked[Len(list)]
  BY DEF Liquidated, AskedAll
<1> HIDE DEF conf, list
<1>4. [ledger |-> l, accepted |-> FALSE] \in S
  BY DEF Asking, FundsSound
<1>5. ASSUME NEW a \in S, NEW k \in 1..Len(list) PROVE AskedOne(a, o, list, k) \in S
  BY AskKeeps DEF AskedOne
<1> HIDE DEF S
<1>6. \E f : AskedAll(f, l, o, list)
  BY <1>2, <1>4, <1>5, AskedAllExists
<1>7. AskedAll(asked, l, o, list)
  BY <1>6
<1> HIDE DEF asked
<1>8. asked[Len(list)] \in S
  BY <1>2, <1>4, <1>5, <1>7, AskedAllStays
<1> QED
  BY <1>3, <1>8 DEF conf, S

(* What liquidating some borrowers may end in.                             *)
Liquidation == [ok: BOOLEAN, ledger: Ledger, orders: Seq(Orders)]
Liquidating ==
    {a \in Liquidation : /\ FundsSound(a.ledger, capital_structure, a.orders)
                         /\ \A i \in DOMAIN a.orders : OrderSound(a.orders[i])}

LEMMA AppendedSound ==
    ASSUME NEW os \in Seq(Orders), NEW o \in Orders, OrderSound(o),
           \A i \in DOMAIN os : OrderSound(os[i])
    PROVE  \A i \in DOMAIN Append(os, o) : OrderSound(Append(os, o)[i])
<1>1. /\ Len(Append(os, o)) = Len(os) + 1 /\ Len(os) \in Nat /\ DOMAIN os = 1..Len(os)
      /\ DOMAIN Append(os, o) = 1..(Len(os) + 1)
      /\ Append(os, o)[Len(os) + 1] = o /\ \A i \in 1..Len(os) : Append(os, o)[i] = os[i]
  BY LenProperties
<1> TAKE i \in DOMAIN Append(os, o)
<1>2. CASE i = Len(os) + 1
  BY <1>1, <1>2
<1>3. CASE i # Len(os) + 1
  <2>1. i \in 1..Len(os)
    BY <1>1, <1>3
  <2> QED
    BY <1>1, <2>1
<1> QED
  BY <1>2, <1>3

LEMMA LiquidateOneKeeps ==
    ASSUME LendingInv, NEW a \in Liquidating, NEW liquidator \in Users,
           NEW m \in MarketIds, MarketExists(m), NEW who \in Users
    PROVE  LiquidateOne(a, liquidator, m, who) \in Liquidating
<1> DEFINE o == OrderFor(m, who)
           acc == MarketAccount(m)
           asked == Liquidated(a.ledger, o, markets[m].liquidators)
           rent == IF borrow_rent[m][who] = NoDebt THEN 0 ELSE borrow_rent[m][who]
           pays == MayDie(asked.ledger, NativeAsset, acc, liquidator, rent)
           paid == Transfer(asked.ledger, NativeAsset, acc, liquidator, rent)
           more == Append(a.orders, o)
           new == LiquidateOne(a, liquidator, m, who)
<1>1. /\ a \in Liquidation /\ a.ok \in BOOLEAN /\ a.ledger \in Ledger /\ a.orders \in Seq(Orders)
      /\ FundsSound(a.ledger, capital_structure, a.orders)
      /\ \A i \in DOMAIN a.orders : OrderSound(a.orders[i])
  BY DEF Liquidating, Liquidation
<1>2. CASE ~ShouldLiquidate(m, who)
  BY <1>2 DEF LiquidateOne
<1>3. CASE ShouldLiquidate(m, who) /\ ~(a.ok /\ asked.accepted /\ pays)
  <2>1. new = [a EXCEPT !.ok = FALSE]
    BY <1>3 DEF LiquidateOne, MayDie
  <2> HIDE DEF new
  <2>2. new \in Liquidation /\ new.ledger = a.ledger /\ new.orders = a.orders
    BY <1>1, <2>1 DEF Liquidation
  <2> QED
    BY <1>1, <2>2 DEF Liquidating, new
<1>4. CASE ShouldLiquidate(m, who) /\ a.ok /\ asked.accepted /\ pays
  <2>1. new = [a EXCEPT !.ledger = paid, !.orders = more]
    BY <1>4 DEF LiquidateOne, MayDie
  <2>2. /\ o \in Orders /\ o.market = m
        /\ OrderSound(o)
    <3>1. /\ markets[m].collateral \in AssetIds /\ BorrowAsset(m) \in AssetIds
          /\ acc \in SubAccounts /\ CollateralOf(m, who) \in Nat
      BY MarketNames, MarketAccounts, CreditedIs, InvParts
    <3>2. o = [market |-> m, from |-> acc, base |-> markets[m].collateral,
               quote |-> BorrowAsset(m), amount |-> CollateralOf(m, who)]
      BY DEF OrderFor
    <3> HIDE DEF o, acc
    <3>3. o \in Orders
      BY <3>1, <3>2 DEF Orders
    <3>4. /\ o.market = m /\ o.from = MarketAccount(m) /\ o.base = markets[m].collateral
          /\ o.quote = BorrowAsset(m)
      BY <3>2 DEF acc
    <3> QED
      BY <3>3, <3>4 DEF OrderSound
  <2> HIDE DEF o, new
  <2>3. asked \in Asking(capital_structure, a.orders, o)
    BY <1>1, <2>2, LiquidatedKeeps
  <2> HIDE DEF asked
  <2>4. FundsSound(asked.ledger, capital_structure, more) /\ more \in Seq(Orders)
    BY <1>1, <1>4, <2>2, <2>3 DEF Asking
  <2>5. rent \in Nat /\ acc \in Accounts /\ liquidator \in Accounts
    <3>1. borrow_rent[m][who] \in Nat \cup {NoDebt}
      BY InvParts
    <3> QED
      BY <3>1, MarketAccounts, UsersFacts
  <2> HIDE DEF rent, more
  <2>6. FundsSound(paid, capital_structure, more)
    BY <1>4, <2>4, <2>5, NativePaid
  <2>7. paid \in Ledger
    BY <2>6 DEF FundsSound
  <2> HIDE DEF paid
  <2>8. new \in Liquidation /\ new.ledger = paid /\ new.orders = more
    BY <1>1, <2>1, <2>4, <2>7, Zenon DEF Liquidation
  <2>9. \A i \in DOMAIN more : OrderSound(more[i])
    BY <1>1, <2>2, AppendedSound DEF more
  <2> QED
    BY <2>6, <2>8, <2>9 DEF Liquidating, new
<1> QED
  BY <1>2, <1>3, <1>4

(* The recursion of LiquidateAll over the borrowers.                       *)
LiquidatedAll(f, liquidator, m, borrowers) ==
    f = [k \in 0..Len(borrowers) |->
            IF k = 0 THEN [ok |-> TRUE, ledger |-> ledger, orders |-> orders]
            ELSE LiquidateOne(f[k - 1], liquidator, m, borrowers[k])]

LEMMA LiquidatedAllExists ==
    ASSUME NEW liquidator, NEW m, NEW borrowers, Len(borrowers) \in Nat, NEW S,
           [ok |-> TRUE, ledger |-> ledger, orders |-> orders] \in S,
           \A a \in S, k \in 1..Len(borrowers) :
              LiquidateOne(a, liquidator, m, borrowers[k]) \in S
    PROVE  \E f : LiquidatedAll(f, liquidator, m, borrowers)
<1> DEFINE n == Len(borrowers)
           b == [ok |-> TRUE, ledger |-> ledger, orders |-> orders]
           step == [p \in S \X (1..n) |-> LiquidateOne(p[1], liquidator, m, borrowers[p[2]])]
<1>1. n \in Nat /\ b \in S
  OBVIOUS
<1>2. \A a \in S, k \in 1..n : LiquidateOne(a, liquidator, m, borrowers[k]) \in S
  OBVIOUS
<1> HIDE DEF n, b
<1>3. step \in [S \X (1..n) -> S]
  BY <1>2
<1>4. \A a \in S, k \in 1..n : step[<<a, k>>] = LiquidateOne(a, liquidator, m, borrowers[k])
  OBVIOUS
<1> HIDE DEF step
<1>5. PICK h : Walks(h, S, n, b, step)
  BY <1>1, <1>3, WalkExists
<1>6. h \in [0..n -> S] /\ h[0] = b
  BY <1>5 DEF Walks
<1>7. ASSUME NEW k \in 0..n
      PROVE  h[k] = IF k = 0 THEN b ELSE LiquidateOne(h[k - 1], liquidator, m, borrowers[k])
  <2>1. CASE k = 0
    BY <1>6, <2>1
  <2>2. CASE k # 0
    <3>1. k \in 1..n /\ k - 1 \in 0..n
      BY <1>1, <2>2
    <3>2. h[k] = step[<<h[k - 1], k>>] /\ h[k - 1] \in S
      BY <1>5, <1>6, <3>1 DEF Walks
    <3> QED
      BY <1>4, <2>2, <3>1, <3>2
  <2> QED
    BY <2>1, <2>2
<1>8. h = [k \in 0..n |-> h[k]]
  BY <1>6
<1>9. h = [k \in 0..n |-> IF k = 0 THEN b
                          ELSE LiquidateOne(h[k - 1], liquidator, m, borrowers[k])]
  BY <1>7, <1>8, Zenon
<1> QED
  BY <1>9 DEF LiquidatedAll, n, b

LEMMA LiquidateAllKeeps ==
    ASSUME LendingInv, NEW liquidator \in Users, NEW m \in MarketIds, MarketExists(m),
           NEW borrowers \in Seq(Users)
    PROVE  LiquidateAll(liquidator, m, borrowers) \in Liquidating
<1> DEFINE n == Len(borrowers)
           done == CHOOSE f : LiquidatedAll(f, liquidator, m, borrowers)
           S == Liquidating
<1>1. n \in Nat /\ \A k \in 1..n : borrowers[k] \in Users
  BY LenProperties
<1>2. LiquidateAll(liquidator, m, borrowers) = done[n]
  BY DEF LiquidateAll, LiquidatedAll
<1> HIDE DEF n
<1>3. [ok |-> TRUE, ledger |-> ledger, orders |-> orders] \in S
  BY InvParts DEF Liquidating, Liquidation, LendingInv
<1>4. ASSUME NEW a \in S, NEW k \in 1..n
      PROVE  LiquidateOne(a, liquidator, m, borrowers[k]) \in S
  BY <1>1, LiquidateOneKeeps
<1> HIDE DEF S
<1>5. \E f : LiquidatedAll(f, liquidator, m, borrowers)
  BY <1>1, <1>3, <1>4, LiquidatedAllExists DEF n
<1>6. LiquidatedAll(done, liquidator, m, borrowers)
  BY <1>5
<1> HIDE DEF done
<1>7. done[0] \in S
  BY <1>1, <1>3, <1>6 DEF LiquidatedAll, n
<1>8. ASSUME NEW k \in 1..n, done[k - 1] \in S PROVE done[k] \in S
  <2>1. k \in 0..Len(borrowers) /\ k # 0
    BY <1>1 DEF n
  <2>2. done[k] = LiquidateOne(done[k - 1], liquidator, m, borrowers[k])
    BY <1>6, <2>1 DEF LiquidatedAll
  <2> QED
    BY <1>4, <1>8, <2>2
<1>9. \A k \in 0..n : done[k] \in S
  BY <1>1, <1>7, <1>8, StepsStay
<1>10. done[n] \in S
  BY <1>1, <1>9
<1> QED
  BY <1>2, <1>10 DEF S

LEMMA LiquidateBacked ==
    ASSUME LendingInv, NEW liquidator \in Users, NEW m \in MarketIds,
           NEW borrowers \in Seq(Users), Liquidate(liquidator, m, borrowers)
    PROVE  LendingInv'
<1> DEFINE after == LiquidateAll(liquidator, m, borrowers)
<1>1. /\ MarketExists(m) /\ ledger' = after.ledger /\ orders' = after.orders
      /\ UNCHANGED <<now, vaultVars, marketVars, loanVars, soldCollateral>>
  BY DEF Liquidate
<1>2. after \in Liquidating
  BY <1>1, LiquidateAllKeeps
<1> HIDE DEF after
<1>3. /\ after.ledger \in Ledger /\ after.orders \in Seq(Orders)
      /\ FundsSound(after.ledger, capital_structure, after.orders)
      /\ \A i \in DOMAIN after.orders : OrderSound(after.orders[i])
  BY <1>2 DEF Liquidating, Liquidation
<1>4. /\ ledger' \in Ledger /\ orders' \in Seq(Orders)
      /\ FundsSound(ledger', capital_structure, orders')
      /\ \A i \in DOMAIN orders' : OrderSound(orders'[i])
  BY <1>1, <1>3
<1>5. /\ now' = now /\ vault_count' = vault_count /\ lp_tokens_to_vaults' = lp_tokens_to_vaults
      /\ vaults' = vaults /\ capital_structure' = capital_structure
      /\ lending_count' = lending_count /\ markets' = markets /\ borrow_index' = borrow_index
      /\ last_block_timestamp' = last_block_timestamp /\ debt_index' = debt_index
      /\ borrow_timestamp' = borrow_timestamp /\ borrow_rent' = borrow_rent
      /\ account_collateral' = account_collateral /\ soldCollateral' = soldCollateral
  BY <1>1 DEF vaultVars, marketVars, loanVars
<1>6. LoanBooks'
  <2>1. VaultTypeOK'
    BY <1>5 DEF LendingInv, LoanBooks, VaultTypeOK
  <2>2. LendingTypeOK'
    BY <1>4, <1>5 DEF LendingInv, LoanBooks, LendingTypeOK, MarketExists
  <2> QED
    BY <1>4, <1>5, <2>1, <2>2 DEF LendingInv, LoanBooks
<1>7. \A j \in MarketIds, who \in Users : Loan(j, who)'
  BY <1>5, LoansSame
<1>8. FundsSound(ledger', capital_structure', orders')
  BY <1>4, <1>5
<1> QED
  BY <1>4, <1>5, <1>6, <1>7, <1>8, LoansStay

-----------------------------------------------------------------------------
(* Blocks.                                                                 *)

(* What a strategy holds is written.                                       *)
Written(cs, id, s, x) ==
    [cs EXCEPT ![id][s] = [Overview(cs, id, s) EXCEPT !.balance = x]]

LEMMA WrittenFacts ==
    ASSUME NEW cs \in Structures, NEW id \in VaultIds, NEW s \in Strategists, NEW x \in Nat
    PROVE  /\ Written(cs, id, s, x) \in Structures
           /\ StrategyBalance(Written(cs, id, s, x), id, s) = x
           /\ \A i \in VaultIds, t \in Strategists :
                 i # id \/ t # s => Written(cs, id, s, x)[i][t] = cs[i][t]
           /\ Overview(cs, id, s).balance = StrategyBalance(cs, id, s)
           /\ StrategyBalance(cs, id, s) \in Nat
<1> DEFINE o == Overview(cs, id, s)
           new == [o EXCEPT !.balance = x]
           xs == Written(cs, id, s, x)
<1>1. cs[id][s] \in StrategyOverview \cup {NoStrategy}
  BY DEF Structures
<1>2. o \in StrategyOverview /\ o.balance = StrategyBalance(cs, id, s)
  <2>1. CASE cs[id][s] = NoStrategy
    <3>1. o = [allocation |-> 0, balance |-> 0] /\ StrategyBalance(cs, id, s) = 0
      BY <2>1 DEF Overview, StrategyBalance
    <3> QED
      BY <3>1, VaultNumbers DEF StrategyOverview
  <2>2. CASE cs[id][s] # NoStrategy
    BY <1>1, <2>2 DEF Overview, StrategyBalance
  <2> QED
    BY <2>1, <2>2
<1> HIDE DEF o
<1>3. new \in StrategyOverview /\ new.balance = x /\ o.balance \in Nat
  BY <1>2 DEF StrategyOverview
<1>4. new # NoStrategy
  BY <1>3, VaultTypes
<1>5. xs = [cs EXCEPT ![id][s] = new]
  BY DEF Written, o
<1> HIDE DEF new, xs
<1>6. /\ xs \in Structures /\ xs[id][s] = new
      /\ \A i \in VaultIds, t \in Strategists : i # id \/ t # s => xs[i][t] = cs[i][t]
  BY <1>3, <1>5 DEF Structures
<1>7. StrategyBalance(xs, id, s) = x
  BY <1>3, <1>4, <1>6 DEF StrategyBalance
<1> QED
  BY <1>2, <1>3, <1>6, <1>7 DEF o, xs

LEMMA OwesWritten ==
    ASSUME LendingInv, NEW cs \in Structures, NEW m \in MarketIds, MarketExists(m),
           NEW x \in Nat, NEW xs, xs = Written(cs, markets[m].borrow, MarketAccount(m), x)
    PROVE  /\ xs \in Structures /\ Owes(xs, m) = x
           /\ \A j \in MarketIds : j # m /\ MarketExists(j) => Owes(xs, j) <= Owes(cs, j)
           /\ Overview(cs, markets[m].borrow, MarketAccount(m)).balance = Owes(cs, m)
<1> DEFINE v == markets[m].borrow
           acc == MarketAccount(m)
<1>1. v \in VaultIds /\ acc \in Strategists
  BY MarketNames, MarketAccounts
<1> HIDE DEF v, acc
<1>2. /\ Written(cs, v, acc, x) \in Structures
      /\ StrategyBalance(Written(cs, v, acc, x), v, acc) = x
      /\ \A i \in VaultIds, t \in Strategists :
            i # v \/ t # acc => Written(cs, v, acc, x)[i][t] = cs[i][t]
      /\ Overview(cs, v, acc).balance = StrategyBalance(cs, v, acc)
  <2>1. cs \in Structures /\ v \in VaultIds /\ acc \in Strategists /\ x \in Nat
    BY <1>1
  <2> HIDE DEF Written
  <2> QED
    BY ONLY <2>1, WrittenFacts
<1>3. xs = Written(cs, v, acc, x)
  BY DEF v, acc
<1>4. ASSUME NEW j \in MarketIds, j # m, MarketExists(j) PROVE Owes(xs, j) <= Owes(cs, j)
  <2> DEFINE i == markets[j].borrow
             t == MarketAccount(j)
  <2>1. i \in VaultIds /\ t \in Strategists /\ t # acc
    BY <1>4, MarketNames, MarketAccounts DEF acc
  <2> HIDE DEF i, t
  <2>2. xs[i][t] = cs[i][t]
    BY <1>2, <1>3, <2>1
  <2>3. Owes(xs, j) = Owes(cs, j)
    BY <2>2 DEF Owes, StrategyBalance, i, t
  <2> QED
    BY <1>4, <2>3, OwesType
<1> QED
  BY <1>2, <1>3, <1>4 DEF Owes, v, acc

(* Interest is debt tokens that the market's account holds.                *)
LEMMA InterestKeeps ==
    ASSUME LendingInv, NEW l, NEW cs, NEW os \in Seq(Orders), FundsSound(l, cs, os),
           NEW m \in MarketIds, MarketExists(m), NEW n \in Nat,
           NEW k, k = Mint(l, DebtTokens[m], MarketAccount(m), n)
    PROVE  FundsSound(k, cs, os)
<1> DEFINE d == DebtTokens[m]
           b == BorrowAsset(m)
           c == markets[m].collateral
           acc == MarketAccount(m)
<1>1. /\ d \in AssetIds /\ d \in DebtIds /\ b \in AssetIds /\ b \notin DebtIds
      /\ c \in AssetIds /\ c \notin DebtIds
  BY MarketNames, DebtTokenFacts
<1>2. acc \in Accounts /\ acc \notin Users
  BY MarketAccounts
<1>3. /\ l \in Ledger /\ cs \in Structures
      /\ Credited(m) = TotalBalance(l, c, acc) + soldCollateral[m]
      /\ Offered(os, m) <= l[c][acc].reserved
      /\ Owes(cs, m) <= TotalBalance(l, b, acc) + Lent(l, m)
      /\ DebtsHeld(l, m)
  BY BackedParts
<1>4. k = Deposit(l, d, acc, n)
  BY DEF Mint
<1> HIDE DEF d, b, c, acc
<1>5. /\ k \in Ledger /\ k[d][acc].reserved = l[d][acc].reserved
      /\ \A a \in AssetIds, w \in Accounts : a # d \/ w # acc => k[a][w] = l[a][w]
  <2>1. /\ Deposit(l, d, acc, n) \in Ledger
        /\ Deposit(l, d, acc, n)[d][acc].reserved = l[d][acc].reserved
        /\ \A a \in AssetIds, w \in Accounts :
              a # d \/ w # acc => Deposit(l, d, acc, n)[a][w] = l[a][w]
    <3>1. l \in Ledger /\ d \in AssetIds /\ acc \in Accounts /\ n \in Nat
      BY <1>1, <1>2, <1>3
    <3>2. Deposit(l, d, acc, n)[d][acc].reserved = l[d][acc].reserved
      BY <3>1, DepositHold
    <3>3. /\ Deposit(l, d, acc, n) \in Ledger
          /\ \A a \in AssetIds, w \in Accounts :
                a # d \/ w # acc => Deposit(l, d, acc, n)[a][w] = l[a][w]
      BY <3>1, DepositFacts
    <3> QED
      BY <3>2, <3>3
  <2> QED
    BY <1>4, <2>1
<1>6. ASSUME NEW j \in MarketIds, j # m PROVE SameFunds(l, k, j)
  <2>1. /\ MarketAccount(j) \in Accounts /\ MarketAccount(j) # acc
        /\ DebtTokens[j] \in AssetIds /\ DebtTokens[j] # d
    BY <1>6, MarketAccounts, DebtTokenFacts DEF d, acc
  <2> QED
    BY <1>5, <2>1 DEF SameFunds
<1>7. \A w \in Users : k[DebtTokens[m]][w] = l[DebtTokens[m]][w]
  BY <1>1, <1>2, <1>5, UsersFacts DEF d
<1>8. DebtsHeld(k, m)
  BY <1>3, <1>5, <1>7 DEF DebtsHeld, d, acc
<1>9. Lent(k, m) = Lent(l, m)
  BY <1>3, <1>5, <1>7, LentSame
<1>10. k[c][acc] = l[c][acc] /\ k[b][acc] = l[b][acc]
  BY <1>1, <1>2, <1>5
<1>11. Backed(k, cs, os, m)
  <2>1. /\ Credited(m) = TotalBalance(k, c, acc) + soldCollateral[m]
        /\ Offered(os, m) <= k[c][acc].reserved
        /\ Owes(cs, m) <= TotalBalance(k, b, acc) + Lent(k, m)
    BY <1>3, <1>9, <1>10 DEF TotalBalance
  <2> QED
    BY <2>1 DEF Backed, Owes, TotalCash, c, acc, b
<1>12. \A j \in MarketIds : j # m /\ MarketExists(j) =>
          Owes(cs, j) <= Owes(cs, j) /\ Offered(os, j) <= Offered(os, j)
  BY <1>3, OwesSame, OfferedIs
<1> QED
  BY <1>3, <1>5, <1>6, <1>8, <1>11, <1>12, OneMarketMoves

(* Vault and market move funds, and the vault writes down as much.         *)
LEMMA VaultAndMarket ==
    ASSUME LendingInv, NEW l, NEW cs, NEW os \in Seq(Orders), FundsSound(l, cs, os),
           NEW m \in MarketIds, MarketExists(m), NEW x \in Nat,
           NEW xs, xs = Written(cs, markets[m].borrow, MarketAccount(m), x),
           NEW k \in Ledger,
           OnlyMoves(l, k, BorrowAsset(m), {MarketAccount(m), VaultAccount(markets[m].borrow)}),
           x <= TotalBalance(k, BorrowAsset(m), MarketAccount(m)) + Lent(l, m)
    PROVE  FundsSound(k, xs, os)
<1> DEFINE b == BorrowAsset(m)
           c == markets[m].collateral
           acc == MarketAccount(m)
           from == VaultAccount(markets[m].borrow)
           S == {acc, from}
<1>1. /\ b \in AssetIds /\ b \notin DebtIds /\ c \in AssetIds /\ b # c
  BY MarketNames
<1>2. acc \in Accounts /\ Outside(from)
  BY MarketAccounts, MarketNames, OutsideUsers
<1>3. /\ l \in Ledger /\ cs \in Structures
      /\ Credited(m) = TotalBalance(l, c, acc) + soldCollateral[m]
      /\ Offered(os, m) <= l[c][acc].reserved
      /\ DebtsHeld(l, m)
  BY BackedParts
<1>4. OnlyMoves(l, k, b, S)
  OBVIOUS
<1>5. \A w \in S : w = MarketAccount(m) \/ Outside(w)
  BY <1>2
<1> HIDE DEF b, c, S
<1>6. MovesIn(l, k, m, b)
  BY <1>1, <1>4, <1>5, MarketMove
<1>7. /\ \A j \in MarketIds : j # m => SameFunds(l, k, j)
      /\ \A w \in Accounts : k[DebtTokens[m]][w] = l[DebtTokens[m]][w]
      /\ \A a \in AssetIds : a # b => k[a][acc] = l[a][acc]
  BY <1>6 DEF MovesIn
<1>8. /\ xs \in Structures /\ Owes(xs, m) = x
      /\ \A j \in MarketIds : j # m /\ MarketExists(j) => Owes(xs, j) <= Owes(cs, j)
  BY <1>3, OwesWritten
<1>9. DebtsHeld(k, m)
  BY <1>3, <1>7, DebtsSame
<1>10. Lent(k, m) = Lent(l, m)
  BY <1>3, <1>7, UsersFacts, LentSame
<1>11. k[c][acc] = l[c][acc]
  BY <1>1, <1>7
<1>12. Backed(k, xs, os, m)
  <2>1. /\ Credited(m) = TotalBalance(k, c, acc) + soldCollateral[m]
        /\ Offered(os, m) <= k[c][acc].reserved
        /\ Owes(xs, m) <= TotalBalance(k, b, acc) + Lent(k, m)
    BY <1>3, <1>8, <1>10, <1>11 DEF TotalBalance, b
  <2> QED
    BY <2>1 DEF Backed, Owes, TotalCash, c, b
<1>13. \A j \in MarketIds : j # m /\ MarketExists(j) =>
          Owes(xs, j) <= Owes(cs, j) /\ Offered(os, j) <= Offered(os, j)
  BY <1>8, OfferedIs
<1> QED
  BY <1>7, <1>8, <1>9, <1>12, <1>13, OneMarketMoves

LEMMA FundsDrawn ==
    ASSUME LendingInv, NEW l, NEW cs, NEW os \in Seq(Orders), FundsSound(l, cs, os),
           NEW m \in MarketIds, MarketExists(m), NEW n \in Nat,
           CanStrategyWithdraw(l, markets[m].borrow, MarketAccount(m), n)
    PROVE  FundsSound(StrategyWithdraw(l, markets[m].borrow, MarketAccount(m), n),
                      WithdrawnStructure(cs, markets[m].borrow, MarketAccount(m), n), os)
<1> DEFINE v == markets[m].borrow
           acc == MarketAccount(m)
           b == BorrowAsset(m)
           k == StrategyWithdraw(l, v, acc, n)
           xs == WithdrawnStructure(cs, v, acc, n)
<1>1. /\ v \in VaultIds /\ b \in AssetIds /\ acc \in Accounts
      /\ VaultAccount(v) \in Accounts /\ VaultAccount(v) # acc
  BY MarketNames, MarketAccounts, UsersFacts
<1>2. /\ l \in Ledger /\ cs \in Structures
      /\ Owes(cs, m) <= TotalBalance(l, b, acc) + Lent(l, m)
      /\ Lent(l, m) \in Nat /\ Owes(cs, m) \in Nat /\ TotalBalance(l, b, acc) \in Nat
  BY BackedParts
<1>3. /\ KeepsAlive(l, b, VaultAccount(v), acc, n)
      /\ k = Transfer(l, b, VaultAccount(v), acc, n)
  BY DEF CanStrategyWithdraw, StrategyWithdraw, KeepsAlive, BorrowAsset
<1>4. MayDie(l, b, VaultAccount(v), acc, n)
  BY <1>3, KeptMayDie
<1> HIDE DEF b, k
<1>5. /\ k \in Ledger /\ TotalBalance(k, b, acc) = TotalBalance(l, b, acc) + n
      /\ \A a \in AssetIds, w \in Accounts :
            a # b \/ w \notin {VaultAccount(v), acc} => k[a][w] = l[a][w]
  BY <1>1, <1>2, <1>3, <1>4, Payee
<1>6. OnlyMoves(l, k, b, {acc, VaultAccount(v)})
  BY <1>5 DEF OnlyMoves
<1>7. xs = Written(cs, v, acc, Owes(cs, m) + n)
  <2>1. Overview(cs, v, acc).balance = Owes(cs, m)
    BY <1>2, OwesWritten
  <2> QED
    BY <2>1 DEF WithdrawnStructure, Written
<1>8. /\ Owes(cs, m) + n \in Nat
      /\ Owes(cs, m) + n <= TotalBalance(k, b, acc) + Lent(l, m)
  BY <1>2, <1>5
<1> HIDE DEF xs
<1>9. FundsSound(k, xs, os)
  BY <1>5, <1>6, <1>7, <1>8, VaultAndMarket DEF b
<1> QED
  BY <1>9 DEF k, xs

LEMMA FundsReturned ==
    ASSUME LendingInv, NEW l, NEW cs, NEW os \in Seq(Orders), FundsSound(l, cs, os),
           NEW m \in MarketIds, MarketExists(m), NEW n \in Nat,
           CanStrategyDeposit(l, markets[m].borrow, MarketAccount(m), n)
    PROVE  FundsSound(StrategyDeposit(l, markets[m].borrow, MarketAccount(m), n),
                      DepositedStructure(cs, markets[m].borrow, MarketAccount(m), n), os)
<1> DEFINE v == markets[m].borrow
           acc == MarketAccount(m)
           b == BorrowAsset(m)
           k == StrategyDeposit(l, v, acc, n)
           xs == DepositedStructure(cs, v, acc, n)
           x == SatSub(Owes(cs, m), n)
<1>1. /\ v \in VaultIds /\ b \in AssetIds /\ acc \in Accounts
      /\ VaultAccount(v) \in Accounts /\ VaultAccount(v) # acc
  BY MarketNames, MarketAccounts, UsersFacts
<1>2. /\ l \in Ledger /\ cs \in Structures
      /\ Owes(cs, m) <= TotalBalance(l, b, acc) + Lent(l, m)
      /\ Lent(l, m) \in Nat /\ Owes(cs, m) \in Nat /\ TotalBalance(l, b, acc) \in Nat
  BY BackedParts
<1>3. /\ KeepsAlive(l, b, acc, VaultAccount(v), n)
      /\ k = Transfer(l, b, acc, VaultAccount(v), n)
  BY DEF CanStrategyDeposit, StrategyDeposit, KeepsAlive, BorrowAsset
<1> HIDE DEF b, k
<1>4. /\ k \in Ledger /\ TotalBalance(k, b, acc) = TotalBalance(l, b, acc) - n
      /\ \A a \in AssetIds, w \in Accounts :
            a # b \/ w \notin {acc, VaultAccount(v)} => k[a][w] = l[a][w]
  BY <1>1, <1>2, <1>3, Payer
<1>5. OnlyMoves(l, k, b, {acc, VaultAccount(v)})
  BY <1>4 DEF OnlyMoves
<1>6. xs = Written(cs, v, acc, x)
  <2>1. Overview(cs, v, acc).balance = Owes(cs, m)
    BY <1>2, OwesWritten
  <2> QED
    BY <2>1 DEF DepositedStructure, Written
<1>7. TotalBalance(k, b, acc) \in Nat
  BY <1>1, <1>4, IssuanceIs
<1>8. x \in Nat /\ x <= TotalBalance(k, b, acc) + Lent(l, m)
  BY <1>2, <1>4, <1>7 DEF SatSub
<1> HIDE DEF xs, x
<1>9. FundsSound(k, xs, os)
  BY <1>4, <1>5, <1>6, <1>8, VaultAndMarket DEF b
<1> QED
  BY <1>9 DEF k, xs

LEMMA BorrowsType ==
    ASSUME LendingInv, NEW l \in Ledger, NEW m \in MarketIds, MarketExists(m)
    PROVE  /\ TotalBorrows(l, m) \in Nat
           /\ Utilization(l, m) \in 0..100
<1> DEFINE d == DebtTokens[m]
           acc == MarketAccount(m)
<1>1. d \in AssetIds /\ acc \in Accounts /\ BorrowAsset(m) \in AssetIds
  BY MarketNames, DebtTokenFacts, MarketAccounts
<1> HIDE DEF d, acc
<1>2. /\ Issuance(l, d) = SumFunctionOnSet(Totals(l, d), Accounts)
      /\ Issuance(l, d) \in Nat
      /\ \A w \in Accounts : Totals(l, d)[w] = TotalBalance(l, d, w) /\ TotalBalance(l, d, w) \in Nat
  BY <1>1, IssuanceIs
<1>3. IsFiniteSet(Accounts)
  BY VaultTypes
<1>4. \A w \in Accounts : Totals(l, d)[w] \in Nat
  BY <1>2
<1>5. Totals(l, d)[acc] <= SumFunctionOnSet(Totals(l, d), Accounts)
  BY <1>1, <1>3, <1>4, SumBounds
<1>6. TotalBalance(l, d, acc) <= Issuance(l, d) /\ TotalBalance(l, d, acc) \in Nat
  BY <1>1, <1>2, <1>5
<1>7. TotalBorrows(l, m) = Issuance(l, d) - TotalBalance(l, d, acc)
  BY DEF TotalBorrows, TotalInterest, d, acc
<1>8. TotalBorrows(l, m) \in Nat
  BY <1>2, <1>6, <1>7
<1>9. TotalCash(l, m) \in Nat
  BY <1>1, IssuanceIs DEF TotalCash, acc
<1>10. UtilizationRatio(TotalCash(l, m), TotalBorrows(l, m)) \in 0..100
  BY <1>8, <1>9, UtilizationRange
<1> QED
  BY <1>8, <1>10 DEF Utilization

LEMMA ElapsedType ==
    ASSUME LendingInv
    PROVE  Elapsed \in Nat
<1>1. now \in Nat /\ last_block_timestamp \in 0..now
  BY InvParts
<1> QED
  BY <1>1 DEF Elapsed

LEMMA FundsAvailableType ==
    ASSUME LendingInv, NEW l \in Ledger, NEW cs \in Structures,
           NEW m \in MarketIds, MarketExists(m),
           ~MustLiquidate(cs, markets[m].borrow, MarketAccount(m))
    PROVE  FundsAvailable(l, cs, markets[m].borrow, MarketAccount(m)) \in Int
<1> DEFINE v == markets[m].borrow
           acc == MarketAccount(m)
<1>1. v \in VaultIds /\ acc \in Strategists /\ vaults[v].asset_id \in AssetIds
  BY MarketNames, MarketAccounts DEF BorrowAsset
<1>2. cs[v][acc] # NoStrategy
  BY DEF MustLiquidate
<1> HIDE DEF v, acc
<1>3. cs[v][acc] \in StrategyOverview
  BY <1>1, <1>2 DEF Structures
<1>4. One \in Nat /\ One # 0
  BY VaultTypes
<1>5. cs[v][acc].allocation \in Nat /\ cs[v][acc].balance \in Nat
  BY <1>3, <1>4 DEF StrategyOverview
<1>6. Aum(l, cs, v) \in Nat
  BY <1>1, AumType
<1>7. cs[v][acc].allocation * Aum(l, cs, v) \in Nat
  BY <1>5, <1>6, TimesNat
<1>8. (cs[v][acc].allocation * Aum(l, cs, v)) \div One \in Int
  BY <1>4, <1>7
<1> QED
  BY <1>5, <1>8 DEF FundsAvailable, v, acc

LEMMA ReturnedType ==
    ASSUME LendingInv, NEW l \in Ledger, NEW cs \in Structures,
           NEW m \in MarketIds, MarketExists(m), ~Draws(l, cs, m)
    PROVE  Returned(l, cs, m) \in Nat
<1> DEFINE v == markets[m].borrow
           acc == MarketAccount(m)
           cash == Reducible(l, BorrowAsset(m), MarketAccount(m), FALSE)
<1>1. cash \in Nat
  BY MarketNames, MarketAccounts, ReducibleType
<1> HIDE DEF cash
<1>2. CASE MustLiquidate(cs, v, acc)
  BY <1>1, <1>2 DEF Returned, cash
<1>3. CASE ~MustLiquidate(cs, v, acc)
  <2>1. FundsAvailable(l, cs, v, acc) \in Int
    BY <1>3, FundsAvailableType
  <2>2. ~(FundsAvailable(l, cs, v, acc) > 0)
    BY <1>3 DEF Draws
  <2>3. -FundsAvailable(l, cs, v, acc) \in Nat
    BY <2>1, <2>2
  <2>4. Returned(l, cs, m) = LesserOf(cash, -FundsAvailable(l, cs, v, acc))
    BY <1>3 DEF Returned, cash
  <2> QED
    BY <1>1, <2>3, <2>4 DEF LesserOf
<1> QED
  BY <1>2, <1>3

(* The markets of a block, one after the other.                            *)
Initialization == [ok: BOOLEAN, ledger: Ledger, structure: Structures, index: [MarketIds -> Nat]]
Initializing ==
    {a \in Initialization : /\ FundsSound(a.ledger, a.structure, orders)
                            /\ \A j \in MarketIds : borrow_index[j] <= a.index[j]}

LEMMA IndexRaised ==
    ASSUME NEW index \in [MarketIds -> Nat], NEW m \in MarketIds, NEW x \in Nat,
           index[m] <= x, borrow_index \in [MarketIds -> Nat],
           \A j \in MarketIds : borrow_index[j] <= index[j]
    PROVE  /\ [index EXCEPT ![m] = x] \in [MarketIds -> Nat]
           /\ \A j \in MarketIds : borrow_index[j] <= [index EXCEPT ![m] = x][j]
OBVIOUS

LEMMA InitializeMarketKeeps ==
    ASSUME LendingInv, NEW a \in Initializing, NEW m \in MarketIds, MarketExists(m)
    PROVE  InitializeMarket(a, m) \in Initializing
<1> DEFINE cs == a.structure
           v == markets[m].borrow
           acc == MarketAccount(m)
           l == Accrued(a.ledger, m)
           n == IF Draws(l, cs, m) THEN FundsAvailable(l, cs, v, acc) ELSE Returned(l, cs, m)
           rate == RateOf(a.ledger, m)
           x == IncrementIndex(rate, a.index[m], Elapsed)
           index == [a.index EXCEPT ![m] = x]
           fails == [a EXCEPT !.ok = FALSE]
<1>1. /\ a \in Initialization /\ a.ok \in BOOLEAN /\ a.ledger \in Ledger /\ cs \in Structures
      /\ a.index \in [MarketIds -> Nat]
      /\ FundsSound(a.ledger, cs, orders)
      /\ \A j \in MarketIds : borrow_index[j] <= a.index[j]
  BY DEF Initializing, Initialization
<1>2. orders \in Seq(Orders) /\ borrow_index \in [MarketIds -> Nat]
  BY InvParts
<1>3. fails \in Initializing
  <2>1. /\ fails \in Initialization /\ fails.ledger = a.ledger
        /\ fails.structure = a.structure /\ fails.index = a.index
    BY <1>1 DEF Initialization
  <2> HIDE DEF fails
  <2> QED
    BY <1>1, <2>1 DEF Initializing
<1>4. ASSUME RateExists(markets[m].model, Utilization(a.ledger, m))
      PROVE  /\ rate \in Nat /\ x \in Nat /\ a.index[m] <= x
             /\ FundsSound(l, cs, orders)
  <2>1. TotalBorrows(a.ledger, m) \in Nat /\ Utilization(a.ledger, m) \in 0..100
    BY <1>1, BorrowsType
  <2>2. markets[m].model \in RateModel
    BY MarketNames DEF Market
  <2>3. rate \in Nat
    BY <1>4, <2>1, <2>2, BorrowRateNat DEF RateOf
  <2> HIDE DEF rate
  <2>4. Elapsed \in Nat /\ a.index[m] \in Nat
    BY <1>1, ElapsedType
  <2>5. /\ x \in Nat /\ a.index[m] <= x
        /\ AccruedInterest(rate, TotalBorrows(a.ledger, m), Elapsed) \in Nat
    BY <2>1, <2>3, <2>4, IndexGrows
  <2>6. l = Mint(a.ledger, DebtTokens[m], acc,
                 AccruedInterest(rate, TotalBorrows(a.ledger, m), Elapsed))
    BY DEF Accrued, rate
  <2> HIDE DEF l
  <2>7. FundsSound(l, cs, orders)
    BY <1>1, <1>2, <2>5, <2>6, InterestKeeps
  <2> QED
    BY <2>3, <2>5, <2>7
<1>5. InitializeMarket(a, m) =
        IF ~(a.ok /\ RateExists(markets[m].model, Utilization(a.ledger, m))) THEN fails
        ELSE IF Draws(l, cs, m) /\ CanStrategyWithdraw(l, v, acc, n)
        THEN [ok |-> TRUE, ledger |-> StrategyWithdraw(l, v, acc, n),
              structure |-> WithdrawnStructure(cs, v, acc, n), index |-> index]
        ELSE IF ~Draws(l, cs, m) /\ CanStrategyDeposit(l, v, acc, n)
        THEN [ok |-> TRUE, ledger |-> StrategyDeposit(l, v, acc, n),
              structure |-> DepositedStructure(cs, v, acc, n), index |-> index]
        ELSE fails
  BY DEF InitializeMarket
<1> HIDE DEF fails, l, n, rate, x
<1>6. ASSUME NEW k, NEW xs, FundsSound(k, xs, orders), x \in Nat, a.index[m] <= x
      PROVE  [ok |-> TRUE, ledger |-> k, structure |-> xs, index |-> index] \in Initializing
  <2>1. k \in Ledger /\ xs \in Structures
    BY <1>6 DEF FundsSound
  <2>2. index \in [MarketIds -> Nat] /\ \A j \in MarketIds : borrow_index[j] <= index[j]
    BY <1>1, <1>2, <1>6, IndexRaised
  <2> HIDE DEF index
  <2> QED
    BY <1>6, <2>1, <2>2 DEF Initializing, Initialization
<1> HIDE DEF index
<1>7. CASE ~(a.ok /\ RateExists(markets[m].model, Utilization(a.ledger, m)))
  BY <1>3, <1>5, <1>7
<1>8. CASE /\ a.ok /\ RateExists(markets[m].model, Utilization(a.ledger, m))
           /\ Draws(l, cs, m) /\ CanStrategyWithdraw(l, v, acc, n)
  <2>1. x \in Nat /\ a.index[m] <= x /\ FundsSound(l, cs, orders)
    BY <1>4, <1>8
  <2>2. l \in Ledger /\ n = FundsAvailable(l, cs, v, acc) /\ ~MustLiquidate(cs, v, acc) /\ n > 0
    BY <1>8, <2>1 DEF FundsSound, Draws, n
  <2>3. FundsAvailable(l, cs, v, acc) \in Int
    BY <1>1, <2>2, FundsAvailableType
  <2>4. n \in Nat
    BY <2>2, <2>3
  <2>5. FundsSound(StrategyWithdraw(l, v, acc, n), WithdrawnStructure(cs, v, acc, n), orders)
    BY <1>2, <1>8, <2>1, <2>4, FundsDrawn
  <2> QED
    BY <1>5, <1>6, <1>8, <2>1, <2>5
<1>9. CASE /\ a.ok /\ RateExists(markets[m].model, Utilization(a.ledger, m))
           /\ ~Draws(l, cs, m) /\ CanStrategyDeposit(l, v, acc, n)
  <2>1. x \in Nat /\ a.index[m] <= x /\ FundsSound(l, cs, orders)
    BY <1>4, <1>9
  <2>2. l \in Ledger /\ n = Returned(l, cs, m)
    BY <1>9, <2>1 DEF FundsSound, n
  <2>3. n \in Nat
    BY <1>1, <1>9, <2>2, ReturnedType
  <2>4. FundsSound(StrategyDeposit(l, v, acc, n), DepositedStructure(cs, v, acc, n), orders)
    BY <1>2, <1>9, <2>1, <2>3, FundsReturned
  <2> QED
    BY <1>5, <1>6, <1>9, <2>1, <2>4
<1> QED
  BY <1>3, <1>5, <1>7, <1>8, <1>9

StartOfBlock ==
    [ok |-> TRUE, ledger |-> ledger, structure |-> capital_structure, index |-> borrow_index]

InitializedAll(f) ==
    f = [k \in 0..lending_count |->
            IF k = 0 THEN [ok |-> TRUE, ledger |-> ledger,
                           structure |-> capital_structure, index |-> borrow_index]
            ELSE InitializeMarket(f[k - 1], k)]

LEMMA InitializedAllExists ==
    ASSUME lending_count \in Nat, NEW S, StartOfBlock \in S,
           \A a \in S, k \in 1..lending_count : InitializeMarket(a, k) \in S
    PROVE  \E f : InitializedAll(f)
<1> DEFINE n == lending_count
           b == StartOfBlock
           step == [p \in S \X (1..n) |-> InitializeMarket(p[1], p[2])]
<1>1. n \in Nat /\ b \in S
  OBVIOUS
<1>2. \A a \in S, k \in 1..n : InitializeMarket(a, k) \in S
  OBVIOUS
<1> HIDE DEF n, b
<1>3. step \in [S \X (1..n) -> S]
  BY <1>2
<1>4. \A a \in S, k \in 1..n : step[<<a, k>>] = InitializeMarket(a, k)
  OBVIOUS
<1> HIDE DEF step
<1>5. PICK h : Walks(h, S, n, b, step)
  BY <1>1, <1>3, WalkExists
<1>6. h \in [0..n -> S] /\ h[0] = b
  BY <1>5 DEF Walks
<1>7. ASSUME NEW k \in 0..n
      PROVE  h[k] = IF k = 0 THEN b ELSE InitializeMarket(h[k - 1], k)
  <2>1. CASE k = 0
    BY <1>6, <2>1
  <2>2. CASE k # 0
    <3>1. k \in 1..n /\ k - 1 \in 0..n
      BY <1>1, <2>2
    <3>2. h[k] = step[<<h[k - 1], k>>] /\ h[k - 1] \in S
      BY <1>5, <1>6, <3>1 DEF Walks
    <3> QED
      BY <1>4, <2>2, <3>1, <3>2
  <2> QED
    BY <2>1, <2>2
<1>8. h = [k \in 0..n |-> h[k]]
  BY <1>6
<1>9. h = [k \in 0..n |-> IF k = 0 THEN b ELSE InitializeMarket(h[k - 1], k)]
  BY <1>7, <1>8, Zenon
<1> QED
  BY <1>9 DEF InitializedAll, StartOfBlock, n, b

LEMMA InitializeMarketsKeep ==
    ASSUME LendingInv
    PROVE  InitializeMarkets \in Initializing
<1> DEFINE n == lending_count
           done == CHOOSE f : InitializedAll(f)
           S == Initializing
<1>1. n \in Nat /\ \A k \in 1..n : k \in MarketIds /\ MarketExists(k)
  <2>1. /\ n \in 0..MaxLendingCount
        /\ \A k \in MarketIds : MarketExists(k) <=> k <= lending_count
    BY InvParts
  <2>2. MaxLendingCount \in Nat
    BY LendingTypes
  <2> QED
    BY <2>1, <2>2 DEF MarketIds
<1>2. InitializeMarkets = done[n]
  BY DEF InitializeMarkets, InitializedAll
<1> HIDE DEF n
<1>3. StartOfBlock \in S
  <2>1. /\ ledger \in Ledger /\ capital_structure \in Structures
        /\ borrow_index \in [MarketIds -> Nat]
        /\ FundsSound(ledger, capital_structure, orders)
    BY InvParts
  <2>2. \A j \in MarketIds : borrow_index[j] <= borrow_index[j]
    BY <2>1
  <2> QED
    BY <2>1, <2>2 DEF StartOfBlock, Initializing, Initialization
<1>4. ASSUME NEW a \in S, NEW k \in 1..n PROVE InitializeMarket(a, k) \in S
  BY <1>1, InitializeMarketKeeps
<1> HIDE DEF S
<1>5. \E f : InitializedAll(f)
  BY <1>1, <1>3, <1>4, InitializedAllExists DEF n
<1>6. InitializedAll(done)
  BY <1>5
<1> HIDE DEF done
<1>7. done[0] \in S
  BY <1>1, <1>3, <1>6 DEF InitializedAll, StartOfBlock, n
<1>8. ASSUME NEW k \in 1..n, done[k - 1] \in S PROVE done[k] \in S
  <2>1. k \in 0..lending_count /\ k # 0
    BY <1>1 DEF n
  <2>2. done[k] = InitializeMarket(done[k - 1], k)
    BY <1>6, <2>1 DEF InitializedAll
  <2> QED
    BY <1>4, <1>8, <2>2
<1>9. \A k \in 0..n : done[k] \in S
  BY <1>1, <1>7, <1>8, StepsStay
<1>10. done[n] \in S
  BY <1>1, <1>9
<1> QED
  BY <1>2, <1>10 DEF S

LEMMA LoansAge ==
    ASSUME LendingInv, markets' = markets, debt_index' = debt_index,
           account_collateral' = account_collateral, borrow_index' \in [MarketIds -> Nat],
           \A j \in MarketIds : borrow_index[j] <= borrow_index'[j]
    PROVE  \A m \in MarketIds, who \in Users : Loan(m, who)'
<1> SUFFICES ASSUME NEW m \in MarketIds, NEW who \in Users
             PROVE  Loan(m, who)'
  OBVIOUS
<1>1. Loan(m, who)
  BY DEF LendingInv
<1>2. /\ borrow_index[m] \in Nat /\ borrow_index'[m] \in Nat /\ borrow_index[m] <= borrow_index'[m]
      /\ debt_index[m][who] \in Nat \cup {NoDebt}
  BY InvParts
<1>3. OwedCoversPrincipal(m, who)'
  <2>1. CASE debt_index[m][who] = NoDebt
    BY <2>1 DEF OwedCoversPrincipal
  <2>2. CASE debt_index[m][who] # NoDebt
    <3>1. debt_index[m][who] \in Nat /\ debt_index[m][who] <= borrow_index[m]
      BY <1>1, <1>2, <2>2 DEF Loan, OwedCoversPrincipal
    <3>2. debt_index[m][who] <= borrow_index'[m]
      BY <1>2, <3>1
    <3> QED
      BY <3>2 DEF OwedCoversPrincipal
  <2> QED
    BY <2>1, <2>2
<1> QED
  BY <1>1, <1>3 DEF Loan, MarketExists

LEMMA InitializeBlockBacked ==
    ASSUME LendingInv, InitializeBlock
    PROVE  LendingInv'
<1> DEFINE after == InitializeMarkets
<1>1. /\ now' = now + 1
      /\ ledger' = IF after.ok THEN after.ledger ELSE ledger
      /\ capital_structure' = IF after.ok THEN after.structure ELSE capital_structure
      /\ borrow_index' = IF after.ok THEN after.index ELSE borrow_index
      /\ last_block_timestamp' = IF after.ok THEN now ELSE last_block_timestamp
      /\ vault_count' = vault_count /\ vaults' = vaults
      /\ lp_tokens_to_vaults' = lp_tokens_to_vaults
      /\ lending_count' = lending_count /\ markets' = markets
      /\ debt_index' = debt_index /\ borrow_timestamp' = borrow_timestamp
      /\ borrow_rent' = borrow_rent /\ account_collateral' = account_collateral
      /\ orders' = orders /\ soldCollateral' = soldCollateral
  BY DEF InitializeBlock, NextBlock, loanVars
<1>2. after \in Initializing
  BY InitializeMarketsKeep
<1> HIDE DEF after
<1>3. /\ after.ledger \in Ledger /\ after.structure \in Structures
      /\ after.index \in [MarketIds -> Nat]
      /\ FundsSound(after.ledger, after.structure, orders)
      /\ \A j \in MarketIds : borrow_index[j] <= after.index[j]
  BY <1>2 DEF Initializing, Initialization
<1>4. /\ now \in Nat /\ last_block_timestamp \in 0..now
      /\ ledger \in Ledger /\ capital_structure \in Structures
      /\ borrow_index \in [MarketIds -> Nat]
      /\ FundsSound(ledger, capital_structure, orders)
  BY InvParts
<1>5. \A j \in MarketIds : borrow_index[j] <= borrow_index[j]
  BY <1>4
<1>6. /\ ledger' \in Ledger /\ capital_structure' \in Structures
      /\ borrow_index' \in [MarketIds -> Nat]
      /\ FundsSound(ledger', capital_structure', orders)
      /\ \A j \in MarketIds : borrow_index[j] <= borrow_index'[j]
  <2>1. CASE after.ok
    BY <1>1, <1>3, <2>1
  <2>2. CASE ~after.ok
    BY <1>1, <1>4, <1>5, <2>2
  <2> QED
    BY <2>1, <2>2
<1>7. now' \in Nat /\ last_block_timestamp' \in 0..now'
  BY <1>1, <1>4
<1>8. \A m \in MarketIds, who \in Users : Loan(m, who)'
  BY <1>1, <1>6, LoansAge
<1>9. LoanBooks'
  <2>1. VaultTypeOK'
    BY <1>1, <1>6 DEF LendingInv, LoanBooks, VaultTypeOK, Structures
  <2>2. LendingTypeOK'
    BY <1>1, <1>6, <1>7 DEF LendingInv, LoanBooks, LendingTypeOK, MarketExists
  <2> QED
    BY <1>1, <1>7, <2>1, <2>2 DEF LendingInv, LoanBooks
<1>10. FundsSound(ledger', capital_structure', orders')
  BY <1>1, <1>6
<1>11. \A i \in DOMAIN orders' : OrderSound(orders'[i])
  BY <1>1 DEF LendingInv
<1>12. /\ vault_count' = vault_count
       /\ \A id \in VaultIds : /\ vaults'[id] = NoVault <=> vaults[id] = NoVault
                               /\ vaults'[id].asset_id = vaults[id].asset_id
                               /\ vaults'[id].lp_token_id = vaults[id].lp_token_id
  BY <1>1
<1> QED
  BY <1>1, <1>8, <1>9, <1>10, <1>11, <1>12, LoansStay

-----------------------------------------------------------------------------
(* Markets are created and updated.                                        *)

LEMMA ValidatedModel ==
    ASSUME NEW model \in RateModel
    PROVE  Validated(model) \in RateModel
<1>1. CASE model.kind = "controller"
  <2>1. model \in [kind: {"controller"}, kp: Int, ki: Int, kd: Int, error: Int, integral: Int,
                   rate: Int, target: Nat]
    BY <1>1 DEF RateModel
  <2>2. [model EXCEPT !.error = 0, !.integral = 0]
           \in [kind: {"controller"}, kp: Int, ki: Int, kd: Int, error: Int, integral: Int,
                rate: Int, target: Nat]
    <3>1. 0 \in Int
      OBVIOUS
    <3> QED
      BY <2>1, <3>1, Zenon
  <2> QED
    BY <1>1, <2>2 DEF Validated, RateModel
<1>2. CASE model.kind # "controller"
  BY <1>2 DEF Validated
<1> QED
  BY <1>1, <1>2

(* The terms of a market that orders and funds depend on.                  *)
LEMMA UpdateMarketBacked ==
    ASSUME LendingInv, NEW who, NEW m \in MarketIds, NEW update \in MarketUpdates,
           UpdateMarket(who, m, update)
    PROVE  LendingInv'
<1> DEFINE old == markets[m]
           new == [old EXCEPT !.collateral_factor = update.collateral_factor,
                              !.model = update.model, !.liquidators = update.liquidators]
<1>1. /\ MarketExists(m) /\ markets' = [markets EXCEPT ![m] = new]
      /\ now' = now /\ ledger' = ledger /\ vault_count' = vault_count /\ vaults' = vaults
      /\ lp_tokens_to_vaults' = lp_tokens_to_vaults /\ capital_structure' = capital_structure
      /\ lending_count' = lending_count /\ borrow_index' = borrow_index
      /\ debt_index' = debt_index /\ borrow_timestamp' = borrow_timestamp
      /\ borrow_rent' = borrow_rent /\ account_collateral' = account_collateral
      /\ last_block_timestamp' = last_block_timestamp
      /\ orders' = orders /\ soldCollateral' = soldCollateral
  BY DEF UpdateMarket, vaultVars, loanVars
<1>2. old \in Market
  BY <1>1, MarketNames
<1>3. /\ update.collateral_factor \in Nat /\ update.model \in RateModel
      /\ update.liquidators \in Seq(Nat)
  BY LendingTypes
<1> HIDE DEF old
<1>4. new \in Market /\ new.borrow = old.borrow /\ new.collateral = old.collateral
  BY <1>2, <1>3, Zenon DEF Market
<1> HIDE DEF new
<1>5. new # NoMarket
  BY <1>4, LendingTypes
<1>6. markets \in [MarketIds -> Market \cup {NoMarket}]
  BY DEF LendingInv, LoanBooks
<1>7. /\ markets' \in [MarketIds -> Market \cup {NoMarket}]
      /\ \A j \in MarketIds : /\ MarketExists(j)' <=> MarketExists(j)
                              /\ markets'[j].borrow = markets[j].borrow
                              /\ markets'[j].collateral = markets[j].collateral
  <2>1. \A j \in MarketIds : markets'[j] = IF j = m THEN new ELSE markets[j]
    BY <1>1, <1>6
  <2>2. markets' \in [MarketIds -> Market \cup {NoMarket}]
    BY <1>1, <1>4, <1>6
  <2> QED
    BY <1>1, <1>4, <1>5, <2>1, <2>2 DEF MarketExists, old
<1>8. /\ \A j \in MarketIds : MarketExists(j)' <=> MarketExists(j)
      /\ \A j \in MarketIds : SameTerms(j)
      /\ \A j \in MarketIds : BorrowAsset(j)' = BorrowAsset(j)
  BY <1>1, <1>7 DEF SameTerms, BorrowAsset
<1>9. LoanBooks'
  <2>1. VaultTypeOK'
    BY <1>1 DEF LendingInv, LoanBooks, VaultTypeOK
  <2>2. LendingTypeOK'
    BY <1>1, <1>8 DEF LendingInv, LoanBooks, LendingTypeOK
  <2> QED
    BY <1>1, <1>7, <2>1, <2>2 DEF LendingInv, LoanBooks
<1>10. ASSUME NEW j \in MarketIds
       PROVE  /\ MarketSound(j)' /\ (~MarketExists(j) => soldCollateral[j] = 0)'
              /\ \A w \in Users : Loan(j, w)'
  <2>1. /\ MarketSound(j) /\ (~MarketExists(j) => soldCollateral[j] = 0)
        /\ \A w \in Users : Loan(j, w)
    BY DEF LendingInv
  <2>2. MarketSound(j)'
    BY <1>1, <1>7, <1>8, <2>1 DEF MarketSound, Exists
  <2>3. ASSUME NEW w \in Users PROVE Loan(j, w)'
    <3>1. Loan(j, w)
      BY <2>1
    <3> QED
      BY <1>1, <1>8, <3>1 DEF Loan, OwedCoversPrincipal
  <2> QED
    BY <1>1, <1>8, <2>1, <2>2, <2>3
<1>11. \A id \in VaultIds : VaultLends(id)'
  BY <1>1 DEF LendingInv, VaultLends, Exists
<1>12. ASSUME NEW i \in DOMAIN orders' PROVE OrderSound(orders[i])'
  <2>1. orders[i] \in Orders /\ OrderSound(orders[i])
    BY <1>1, InvParts DEF LendingInv
  <2>2. orders[i].market \in MarketIds
    BY <2>1 DEF Orders
  <2> QED
    BY <1>1, <1>7, <1>8, <2>1, <2>2 DEF OrderSound
<1>13. FundsSound(ledger', capital_structure', orders')
  <2>1. FundsSound(ledger, capital_structure, orders)
    BY InvParts
  <2> QED
    BY <1>1, <2>1
<1>14. FundsSound(ledger, capital_structure, orders)'
  BY <1>1, <1>8, <1>13, FundsStay
<1> QED
  BY <1>9, <1>10, <1>11, <1>12, <1>14 DEF LendingInv

LEMMA SetPricesBacked ==
    ASSUME LendingInv,
           UNCHANGED <<now, ledger, vaultVars, marketVars, loanVars, orders, soldCollateral>>
    PROVE  LendingInv'
<1>1. vaults' = vaults /\ ledger' = ledger /\ capital_structure' = capital_structure
  BY DEF vaultVars
<1>2. SameVaults
  BY <1>1, VaultsSame
<1>3. FundsSound(ledger, capital_structure, orders)
  BY InvParts
<1>4. FundsSound(ledger', capital_structure', orders)
  BY <1>1, <1>3
<1> QED
  BY <1>2, <1>4, FundsMove DEF vaultVars

(* A market that is not there yet: nobody has deposited or borrowed, and   *)
(* its account is empty but for native funds.                              *)
LEMMA NewMarket ==
    ASSUME LendingInv, NEW m \in MarketIds, ~MarketExists(m)
    PROVE  /\ Credited(m) = 0 /\ soldCollateral[m] = 0 /\ Offered(orders, m) = 0
           /\ DebtsHeld(ledger, m) /\ Unused(ledger, m)
<1>1. \A who \in Users : CollateralOf(m, who) = 0
  <2> TAKE who \in Users
  <2>1. Loan(m, who)
    BY DEF LendingInv
  <2> QED
    BY <2>1 DEF Loan, CollateralOf
<1>2. account_collateral \in [MarketIds -> [Users -> Nat \cup {NoDebt}]] /\ orders \in Seq(Orders)
  BY InvParts
<1>3. /\ Credited(m) = SumFunctionOnSet(Credits(m), Users)
      /\ \A who \in Users : Credits(m)[who] = CollateralOf(m, who)
  BY <1>2, CreditedIs
<1>4. IsFiniteSet(Users)
  BY UsersFacts
<1>5. \A who \in Users : Credits(m)[who] = 0
  BY <1>1, <1>3
<1>6. Credited(m) = 0
  BY <1>3, <1>4, <1>5, SumZero
<1>7. /\ Offered(orders, m) = SumFunctionOnSet(Amounts(orders, m), 1..Len(orders))
      /\ \A i \in 1..Len(orders) : Amounts(orders, m)[i] = AmountFor(orders[i], m)
  BY <1>2, OfferedIs
<1>8. Len(orders) \in Nat /\ DOMAIN orders = 1..Len(orders)
  BY <1>2, LenProperties
<1>9. \A i \in 1..Len(orders) : Amounts(orders, m)[i] = 0
  <2> TAKE i \in 1..Len(orders)
  <2>1. OrderSound(orders[i])
    BY <1>8 DEF LendingInv
  <2>2. orders[i].market # m
    BY <2>1 DEF OrderSound
  <2> QED
    BY <1>7, <2>2 DEF AmountFor
<1>10. IsFiniteSet(1..Len(orders))
  <2>1. 1 \in Int /\ Len(orders) \in Int
    BY <1>8
  <2> QED
    BY <2>1, FS_Interval
<1>11. Offered(orders, m) = 0
  BY <1>7, <1>9, <1>10, SumZero
<1>12. DebtsHeld(ledger, m) /\ Unused(ledger, m)
  BY InvParts DEF FundsSound
<1>13. soldCollateral[m] = 0
  BY DEF LendingInv
<1> QED
  BY <1>6, <1>11, <1>12, <1>13

(* The vault that a market is created with.                                *)
LEMMA MarketsVault ==
    ASSUME LendingInv, NEW m \in MarketIds, NEW id \in VaultIds, id = vault_count + 1,
           NEW b \in Lendable, NEW r \in 0..One, NEW manager \in Users,
           NEW config,
           config = [asset_id |-> b, reserved |-> r, manager |-> manager,
                     strategies |-> [s \in {MarketAccount(m)} |-> One - r]],
           CreatesVault(config, Existential)
    PROVE  /\ VaultTypeOK'
           /\ capital_structure' \in Structures
           /\ StrategyBalance(capital_structure', id, MarketAccount(m)) = 0
           /\ vaults'[id] # NoVault /\ vaults'[id].asset_id = b
           /\ \A i \in VaultIds : i # id => vaults'[i] = vaults[i]
           /\ \A i \in VaultIds : i # id => capital_structure'[i] = capital_structure[i]
           /\ \A i \in VaultIds : VaultLends(i)'
           /\ ~Exists(id)
<1> DEFINE acc == MarketAccount(m)
           v == [asset_id |-> b, lp_token_id |-> LpTokens[id], manager |-> manager,
                 deposit |-> Existential, capabilities |-> {}]
           first == [allocation |-> One - r, balance |-> 0]
           row == [s \in Strategists |-> IF s = acc THEN first ELSE capital_structure[id][s]]
<1>1. /\ vault_count \in 0..MaxVaults /\ vaults \in [VaultIds -> VaultInfo \cup {NoVault}]
      /\ lp_tokens_to_vaults \in [AssetIds -> VaultIds \cup {NoVault}]
      /\ capital_structure \in Structures
  BY DEF LendingInv, LoanBooks, VaultTypeOK, Structures
<1>2. /\ vault_count' = id
      /\ lp_tokens_to_vaults' = [lp_tokens_to_vaults EXCEPT ![LpTokens[id]] = id]
      /\ vaults' = [vaults EXCEPT ![id] = v]
  BY DEF CreatesVault
<1>3. capital_structure' = [capital_structure EXCEPT ![id] = row]
  <2>1. DOMAIN config.strategies = {acc} /\ config.strategies[acc] = One - r
    OBVIOUS
  <2>2. capital_structure' = [capital_structure EXCEPT ![id] =
           [s \in Strategists |-> IF s \in DOMAIN config.strategies
                                  THEN [allocation |-> config.strategies[s], balance |-> 0]
                                  ELSE capital_structure[id][s]]]
    BY <1>1 DEF CreatesVault, Structures
  <2>3. [s \in Strategists |-> IF s \in DOMAIN config.strategies
                               THEN [allocation |-> config.strategies[s], balance |-> 0]
                               ELSE capital_structure[id][s]] = row
    BY <2>1
  <2> QED
    BY <2>2, <2>3
<1>4. /\ b \in AssetIds /\ b \notin DebtIds /\ manager \in Accounts
      /\ LpTokens[id] \in AssetIds /\ LpTokens[id] \notin DebtIds
      /\ acc \in Strategists /\ MaxVaults \in Nat /\ One \in Nat
  BY LpTokenFacts, UsersFacts, MarketAccounts, VaultTypes, MarketTypes DEF Lendable, DebtIds
<1>5. v \in VaultInfo
  BY <1>4 DEF VaultInfo, DepositType
<1>6. v # NoVault
  BY <1>5, VaultTypes
<1>7. v.asset_id = b /\ v.lp_token_id = LpTokens[id]
  OBVIOUS
<1> HIDE DEF v
<1>8. first \in StrategyOverview /\ first.balance = 0
  BY <1>4 DEF StrategyOverview
<1>9. first # NoStrategy
  BY <1>8, VaultTypes
<1> HIDE DEF first
<1>10. row \in [Strategists -> StrategyOverview \cup {NoStrategy}] /\ row[acc] = first
  BY <1>1, <1>4, <1>8 DEF Structures
<1> HIDE DEF row, acc
<1>11. /\ capital_structure' \in Structures /\ capital_structure'[id] = row
       /\ \A i \in VaultIds : i # id => capital_structure'[i] = capital_structure[i]
  BY <1>1, <1>3, <1>10 DEF Structures
<1>12. StrategyBalance(capital_structure', id, acc) = 0
  BY <1>8, <1>9, <1>10, <1>11 DEF StrategyBalance
<1>13. /\ vaults' \in [VaultIds -> VaultInfo \cup {NoVault}] /\ vaults'[id] = v
       /\ \A i \in VaultIds : i # id => vaults'[i] = vaults[i]
  BY <1>1, <1>2, <1>5
<1>14. VaultTypeOK'
  <2>1. vault_count' \in 0..MaxVaults
    BY <1>2, <1>4 DEF VaultIds
  <2>2. lp_tokens_to_vaults' \in [AssetIds -> VaultIds \cup {NoVault}]
    BY <1>1, <1>2, <1>4
  <2> QED
    BY <1>11, <1>13, <2>1, <2>2 DEF VaultTypeOK, Structures
<1>15. ~Exists(id)
  <2>1. VaultLends(id)
    BY DEF LendingInv
  <2> QED
    BY <1>1, <2>1 DEF VaultLends
<1>16. ASSUME NEW i \in VaultIds PROVE VaultLends(i)'
  <2>1. CASE i = id
    <3>1. id <= id
      BY DEF VaultIds
    <3> QED
      BY <1>2, <1>4, <1>7, <1>13, <2>1, <3>1 DEF VaultLends
  <2>2. CASE i # id
    <3>1. VaultLends(i) /\ i \in Int
      BY DEF LendingInv, VaultIds
    <3> QED
      BY <1>1, <1>2, <1>13, <2>2, <3>1 DEF VaultLends, Exists
  <2> QED
    BY <2>1, <2>2
<1> QED
  BY <1>6, <1>7, <1>11, <1>12, <1>13, <1>14, <1>15, <1>16 DEF acc

LEMMA CreateMarketBacked ==
    ASSUME NoNativeMarkets, LendingInv, NEW manager \in Users, NEW input \in MarketInputs,
           CreateMarket(manager, input)
    PROVE  LendingInv'
<1>1. /\ lending_count \in 0..MaxLendingCount /\ lending_count < MaxLendingCount
      /\ MaxLendingCount \in Nat
      /\ vault_count \in 0..MaxVaults /\ vault_count < MaxVaults /\ MaxVaults \in Nat
  <2>1. vault_count \in 0..MaxVaults
    BY DEF LendingInv, LoanBooks, VaultTypeOK
  <2> QED
    BY <2>1, InvParts, LendingTypes, VaultTypes DEF CreateMarket, CanCreateVault
<1>2. PICK m \in MarketIds : m = lending_count + 1
  BY <1>1 DEF MarketIds
<1>3. PICK id \in VaultIds : id = vault_count + 1
  BY <1>1 DEF VaultIds
<1> DEFINE b == input.borrow_asset
           c == input.collateral_asset
           r == input.reserved_factor
           acc == MarketAccount(m)
           config == [asset_id |-> b, reserved |-> r, manager |-> manager,
                      strategies |-> [s \in {MarketAccount(m)} |-> One - r]]
           market == [manager |-> manager, borrow |-> id, collateral |-> c,
                      collateral_factor |-> input.collateral_factor,
                      model |-> Validated(input.model), liquidators |-> input.liquidators]
<1>4. /\ b \in Lendable /\ c \in Lendable /\ r \in 0..One /\ input.collateral_factor \in Nat
      /\ input.model \in RateModel /\ input.liquidators \in Seq(Nat)
      /\ b # NativeAsset /\ c # NativeAsset
  BY LendingTypes DEF NoNativeMarkets
<1>5. /\ b # c /\ CreatesVault(config, Existential)
      /\ MayDie(ledger, b, manager, acc, InitialPool)
      /\ ledger' = Transfer(ledger, b, manager, acc, InitialPool)
      /\ lending_count' = m /\ markets' = [markets EXCEPT ![m] = market]
      /\ borrow_index' = [borrow_index EXCEPT ![m] = Unit]
      /\ now' = now /\ debt_index' = debt_index /\ borrow_timestamp' = borrow_timestamp
      /\ borrow_rent' = borrow_rent /\ account_collateral' = account_collateral
      /\ last_block_timestamp' = last_block_timestamp
      /\ orders' = orders /\ soldCollateral' = soldCollateral
  BY <1>2, <1>3 DEF CreateMarket, MayDie, loanVars
<1>6. /\ VaultTypeOK'
      /\ capital_structure' \in Structures
      /\ StrategyBalance(capital_structure', id, acc) = 0
      /\ vaults'[id] # NoVault /\ vaults'[id].asset_id = b
      /\ \A i \in VaultIds : i # id => vaults'[i] = vaults[i]
      /\ \A i \in VaultIds : i # id => capital_structure'[i] = capital_structure[i]
      /\ \A i \in VaultIds : VaultLends(i)'
      /\ ~Exists(id)
  <2>1. config = [asset_id |-> b, reserved |-> r, manager |-> manager,
                  strategies |-> [s \in {MarketAccount(m)} |-> One - r]]
    OBVIOUS
  <2> HIDE DEF config
  <2> QED
    BY <1>3, <1>4, <1>5, <2>1, MarketsVault
<1> HIDE DEF config
<1>7. market \in Market /\ market.borrow = id /\ market.collateral = c
  <2>1. Validated(input.model) \in RateModel
    BY <1>4, ValidatedModel
  <2> QED
    BY <1>4, <2>1 DEF Market
<1> HIDE DEF market
<1>8. market # NoMarket
  BY <1>7, LendingTypes
<1>9. /\ markets \in [MarketIds -> Market \cup {NoMarket}] /\ ~MarketExists(m)
      /\ ledger \in Ledger /\ capital_structure \in Structures /\ orders \in Seq(Orders)
      /\ borrow_index \in [MarketIds -> Nat] /\ account_collateral' = account_collateral
      /\ FundsSound(ledger, capital_structure, orders)
      /\ \A j \in MarketIds : MarketExists(j) <=> j <= lending_count
  <2>1. markets \in [MarketIds -> Market \cup {NoMarket}]
    BY DEF LendingInv, LoanBooks
  <2>2. ~(m <= lending_count)
    BY <1>1, <1>2
  <2> QED
    BY <1>5, <2>1, <2>2, InvParts
<1>10. /\ markets' \in [MarketIds -> Market \cup {NoMarket}] /\ markets'[m] = market
       /\ \A j \in MarketIds : j # m => markets'[j] = markets[j]
  BY <1>5, <1>7, <1>9
<1>11. /\ MarketExists(m)'
       /\ \A j \in MarketIds : j # m => (MarketExists(j)' <=> MarketExists(j))
  BY <1>8, <1>10 DEF MarketExists
<1>12. ASSUME NEW j \in MarketIds, j # m, MarketExists(j)
       PROVE  /\ SameTerms(j) /\ BorrowAsset(j)' = BorrowAsset(j)
              /\ Exists(markets[j].borrow)' /\ markets[j].borrow \in VaultIds
              /\ markets[j].borrow # id
  <2>1. markets[j].borrow \in VaultIds /\ Exists(markets[j].borrow)
    BY <1>12, MarketNames
  <2>2. markets[j].borrow # id
    BY <1>6, <2>1
  <2>3. vaults'[markets[j].borrow] = vaults[markets[j].borrow]
    BY <1>6, <2>1, <2>2
  <2>4. markets'[j] = markets[j]
    BY <1>10, <1>12
  <2> QED
    BY <2>1, <2>2, <2>3, <2>4 DEF SameTerms, BorrowAsset, Exists
<1>13. /\ b \in AssetIds /\ b \notin DebtIds /\ c \in AssetIds
       /\ manager \in Accounts /\ acc \in Accounts /\ manager # acc /\ InitialPool \in Nat
       /\ Outside(manager)
  BY <1>4, UsersFacts, MarketAccounts, OutsideUsers, LendingTypes DEF Lendable
<1>14. /\ ledger' \in Ledger
       /\ \A a \in AssetIds, w \in Accounts :
             a # b \/ w \notin {manager, acc} => ledger'[a][w] = ledger[a][w]
  BY <1>5, <1>9, <1>13, Payee
<1>15. /\ \A j \in MarketIds : j # m => SameFunds(ledger, ledger', j)
       /\ \A w \in Accounts : ledger'[DebtTokens[m]][w] = ledger[DebtTokens[m]][w]
       /\ \A a \in AssetIds : a # b => ledger'[a][acc] = ledger[a][acc]
  <2> DEFINE S == {manager, acc}
  <2>1. OnlyMoves(ledger, ledger', b, S)
    BY <1>14 DEF OnlyMoves
  <2>2. \A w \in S : w = MarketAccount(m) \/ Outside(w)
    BY <1>13
  <2> HIDE DEF S, b
  <2>3. MovesIn(ledger, ledger', m, b)
    BY <1>13, <2>1, <2>2, MarketMove
  <2> QED
    BY <2>3 DEF MovesIn
<1>16. /\ Credited(m) = 0 /\ soldCollateral[m] = 0 /\ Offered(orders, m) = 0
       /\ DebtsHeld(ledger, m) /\ Unused(ledger, m)
  BY <1>9, NewMarket
<1> HIDE DEF b, c, r
<1>17. BorrowAsset(m)' = b
  BY <1>6, <1>7, <1>10 DEF BorrowAsset
<1>18. LoanBooks'
  <2>1. borrow_index' \in [MarketIds -> Nat]
    BY <1>5, <1>9, RateTypes
  <2>2. \A j \in MarketIds : MarketExists(j)' <=> j <= lending_count'
    <3> TAKE j \in MarketIds
    <3>1. j \in Int /\ lending_count \in Int
      BY <1>1 DEF MarketIds
    <3>2. CASE j = m
      BY <1>5, <1>11, <3>1, <3>2
    <3>3. CASE j # m
      BY <1>2, <1>5, <1>9, <1>11, <3>1, <3>3
    <3> QED
      BY <3>2, <3>3
  <2>3. lending_count' \in 0..MaxLendingCount
    BY <1>1, <1>2, <1>5
  <2>4. LendingTypeOK'
    BY <1>5, <1>14, <2>1, <2>2, <2>3 DEF LendingInv, LoanBooks, LendingTypeOK
  <2> QED
    BY <1>5, <1>6, <1>10, <2>4 DEF LendingInv, LoanBooks
<1>19. ASSUME NEW j \in MarketIds
       PROVE  /\ MarketSound(j)' /\ (~MarketExists(j) => soldCollateral[j] = 0)'
              /\ \A w \in Users : Loan(j, w)'
  <2>1. /\ MarketSound(j) /\ (~MarketExists(j) => soldCollateral[j] = 0)
        /\ \A w \in Users : Loan(j, w)
    BY DEF LendingInv
  <2>2. CASE j = m
    <3>1. MarketSound(m)'
      <4>1. Exists(id)'
        BY <1>6 DEF Exists
      <4> QED
        BY <1>4, <1>5, <1>7, <1>10, <1>17, <4>1 DEF MarketSound, b, c
    <3>2. ASSUME NEW w \in Users PROVE Loan(m, w)'
      <4>1. debt_index[m][w] = NoDebt
        BY <1>9, <2>1, <2>2 DEF Loan
      <4> QED
        BY <1>5, <1>11, <4>1 DEF Loan, OwedCoversPrincipal
    <3> QED
      BY <1>11, <2>2, <3>1, <3>2
  <2>3. CASE j # m
    <3>1. markets'[j] = markets[j] /\ borrow_index'[j] = borrow_index[j]
      BY <1>5, <1>9, <1>10, <2>3
    <3>2. MarketSound(j)'
      BY <1>11, <1>12, <2>1, <2>3, <3>1 DEF MarketSound
    <3>3. ASSUME NEW w \in Users PROVE Loan(j, w)'
      <4>1. Loan(j, w)
        BY <2>1
      <4> QED
        BY <1>5, <1>11, <2>3, <3>1, <4>1 DEF Loan, OwedCoversPrincipal
    <3> QED
      BY <1>5, <1>11, <2>1, <2>3, <3>2, <3>3
  <2> QED
    BY <2>2, <2>3
<1>20. ASSUME NEW i \in DOMAIN orders' PROVE OrderSound(orders[i])'
  <2>1. orders[i] \in Orders /\ OrderSound(orders[i])
    BY <1>5, <1>9 DEF LendingInv
  <2>2. orders[i].market \in MarketIds /\ MarketExists(orders[i].market)
    BY <2>1 DEF Orders, OrderSound
  <2>3. orders[i].market # m
    BY <1>9, <2>2
  <2> QED
    BY <1>5, <1>10, <1>11, <1>12, <2>1, <2>2, <2>3 DEF OrderSound
<1>21. ASSUME NEW j \in MarketIds
       PROVE  /\ DebtsHeld(ledger, j)'
              /\ MarketExists(j)' => Backed(ledger, capital_structure, orders, j)'
              /\ ~MarketExists(j)' => Unused(ledger, j)'
  <2>1. CASE j = m
    <3>1. DebtsHeld(ledger', m)
      BY <1>15, <1>16, DebtsSame
    <3>2. DebtsHeld(ledger, m)'
      BY <3>1 DEF DebtsHeld
    <3>3. /\ ledger'[c][acc] = ledger[c][acc] /\ TotalBalance(ledger, c, acc) = 0
          /\ ledger[c][acc].free \in Nat /\ ledger[c][acc].reserved \in Nat
      BY <1>4, <1>5, <1>9, <1>13, <1>15, <1>16, LedgerEntries DEF Unused, c
    <3>4. TotalBalance(ledger', c, acc) = 0 /\ 0 <= ledger'[c][acc].reserved
      BY <3>3 DEF TotalBalance
    <3>5. Credited(m)' = 0
      BY <1>5, <1>16, CreditedKept
    <3>6. TotalBalance(ledger', b, acc) \in Nat /\ Lent(ledger', m) \in Nat
      BY <1>13, <1>14, IssuanceIs, LentIs
    <3>7. Backed(ledger, capital_structure, orders, m)'
      <4>1. /\ markets'[m].collateral = c /\ markets'[m].borrow = id
            /\ soldCollateral'[m] = 0 /\ Offered(orders', m) = 0
        BY <1>5, <1>7, <1>10, <1>16
      <4>2. 0 <= TotalBalance(ledger', b, acc) + Lent(ledger', m)
        BY <3>6
      <4>3. TotalCash(ledger, m)' = TotalBalance(ledger', b, acc)
        BY <1>17 DEF TotalCash, TotalBalance
      <4>4. Lent(ledger, m)' = Lent(ledger', m)
        BY DEF Lent
      <4>5. Offered(orders, m)' = 0
        BY <4>1 DEF Offered
      <4>6. StrategyBalance(capital_structure, markets[m].borrow, MarketAccount(m))' = 0
        BY <1>6, <4>1 DEF StrategyBalance
      <4>7. TotalBalance(ledger, markets[m].collateral, MarketAccount(m))' = 0
        BY <3>4, <4>1 DEF TotalBalance
      <4>8. 0 <= ledger[markets[m].collateral][MarketAccount(m)].reserved'
        BY <3>4, <4>1
      <4> QED
        BY <3>5, <4>1, <4>2, <4>3, <4>4, <4>5, <4>6, <4>7, <4>8 DEF Backed
    <3> QED
      BY <1>11, <2>1, <3>2, <3>7
  <2>2. CASE j # m
    <3>1. /\ DebtsHeld(ledger, j)
          /\ MarketExists(j) => Backed(ledger, capital_structure, orders, j)
          /\ ~MarketExists(j) => Unused(ledger, j)
      BY <1>9 DEF FundsSound
    <3>2. ASSUME MarketExists(j)
          PROVE  Owes(capital_structure', j) <= Owes(capital_structure, j)
      <4>1. capital_structure'[markets[j].borrow] = capital_structure[markets[j].borrow]
        BY <1>6, <1>12, <2>2, <3>2
      <4>2. Owes(capital_structure', j) = Owes(capital_structure, j)
        BY <4>1 DEF Owes, StrategyBalance
      <4> QED
        BY <1>9, <3>2, <4>2, OwesType
    <3>3. SameFunds(ledger, ledger', j) /\ Offered(orders, j) <= Offered(orders, j)
      BY <1>9, <1>15, <2>2, OfferedIs
    <3>4. /\ DebtsHeld(ledger, j) => DebtsHeld(ledger', j)
          /\ MarketExists(j) => (Backed(ledger, capital_structure, orders, j)
                                    => Backed(ledger', capital_structure', orders, j))
          /\ Unused(ledger, j) => Unused(ledger', j)
      BY <1>6, <1>9, <1>14, <3>2, <3>3, MarketKept
    <3>5. DebtsHeld(ledger, j)'
      BY <3>1, <3>4 DEF DebtsHeld
    <3>6. ~MarketExists(j)' => Unused(ledger, j)'
      BY <1>11, <2>2, <3>1, <3>4 DEF Unused, TotalBalance
    <3>7. ASSUME MarketExists(j)' PROVE Backed(ledger, capital_structure, orders, j)'
      <4>1. MarketExists(j)
        BY <1>11, <2>2, <3>7
      <4>2. SameTerms(j) /\ Credited(j)' = Credited(j) /\ soldCollateral'[j] = soldCollateral[j]
        BY <1>5, <1>12, <2>2, <4>1, CreditedKept
      <4>3. Backed(ledger', capital_structure', orders', j)
        BY <1>5, <3>1, <3>4, <4>1
      <4> QED
        BY <4>2, <4>3, TermsKept
    <3> QED
      BY <3>5, <3>6, <3>7
  <2> QED
    BY <2>1, <2>2
<1>22. FundsSound(ledger, capital_structure, orders)'
  BY <1>6, <1>14, <1>21 DEF FundsSound
<1> QED
  BY <1>6, <1>18, <1>19, <1>20, <1>22 DEF LendingInv

-----------------------------------------------------------------------------
(* The specification.                                                      *)

LEMMA LendingStarts ==
    ASSUME ChainInit, VaultInit, LendingInit, NothingLent
    PROVE  LendingInv
<1>1. ledger \in Ledger /\ now = 0 /\ VaultTypeOK
  BY VaultStarts DEF VaultInv, VaultBooksOK, ChainInit
<1>2. /\ capital_structure \in Structures /\ orders = <<>>
      /\ vaults = [id \in VaultIds |-> NoVault]
  BY <1>1 DEF VaultTypeOK, Structures, VaultInit, LendingInit, LiquidationsInit
<1>3. \A m \in MarketIds : ~MarketExists(m)
  BY DEF LendingInit, MarketExists
<1>4. MaxLendingCount \in Nat
  BY LendingTypes
<1>5. LendingTypeOK
  <2>1. \A m \in MarketIds : MarketExists(m) <=> m <= lending_count
    BY <1>3, <1>4 DEF LendingInit, MarketIds
  <2>2. /\ lending_count \in 0..MaxLendingCount /\ last_block_timestamp \in 0..now
        /\ borrow_index \in [MarketIds -> Nat]
    BY <1>1, <1>4 DEF LendingInit
  <2>3. {debt_index, borrow_timestamp, borrow_rent, account_collateral}
           \subseteq [MarketIds -> [Users -> Nat \cup {NoDebt}]]
    BY DEF LendingInit
  <2> QED
    BY <1>1, <2>1, <2>2, <2>3 DEF LendingTypeOK
<1>6. LoanBooks
  <2>1. /\ markets \in [MarketIds -> Market \cup {NoMarket}]
        /\ soldCollateral \in [MarketIds -> Nat]
    BY DEF LendingInit
  <2> QED
    BY <1>1, <1>2, <1>5, <2>1 DEF LoanBooks
<1>7. ASSUME NEW m \in MarketIds
      PROVE  /\ MarketSound(m) /\ (~MarketExists(m) => soldCollateral[m] = 0)
             /\ \A who \in Users : Loan(m, who)
  BY <1>3 DEF LendingInit, MarketSound, Loan, OwedCoversPrincipal
<1>8. \A id \in VaultIds : VaultLends(id)
  BY <1>2 DEF VaultLends, Exists
<1>9. \A i \in DOMAIN orders : OrderSound(orders[i])
  BY <1>2
<1>10. ASSUME NEW m \in MarketIds PROVE DebtsHeld(ledger, m) /\ Unused(ledger, m)
  <2>1. /\ \A who \in Accounts : ledger[DebtTokens[m]][who] = NoFunds
        /\ \A a \in AssetIds \ {NativeAsset} : ledger[a][MarketAccount(m)] = NoFunds
    BY DEF NothingLent
  <2>2. MarketAccount(m) \in Accounts /\ Users \subseteq Accounts
    BY MarketAccounts, UsersFacts
  <2>3. NoFunds.free = 0 /\ NoFunds.reserved = 0
    BY DEF NoFunds
  <2> QED
    BY <2>1, <2>2, <2>3 DEF DebtsHeld, Unused, TotalBalance
<1>11. FundsSound(ledger, capital_structure, orders)
  BY <1>1, <1>2, <1>3, <1>10 DEF FundsSound
<1> QED
  BY <1>6, <1>7, <1>8, <1>9, <1>11 DEF LendingInv

LEMMA LendingStep ==
    ASSUME NoNativeMarkets, LendingInv,
           [LendingNext(MarketInputs, MarketUpdates)]_<<now, ledger, vaultVars, lendingVars>>
    PROVE  LendingInv'
<1>1. /\ CollateralAmounts \subseteq Nat /\ LenderAmounts \subseteq Nat
      /\ BorrowAmounts \subseteq Nat /\ Proceeds \subseteq Nat
  BY LendingTypes, LiquidationsTypes
<1>2. CASE \E who \in Users, input \in MarketInputs : CreateMarket(who, input)
  BY <1>2, CreateMarketBacked
<1>3. CASE \E who \in Users, m \in MarketIds, update \in MarketUpdates :
              UpdateMarket(who, m, update)
  BY <1>3, UpdateMarketBacked
<1>4. CASE \E who \in Users, m \in MarketIds, n \in CollateralAmounts :
              DepositCollateral(who, m, n)
  BY <1>1, <1>4, DepositCollateralBacked
<1>5. CASE \E who \in Users, m \in MarketIds, n \in CollateralAmounts :
              WithdrawCollateral(who, m, n)
  BY <1>1, <1>5, WithdrawCollateralBacked
<1>6. CASE \E who \in Users, m \in MarketIds, n \in BorrowAmounts : Borrow(who, m, n)
  BY <1>1, <1>6, BorrowBacked
<1>7. CASE \E who \in Users, m \in MarketIds, from \in Users, n \in BorrowAmounts :
              RepayBorrow(from, m, who, n)
  BY <1>1, <1>7, RepayBacked
<1>8. CASE \E who \in Users, m \in MarketIds, borrower \in Users :
              \/ Liquidate(who, m, <<borrower>>)
              \/ Liquidate(who, m, <<borrower, borrower>>)
  <2>1. PICK who \in Users, m \in MarketIds, borrower \in Users :
              \/ Liquidate(who, m, <<borrower>>)
              \/ Liquidate(who, m, <<borrower, borrower>>)
    BY <1>8
  <2>2. <<borrower>> \in Seq(Users) /\ <<borrower, borrower>> \in Seq(Users)
    OBVIOUS
  <2> QED
    BY <2>1, <2>2, LiquidateBacked
<1>9. CASE \E who \in Users, paid \in Proceeds : AuctionSells(who, paid)
  BY <1>1, <1>9, AuctionBacked
<1>10. CASE \E id \in VaultIds, who \in Users, n \in LenderAmounts :
               DepositVault(who, id, n) /\ UNCHANGED lendingVars
  BY <1>1, <1>10, DepositVaultBacked
<1>11. CASE \E id \in VaultIds, who \in Users, n \in LenderAmounts :
               WithdrawVault(who, id, n) /\ UNCHANGED lendingVars
  BY <1>1, <1>11, WithdrawVaultBacked
<1>12. CASE \E id \in VaultIds :
               (EmergencyShutdown(id) \/ StartVault(id)) /\ UNCHANGED lendingVars
  <2>1. PICK id \in VaultIds :
               (EmergencyShutdown(id) \/ StartVault(id)) /\ UNCHANGED lendingVars
    BY <1>12
  <2>2. Exists(id)
    BY <2>1 DEF EmergencyShutdown, StartVault
  <2>3. vaults[id].capabilities \in SUBSET Flags
    BY <2>2, LentVaults DEF VaultInfo
  <2>4. CASE EmergencyShutdown(id)
    <3> DEFINE flags == vaults[id].capabilities \cup {"STOPPED"}
    <3>1. flags \in SUBSET Flags
      BY <2>3 DEF Flags
    <3>2. vaults' = [vaults EXCEPT ![id].capabilities = flags]
      BY <2>4 DEF EmergencyShutdown
    <3>3. UNCHANGED <<now, ledger, vaultBooks, lendingVars>>
      BY <2>1, <2>4 DEF EmergencyShutdown
    <3> HIDE DEF flags
    <3> QED
      BY <2>2, <3>1, <3>2, <3>3, CapabilitiesBacked
  <2>5. CASE StartVault(id)
    <3> DEFINE flags == vaults[id].capabilities \ {"STOPPED"}
    <3>1. flags \in SUBSET Flags
      BY <2>3
    <3>2. vaults' = [vaults EXCEPT ![id].capabilities = flags]
      BY <2>5 DEF StartVault
    <3>3. UNCHANGED <<now, ledger, vaultBooks, lendingVars>>
      BY <2>1, <2>5 DEF StartVault
    <3> HIDE DEF flags
    <3> QED
      BY <2>2, <3>1, <3>2, <3>3, CapabilitiesBacked
  <2> QED
    BY <2>1, <2>4, <2>5
<1>13. CASE \E id \in VaultIds, who \in Users, s \in Strategists :
               LiquidateStrategy(who, id, s) /\ UNCHANGED lendingVars
  BY <1>13, LiquidateStrategyBacked
<1>14. CASE \E p \in PriceSets : SetPrices(p)
  BY <1>14, SetPricesBacked DEF SetPrices
<1>15. CASE InitializeBlock
  BY <1>15, InitializeBlockBacked
<1>16. CASE UNCHANGED <<now, ledger, vaultVars, lendingVars>>
  BY <1>16, SetPricesBacked DEF lendingVars
<1> QED
  BY <1>2, <1>3, <1>4, <1>5, <1>6, <1>7, <1>8, <1>9, <1>10, <1>11, <1>12, <1>13, <1>14,
     <1>15, <1>16
     DEF LendingNext, MarketNext, LoanNext

LEMMA LendingInvariant ==
    ASSUME NoNativeMarkets
    PROVE  LendingSpec => []LendingInv
<1>1. ChainInit /\ VaultInit /\ LendingInit /\ NothingLent => LendingInv
  BY LendingStarts
<1>2. LendingInv
         /\ [LendingNext(MarketInputs, MarketUpdates)]_<<now, ledger, vaultVars, lendingVars>>
         => LendingInv'
  BY LendingStep
<1> QED
  BY <1>1, <1>2, PTL DEF LendingSpec

(* The markets that are there are the first lending_count ones, indices    *)
(* and the loans' entries are numbers, and no call of lending, vault or    *)
(* liquidations makes a balance negative.                                  *)
THEOREM LendingTypesKept ==
    ASSUME NoNativeMarkets
    PROVE  LendingSpec => []LendingTypeOK
<1>1. LendingInv => LendingTypeOK
  BY DEF LendingInv, LoanBooks
<1> QED
  BY <1>1, LendingInvariant, PTL

(* Collateral is in the market's account or was sold, no borrower owes     *)
(* less than the principal, and what the vault counts as lent out is cash  *)
(* of the market or principal: for any number of markets, borrowers and    *)
(* lenders, whatever they call, repay for one another and liquidate, and   *)
(* however interest and the vault's rebalancing move funds every block.    *)
THEOREM LoansStayBacked ==
    ASSUME NoNativeMarkets
    PROVE  LendingSpec => []LoansBacked
<1>1. LendingInv => LoansBacked
  <2> SUFFICES ASSUME LendingInv, NEW m \in MarketIds, MarketExists(m)
               PROVE  /\ CollateralAccounted(m)
                      /\ \A who \in Users : OwedCoversPrincipal(m, who)
                      /\ StrategyBacked(m)
    BY DEF LoansBacked
  <2>1. Backed(ledger, capital_structure, orders, m)
    BY DEF LendingInv, FundsSound
  <2>2. \A who \in Users : OwedCoversPrincipal(m, who)
    BY DEF LendingInv, Loan
  <2>3. CollateralAccounted(m) /\ StrategyBacked(m)
    BY <2>1 DEF Backed, Credited, Lent, CollateralAccounted, StrategyBacked, Principal
  <2> QED
    BY <2>2, <2>3
<1> QED
  BY <1>1, LendingInvariant, PTL
=============================================================================
