---------------------------- MODULE FundsProofs -----------------------------
(***************************************************************************)
(* Proofs about Vesting, BondedFinance, CrowdloanRewards and Vault, over   *)
(* the currencies of Chain, for every set of accounts and every schedule,  *)
(* offer, reward, deposit or strategy: what the books of these pallets and *)
(* the accounts of the ledger have to do with each other.                  *)
(***************************************************************************)
EXTENDS BondedFinance, CrowdloanRewards, Vault, SumProofs, SequenceTheorems

-----------------------------------------------------------------------------
(* The currencies.                                                         *)

LEMMA LedgerEntries ==
    ASSUME NEW l \in Ledger, NEW a \in AssetIds, NEW who \in Accounts
    PROVE  /\ l[a] \in [Accounts -> Entry] /\ l[a][who] \in Entry
           /\ l[a][who].free \in Nat /\ l[a][who].reserved \in Nat
           /\ l[a][who].frozen \in Nat
BY DEF Ledger, Entry

LEMMA NoFundsEntry == NoFunds \in Entry /\ NoFunds.free = 0 /\ NoFunds.frozen = 0
BY DEF NoFunds, Entry

(* A lock is set and nothing else.                                         *)
LEMMA SetLockFacts ==
    ASSUME NEW l \in Ledger, NEW a \in AssetIds, NEW who \in Accounts, NEW n \in Nat
    PROVE  /\ SetLock(l, a, who, n) \in Ledger
           /\ SetLock(l, a, who, n)[a][who].frozen = n
           /\ SetLock(l, a, who, n)[a][who].free = l[a][who].free
           /\ \A b \in AssetIds, w \in Accounts :
                 b # a \/ w # who => SetLock(l, a, who, n)[b][w] = l[b][w]
<1>1. SetLock(l, a, who, n) \in Ledger
  BY DEF SetLock, Ledger, Entry
<1>2. SetLock(l, a, who, n)[a][who] = [l[a][who] EXCEPT !.frozen = n]
  BY DEF SetLock, Ledger, Entry
<1>3. \A b \in AssetIds, w \in Accounts :
         b # a \/ w # who => SetLock(l, a, who, n)[b][w] = l[b][w]
  BY DEF SetLock, Ledger
<1> QED
  BY <1>1, <1>2, <1>3, LedgerEntries DEF Entry

LEMMA DepositFacts ==
    ASSUME NEW l \in Ledger, NEW a \in AssetIds, NEW who \in Accounts, NEW n \in Nat
    PROVE  /\ Deposit(l, a, who, n) \in Ledger
           /\ Deposit(l, a, who, n)[a][who].free = l[a][who].free + n
           /\ Deposit(l, a, who, n)[a][who].frozen = l[a][who].frozen
           /\ \A b \in AssetIds, w \in Accounts :
                 b # a \/ w # who => Deposit(l, a, who, n)[b][w] = l[b][w]
<1>1. Deposit(l, a, who, n) \in Ledger
  BY DEF Deposit, Ledger, Entry
<1>2. Deposit(l, a, who, n)[a][who] = [l[a][who] EXCEPT !.free = @ + n]
  BY DEF Deposit, Ledger, Entry
<1>3. \A b \in AssetIds, w \in Accounts :
         b # a \/ w # who => Deposit(l, a, who, n)[b][w] = l[b][w]
  BY DEF Deposit, Ledger
<1> QED
  BY <1>1, <1>2, <1>3, LedgerEntries DEF Entry

(* What every withdrawal needs, whether or not the caller allows the       *)
(* account to be reaped.                                                   *)
Unlocked(l, a, who, n) ==
    /\ l[a][who].free - n >= l[a][who].frozen
    /\ l[a][who].frozen > 0 => l[a][who].free - n + l[a][who].reserved >= MinimumBalance[a]

(* What is withdrawn is not locked, and only an account without lock is    *)
(* reaped.                                                                 *)
LEMMA WithdrawFacts ==
    ASSUME NEW l \in Ledger, NEW a \in AssetIds, NEW who \in Accounts, NEW n \in Nat,
           Unlocked(l, a, who, n)
    PROVE  /\ Withdraw(l, a, who, n) \in Ledger
           /\ Withdraw(l, a, who, n)[a][who].frozen = l[a][who].frozen
           /\ Withdraw(l, a, who, n)[a][who].free <= l[a][who].free
           /\ Withdraw(l, a, who, n)[a][who].free >= l[a][who].frozen
           /\ Withdraw(l, a, who, n)[a][who].free <= l[a][who].free - n
           /\ l[a][who].free - n >= MinimumBalance[a]
                 => Withdraw(l, a, who, n)[a][who].free = l[a][who].free - n
           /\ \A b \in AssetIds, w \in Accounts :
                 b # a \/ w # who => Withdraw(l, a, who, n)[b][w] = l[b][w]
<1> DEFINE e == l[a][who]
           m == Withdraw(l, a, who, n)
           reaped == TotalBalance(l, a, who) - n < MinimumBalance[a]
           new == IF reaped THEN NoFunds ELSE [e EXCEPT !.free = @ - n]
<1>1. /\ e \in Entry /\ e.free \in Nat /\ e.reserved \in Nat /\ e.frozen \in Nat
      /\ MinimumBalance[a] \in Nat
  BY LedgerEntries, ChainTypes
<1>2. e.free - n >= e.frozen /\ (e.frozen > 0 => e.free - n + e.reserved >= MinimumBalance[a])
  BY DEF Unlocked
<1>3. m = [l EXCEPT ![a] = [l[a] EXCEPT ![who] = new]]
  BY DEF Withdraw
<1>4. CASE reaped
  <2>1. new = NoFunds /\ e.frozen = 0 /\ ~(e.free - n >= MinimumBalance[a])
    <3>1. TotalBalance(l, a, who) = e.free + e.reserved
      BY DEF TotalBalance
    <3> QED
      BY <1>1, <1>2, <1>4, <3>1
  <2> HIDE DEF e, m, new
  <2>2. /\ m \in Ledger /\ m[a][who] = NoFunds
        /\ \A b \in AssetIds, w \in Accounts : b # a \/ w # who => m[b][w] = l[b][w]
    BY <1>3, <2>1, NoFundsEntry DEF Ledger
  <2> QED
    BY <1>1, <1>2, <2>1, <2>2, NoFundsEntry DEF e, m
<1>5. CASE ~reaped
  <2>1. new = [e EXCEPT !.free = @ - n]
    BY <1>5
  <2>2. /\ new \in Entry /\ new.free = e.free - n /\ new.frozen = e.frozen
    BY <1>1, <1>2, <2>1 DEF Entry
  <2> HIDE DEF e, m, new
  <2>3. /\ m \in Ledger /\ m[a][who] = new
        /\ \A b \in AssetIds, w \in Accounts : b # a \/ w # who => m[b][w] = l[b][w]
    BY <1>3, <2>2 DEF Ledger
  <2> QED
    BY <1>1, <1>2, <2>2, <2>3 DEF e, m
<1> QED
  BY <1>4, <1>5

(* A transfer takes nothing that is locked, and moves no lock.             *)
LEMMA TransferFacts ==
    ASSUME NEW l \in Ledger, NEW a \in AssetIds, NEW from \in Accounts, NEW to \in Accounts,
           NEW n \in Nat, n = 0 \/ from = to \/ Unlocked(l, a, from, n),
           NEW m, m = Transfer(l, a, from, to, n)
    PROVE  /\ m \in Ledger
           /\ n = 0 \/ from = to => m = l
           /\ n # 0 /\ from # to =>
                 /\ m[a][to].free = l[a][to].free + n
                 /\ m[a][to].frozen = l[a][to].frozen
                 /\ m[a][from].frozen = l[a][from].frozen
                 /\ m[a][from].free >= l[a][from].frozen
                 /\ m[a][from].free <= l[a][from].free - n
                 /\ l[a][from].free - n >= MinimumBalance[a]
                       => m[a][from].free = l[a][from].free - n
                 /\ \A b \in AssetIds, w \in Accounts :
                       b # a \/ w \notin {from, to} => m[b][w] = l[b][w]
<1>1. CASE n = 0 \/ from = to
  BY <1>1 DEF Transfer
<1>2. CASE n # 0 /\ from # to
  <2> DEFINE k == Withdraw(l, a, from, n)
  <2>1. m = Deposit(k, a, to, n) /\ Unlocked(l, a, from, n)
    BY <1>2 DEF Transfer
  <2>2. /\ k \in Ledger
        /\ k[a][from].frozen = l[a][from].frozen
        /\ k[a][from].free >= l[a][from].frozen
        /\ k[a][from].free <= l[a][from].free - n
        /\ l[a][from].free - n >= MinimumBalance[a]
              => k[a][from].free = l[a][from].free - n
        /\ \A b \in AssetIds, w \in Accounts : b # a \/ w # from => k[b][w] = l[b][w]
    BY <2>1, WithdrawFacts
  <2> HIDE DEF k
  <2>3. /\ m \in Ledger
        /\ m[a][to].free = k[a][to].free + n
        /\ m[a][to].frozen = k[a][to].frozen
        /\ \A b \in AssetIds, w \in Accounts : b # a \/ w # to => m[b][w] = k[b][w]
    <3>1. k \in Ledger
      BY <2>2
    <3>2. /\ Deposit(k, a, to, n) \in Ledger
          /\ Deposit(k, a, to, n)[a][to].free = k[a][to].free + n
          /\ Deposit(k, a, to, n)[a][to].frozen = k[a][to].frozen
          /\ \A b \in AssetIds, w \in Accounts :
                b # a \/ w # to => Deposit(k, a, to, n)[b][w] = k[b][w]
      BY <3>1, DepositFacts
    <3> QED
      BY <2>1, <3>2
  <2> QED
    BY <1>2, <2>2, <2>3
<1> QED
  BY <1>1, <1>2

-----------------------------------------------------------------------------
(* Schedules.                                                              *)

(* Every schedule that was accepted has a period.                          *)
Accepted == {s \in ScheduleType : s.period # 0}

LEMMA TotalType ==
    ASSUME NEW s \in ScheduleType
    PROVE  TotalAmount(s) \in Nat
BY DEF TotalAmount, ScheduleType

(* A schedule never holds more than its total, and releases as time goes.  *)
LEMMA LockedFacts ==
    ASSUME NEW s \in Accepted, NEW t \in Nat
    PROVE  /\ LockedAmount(s, t) \in Nat
           /\ LockedAmount(s, t) <= TotalAmount(s)
           /\ LockedAmount(s, t + 1) \in Nat
           /\ LockedAmount(s, t + 1) <= LockedAmount(s, t)
<1>1. /\ s.start \in Nat /\ s.period \in Nat \ {0}
      /\ s.period_count \in Nat /\ s.per_period \in Nat
  BY DEF Accepted, ScheduleType
<1> DEFINE x == SatSub(t, s.start)
           y == SatSub(t + 1, s.start)
<1>2. x \in Nat /\ y \in Nat /\ x <= y
  BY <1>1 DEF SatSub
<1> HIDE DEF x, y
<1> DEFINE u == x \div s.period
           v == y \div s.period
<1>3. u \in Nat /\ v \in Nat /\ u <= v
  BY <1>1, <1>2, QuotientMonotone, QuotientType
<1> HIDE DEF u, v
<1> DEFINE m == SatSub(s.period_count, u)
           n == SatSub(s.period_count, v)
<1>4. m \in Nat /\ n \in Nat /\ n <= m /\ m <= s.period_count
  BY <1>1, <1>3 DEF SatSub
<1> HIDE DEF m, n
<1>5. /\ s.per_period * n <= s.per_period * m
      /\ s.per_period * m <= s.per_period * s.period_count
      /\ s.per_period * n \in Nat /\ s.per_period * m \in Nat
  BY <1>1, <1>4, TimesMonotone
<1>6. LockedAmount(s, t) = s.per_period * m /\ LockedAmount(s, t + 1) = s.per_period * n
  BY DEF LockedAmount, m, n, u, v, x, y
<1> QED
  BY <1>5, <1>6 DEF TotalAmount

LEMMA UnvestedType ==
    ASSUME NEW ss \in Seq(Accepted), NEW t \in Nat
    PROVE  /\ Unvested(ss, t) \in Nat
           /\ Unvested(ss, t + 1) \in Nat
           /\ Unvested(ss, t + 1) <= Unvested(ss, t)
           /\ AmountOfAll(ss) \in Nat
           /\ Unvested(ss, t) <= AmountOfAll(ss)
<1> DEFINE f == [i \in DOMAIN ss |-> LockedAmount(ss[i], t)]
           g == [i \in DOMAIN ss |-> LockedAmount(ss[i], t + 1)]
           h == [i \in DOMAIN ss |-> TotalAmount(ss[i])]
           S == DOMAIN ss
<1>1. IsFiniteSet(S) /\ S = 1..Len(ss) /\ \A i \in S : ss[i] \in Accepted
  BY FS_Interval
<1>2. \A i \in S : /\ f[i] \in Nat /\ g[i] \in Nat /\ h[i] \in Nat
                    /\ g[i] <= f[i] /\ f[i] <= h[i]
  <2>1. TAKE i \in S
  <2>2. ss[i] \in Accepted /\ ss[i] \in ScheduleType
    BY <1>1 DEF Accepted
  <2> QED
    BY <2>2, LockedFacts, TotalType
<1>3. DOMAIN f = S /\ DOMAIN g = S /\ DOMAIN h = S
  OBVIOUS
<1>4. /\ Unvested(ss, t) = SumFunctionOnSet(f, S)
      /\ Unvested(ss, t + 1) = SumFunctionOnSet(g, S)
      /\ AmountOfAll(ss) = SumFunctionOnSet(h, S)
  BY <1>3 DEF Unvested, AmountOfAll, SumFunction
<1> HIDE DEF f, g, h, S
<1>5. /\ SumFunctionOnSet(f, S) \in Nat
      /\ SumFunctionOnSet(g, S) \in Nat
      /\ SumFunctionOnSet(h, S) \in Nat
  BY <1>1, <1>2, SumType
<1>6. SumFunctionOnSet(g, S) <= SumFunctionOnSet(f, S)
  <2>1. \A i \in S : g[i] \in Int /\ f[i] \in Int /\ g[i] <= f[i]
    BY <1>2
  <2> QED
    BY <1>1, <2>1, SumMonotone
<1>7. SumFunctionOnSet(f, S) <= SumFunctionOnSet(h, S)
  <2>1. \A i \in S : f[i] \in Int /\ h[i] \in Int /\ f[i] <= h[i]
    BY <1>2
  <2> QED
    BY <1>1, <2>1, SumMonotone
<1> QED
  BY <1>4, <1>5, <1>6, <1>7

LEMMA UnvestedNone ==
    ASSUME NEW t
    PROVE  Unvested(<<>>, t) = 0 /\ AmountOfAll(<<>>) = 0
<1> DEFINE f == [i \in DOMAIN <<>> |-> LockedAmount(<<>>[i], t)]
           h == [i \in DOMAIN <<>> |-> TotalAmount(<<>>[i])]
<1>1. DOMAIN f = {} /\ DOMAIN h = {}
  OBVIOUS
<1>2. Unvested(<<>>, t) = SumFunctionOnSet(f, {}) /\ AmountOfAll(<<>>) = SumFunctionOnSet(h, {})
  BY <1>1 DEF Unvested, AmountOfAll, SumFunction
<1> QED
  BY <1>2, SumOfNone

LEMMA UnvestedAppend ==
    ASSUME NEW ss \in Seq(Accepted), NEW s \in Accepted, NEW t \in Nat
    PROVE  Unvested(Append(ss, s), t) = Unvested(ss, t) + LockedAmount(s, t)
<1> DEFINE f == [i \in DOMAIN ss |-> LockedAmount(ss[i], t)]
           n == Len(ss)
           more == Append(ss, s)
           g == [i \in DOMAIN more |-> LockedAmount(more[i], t)]
<1>1. /\ DOMAIN ss = 1..n /\ n \in Nat /\ DOMAIN more = 1..n \cup {n + 1}
      /\ \A i \in 1..n : more[i] = ss[i] /\ ss[i] \in Accepted
      /\ more[n + 1] = s
  <2>1. /\ more \in Seq(Accepted) /\ Len(more) = n + 1
        /\ \A i \in 1..n : more[i] = ss[i]
        /\ more[n + 1] = s
    BY AppendProperties
  <2>2. DOMAIN more = 1..(n + 1) /\ DOMAIN ss = 1..n /\ n \in Nat
    BY <2>1
  <2>3. 1..(n + 1) = 1..n \cup {n + 1}
    BY <2>2
  <2>4. \A i \in 1..n : ss[i] \in Accepted
    OBVIOUS
  <2> QED
    BY <2>1, <2>2, <2>3, <2>4
<1>2. DOMAIN f = 1..n /\ DOMAIN g = 1..n \cup {n + 1}
  BY <1>1
<1>3. Unvested(ss, t) = SumFunctionOnSet(f, 1..n)
  BY <1>2 DEF Unvested, SumFunction
<1>4. Unvested(more, t) = SumFunctionOnSet(g, 1..n \cup {n + 1})
  BY <1>2 DEF Unvested, SumFunction
<1>5. /\ \A i \in 1..n : f[i] = g[i] /\ g[i] \in Nat
      /\ g[n + 1] = LockedAmount(s, t) /\ g[n + 1] \in Nat
  <2>1. \A i \in 1..n : f[i] = LockedAmount(ss[i], t) /\ g[i] = LockedAmount(more[i], t)
    BY <1>1
  <2>2. g[n + 1] = LockedAmount(more[n + 1], t)
    BY <1>1
  <2> HIDE DEF f, g, n, more
  <2>3. \A i \in 1..n : LockedAmount(ss[i], t) \in Nat
    BY <1>1, LockedFacts
  <2>4. LockedAmount(s, t) \in Nat
    BY LockedFacts
  <2> QED
    BY <1>1, <2>1, <2>2, <2>3, <2>4
<1> HIDE DEF f, g, n, more
<1>6. IsFiniteSet(1..n) /\ n + 1 \notin 1..n
  BY <1>1, FS_Interval
<1>7. SumFunctionOnSet(f, 1..n) = SumFunctionOnSet(g, 1..n) /\ SumFunctionOnSet(g, 1..n) \in Nat
  <2>1. \A i \in 1..n : f[i] = g[i]
    BY <1>5
  <2>2. \A i \in 1..n : g[i] \in Nat
    BY <1>5
  <2>3. SumFunctionOnSet(f, 1..n) = SumFunctionOnSet(g, 1..n)
    BY <1>6, <2>1, SumSame
  <2>4. SumFunctionOnSet(g, 1..n) \in Nat
    BY <1>6, <2>2, SumType
  <2> QED
    BY <2>3, <2>4
<1>8. SumFunctionOnSet(g, 1..n \cup {n + 1}) = g[n + 1] + SumFunctionOnSet(g, 1..n)
  <2>1. \A y \in 1..n \cup {n + 1} : g[y] \in Int
    BY <1>5
  <2> QED
    BY <1>6, <2>1, SumInsert
<1>9. Unvested(more, t) = Unvested(ss, t) + LockedAmount(s, t)
  BY <1>3, <1>4, <1>5, <1>7, <1>8
<1> QED
  BY <1>9 DEF more

-----------------------------------------------------------------------------
(* What locked_balance retains.                                            *)

(* The walk over the first N schedules ss at time t.                       *)
Keeps(g, ss, t, N) ==
    g = [n \in 0..N |->
            IF n = 0 THEN <<>>
            ELSE IF LockedAmount(ss[n], t) = 0 THEN g[n - 1]
            ELSE Append(g[n - 1], ss[n])]

LEMMA KeepsExists ==
    ASSUME NEW ss, NEW t, NEW N \in Nat
    PROVE  \E g : Keeps(g, ss, t, N)
<1> DEFINE bad == {n \in Nat : ~ \E g : Keeps(g, ss, t, n)}
<1>1. ASSUME ~ \E g : Keeps(g, ss, t, N) PROVE FALSE
  <2>1. N \in bad
    BY <1>1
  <2>2. PICK n \in bad : \A m \in bad : n <= m
    BY <2>1, SmallestSize
  <2>3. n \in Nat /\ ~ \E g : Keeps(g, ss, t, n)
    BY <2>2
  <2>4. n # 0
    <3> DEFINE g == [i \in 0..0 |-> <<>>]
    <3>1. g = [i \in 0..0 |->
                 IF i = 0 THEN <<>>
                 ELSE IF LockedAmount(ss[i], t) = 0 THEN g[i - 1]
                 ELSE Append(g[i - 1], ss[i])]
      OBVIOUS
    <3>2. Keeps(g, ss, t, 0)
      BY <3>1 DEF Keeps
    <3> QED
      BY <2>3, <3>2
  <2>5. n - 1 \in Nat /\ n - 1 \notin bad
    <3> HIDE DEF bad
    <3> QED
      BY <2>2, <2>3, <2>4
  <2>6. PICK h : Keeps(h, ss, t, n - 1)
    BY <2>5
  <2> DEFINE step(i, v) == IF LockedAmount(ss[i], t) = 0 THEN v ELSE Append(v, ss[i])
             g == [i \in 0..n |-> IF i = n THEN step(n, h[n - 1]) ELSE h[i]]
  <2>7. ASSUME NEW i \in 0..(n - 1) PROVE h[i] = IF i = 0 THEN <<>> ELSE step(i, h[i - 1])
    BY <2>6 DEF Keeps
  <2>8. ASSUME NEW i \in 0..n PROVE g[i] = IF i = 0 THEN <<>> ELSE step(i, g[i - 1])
    <3>1. CASE i = n
      BY <2>3, <2>4, <3>1
    <3>2. CASE i # n
      <4>1. i \in 0..(n - 1) /\ g[i] = h[i]
        BY <2>3, <3>2
      <4>2. i # 0 => g[i - 1] = h[i - 1]
        BY <2>3, <4>1
      <4> QED
        BY <2>7, <4>1, <4>2
    <3> QED
      BY <3>1, <3>2
  <2>9. g = [i \in 0..n |-> g[i]]
    OBVIOUS
  <2> HIDE DEF g
  <2>10. Keeps(g, ss, t, n)
    BY <2>8, <2>9 DEF Keeps
  <2> QED
    BY <2>3, <2>10
<1> QED
  BY <1>1

(* Dropping the schedules that are through leaves what is still to vest.   *)
LEMMA RetainedFacts ==
    ASSUME NEW ss \in Seq(Accepted), NEW t \in Nat
    PROVE  /\ Retained(ss, t) \in Seq(Accepted)
           /\ Unvested(Retained(ss, t), t) = Unvested(ss, t)
<1> DEFINE N == Len(ss)
           g == CHOOSE k : Keeps(k, ss, t, N)
           f == [i \in DOMAIN ss |-> LockedAmount(ss[i], t)]
           sum(n) == SumFunctionOnSet(f, 1..n)
           good(n) == g[n] \in Seq(Accepted) /\ Unvested(g[n], t) = sum(n)
           bad == {n \in 0..N : ~good(n)}
<1>1. N \in Nat /\ DOMAIN ss = 1..N /\ \A i \in 1..N : ss[i] \in Accepted
  OBVIOUS
<1>2. Retained(ss, t) = g[N]
  BY DEF Retained, Keeps
<1>3. Keeps(g, ss, t, N)
  <2> HIDE DEF N
  <2> QED
    BY <1>1, KeepsExists
<1> HIDE DEF g
<1>4. Unvested(ss, t) = sum(N)
  <2>1. DOMAIN f = 1..N
    BY <1>1
  <2> QED
    BY <2>1 DEF Unvested, SumFunction
<1>5. \A i \in 1..N : f[i] = LockedAmount(ss[i], t) /\ LockedAmount(ss[i], t) \in Nat
  BY <1>1, LockedFacts
<1> HIDE DEF f, N, sum
<1>6. ASSUME bad # {} PROVE FALSE
  <2>1. PICK n \in bad : \A m \in bad : n <= m
    <3>1. bad \subseteq Nat
      BY <1>1
    <3> HIDE DEF bad
    <3> QED
      BY <1>6, <3>1, SmallestSize
  <2>2. n \in 0..N /\ ~good(n)
    BY <2>1
  <2>3. n # 0
    <3>1. g[0] = <<>>
      BY <1>1, <1>3 DEF Keeps
    <3>2. 1..0 = {} /\ sum(0) = 0
      BY SumOfNone DEF sum
    <3>3. Unvested(g[0], t) = 0
      BY <3>1, UnvestedNone
    <3>4. good(0)
      BY <3>1, <3>2, <3>3
    <3> QED
      BY <2>2, <3>4
  <2>4. n - 1 \in 0..N /\ n \in 1..N /\ n - 1 \notin bad
    <3>1. n - 1 \in 0..N /\ n \in 1..N
      BY <1>1, <2>2, <2>3
    <3> HIDE DEF bad
    <3> QED
      BY <1>1, <2>1, <2>2, <3>1
  <2>5. g[n - 1] \in Seq(Accepted) /\ Unvested(g[n - 1], t) = sum(n - 1)
    BY <2>4
  <2>6. g[n] = IF LockedAmount(ss[n], t) = 0 THEN g[n - 1] ELSE Append(g[n - 1], ss[n])
    BY <1>1, <1>3, <2>2, <2>3 DEF Keeps
  <2>7. sum(n) = f[n] + sum(n - 1) /\ sum(n - 1) \in Nat
    <3>1. /\ IsFiniteSet(1..(n - 1)) /\ n \notin 1..(n - 1)
          /\ 1..n = 1..(n - 1) \cup {n} /\ 1..n \subseteq 1..N
      <4>1. n \in Nat /\ n <= N /\ n >= 1
        BY <1>1, <2>4
      <4>2. IsFiniteSet(1..(n - 1))
        BY <4>1, FS_Interval
      <4>3. 1..n = 1..(n - 1) \cup {n} /\ 1..n \subseteq 1..N /\ n \notin 1..(n - 1)
        BY <1>1, <4>1
      <4> QED
        BY <4>2, <4>3
    <3>2. \A y \in 1..(n - 1) \cup {n} : f[y] \in Nat /\ f[y] \in Int
      BY <1>5, <3>1
    <3>3. SumFunctionOnSet(f, 1..(n - 1) \cup {n}) = f[n] + SumFunctionOnSet(f, 1..(n - 1))
      BY <3>1, <3>2, SumInsert
    <3>4. SumFunctionOnSet(f, 1..(n - 1)) \in Nat
      BY <3>1, <3>2, SumType
    <3> QED
      BY <3>1, <3>3, <3>4 DEF sum
  <2>8. f[n] = LockedAmount(ss[n], t) /\ ss[n] \in Accepted
    BY <1>1, <1>5, <2>4
  <2>9. CASE LockedAmount(ss[n], t) = 0
    BY <2>2, <2>5, <2>6, <2>7, <2>8, <2>9
  <2>10. CASE LockedAmount(ss[n], t) # 0
    <3>1. g[n] = Append(g[n - 1], ss[n])
      BY <2>6, <2>10
    <3>2. g[n] \in Seq(Accepted)
      BY <2>5, <2>8, <3>1, AppendProperties
    <3>3. Unvested(g[n], t) = Unvested(g[n - 1], t) + LockedAmount(ss[n], t)
      BY <2>5, <2>8, <3>1, UnvestedAppend
    <3>4. LockedAmount(ss[n], t) \in Nat
      BY <2>8, LockedFacts
    <3> QED
      BY <2>2, <2>5, <2>7, <2>8, <3>2, <3>3, <3>4
  <2> QED
    BY <2>9, <2>10
<1>7. good(N)
  BY <1>1, <1>6
<1> QED
  BY <1>2, <1>4, <1>7

-----------------------------------------------------------------------------
(* Vesting.                                                                *)

VestingTypeOK ==
    /\ now \in Nat
    /\ ledger \in Ledger
    /\ vesting_schedules \in [Accounts -> [AssetIds -> Seq(Accepted)]]

(* A lock is on funds that are there.                                      *)
LockHeld ==
    \A who \in Accounts, a \in AssetIds :
        <<who, a>> \notin selfVested => ledger[a][who].frozen <= ledger[a][who].free

VestingInv == VestingTypeOK /\ LockCoversUnvested /\ LockHeld

LEMMA HeldFunds ==
    VestingInv => UnvestedLocked
<1> SUFFICES ASSUME VestingInv PROVE UnvestedFundsHeld
  BY DEF VestingInv, UnvestedLocked
<1> SUFFICES ASSUME NEW who \in Accounts, NEW a \in AssetIds, <<who, a>> \notin selfVested
             PROVE  Unvested(vesting_schedules[who][a], now) <= ledger[a][who].free
  BY DEF UnvestedFundsHeld
<1>1. /\ ledger[a][who].free \in Nat /\ ledger[a][who].frozen \in Nat
      /\ vesting_schedules[who][a] \in Seq(Accepted) /\ now \in Nat
  BY LedgerEntries DEF VestingInv, VestingTypeOK
<1>2. Unvested(vesting_schedules[who][a], now) \in Nat
  BY <1>1, UnvestedType
<1>3. /\ ledger[a][who].frozen >= Unvested(vesting_schedules[who][a], now)
      /\ ledger[a][who].frozen <= ledger[a][who].free
  BY DEF VestingInv, LockCoversUnvested, LockHeld
<1> QED
  BY <1>1, <1>2, <1>3

LEMMA VestingStarts ==
    ChainInit /\ VestingInit => VestingInv
<1> SUFFICES ASSUME ChainInit, VestingInit PROVE VestingInv
  OBVIOUS
<1>1. ASSUME NEW n \in Nat
      PROVE  Holding(n) \in Entry /\ Holding(n).free = n /\ Holding(n).frozen = 0
  BY DEF Holding, NoFunds, Entry
<1>2. \A a \in AssetIds, who \in Accounts : ledger[a][who] \in {Holding(n) : n \in Nat}
  BY DEF ChainInit
<1>3. \A a \in AssetIds, who \in Accounts :
         /\ ledger[a][who] \in Entry /\ ledger[a][who].frozen = 0
         /\ ledger[a][who].free \in Nat
  BY <1>1, <1>2
<1>4. ledger \in Ledger
  <2>1. ledger \in [AssetIds -> [Accounts -> {Holding(n) : n \in Nat}]]
    BY DEF ChainInit
  <2> QED
    BY <1>1, <2>1 DEF Ledger
<1>5. vesting_schedules \in [Accounts -> [AssetIds -> Seq(Accepted)]] /\ now = 0
  BY DEF VestingInit, ChainInit
<1>6. \A a \in AssetIds, who \in Accounts : Unvested(vesting_schedules[who][a], now) = 0
  <2>1. \A a \in AssetIds, who \in Accounts : vesting_schedules[who][a] = <<>>
    BY DEF VestingInit
  <2> QED
    BY <2>1, UnvestedNone
<1> QED
  BY <1>3, <1>4, <1>5, <1>6 DEF VestingInv, VestingTypeOK, LockCoversUnvested, LockHeld

(* What a call leaves when it writes the ledger and the schedules of one   *)
(* account in one asset: only that account has to be looked at.            *)
OthersHold(who, a) ==
    \A w \in Accounts, b \in AssetIds : w # who \/ b # a =>
        /\ ledger'[b][w].frozen = ledger[b][w].frozen
        /\ \/ ledger'[b][w].free >= ledger[b][w].free
           \/ ledger'[b][w].free >= ledger'[b][w].frozen

LEMMA VestingWrites ==
    ASSUME VestingInv, now' = now, ledger' \in Ledger,
           NEW who \in Accounts, NEW a \in AssetIds, NEW ss \in Seq(Accepted),
           vesting_schedules' = [vesting_schedules EXCEPT ![who][a] = ss],
           selfVested \subseteq selfVested', OthersHold(who, a),
           ledger'[a][who].frozen >= Unvested(ss, now),
           <<who, a>> \notin selfVested' => ledger'[a][who].frozen <= ledger'[a][who].free
    PROVE  VestingInv'
<1>1. VestingTypeOK
  BY DEF VestingInv
<1>2. /\ vesting_schedules' \in [Accounts -> [AssetIds -> Seq(Accepted)]]
      /\ vesting_schedules'[who][a] = ss
      /\ \A w \in Accounts, b \in AssetIds : w # who \/ b # a =>
            vesting_schedules'[w][b] = vesting_schedules[w][b]
  BY <1>1 DEF VestingTypeOK
<1>3. VestingTypeOK'
  BY <1>1, <1>2 DEF VestingTypeOK
<1>4. ASSUME NEW w \in Accounts, NEW b \in AssetIds
      PROVE  /\ ledger'[b][w].frozen >= Unvested(vesting_schedules'[w][b], now')
             /\ <<w, b>> \notin selfVested' => ledger'[b][w].frozen <= ledger'[b][w].free
  <2>1. CASE w = who /\ b = a
    BY <1>2, <2>1
  <2>2. CASE w # who \/ b # a
    <3>1. /\ ledger[b][w].frozen >= Unvested(vesting_schedules[w][b], now)
          /\ <<w, b>> \notin selfVested => ledger[b][w].frozen <= ledger[b][w].free
      BY DEF VestingInv, LockCoversUnvested, LockHeld
    <3>2. /\ ledger'[b][w].frozen = ledger[b][w].frozen
          /\ \/ ledger'[b][w].free >= ledger[b][w].free
             \/ ledger'[b][w].free >= ledger'[b][w].frozen
          /\ vesting_schedules'[w][b] = vesting_schedules[w][b]
      BY <1>2, <2>2 DEF OthersHold
    <3>3. /\ ledger[b][w].free \in Nat /\ ledger[b][w].frozen \in Nat
          /\ ledger'[b][w].free \in Nat
      BY <1>1, LedgerEntries DEF VestingTypeOK
    <3> QED
      BY <3>1, <3>2, <3>3
  <2> QED
    BY <2>1, <2>2
<1> QED
  BY <1>3, <1>4 DEF VestingInv, LockCoversUnvested, LockHeld

LEMMA VestedTransferKeeps ==
    ASSUME VestingInv, NEW from \in Users, NEW to \in Users, NEW a \in AssetIds,
           NEW s \in Schedules, VestedTransfer(from, to, a, s)
    PROVE  VestingInv'
<1> DEFINE old == vesting_schedules[to][a]
           kept == Retained(old, now)
           n == TotalAmount(s)
           m == Transfer(ledger, a, from, to, n)
<1>1. /\ from \in Accounts /\ to \in Accounts /\ now \in Nat /\ ledger \in Ledger
      /\ old \in Seq(Accepted)
      /\ s \in ScheduleType /\ s \in Accepted
  BY VestingTypes DEF VestingInv, VestingTypeOK, Accounts, VestedTransfer,
                      CanVestedTransfer, ValidSchedule, Accepted
<1>2. n \in Nat /\ n # 0
  <2>1. n \in Nat
    BY <1>1, TotalType
  <2>2. n >= MinVestedTransfer /\ MinVestedTransfer \in Nat \ {0}
    BY VestingTypes DEF VestedTransfer, CanVestedTransfer, ValidSchedule
  <2> QED
    BY <2>1, <2>2
<1>3. kept \in Seq(Accepted) /\ Unvested(kept, now) = Unvested(old, now)
  BY <1>1, RetainedFacts
<1>4. /\ Append(kept, s) \in Seq(Accepted)
      /\ Unvested(Append(kept, s), now) = Unvested(old, now) + LockedAmount(s, now)
  BY <1>1, <1>3, UnvestedAppend, AppendProperties
<1>5. /\ LockedAmount(s, now) \in Nat /\ LockedAmount(s, now) <= n
      /\ Unvested(old, now) \in Nat
  BY <1>1, LockedFacts, UnvestedType
<1>6. n = 0 \/ from = to \/ Unlocked(ledger, a, from, n)
  BY DEF VestedTransfer, CanVestedTransfer, CanTransfer, CanWithdraw, Unlocked
<1>7. /\ ledger' = SetLock(m, a, to, Unvested(old, now) + n)
      /\ vesting_schedules' = [vesting_schedules EXCEPT ![to][a] = Append(kept, s)]
      /\ selfVested' = NotedSelf(selfVested, from, to, a) /\ now' = now
  BY DEF VestedTransfer, VestedLedger, VestedSchedules
<1>8. UnvestedFundsHeld
  BY HeldFunds DEF UnvestedLocked
<1> HIDE DEF old, kept, n, m
<1>9. /\ m \in Ledger
      /\ from = to => m = ledger
      /\ from # to =>
            /\ m[a][to].free = ledger[a][to].free + n
            /\ m[a][from].frozen = ledger[a][from].frozen
            /\ m[a][from].free >= ledger[a][from].frozen
            /\ \A b \in AssetIds, w \in Accounts :
                  b # a \/ w \notin {from, to} => m[b][w] = ledger[b][w]
  BY <1>1, <1>2, <1>6, TransferFacts DEF m
<1>10. Unvested(old, now) + n \in Nat
  BY <1>2, <1>5
<1>11. /\ ledger' \in Ledger
       /\ ledger'[a][to].frozen = Unvested(old, now) + n
       /\ ledger'[a][to].free = m[a][to].free
       /\ \A b \in AssetIds, w \in Accounts : b # a \/ w # to => ledger'[b][w] = m[b][w]
  BY <1>1, <1>7, <1>9, <1>10, SetLockFacts
<1>12. ASSUME NEW w \in Accounts, NEW b \in AssetIds, w # to \/ b # a
       PROVE  /\ ledger'[b][w].frozen = ledger[b][w].frozen
              /\ \/ ledger'[b][w].free >= ledger[b][w].free
                 \/ ledger'[b][w].free >= ledger'[b][w].frozen
  <2>1. ledger'[b][w] = m[b][w] /\ ledger[b][w].free \in Nat /\ ledger[b][w].frozen \in Nat
    BY <1>1, <1>11, <1>12, LedgerEntries
  <2>2. CASE m[b][w] = ledger[b][w]
    BY <2>1, <2>2
  <2>3. CASE m[b][w] # ledger[b][w]
    <3>1. from # to /\ b = a /\ w = from
      BY <1>9, <1>12, <2>3
    <3> QED
      BY <1>9, <2>1, <3>1
  <2> QED
    BY <2>2, <2>3
<1>13. selfVested \subseteq selfVested' /\ (<<to, a>> \notin selfVested' => from # to)
  BY <1>7 DEF NotedSelf
<1>14. ASSUME <<to, a>> \notin selfVested' PROVE ledger'[a][to].frozen <= ledger'[a][to].free
  <2>1. Unvested(old, now) <= ledger[a][to].free
    BY <1>1, <1>8, <1>13, <1>14 DEF UnvestedFundsHeld, old
  <2>2. ledger'[a][to].free = ledger[a][to].free + n /\ ledger[a][to].free \in Nat
    BY <1>1, <1>9, <1>11, <1>13, <1>14, LedgerEntries
  <2> QED
    BY <1>2, <1>5, <1>11, <2>1, <2>2
<1>15. ledger'[a][to].frozen >= Unvested(Append(kept, s), now)
  BY <1>2, <1>4, <1>5, <1>11
<1>16. OthersHold(to, a)
  BY <1>12 DEF OthersHold
<1> HIDE DEF VestingInv
<1> DEFINE more == Append(kept, s)
<1>17. /\ more \in Seq(Accepted) /\ ledger'[a][to].frozen >= Unvested(more, now)
       /\ vesting_schedules' = [vesting_schedules EXCEPT ![to][a] = more]
  BY <1>4, <1>7, <1>15
<1> HIDE DEF more
<1> QED
  BY <1>1, <1>7, <1>11, <1>13, <1>14, <1>16, <1>17, VestingWrites

LEMMA ClaimKeeps ==
    ASSUME VestingInv, NEW who \in Users, NEW a \in AssetIds, DoClaim(who, a)
    PROVE  VestingInv'
<1> DEFINE old == vesting_schedules[who][a]
           kept == Retained(old, now)
           n == Unvested(old, now)
<1>1. /\ who \in Accounts /\ now \in Nat /\ ledger \in Ledger /\ old \in Seq(Accepted)
  BY DEF VestingInv, VestingTypeOK, Accounts
<1>2. kept \in Seq(Accepted) /\ Unvested(kept, now) = n /\ n \in Nat
  BY <1>1, RetainedFacts, UnvestedType
<1>3. /\ ledger' = SetLock(ledger, a, who, n) /\ now' = now
      /\ vesting_schedules' = [vesting_schedules EXCEPT ![who][a] = kept]
      /\ selfVested' = selfVested
  BY DEF DoClaim
<1>4. <<who, a>> \notin selfVested => n <= ledger[a][who].free
  BY <1>1, HeldFunds DEF UnvestedLocked, UnvestedFundsHeld
<1> HIDE DEF old, kept, n
<1>5. /\ ledger' \in Ledger
      /\ ledger'[a][who].frozen = n
      /\ ledger'[a][who].free = ledger[a][who].free
      /\ \A b \in AssetIds, w \in Accounts : b # a \/ w # who => ledger'[b][w] = ledger[b][w]
  BY <1>1, <1>2, <1>3, SetLockFacts
<1>6. OthersHold(who, a)
  BY <1>1, <1>5, LedgerEntries DEF OthersHold
<1>7. /\ ledger'[a][who].frozen >= Unvested(kept, now)
      /\ <<who, a>> \notin selfVested' => ledger'[a][who].frozen <= ledger'[a][who].free
      /\ selfVested \subseteq selfVested'
  BY <1>2, <1>3, <1>4, <1>5
<1> QED
  BY <1>1, <1>2, <1>3, <1>5, <1>6, <1>7, VestingWrites

LEMMA UpdateKeeps ==
    ASSUME VestingInv, NEW who \in Users, NEW a \in AssetIds, NEW ss \in Seq(ScheduleType),
           UpdateVestingSchedules(who, a, ss)
    PROVE  VestingInv'
<1> DEFINE n == AmountOfAll(ss)
<1>1. who \in Accounts /\ now \in Nat /\ ledger \in Ledger
  BY DEF VestingInv, VestingTypeOK, Accounts
<1>2. ss \in Seq(Accepted)
  <2>1. \A i \in 1..Len(ss) : ss[i] \in Accepted
    BY DEF UpdateVestingSchedules, ValidSchedule, Accepted
  <2> QED
    BY <2>1
<1>3. n \in Nat /\ Unvested(ss, now) \in Nat /\ Unvested(ss, now) <= n
  BY <1>1, <1>2, UnvestedType
<1>4. n <= ledger[a][who].free
  <2>1. ss = <<>> => n = 0
    BY UnvestedNone
  <2>2. ledger[a][who].free \in Nat
    BY <1>1, LedgerEntries
  <2> QED
    BY <1>3, <2>1, <2>2 DEF UpdateVestingSchedules
<1>5. /\ ledger' = SetLock(ledger, a, who, n) /\ now' = now
      /\ vesting_schedules' = [vesting_schedules EXCEPT ![who][a] = ss]
      /\ selfVested' = selfVested
  BY DEF UpdateVestingSchedules
<1> HIDE DEF n
<1>6. /\ ledger' \in Ledger
      /\ ledger'[a][who].frozen = n
      /\ ledger'[a][who].free = ledger[a][who].free
      /\ \A b \in AssetIds, w \in Accounts : b # a \/ w # who => ledger'[b][w] = ledger[b][w]
  BY <1>1, <1>3, <1>5, SetLockFacts, SMTT(30)
<1>7. OthersHold(who, a)
  BY <1>1, <1>6, LedgerEntries DEF OthersHold
<1> QED
  BY <1>1, <1>2, <1>3, <1>4, <1>5, <1>6, <1>7, VestingWrites

LEMMA SpendKeeps ==
    ASSUME VestingInv, NEW from \in Users, NEW to \in Users, NEW a \in AssetIds,
           NEW n \in Nat, Spend(from, to, a, n)
    PROVE  VestingInv'
<1>1. /\ from \in Accounts /\ to \in Accounts /\ now \in Nat /\ ledger \in Ledger
      /\ now' = now /\ vesting_schedules' = vesting_schedules /\ selfVested' = selfVested
      /\ n = 0 \/ from = to \/ Unlocked(ledger, a, from, n)
      /\ ledger' = Transfer(ledger, a, from, to, n)
  BY DEF VestingInv, VestingTypeOK, Accounts, Spend, CanTransfer, CanWithdraw, Unlocked
<1>2. /\ ledger' \in Ledger
      /\ n = 0 \/ from = to => ledger' = ledger
      /\ n # 0 /\ from # to =>
            /\ ledger'[a][to].free = ledger[a][to].free + n
            /\ ledger'[a][to].frozen = ledger[a][to].frozen
            /\ ledger'[a][from].frozen = ledger[a][from].frozen
            /\ ledger'[a][from].free >= ledger[a][from].frozen
            /\ \A b \in AssetIds, w \in Accounts :
                  b # a \/ w \notin {from, to} => ledger'[b][w] = ledger[b][w]
  BY <1>1, TransferFacts
<1>3. ASSUME NEW w \in Accounts, NEW b \in AssetIds
      PROVE  /\ ledger'[b][w].frozen >= Unvested(vesting_schedules'[w][b], now')
             /\ <<w, b>> \notin selfVested' => ledger'[b][w].frozen <= ledger'[b][w].free
  <2>1. /\ ledger[b][w].frozen >= Unvested(vesting_schedules[w][b], now)
        /\ <<w, b>> \notin selfVested => ledger[b][w].frozen <= ledger[b][w].free
        /\ ledger[b][w].free \in Nat /\ ledger[b][w].frozen \in Nat
        /\ ledger'[b][w].free \in Nat
    BY <1>1, <1>2, LedgerEntries DEF VestingInv, LockCoversUnvested, LockHeld
  <2>2. CASE ledger'[b][w] = ledger[b][w]
    BY <1>1, <2>1, <2>2
  <2>3. CASE ledger'[b][w] # ledger[b][w]
    <3>1. n # 0 /\ from # to /\ b = a /\ w \in {from, to}
      BY <1>2, <2>3
    <3>2. CASE w = to
      BY <1>1, <1>2, <2>1, <3>1, <3>2
    <3>3. CASE w = from
      BY <1>1, <1>2, <2>1, <3>1, <3>3
    <3> QED
      BY <3>1, <3>2, <3>3
  <2> QED
    BY <2>2, <2>3
<1>4. VestingTypeOK'
  BY <1>1, <1>2 DEF VestingInv, VestingTypeOK
<1> QED
  BY <1>3, <1>4 DEF VestingInv, LockCoversUnvested, LockHeld

LEMMA VestingBlockKeeps ==
    ASSUME VestingInv, VestingBlock
    PROVE  VestingInv'
<1>1. /\ now \in Nat /\ now' = now + 1 /\ ledger' = ledger /\ ledger \in Ledger
      /\ vesting_schedules' = vesting_schedules /\ selfVested' = selfVested
      /\ vesting_schedules \in [Accounts -> [AssetIds -> Seq(Accepted)]]
  BY DEF VestingInv, VestingTypeOK, VestingBlock, NextBlock
<1>2. ASSUME NEW w \in Accounts, NEW b \in AssetIds
      PROVE  ledger'[b][w].frozen >= Unvested(vesting_schedules'[w][b], now')
  <2> DEFINE ss == vesting_schedules[w][b]
  <2>1. ss \in Seq(Accepted) /\ ledger[b][w].frozen \in Nat
    BY <1>1, LedgerEntries
  <2>2. ledger[b][w].frozen >= Unvested(ss, now)
    BY DEF VestingInv, LockCoversUnvested
  <2>3. vesting_schedules'[w][b] = ss /\ ledger'[b][w] = ledger[b][w]
    BY <1>1
  <2> HIDE DEF ss
  <2>4. /\ Unvested(ss, now) \in Nat /\ Unvested(ss, now + 1) \in Nat
        /\ Unvested(ss, now + 1) <= Unvested(ss, now)
    BY <1>1, <2>1, UnvestedType
  <2>5. ledger[b][w].frozen >= Unvested(ss, now + 1)
    BY <2>1, <2>2, <2>4
  <2> QED
    BY <1>1, <2>3, <2>5
<1>3. VestingTypeOK' /\ LockHeld'
  BY <1>1 DEF VestingInv, VestingTypeOK, LockHeld
<1> QED
  BY <1>2, <1>3 DEF VestingInv, LockCoversUnvested

(* The vesting pallet keeps the lock of every account at or above what is  *)
(* still to vest, and that much in the account, for every set of accounts, *)
(* schedules and transfers: vested_transfer, claim, claim_for,             *)
(* update_vesting_schedules and the transfers of the currency, in any      *)
(* order.                                                                  *)
THEOREM UnvestedStaysLocked == VestingSpec => []UnvestedLocked
<1>1. ChainInit /\ VestingInit => VestingInv
  BY VestingStarts
<1>2. VestingInv /\ [VestingNext]_<<now, ledger, vestingVars>> => VestingInv'
  <2> SUFFICES ASSUME VestingInv, [VestingNext]_<<now, ledger, vestingVars>>
               PROVE  VestingInv'
    OBVIOUS
  <2>1. VestedAssets \subseteq AssetIds /\ Gifts \subseteq Nat /\ Schedules \subseteq ScheduleType
    BY VestingTypes
  <2>2. CASE \E from, to \in Users, a \in VestedAssets, s \in Schedules :
                VestedTransfer(from, to, a, s)
    BY <2>1, <2>2, VestedTransferKeeps
  <2>3. CASE \E who \in Users, a \in AssetIds : DoClaim(who, a)
    BY <2>3, ClaimKeeps
  <2>4. CASE \E who \in Users, a \in VestedAssets, s \in Schedules :
                \/ UpdateVestingSchedules(who, a, <<s>>)
                \/ UpdateVestingSchedules(who, a, <<>>)
    <3>1. PICK who \in Users, a \in VestedAssets, s \in Schedules :
                \/ UpdateVestingSchedules(who, a, <<s>>)
                \/ UpdateVestingSchedules(who, a, <<>>)
      BY <2>4
    <3>2. <<s>> \in Seq(ScheduleType) /\ <<>> \in Seq(ScheduleType) /\ a \in AssetIds
      BY <2>1
    <3>3. CASE UpdateVestingSchedules(who, a, <<s>>)
      BY <3>2, <3>3, UpdateKeeps
    <3>4. CASE UpdateVestingSchedules(who, a, <<>>)
      BY <3>2, <3>4, UpdateKeeps
    <3> QED
      BY <3>1, <3>3, <3>4
  <2>5. CASE \E from, to \in Users, a \in VestedAssets, n \in Gifts : Spend(from, to, a, n)
    BY <2>1, <2>5, SpendKeeps
  <2>6. CASE VestingBlock
    BY <2>6, VestingBlockKeeps
  <2>7. CASE UNCHANGED <<now, ledger, vestingVars>>
    BY <2>7 DEF VestingInv, VestingTypeOK, LockCoversUnvested, LockHeld, vestingVars
  <2> QED
    BY <2>2, <2>3, <2>4, <2>5, <2>6, <2>7 DEF VestingNext
<1>3. VestingInv => UnvestedLocked
  BY HeldFunds
<1> QED
  BY <1>1, <1>2, <1>3, PTL DEF VestingSpec

-----------------------------------------------------------------------------
(* Bonded finance over vesting.                                            *)

(* The ledgers l and m agree on the accounts of the pallets.               *)
SameSub(l, m) == \A a \in AssetIds, w \in SubAccounts : m[a][w] = l[a][w]

LEMMA UserTransfer ==
    ASSUME NEW l \in Ledger, NEW a \in AssetIds, NEW from \in Users, NEW to \in Users,
           NEW n \in Nat, n = 0 \/ from = to \/ Unlocked(l, a, from, n)
    PROVE  Transfer(l, a, from, to, n) \in Ledger /\ SameSub(l, Transfer(l, a, from, to, n))
<1> DEFINE m == Transfer(l, a, from, to, n)
<1>1. from \in Accounts /\ to \in Accounts
  BY DEF Accounts
<1>2. /\ m \in Ledger
      /\ n = 0 \/ from = to => m = l
      /\ n # 0 /\ from # to =>
            \A b \in AssetIds, w \in Accounts :
               b # a \/ w \notin {from, to} => m[b][w] = l[b][w]
  BY <1>1, TransferFacts
<1> HIDE DEF m
<1>3. ASSUME NEW b \in AssetIds, NEW w \in SubAccounts PROVE m[b][w] = l[b][w]
  <2>1. w \in Accounts /\ w \notin {from, to}
    BY ChainTypes DEF Accounts
  <2> QED
    BY <1>2, <2>1
<1> QED
  BY <1>2, <1>3 DEF SameSub, m

(* A transfer from the account of a pallet to a user.                      *)
LEMMA SubTransfer ==
    ASSUME NEW l \in Ledger, NEW a \in AssetIds, NEW from \in SubAccounts, NEW to \in Users,
           NEW n \in Nat, n = 0 \/ Unlocked(l, a, from, n)
    PROVE  /\ Transfer(l, a, from, to, n) \in Ledger
           /\ Transfer(l, a, from, to, n)[a][from].free <= l[a][from].free - n
           /\ n # 0 /\ l[a][from].free - n >= MinimumBalance[a]
                 => Transfer(l, a, from, to, n)[a][from].free = l[a][from].free - n
           /\ \A b \in AssetIds, w \in SubAccounts :
                 b # a \/ w # from => Transfer(l, a, from, to, n)[b][w] = l[b][w]
<1> DEFINE m == Transfer(l, a, from, to, n)
<1>1. from \in Accounts /\ to \in Accounts /\ from # to
  BY ChainTypes DEF Accounts
<1>2. /\ m \in Ledger
      /\ n = 0 => m = l
      /\ n # 0 =>
            /\ m[a][from].free <= l[a][from].free - n
            /\ l[a][from].free - n >= MinimumBalance[a]
                  => m[a][from].free = l[a][from].free - n
            /\ \A b \in AssetIds, w \in Accounts :
                  b # a \/ w \notin {from, to} => m[b][w] = l[b][w]
  BY <1>1, TransferFacts
<1>3. l[a][from].free \in Nat
  BY <1>1, LedgerEntries
<1> HIDE DEF m
<1>4. ASSUME NEW b \in AssetIds, NEW w \in SubAccounts, b # a \/ w # from
      PROVE  m[b][w] = l[b][w]
  <2>1. w \in Accounts /\ w # to
    BY ChainTypes DEF Accounts
  <2> QED
    BY <1>2, <1>4, <2>1
<1>5. m[a][from].free <= l[a][from].free - n
  BY <1>2, <1>3
<1> QED
  BY <1>2, <1>4, <1>5 DEF m

(* A transfer from a user to the account of a pallet.                      *)
LEMMA TransferToSub ==
    ASSUME NEW l \in Ledger, NEW a \in AssetIds, NEW from \in Users, NEW to \in SubAccounts,
           NEW n \in Nat, n = 0 \/ Unlocked(l, a, from, n)
    PROVE  /\ Transfer(l, a, from, to, n) \in Ledger
           /\ Transfer(l, a, from, to, n)[a][to].free = l[a][to].free + n
           /\ \A b \in AssetIds, w \in SubAccounts :
                 b # a \/ w # to => Transfer(l, a, from, to, n)[b][w] = l[b][w]
<1> DEFINE m == Transfer(l, a, from, to, n)
<1>1. from \in Accounts /\ to \in Accounts /\ from # to
  BY ChainTypes DEF Accounts
<1>2. /\ m \in Ledger
      /\ n = 0 => m = l
      /\ n # 0 =>
            /\ m[a][to].free = l[a][to].free + n
            /\ \A b \in AssetIds, w \in Accounts :
                  b # a \/ w \notin {from, to} => m[b][w] = l[b][w]
  BY <1>1, TransferFacts
<1>3. l[a][to].free \in Nat
  BY <1>1, LedgerEntries
<1> HIDE DEF m
<1>4. ASSUME NEW b \in AssetIds, NEW w \in SubAccounts, b # a \/ w # to
      PROVE  m[b][w] = l[b][w]
  <2>1. w \in Accounts /\ w # from
    BY ChainTypes DEF Accounts
  <2> QED
    BY <1>2, <1>4, <2>1
<1>5. m[a][to].free = l[a][to].free + n
  BY <1>2, <1>3
<1> QED
  BY <1>2, <1>4, <1>5 DEF m

LEMMA CanTransferUnlocked ==
    ASSUME NEW l, NEW a, NEW from, NEW to, NEW n,
           CanTransfer(l, a, from, to, n, TRUE) \/ CanTransfer(l, a, from, to, n, FALSE)
    PROVE  n = 0 \/ from = to \/ Unlocked(l, a, from, n)
BY DEF CanTransfer, CanWithdraw, Unlocked

AcceptedSchedules == [Accounts -> [AssetIds -> Seq(Accepted)]]

(* A vested transfer to a user.                                            *)
LEMMA VestedFacts ==
    ASSUME NEW l \in Ledger, NEW vs \in AcceptedSchedules, NEW a \in AssetIds,
           NEW from \in Accounts, NEW to \in Users, NEW s \in ScheduleType, now \in Nat,
           CanVestedTransfer(l, vs, a, from, to, s)
    PROVE  /\ VestedLedger(l, vs, a, from, to, s) \in Ledger
           /\ VestedSchedules(vs, a, to, s) \in AcceptedSchedules
           /\ SameSub(Transfer(l, a, from, to, TotalAmount(s)),
                      VestedLedger(l, vs, a, from, to, s))
           /\ TotalAmount(s) \in Nat /\ TotalAmount(s) # 0
           /\ from = to \/ Unlocked(l, a, from, TotalAmount(s))
<1> DEFINE old == vs[to][a]
           n == TotalAmount(s)
           m == Transfer(l, a, from, to, n)
<1>1. to \in Accounts /\ old \in Seq(Accepted) /\ s \in Accepted
  BY DEF Accounts, AcceptedSchedules, CanVestedTransfer, ValidSchedule, Accepted
<1>2. n \in Nat /\ n # 0
  <2>1. n \in Nat
    BY TotalType
  <2>2. n >= MinVestedTransfer /\ MinVestedTransfer \in Nat \ {0}
    BY VestingTypes DEF CanVestedTransfer, ValidSchedule
  <2> QED
    BY <2>1, <2>2
<1>3. from = to \/ Unlocked(l, a, from, n)
  BY <1>2, CanTransferUnlocked DEF CanVestedTransfer
<1>4. Unvested(old, now) \in Nat
  BY <1>1, UnvestedType
<1>5. Retained(old, now) \in Seq(Accepted)
  BY <1>1, RetainedFacts
<1>6. m \in Ledger
  BY <1>1, <1>2, <1>3, TransferFacts
<1>7. VestedLedger(l, vs, a, from, to, s) = SetLock(m, a, to, Unvested(old, now) + n)
  BY DEF VestedLedger
<1>8. VestedSchedules(vs, a, to, s) \in AcceptedSchedules
  <2> DEFINE new == Append(Retained(old, now), s)
  <2>1. new \in Seq(Accepted)
    BY <1>1, <1>5, AppendProperties
  <2>2. VestedSchedules(vs, a, to, s) = [vs EXCEPT ![to] = [vs[to] EXCEPT ![a] = new]]
    BY DEF VestedSchedules
  <2> HIDE DEF new
  <2> QED
    BY <1>1, <2>1, <2>2 DEF AcceptedSchedules
<1> DEFINE q == Unvested(old, now) + n
           k == SetLock(m, a, to, q)
<1> HIDE DEF m, n, old
<1>9. q \in Nat
  BY <1>2, <1>4
<1> HIDE DEF q
<1>10. /\ k \in Ledger
       /\ \A b \in AssetIds, w \in Accounts : b # a \/ w # to => k[b][w] = m[b][w]
  <2>1. /\ SetLock(m, a, to, q) \in Ledger
        /\ \A b \in AssetIds, w \in Accounts :
              b # a \/ w # to => SetLock(m, a, to, q)[b][w] = m[b][w]
    <3> HIDE DEF k
    <3>1. to \in Accounts
      BY <1>1
    <3> QED
      BY <1>6, <1>9, <3>1, SetLockFacts
  <2> QED
    BY <2>1
<1> HIDE DEF k
<1>11. ASSUME NEW b \in AssetIds, NEW w \in SubAccounts PROVE k[b][w] = m[b][w]
  <2>1. w \in Accounts /\ w # to
    BY ChainTypes DEF Accounts
  <2> QED
    BY <1>10, <2>1
<1>12. SameSub(m, k)
  BY <1>11 DEF SameSub
<1> QED
  BY <1>2, <1>3, <1>7, <1>8, <1>10, <1>12 DEF m, n, q, k

(* A share of a reward r that is worth v for each of b bonds: n bonds earn *)
(* at least n * v, the rest is worth v for each of the other bonds, and    *)
(* the last bonds take all that is left.                                   *)
LEMMA ShareFacts ==
    ASSUME NEW r \in Nat, NEW b \in Nat \ {0}, NEW v \in Nat, r >= v * b, NEW n \in 1..b
    PROVE  /\ (n * r) \div b \in Nat
           /\ (n * r) \div b <= r
           /\ (n * r) \div b >= v
           /\ r - ((n * r) \div b) >= v * (b - n)
           /\ n = b => (n * r) \div b = r
<1> DEFINE s == (n * r) \div b
           c == r - v * (b - n)
<1>1. n \in Nat /\ n >= 1 /\ n <= b /\ n * r \in Nat /\ b - n \in Nat /\ v * b \in Nat
  OBVIOUS
<1>2. s \in Nat /\ b * s <= n * r /\ n * r < b * s + b
  BY <1>1, QuotientType
<1>3. v * (b - n) \in Nat /\ v * (b - n) = v * b - v * n /\ v * n \in Nat
  BY <1>1
<1>4. c \in Nat /\ c = r - v * b + v * n
  BY <1>1, <1>3
<1>5. n * r <= c * b
  <2> DEFINE d == r - v * b
  <2>1. d \in Nat /\ r = v * b + d /\ c = d + v * n
    BY <1>1, <1>4
  <2> HIDE DEF c, d
  <2>2. n * r = n * (v * b) + n * d /\ c * b = d * b + (v * n) * b
    BY <1>1, <2>1
  <2>3. n * (v * b) = (v * n) * b
    BY <1>1
  <2>4. d * n <= d * b
    BY <1>1, <2>1, TimesMonotone
  <2>5. d * n = n * d /\ n * d \in Nat /\ d * b \in Nat /\ n * (v * b) \in Nat
    BY <1>1, <2>1
  <2> QED
    BY <2>2, <2>3, <2>4, <2>5
<1>6. s <= c
  <2> HIDE DEF c
  <2> QED
    BY <1>1, <1>4, <1>5, QuotientBelow
<1>7. s >= v
  <2> SUFFICES ASSUME s < v PROVE FALSE
    BY <1>2
  <2>1. s + 1 <= v /\ s + 1 \in Nat
    BY <1>2
  <2> HIDE DEF s, c
  <2>2. b * (s + 1) <= b * v /\ b * (s + 1) = b * s + b
    BY <1>2, <2>1, TimesMonotone
  <2>3. b * v = v * b /\ v * b <= r
    OBVIOUS
  <2>4. r * 1 <= r * n /\ r * 1 = r /\ r * n = n * r
    BY <1>1, TimesMonotone
  <2> QED
    BY <1>1, <1>2, <2>2, <2>3, <2>4
<1>8. ASSUME n = b PROVE s = r
  <2> HIDE DEF s
  <2>1. c = r /\ s <= r
    BY <1>3, <1>4, <1>6, <1>8
  <2>2. ASSUME s < r PROVE FALSE
    <3>1. s + 1 <= r /\ s + 1 \in Nat
      BY <1>2, <2>2
    <3>2. b * (s + 1) <= b * r /\ b * (s + 1) = b * s + b
      BY <1>2, <3>1, TimesMonotone
    <3> QED
      BY <1>1, <1>2, <1>8, <3>2
  <2> QED
    BY <1>2, <2>1, <2>2
<1> QED
  BY <1>1, <1>2, <1>3, <1>4, <1>6, <1>7, <1>8

BondRecord == [issuer: Users, offer: OfferType]

Free(id, a) == ledger[a][OfferAccount(id)].free

(* What an offer needs of its account, by what the account holds.          *)
Serving(o, native, held) ==
    IF o.nb_of_bonds = 0 THEN o.reward = 0
    ELSE /\ o.reward >= MinVestedTransfer * o.nb_of_bonds
         /\ IF o.reward_asset = NativeAsset THEN native >= Stake + o.reward
            ELSE native >= Stake /\ held >= o.reward

(* The part of the native funds of an offer's account that is reward.      *)
NativeLeft(r) ==
    IF r = NoOffer THEN 0
    ELSE IF r.offer.reward_asset = NativeAsset THEN r.offer.reward ELSE 0

StakeIn(id) == IF id <= bond_offer_count THEN Stake ELSE 0

(* An offer is served; its account got one stake and the gifts, and the    *)
(* stakes paid back came out of that.                                      *)
OfferKept(id) ==
    /\ id > bond_offer_count => bond_offers[id] = NoOffer
    /\ bond_offers[id] # NoOffer =>
          Serving(bond_offers[id].offer, Free(id, NativeAsset),
                  Free(id, bond_offers[id].offer.reward_asset))
    /\ stakeReturns[id] * Stake + Free(id, NativeAsset)
          <= StakeIn(id) + gifts[id] + NativeLeft(bond_offers[id])

BondTypeOK ==
    /\ now \in Nat
    /\ ledger \in Ledger
    /\ vesting_schedules \in AcceptedSchedules
    /\ bond_offer_count \in Nat
    /\ bond_offers \in [OfferIds -> BondRecord \cup {NoOffer}]
    /\ stakeReturns \in [OfferIds -> Nat]
    /\ gifts \in [OfferIds -> Nat]

BondInv == BondTypeOK /\ \A id \in OfferIds : OfferKept(id)

LEMMA OfferTypes ==
    ASSUME BondTypeOK, NEW id \in OfferIds
    PROVE  /\ OfferAccount(id) \in SubAccounts /\ OfferAccount(id) \in Accounts
           /\ \A a \in AssetIds : Free(id, a) \in Nat
           /\ id \in Nat /\ stakeReturns[id] \in Nat /\ gifts[id] \in Nat
           /\ StakeIn(id) \in Nat /\ stakeReturns[id] * Stake \in Nat
           /\ NativeLeft(bond_offers[id]) \in Nat
           /\ bond_offers[id] # NoOffer =>
                 /\ bond_offers[id] \in BondRecord
                 /\ bond_offers[id].issuer \in Users
                 /\ bond_offers[id].offer \in OfferType
           /\ BondRecord \cap {NoOffer} = {}
<1>1. OfferAccount(id) \in SubAccounts /\ OfferAccount(id) \in Accounts /\ id \in Nat
      /\ Stake \in Nat
  BY BondedFinanceTypes DEF Accounts
<1>2. \A a \in AssetIds : Free(id, a) \in Nat
  BY <1>1, LedgerEntries DEF BondTypeOK, Free
<1>3. /\ stakeReturns[id] \in Nat /\ gifts[id] \in Nat
      /\ StakeIn(id) \in Nat /\ stakeReturns[id] * Stake \in Nat
  BY <1>1 DEF BondTypeOK, StakeIn
<1>4. bond_offers[id] \in BondRecord \cup {NoOffer} /\ NoOffer \notin BondRecord
  BY BondedFinanceTypes DEF BondTypeOK, BondRecord
<1>5. bond_offers[id] # NoOffer =>
         /\ bond_offers[id] \in BondRecord
         /\ bond_offers[id].issuer \in Users
         /\ bond_offers[id].offer \in OfferType
  BY <1>4 DEF BondRecord
<1>6. NativeLeft(bond_offers[id]) \in Nat
  BY <1>5 DEF NativeLeft, OfferType
<1> QED
  BY <1>1, <1>2, <1>3, <1>4, <1>5, <1>6

LEMMA OfferParts ==
    ASSUME NEW o \in OfferType
    PROVE  /\ o.beneficiary \in Users /\ o.asset \in AssetIds /\ o.bond_price \in Nat
           /\ o.nb_of_bonds \in Nat /\ o.reward_asset \in AssetIds /\ o.reward \in Nat
           /\ o.reward_maturity \in Nat /\ o.maturity \in Nat \cup {Infinite}
BY DEF OfferType

(* What is kept is what was meant.                                         *)
LEMMA KeptIsServed ==
    BondInv => OffersServed
<1> SUFFICES ASSUME BondInv, NEW id \in OfferIds
             PROVE  /\ bond_offers[id] # NoOffer => OfferServable(id)
                    /\ StakeReturnedOnce(id)
  BY DEF OffersServed
<1>1. BondTypeOK /\ OfferKept(id)
  BY DEF BondInv
<1> DEFINE o == bond_offers[id].offer
<1>2. /\ \A a \in AssetIds : Free(id, a) \in Nat
      /\ stakeReturns[id] * Stake \in Nat /\ gifts[id] \in Nat /\ StakeIn(id) \in Nat
      /\ NativeLeft(bond_offers[id]) \in Nat
      /\ bond_offers[id] # NoOffer => o \in OfferType
  BY <1>1, OfferTypes
<1>3. Stake \in Nat /\ MinVestedTransfer \in Nat /\ NativeAsset \in AssetIds
  BY BondedFinanceTypes, VestingTypes, ChainTypes
<1>4. bond_offers[id] # NoOffer =>
         Serving(o, Free(id, NativeAsset), Free(id, o.reward_asset))
  BY <1>1 DEF OfferKept
<1>5. stakeReturns[id] * Stake + Free(id, NativeAsset)
         <= StakeIn(id) + gifts[id] + NativeLeft(bond_offers[id])
  BY <1>1 DEF OfferKept
<1>6. ASSUME bond_offers[id] # NoOffer PROVE OfferServable(id)
  <2>1. /\ o \in OfferType /\ o.nb_of_bonds \in Nat /\ o.reward \in Nat
        /\ o.reward_asset \in AssetIds
    BY <1>2, <1>6, OfferParts
  <2> HIDE DEF o
  <2>2. CASE o.nb_of_bonds = 0
    BY <1>4, <1>6, <2>2 DEF Serving, OfferServable, Completed, o
  <2>3. CASE o.nb_of_bonds # 0
    <3>1. /\ o.reward >= MinVestedTransfer * o.nb_of_bonds
          /\ IF o.reward_asset = NativeAsset THEN Free(id, NativeAsset) >= Stake + o.reward
             ELSE Free(id, NativeAsset) >= Stake /\ Free(id, o.reward_asset) >= o.reward
      BY <1>4, <1>6, <2>3 DEF Serving
    <3>2. \A n \in 1..o.nb_of_bonds : RewardShare(n, o) >= MinVestedTransfer
      BY <1>3, <2>1, <2>3, <3>1, ShareFacts DEF RewardShare
    <3>3. OfferBacked(id)
      BY <3>1 DEF OfferBacked, Free, o
    <3> QED
      BY <2>3, <3>2, <3>3 DEF OfferServable, Completed, o
  <2> QED
    BY <2>2, <2>3
<1>7. stakeReturns[id] * Stake <= StakeIn(id) + gifts[id]
  <2>1. NativeLeft(bond_offers[id]) <= Free(id, NativeAsset)
    <3>1. CASE bond_offers[id] = NoOffer
      BY <1>2, <1>3, <3>1 DEF NativeLeft
    <3>2. CASE bond_offers[id] # NoOffer
      <4>1. o.reward \in Nat
        BY <1>2, <3>2, OfferParts
      <4>2. NativeLeft(bond_offers[id])
               = IF o.reward_asset = NativeAsset THEN o.reward ELSE 0
        BY <3>2 DEF NativeLeft
      <4>3. Free(id, NativeAsset) \in Nat
        BY <1>2, <1>3
      <4>4. Serving(o, Free(id, NativeAsset), Free(id, o.reward_asset))
        BY <1>4, <3>2
      <4> HIDE DEF o
      <4> QED
        BY <1>3, <4>1, <4>2, <4>3, <4>4 DEF Serving
    <3> QED
      BY <3>1, <3>2
  <2>2. Free(id, NativeAsset) \in Nat
    BY <1>2, <1>3
  <2> QED
    BY <1>2, <1>5, <2>1, <2>2
<1> QED
  BY <1>6, <1>7 DEF StakeReturnedOnce, StakeIn

(* A call leaves an offer alone when it changes neither the offer nor what *)
(* its account holds.                                                      *)
LEMMA OfferAlone ==
    ASSUME BondInv, NEW id \in OfferIds,
           \A a \in AssetIds : Free(id, a)' = Free(id, a),
           bond_offers'[id] = bond_offers[id],
           stakeReturns'[id] = stakeReturns[id], gifts'[id] = gifts[id],
           id <= bond_offer_count' <=> id <= bond_offer_count,
           bond_offer_count' \in Nat
    PROVE  OfferKept(id)'
<1>1. BondTypeOK /\ OfferKept(id) /\ id \in Nat /\ bond_offer_count \in Nat
  BY OfferTypes DEF BondInv, BondTypeOK
<1>2. id > bond_offer_count' => id > bond_offer_count
  BY <1>1
<1>3. StakeIn(id)' = StakeIn(id)
  BY DEF StakeIn
<1>4. Free(id, NativeAsset)' = Free(id, NativeAsset)
  BY ChainTypes
<1>5. bond_offers[id] # NoOffer =>
         Free(id, bond_offers[id].offer.reward_asset)' = Free(id, bond_offers[id].offer.reward_asset)
  <2>1. bond_offers[id] # NoOffer => bond_offers[id].offer.reward_asset \in AssetIds
    BY <1>1, OfferTypes, OfferParts
  <2>2. bond_offers'[id].offer.reward_asset = bond_offers[id].offer.reward_asset
    OBVIOUS
  <2> QED
    BY <2>1, <2>2
<1> QED
  BY <1>1, <1>2, <1>3, <1>4, <1>5 DEF OfferKept

LEMMA OtherAccount ==
    ASSUME NEW id, NEW i, i # id
    PROVE  OfferAccount(i) # OfferAccount(id)
BY DEF OfferAccount

LEMMA SubFree ==
    ASSUME SameSub(ledger, ledger'), NEW id \in OfferIds
    PROVE  \A a \in AssetIds : Free(id, a)' = Free(id, a)
BY BondedFinanceTypes DEF SameSub, Free

LEMMA OffersAlone ==
    ASSUME BondInv, BondTypeOK', SameSub(ledger, ledger'), UNCHANGED bondVars
    PROVE  BondInv'
<1>1. /\ bond_offers' = bond_offers /\ stakeReturns' = stakeReturns /\ gifts' = gifts
      /\ bond_offer_count' = bond_offer_count
  BY DEF bondVars
<1>2. bond_offer_count' \in Nat
  BY DEF BondTypeOK
<1>3. ASSUME NEW id \in OfferIds PROVE OfferKept(id)'
  <2>1. \A a \in AssetIds : Free(id, a)' = Free(id, a)
    BY SubFree
  <2> QED
    BY <1>1, <1>2, <2>1, OfferAlone
<1> QED
  BY <1>3 DEF BondInv

LEMMA UserLock ==
    ASSUME NEW l \in Ledger, NEW a \in AssetIds, NEW who \in Users, NEW n \in Nat
    PROVE  SetLock(l, a, who, n) \in Ledger /\ SameSub(l, SetLock(l, a, who, n))
<1> DEFINE m == SetLock(l, a, who, n)
<1>1. who \in Accounts
  BY DEF Accounts
<1>2. m \in Ledger /\ \A b \in AssetIds, w \in Accounts : b # a \/ w # who => m[b][w] = l[b][w]
  BY <1>1, SetLockFacts
<1> HIDE DEF m
<1>3. ASSUME NEW b \in AssetIds, NEW w \in SubAccounts PROVE m[b][w] = l[b][w]
  <2>1. w \in Accounts /\ w # who
    BY ChainTypes DEF Accounts
  <2> QED
    BY <1>2, <2>1
<1> QED
  BY <1>2, <1>3 DEF SameSub, m

LEMMA SchedulesWritten ==
    ASSUME NEW vs \in AcceptedSchedules, NEW who \in Users, NEW a \in AssetIds,
           NEW ss \in Seq(Accepted)
    PROVE  [vs EXCEPT ![who][a] = ss] \in AcceptedSchedules
<1>1. who \in Accounts
  BY DEF Accounts
<1> QED
  BY <1>1 DEF AcceptedSchedules

(* Vesting between users does not touch the accounts of the offers.        *)
LEMMA VestingAlone ==
    ASSUME BondInv, VestingNext, UNCHANGED bondVars
    PROVE  BondInv'
<1>1. /\ BondTypeOK /\ now \in Nat /\ ledger \in Ledger
      /\ vesting_schedules \in AcceptedSchedules
  BY DEF BondInv, BondTypeOK
<1>2. VestedAssets \subseteq AssetIds /\ Gifts \subseteq Nat /\ Schedules \subseteq ScheduleType
  BY VestingTypes
<1> DEFINE Alone == /\ now' \in Nat /\ ledger' \in Ledger
                    /\ vesting_schedules' \in AcceptedSchedules
                    /\ SameSub(ledger, ledger')
<1>3. Alone
  <2>1. ASSUME NEW from \in Users, NEW to \in Users, NEW a \in VestedAssets,
               NEW s \in Schedules, VestedTransfer(from, to, a, s)
        PROVE  Alone
    <3> DEFINE m == Transfer(ledger, a, from, to, TotalAmount(s))
    <3>1. /\ a \in AssetIds /\ s \in ScheduleType /\ from \in Accounts
          /\ CanVestedTransfer(ledger, vesting_schedules, a, from, to, s)
          /\ ledger' = VestedLedger(ledger, vesting_schedules, a, from, to, s)
          /\ vesting_schedules' = VestedSchedules(vesting_schedules, a, to, s)
          /\ now' = now
      BY <1>2, <2>1 DEF VestedTransfer, Accounts
    <3>2. /\ ledger' \in Ledger
          /\ vesting_schedules' \in AcceptedSchedules
          /\ SameSub(m, ledger')
          /\ TotalAmount(s) \in Nat
          /\ from = to \/ Unlocked(ledger, a, from, TotalAmount(s))
      BY <1>1, <3>1, VestedFacts
    <3>3. SameSub(ledger, m)
      BY <1>1, <3>1, <3>2, UserTransfer
    <3> HIDE DEF m
    <3>4. SameSub(ledger, ledger')
      BY <3>2, <3>3 DEF SameSub
    <3> QED
      BY <1>1, <3>1, <3>2, <3>4
  <2>2. ASSUME NEW who \in Users, NEW a \in AssetIds, DoClaim(who, a)
        PROVE  Alone
    <3> DEFINE old == vesting_schedules[who][a]
               n == Unvested(old, now)
               kept == Retained(old, now)
    <3>1. old \in Seq(Accepted)
      BY <1>1 DEF AcceptedSchedules, Accounts
    <3>2. n \in Nat /\ kept \in Seq(Accepted)
      BY <1>1, <3>1, UnvestedType, RetainedFacts
    <3>3. /\ ledger' = SetLock(ledger, a, who, n) /\ now' = now
          /\ vesting_schedules' = [vesting_schedules EXCEPT ![who][a] = kept]
      BY <2>2 DEF DoClaim
    <3> HIDE DEF old, n, kept
    <3> QED
      BY <1>1, <3>2, <3>3, UserLock, SchedulesWritten
  <2>3. ASSUME NEW who \in Users, NEW a \in AssetIds, NEW ss \in Seq(ScheduleType),
               UpdateVestingSchedules(who, a, ss)
        PROVE  Alone
    <3> DEFINE n == AmountOfAll(ss)
    <3>1. ss \in Seq(Accepted)
      <4>1. \A i \in 1..Len(ss) : ss[i] \in Accepted
        BY <2>3 DEF UpdateVestingSchedules, ValidSchedule, Accepted
      <4> QED
        BY <4>1
    <3>2. n \in Nat
      BY <1>1, <3>1, UnvestedType
    <3>3. /\ ledger' = SetLock(ledger, a, who, n) /\ now' = now
          /\ vesting_schedules' = [vesting_schedules EXCEPT ![who][a] = ss]
      BY <2>3 DEF UpdateVestingSchedules
    <3> HIDE DEF n
    <3> QED
      BY <1>1, <3>1, <3>2, <3>3, UserLock, SchedulesWritten
  <2>4. ASSUME NEW from \in Users, NEW to \in Users, NEW a \in VestedAssets,
               NEW n \in Gifts, Spend(from, to, a, n)
        PROVE  Alone
    <3>1. n \in Nat /\ a \in AssetIds
      BY <1>2
    <3>2. /\ n = 0 \/ from = to \/ Unlocked(ledger, a, from, n)
          /\ ledger' = Transfer(ledger, a, from, to, n)
          /\ now' = now /\ vesting_schedules' = vesting_schedules
      BY <2>4 DEF Spend, CanTransfer, CanWithdraw, Unlocked
    <3> QED
      BY <1>1, <3>1, <3>2, UserTransfer
  <2>5. ASSUME VestingBlock PROVE Alone
    BY <1>1, <2>5 DEF VestingBlock, NextBlock, SameSub
  <2>6. ASSUME NEW who \in Users, NEW a \in VestedAssets, NEW s \in Schedules,
               \/ UpdateVestingSchedules(who, a, <<s>>)
               \/ UpdateVestingSchedules(who, a, <<>>)
        PROVE  Alone
    <3>1. a \in AssetIds /\ <<s>> \in Seq(ScheduleType) /\ <<>> \in Seq(ScheduleType)
      BY <1>2
    <3> QED
      BY <2>3, <2>6, <3>1
  <2> HIDE DEF Alone
  <2>7. CASE \E from, to \in Users, a \in VestedAssets, s \in Schedules :
                VestedTransfer(from, to, a, s)
    BY <2>1, <2>7
  <2>8. CASE \E who \in Users, a \in AssetIds : DoClaim(who, a)
    BY <2>2, <2>8
  <2>9. CASE \E who \in Users, a \in VestedAssets, s \in Schedules :
                \/ UpdateVestingSchedules(who, a, <<s>>)
                \/ UpdateVestingSchedules(who, a, <<>>)
    BY <2>6, <2>9
  <2>10. CASE \E from, to \in Users, a \in VestedAssets, n \in Gifts :
                 Spend(from, to, a, n)
    BY <2>4, <2>10
  <2> QED
    BY <2>5, <2>7, <2>8, <2>9, <2>10 DEF VestingNext
<1>4. BondTypeOK'
  BY <1>1, <1>3 DEF BondTypeOK, bondVars
<1> QED
  BY <1>3, <1>4, OffersAlone

(* A call that changes one offer leaves the others alone.                  *)
LEMMA OneOffer ==
    ASSUME BondInv, NEW id \in OfferIds, BondTypeOK', OfferKept(id)',
           \A b \in AssetIds, w \in SubAccounts :
              w # OfferAccount(id) => ledger'[b][w] = ledger[b][w],
           \A i \in OfferIds \ {id} :
              /\ bond_offers'[i] = bond_offers[i] /\ stakeReturns'[i] = stakeReturns[i]
              /\ gifts'[i] = gifts[i] /\ (i <= bond_offer_count' <=> i <= bond_offer_count)
    PROVE  BondInv'
<1>1. ASSUME NEW i \in OfferIds, i # id PROVE OfferKept(i)'
  <2>1. OfferAccount(i) \in SubAccounts /\ OfferAccount(i) # OfferAccount(id)
    BY <1>1, BondedFinanceTypes, OtherAccount
  <2>2. \A a \in AssetIds : Free(i, a)' = Free(i, a)
    BY <2>1 DEF Free
  <2>3. bond_offer_count' \in Nat
    BY DEF BondTypeOK
  <2>4. /\ bond_offers'[i] = bond_offers[i] /\ stakeReturns'[i] = stakeReturns[i]
        /\ gifts'[i] = gifts[i] /\ (i <= bond_offer_count' <=> i <= bond_offer_count)
    BY <1>1
  <2> QED
    BY <2>2, <2>3, <2>4, OfferAlone
<1> QED
  BY <1>1 DEF BondInv

LEMMA NowKept ==
    ASSUME NEW id, NEW native, native = ledger'[NativeAsset][OfferAccount(id)].free,
           NEW r, r = bond_offers'[id], NEW held,
           r # NoOffer => held = ledger'[r.offer.reward_asset][OfferAccount(id)].free,
           id > bond_offer_count' => r = NoOffer,
           r # NoOffer => Serving(r.offer, native, held),
           stakeReturns'[id] * Stake + native
              <= (IF id <= bond_offer_count' THEN Stake ELSE 0) + gifts'[id] + NativeLeft(r)
    PROVE  OfferKept(id)'
<1>1. r # NoOffer =>
         Serving(bond_offers'[id].offer, ledger'[NativeAsset][OfferAccount(id)].free,
                 ledger'[bond_offers'[id].offer.reward_asset][OfferAccount(id)].free)
  OBVIOUS
<1> QED
  BY <1>1 DEF OfferKept, Free, StakeIn

LEMMA OfferKeeps ==
    ASSUME BondInv, NEW from \in Users, NEW o \in Offers, NEW keep, Offer(from, o, keep),
           NEW id \in OfferIds, id = bond_offer_count + 1
    PROVE  BondInv'
<1> DEFINE acc == OfferAccount(id)
           l1 == Transfer(ledger, NativeAsset, from, acc, Stake)
           a == o.reward_asset
           r == o.reward
<1>1. /\ BondTypeOK /\ ledger \in Ledger /\ bond_offer_count \in Nat
      /\ OfferKept(id)
  BY DEF BondInv, BondTypeOK
<1>2. id \in Nat /\ acc \in SubAccounts /\ acc \in Accounts
  BY <1>1, OfferTypes
<1>3. /\ o \in OfferType /\ a \in AssetIds /\ r \in Nat /\ o.nb_of_bonds \in Nat
      /\ Stake \in Nat \ {0} /\ NativeAsset \in AssetIds /\ MinVestedTransfer \in Nat
  BY OfferParts, BondedFinanceTypes, ChainTypes, VestingTypes
<1>4. from # acc
  BY <1>2, ChainTypes
<1>5. /\ ValidOffer(o)
      /\ CanTransfer(ledger, NativeAsset, from, acc, Stake, keep)
      /\ CanTransfer(l1, a, from, acc, r, keep)
      /\ ledger' = Transfer(l1, a, from, acc, r)
      /\ bond_offer_count' = id
      /\ bond_offers' = [bond_offers EXCEPT ![id] = [issuer |-> from, offer |-> o]]
      /\ now' = now /\ vesting_schedules' = vesting_schedules
      /\ stakeReturns' = stakeReturns /\ gifts' = gifts
  BY DEF Offer
<1> HIDE DEF acc, l1, a, r
<1>6. Unlocked(ledger, NativeAsset, from, Stake) /\ (r = 0 \/ Unlocked(l1, a, from, r))
  BY <1>3, <1>4, <1>5 DEF CanTransfer, CanWithdraw, Unlocked
<1>7. /\ l1 \in Ledger
      /\ l1[NativeAsset][acc].free = ledger[NativeAsset][acc].free + Stake
      /\ \A b \in AssetIds, w \in SubAccounts :
            b # NativeAsset \/ w # acc => l1[b][w] = ledger[b][w]
  BY <1>1, <1>2, <1>3, <1>6, TransferToSub DEF l1
<1>8. /\ ledger' \in Ledger
      /\ ledger'[a][acc].free = l1[a][acc].free + r
      /\ \A b \in AssetIds, w \in SubAccounts :
            b # a \/ w # acc => ledger'[b][w] = l1[b][w]
  BY <1>2, <1>3, <1>5, <1>6, <1>7, TransferToSub
<1>9. /\ ledger[NativeAsset][acc].free \in Nat /\ ledger[a][acc].free \in Nat
  BY <1>1, <1>2, <1>3, LedgerEntries
<1>10. IF a = NativeAsset
       THEN ledger'[NativeAsset][acc].free = ledger[NativeAsset][acc].free + Stake + r
       ELSE /\ ledger'[NativeAsset][acc].free = ledger[NativeAsset][acc].free + Stake
            /\ ledger'[a][acc].free = ledger[a][acc].free + r
  BY <1>2, <1>3, <1>7, <1>8, <1>9
<1>11. [issuer |-> from, offer |-> o] \in BondRecord
  BY <1>3 DEF BondRecord
<1>12. /\ bond_offers \in [OfferIds -> BondRecord \cup {NoOffer}]
       /\ bond_offers'[id] = [issuer |-> from, offer |-> o]
       /\ bond_offers'[id].offer = o /\ bond_offers'[id] # NoOffer
       /\ \A i \in OfferIds \ {id} : bond_offers'[i] = bond_offers[i]
  BY <1>1, <1>2, <1>5, <1>11, OfferTypes DEF BondTypeOK
<1>13. BondTypeOK'
  <2>2. bond_offers' \in [OfferIds -> BondRecord \cup {NoOffer}]
    BY <1>5, <1>11, <1>12
  <2> QED
    BY <1>1, <1>2, <1>5, <1>8, <2>2 DEF BondTypeOK
<1>14. o.nb_of_bonds # 0 /\ r >= MinVestedTransfer * o.nb_of_bonds
  <2>1. o.nb_of_bonds # 0 /\ r \div o.nb_of_bonds >= MinVestedTransfer
    BY <1>5 DEF ValidOffer, r
  <2> DEFINE q == r \div o.nb_of_bonds
             b == o.nb_of_bonds
  <2>2. q \in Nat /\ b * q <= r
    BY <1>3, <2>1, QuotientType
  <2>3. b \in Nat /\ q >= MinVestedTransfer
    BY <1>3, <2>1
  <2> HIDE DEF q, b
  <2>4. b * MinVestedTransfer <= b * q /\ b * q \in Nat /\ b * MinVestedTransfer \in Nat
    BY <1>3, <2>2, <2>3, TimesMonotone
  <2>5. b * MinVestedTransfer = MinVestedTransfer * b
    BY <1>3, <2>3
  <2> QED
    BY <1>3, <2>1, <2>2, <2>4, <2>5 DEF b
<1>15. OfferKept(id)'
  <2>1. /\ bond_offers[id] = NoOffer
        /\ stakeReturns[id] * Stake + Free(id, NativeAsset)
              <= StakeIn(id) + gifts[id] + NativeLeft(bond_offers[id])
    BY <1>1, <1>2 DEF OfferKept
  <2>2. NativeLeft(bond_offers[id]) = 0 /\ StakeIn(id) = 0
    BY <1>1, <2>1 DEF NativeLeft, StakeIn
  <2>3. /\ stakeReturns[id] * Stake \in Nat /\ gifts[id] \in Nat
    BY <1>1, OfferTypes
  <2>4. Free(id, NativeAsset) = ledger[NativeAsset][acc].free
    BY DEF Free, acc
  <2> DEFINE rec == [issuer |-> from, offer |-> o]
  <2>5. NativeLeft(rec) = IF a = NativeAsset THEN r ELSE 0
    BY <1>12 DEF NativeLeft, a, r
  <2>6. rec.offer = o
    OBVIOUS
  <2> HIDE DEF rec
  <2>8. PICK native : native = ledger'[NativeAsset][acc].free
    OBVIOUS
  <2>9. PICK held : held = ledger'[a][acc].free
    OBVIOUS
  <2>10. Serving(o, native, held)
    BY <1>3, <1>9, <1>10, <1>14, <2>8, <2>9 DEF Serving, a, r
  <2>11. stakeReturns[id] * Stake + native <= Stake + gifts[id] + NativeLeft(rec)
    BY <1>3, <1>9, <1>10, <2>1, <2>2, <2>3, <2>4, <2>5, <2>8
  <2>12. bond_offers'[id] = rec /\ rec # NoOffer
    BY <1>12 DEF rec
  <2>13. /\ native = ledger'[NativeAsset][OfferAccount(id)].free
         /\ held = ledger'[rec.offer.reward_asset][OfferAccount(id)].free
         /\ ~(id > bond_offer_count') /\ id <= bond_offer_count'
         /\ stakeReturns'[id] = stakeReturns[id] /\ gifts'[id] = gifts[id]
    BY <1>2, <1>5, <2>6, <2>8, <2>9 DEF acc, a
  <2>14. Serving(rec.offer, native, held)
    BY <2>6, <2>10
  <2>15. stakeReturns'[id] * Stake + native
            <= (IF id <= bond_offer_count' THEN Stake ELSE 0) + gifts'[id] + NativeLeft(rec)
    BY <2>11, <2>13
  <2> QED
    BY <2>12, <2>13, <2>14, <2>15, NowKept
<1>16. \A b \in AssetIds, w \in SubAccounts :
          w # OfferAccount(id) => ledger'[b][w] = ledger[b][w]
  BY <1>7, <1>8 DEF acc
<1>17. \A i \in OfferIds \ {id} :
          /\ bond_offers'[i] = bond_offers[i] /\ stakeReturns'[i] = stakeReturns[i]
          /\ gifts'[i] = gifts[i] /\ (i <= bond_offer_count' <=> i <= bond_offer_count)
  BY <1>1, <1>5, <1>12, BondedFinanceTypes
<1> QED
  BY <1>13, <1>15, <1>16, <1>17, OneOffer

LEMMA GiftKeeps ==
    ASSUME BondInv, NEW from \in Users, NEW id \in OfferIds, NEW n \in Nat, Gift(from, id, n)
    PROVE  BondInv'
<1> DEFINE acc == OfferAccount(id)
<1>1. BondTypeOK /\ ledger \in Ledger /\ OfferKept(id) /\ NativeAsset \in AssetIds
  BY ChainTypes DEF BondInv, BondTypeOK
<1>2. /\ acc \in SubAccounts /\ acc \in Accounts /\ from # acc
      /\ gifts[id] \in Nat /\ stakeReturns[id] * Stake \in Nat /\ StakeIn(id) \in Nat
      /\ NativeLeft(bond_offers[id]) \in Nat
  BY <1>1, OfferTypes, ChainTypes
<1>3. /\ n = 0 \/ Unlocked(ledger, NativeAsset, from, n)
      /\ ledger' = Transfer(ledger, NativeAsset, from, acc, n)
      /\ gifts' = [gifts EXCEPT ![id] = @ + n]
      /\ now' = now /\ vesting_schedules' = vesting_schedules
      /\ bond_offers' = bond_offers /\ stakeReturns' = stakeReturns
      /\ bond_offer_count' = bond_offer_count
  BY <1>2 DEF Gift, CanTransfer, CanWithdraw, Unlocked
<1> HIDE DEF acc
<1>4. /\ ledger' \in Ledger
      /\ ledger'[NativeAsset][acc].free = ledger[NativeAsset][acc].free + n
      /\ \A b \in AssetIds, w \in SubAccounts :
            b # NativeAsset \/ w # acc => ledger'[b][w] = ledger[b][w]
  BY <1>1, <1>2, <1>3, TransferToSub
<1>5. /\ gifts \in [OfferIds -> Nat] /\ gifts' \in [OfferIds -> Nat]
      /\ gifts'[id] = gifts[id] + n /\ \A i \in OfferIds \ {id} : gifts'[i] = gifts[i]
  BY <1>1, <1>3 DEF BondTypeOK
<1>6. BondTypeOK'
  BY <1>1, <1>3, <1>4, <1>5 DEF BondTypeOK
<1>7. OfferKept(id)'
  <2>1. PICK rec : rec = bond_offers[id]
    OBVIOUS
  <2>2. PICK native : native = ledger'[NativeAsset][acc].free
    OBVIOUS
  <2>3. PICK held : held = ledger'[rec.offer.reward_asset][acc].free
    OBVIOUS
  <2>4. /\ id > bond_offer_count => rec = NoOffer
        /\ rec # NoOffer => Serving(rec.offer, Free(id, NativeAsset),
                                    Free(id, rec.offer.reward_asset))
        /\ stakeReturns[id] * Stake + Free(id, NativeAsset)
              <= StakeIn(id) + gifts[id] + NativeLeft(rec)
    BY <1>1, <2>1 DEF OfferKept
  <2>5. native = Free(id, NativeAsset) + n /\ Free(id, NativeAsset) \in Nat
    BY <1>1, <1>4, <2>2, OfferTypes DEF Free, acc
  <2>6. rec # NoOffer => Serving(rec.offer, native, held)
    <3> SUFFICES ASSUME rec # NoOffer PROVE Serving(rec.offer, native, held)
      OBVIOUS
    <3>1. PICK o \in OfferType : o = rec.offer
      BY <1>1, <2>1, OfferTypes
    <3>2. o.nb_of_bonds \in Nat /\ o.reward \in Nat /\ o.reward_asset \in AssetIds /\ Stake \in Nat
      BY <3>1, OfferParts, BondedFinanceTypes
    <3>3. /\ Free(id, o.reward_asset) \in Nat
          /\ o.reward_asset # NativeAsset => held = Free(id, o.reward_asset)
      BY <1>1, <1>2, <1>4, <2>3, <3>1, <3>2, OfferTypes DEF Free, acc
    <3>4. Serving(o, Free(id, NativeAsset), Free(id, o.reward_asset))
      BY <2>4, <3>1
    <3> QED
      BY <2>5, <3>1, <3>2, <3>3, <3>4 DEF Serving
  <2>7. stakeReturns[id] * Stake + native <= StakeIn(id) + (gifts[id] + n) + NativeLeft(rec)
    BY <1>2, <2>1, <2>4, <2>5
  <2>8. /\ native = ledger'[NativeAsset][OfferAccount(id)].free
        /\ held = ledger'[rec.offer.reward_asset][OfferAccount(id)].free
        /\ rec = bond_offers'[id] /\ (id > bond_offer_count' => rec = NoOffer)
    BY <1>3, <2>1, <2>2, <2>3, <2>4 DEF acc
  <2>9. stakeReturns'[id] * Stake + native
           <= (IF id <= bond_offer_count' THEN Stake ELSE 0) + gifts'[id] + NativeLeft(rec)
    BY <1>3, <1>5, <2>7 DEF StakeIn
  <2> QED
    BY <2>6, <2>8, <2>9, NowKept
<1>8. \A b \in AssetIds, w \in SubAccounts :
         w # OfferAccount(id) => ledger'[b][w] = ledger[b][w]
  BY <1>4 DEF acc
<1> QED
  BY <1>3, <1>5, <1>6, <1>7, <1>8, OneOffer

LEMMA CancelKeeps ==
    ASSUME BondInv, NEW id \in OfferIds, Cancel(id)
    PROVE  BondInv'
<1> DEFINE acc == OfferAccount(id)
<1>1. BondTypeOK /\ ledger \in Ledger /\ OfferKept(id) /\ NativeAsset \in AssetIds
  BY ChainTypes DEF BondInv, BondTypeOK
<1>2. /\ acc \in SubAccounts /\ acc \in Accounts
      /\ gifts[id] \in Nat /\ stakeReturns[id] \in Nat /\ StakeIn(id) \in Nat
      /\ Stake \in Nat \ {0} /\ Free(id, NativeAsset) \in Nat
  BY <1>1, OfferTypes, BondedFinanceTypes
<1>3. PICK rec \in BondRecord : rec = bond_offers[id] /\ rec # NoOffer
  BY <1>1, OfferTypes DEF Cancel
<1> DEFINE issuer == rec.issuer
           a == rec.offer.reward_asset
           r == rec.offer.reward
           l1 == Transfer(ledger, NativeAsset, acc, issuer, Stake)
<1>4. issuer \in Users /\ a \in AssetIds /\ r \in Nat /\ acc # issuer
  BY <1>2, OfferParts, ChainTypes DEF BondRecord
<1>5. /\ CanTransfer(ledger, NativeAsset, acc, issuer, Stake, FALSE)
      /\ CanTransfer(l1, a, acc, issuer, r, FALSE)
      /\ ledger' = Transfer(l1, a, acc, issuer, r)
      /\ bond_offers' = [bond_offers EXCEPT ![id] = NoOffer]
      /\ stakeReturns' = [stakeReturns EXCEPT ![id] = @ + 1]
      /\ now' = now /\ vesting_schedules' = vesting_schedules
      /\ bond_offer_count' = bond_offer_count /\ gifts' = gifts
  BY <1>3 DEF Cancel
<1> HIDE DEF acc, issuer, a, r, l1
<1>6. Unlocked(ledger, NativeAsset, acc, Stake) /\ (r = 0 \/ Unlocked(l1, a, acc, r))
  BY <1>2, <1>4, <1>5 DEF CanTransfer, CanWithdraw, Unlocked
<1>7. /\ l1 \in Ledger
      /\ l1[NativeAsset][acc].free <= ledger[NativeAsset][acc].free - Stake
      /\ \A b \in AssetIds, w \in SubAccounts :
            b # NativeAsset \/ w # acc => l1[b][w] = ledger[b][w]
  BY <1>1, <1>2, <1>4, <1>6, SubTransfer DEF l1
<1>8. /\ ledger' \in Ledger
      /\ ledger'[a][acc].free <= l1[a][acc].free - r
      /\ \A b \in AssetIds, w \in SubAccounts : b # a \/ w # acc => ledger'[b][w] = l1[b][w]
  BY <1>2, <1>4, <1>5, <1>6, <1>7, SubTransfer
<1>9. /\ l1[NativeAsset][acc].free \in Nat /\ ledger'[NativeAsset][acc].free \in Nat
      /\ ledger[NativeAsset][acc].free \in Nat
  BY <1>1, <1>2, <1>7, <1>8, LedgerEntries
<1>10. ledger'[NativeAsset][acc].free + Stake + NativeLeft(rec) <= Free(id, NativeAsset)
  <2>1. NativeLeft(rec) = IF a = NativeAsset THEN r ELSE 0
    BY <1>3 DEF NativeLeft, a, r
  <2>2. a # NativeAsset => ledger'[NativeAsset][acc] = l1[NativeAsset][acc]
    BY <1>1, <1>2, <1>8
  <2>3. Free(id, NativeAsset) = ledger[NativeAsset][acc].free
    BY DEF Free, acc
  <2> QED
    BY <1>2, <1>4, <1>7, <1>8, <1>9, <2>1, <2>2, <2>3
<1>11. /\ bond_offers' \in [OfferIds -> BondRecord \cup {NoOffer}]
       /\ bond_offers'[id] = NoOffer
       /\ \A i \in OfferIds \ {id} : bond_offers'[i] = bond_offers[i]
  BY <1>1, <1>5 DEF BondTypeOK
<1>12. /\ stakeReturns' \in [OfferIds -> Nat]
       /\ stakeReturns'[id] = stakeReturns[id] + 1
       /\ \A i \in OfferIds \ {id} : stakeReturns'[i] = stakeReturns[i]
  BY <1>1, <1>5 DEF BondTypeOK
<1>13. BondTypeOK'
  BY <1>1, <1>5, <1>8, <1>11, <1>12 DEF BondTypeOK
<1>14. OfferKept(id)'
  <2>1. PICK native \in Nat : native = ledger'[NativeAsset][acc].free
    BY <1>9
  <2>2. stakeReturns[id] * Stake + Free(id, NativeAsset) <= StakeIn(id) + gifts[id] + NativeLeft(rec)
    BY <1>1, <1>3 DEF OfferKept
  <2>3. /\ (stakeReturns[id] + 1) * Stake = stakeReturns[id] * Stake + Stake
        /\ stakeReturns[id] * Stake \in Nat
    BY <1>2
  <2>4. NativeLeft(NoOffer) = 0
    BY DEF NativeLeft
  <2>5. NativeLeft(rec) \in Nat
    BY <1>1, <1>3, OfferTypes
  <2>6. (stakeReturns[id] + 1) * Stake + native <= StakeIn(id) + gifts[id] + 0
    BY <1>2, <1>10, <2>1, <2>2, <2>3, <2>5
  <2>7. stakeReturns'[id] * Stake + native
           <= (IF id <= bond_offer_count' THEN Stake ELSE 0) + gifts'[id] + NativeLeft(NoOffer)
    BY <1>5, <1>12, <2>4, <2>6 DEF StakeIn
  <2>8. native = ledger'[NativeAsset][OfferAccount(id)].free
    BY <2>1 DEF acc
  <2> QED
    BY <1>11, <2>7, <2>8, NowKept
<1>15. \A b \in AssetIds, w \in SubAccounts :
          w # OfferAccount(id) => ledger'[b][w] = ledger[b][w]
  BY <1>7, <1>8 DEF acc
<1> QED
  BY <1>5, <1>11, <1>12, <1>13, <1>14, <1>15, OneOffer

(* The ledgers l1, l2, l3 and the schedules vs1, vs2 that do_bond passes   *)
(* through: the price is paid, the share vested from the account of the    *)
(* offer, and the price vested back unless the bond is for ever.           *)
BondMoves(l, vs, o, acc, from, value, share, l1, l2, vs1, l3, vs2) ==
    LET reward == OnePeriod(o.reward_maturity, share)
        back   == OnePeriod(o.maturity, value)
    IN /\ l1 = Transfer(l, o.asset, from, o.beneficiary, value)
       /\ \/ value = 0
          \/ from = o.beneficiary
          \/ Unlocked(l, o.asset, from, value)
       /\ CanVestedTransfer(l1, vs, o.reward_asset, acc, from, reward)
       /\ l2 = VestedLedger(l1, vs, o.reward_asset, acc, from, reward)
       /\ vs1 = VestedSchedules(vs, o.reward_asset, from, reward)
       /\ o.maturity = Infinite => l3 = l2 /\ vs2 = vs1
       /\ o.maturity # Infinite =>
             /\ CanVestedTransfer(l2, vs1, o.asset, o.beneficiary, from, back)
             /\ l3 = VestedLedger(l2, vs1, o.asset, o.beneficiary, from, back)
             /\ vs2 = VestedSchedules(vs1, o.asset, from, back)

(* What they leave in the accounts of the offers: the share is gone from   *)
(* the offer's account and nothing else.                                   *)
LEMMA BondLedger ==
    ASSUME NEW l \in Ledger, NEW vs \in AcceptedSchedules, now \in Nat,
           NEW o \in OfferType, NEW acc \in SubAccounts, NEW from \in Users,
           NEW value \in Nat, NEW share \in Nat, NEW l1, NEW l2, NEW vs1, NEW l3, NEW vs2,
           BondMoves(l, vs, o, acc, from, value, share, l1, l2, vs1, l3, vs2)
    PROVE  /\ l3 \in Ledger /\ vs2 \in AcceptedSchedules
           /\ l3[o.reward_asset][acc].free <= l[o.reward_asset][acc].free - share
           /\ l[o.reward_asset][acc].free - share >= MinimumBalance[o.reward_asset]
                 => l3[o.reward_asset][acc].free = l[o.reward_asset][acc].free - share
           /\ \A b \in AssetIds, w \in SubAccounts :
                 b # o.reward_asset \/ w # acc => l3[b][w] = l[b][w]
<1> DEFINE a == o.reward_asset
           s == OnePeriod(o.reward_maturity, share)
           back == OnePeriod(o.maturity, value)
           m == Transfer(l1, a, acc, from, share)
           k == Transfer(l2, o.asset, o.beneficiary, from, value)
<1>1. /\ a \in AssetIds /\ o.asset \in AssetIds /\ o.beneficiary \in Users
      /\ o.reward_maturity \in Nat /\ o.maturity \in Nat \cup {Infinite}
      /\ acc \in Accounts /\ from \in Accounts /\ o.beneficiary \in Accounts /\ acc # from
  BY OfferParts, ChainTypes DEF Accounts
<1>2. l1 \in Ledger /\ SameSub(l, l1)
  BY <1>1, UserTransfer DEF BondMoves
<1>3. s \in ScheduleType /\ TotalAmount(s) = share
  BY <1>1 DEF OnePeriod, ScheduleType, TotalAmount
<1>4. o.maturity # Infinite => back \in ScheduleType /\ TotalAmount(back) = value
  BY <1>1 DEF OnePeriod, ScheduleType, TotalAmount
<1> HIDE DEF s, back, m, k
<1>5. CanVestedTransfer(l1, vs, a, acc, from, s) /\ l2 = VestedLedger(l1, vs, a, acc, from, s)
      /\ vs1 = VestedSchedules(vs, a, from, s)
  BY DEF s, BondMoves
<1> HIDE DEF a
<1>6. /\ l2 \in Ledger /\ vs1 \in AcceptedSchedules
      /\ SameSub(Transfer(l1, a, acc, from, TotalAmount(s)), l2)
      /\ TotalAmount(s) # 0
      /\ acc = from \/ Unlocked(l1, a, acc, TotalAmount(s))
  BY <1>1, <1>2, <1>3, <1>5, VestedFacts
<1>7. SameSub(m, l2) /\ Unlocked(l1, a, acc, share) /\ share # 0
  BY <1>1, <1>3, <1>6 DEF m
<1>8. /\ m \in Ledger
      /\ m[a][acc].free <= l1[a][acc].free - share
      /\ share # 0 /\ l1[a][acc].free - share >= MinimumBalance[a]
            => m[a][acc].free = l1[a][acc].free - share
      /\ \A b \in AssetIds, w \in SubAccounts : b # a \/ w # acc => m[b][w] = l1[b][w]
  BY <1>1, <1>2, <1>7, SubTransfer DEF m
<1>9. l3 \in Ledger /\ vs2 \in AcceptedSchedules /\ SameSub(l2, l3)
  <2>1. CASE o.maturity = Infinite
    BY <1>6, <2>1 DEF SameSub, BondMoves
  <2>2. CASE o.maturity # Infinite
    <3>1. /\ CanVestedTransfer(l2, vs1, o.asset, o.beneficiary, from, back)
          /\ l3 = VestedLedger(l2, vs1, o.asset, o.beneficiary, from, back)
          /\ vs2 = VestedSchedules(vs1, o.asset, from, back)
          /\ back \in ScheduleType
      BY <1>4, <2>2 DEF back, BondMoves
    <3>2. /\ l3 \in Ledger /\ vs2 \in AcceptedSchedules
          /\ SameSub(Transfer(l2, o.asset, o.beneficiary, from, TotalAmount(back)), l3)
          /\ o.beneficiary = from \/ Unlocked(l2, o.asset, o.beneficiary, TotalAmount(back))
      BY <1>1, <1>6, <3>1, VestedFacts
    <3>3. SameSub(k, l3) /\ (o.beneficiary = from \/ Unlocked(l2, o.asset, o.beneficiary, value))
      BY <1>4, <2>2, <3>2 DEF k
    <3>4. SameSub(l2, k)
      BY <1>1, <1>6, <3>3, UserTransfer DEF k
    <3> QED
      BY <3>2, <3>3, <3>4 DEF SameSub
  <2> QED
    BY <2>1, <2>2
<1>10. l3[a][acc] = m[a][acc] /\ l1[a][acc] = l[a][acc]
  BY <1>1, <1>2, <1>7, <1>9 DEF SameSub
<1>11. \A b \in AssetIds, w \in SubAccounts : b # a \/ w # acc => l3[b][w] = l[b][w]
  BY <1>2, <1>7, <1>8, <1>9 DEF SameSub
<1> QED
  BY <1>7, <1>8, <1>9, <1>10, <1>11 DEF a

LEMMA BondKeeps ==
    ASSUME BondInv, NEW id \in OfferIds, NEW from \in Users, NEW n, NEW keep,
           Bond(id, from, n, keep)
    PROVE  BondInv'
<1> DEFINE acc == OfferAccount(id)
           v == MinVestedTransfer
<1>1. BondTypeOK /\ ledger \in Ledger /\ OfferKept(id) /\ NativeAsset \in AssetIds
      /\ now \in Nat /\ vesting_schedules \in AcceptedSchedules
  BY ChainTypes DEF BondInv, BondTypeOK
<1>2. /\ acc \in SubAccounts /\ acc \in Accounts
      /\ gifts[id] \in Nat /\ stakeReturns[id] \in Nat /\ StakeIn(id) \in Nat
      /\ Stake \in Nat \ {0} /\ v \in Nat \ {0}
      /\ \A x \in AssetIds : Free(id, x) \in Nat
  BY <1>1, OfferTypes, BondedFinanceTypes, VestingTypes
<1>3. PICK rec \in BondRecord : rec = bond_offers[id] /\ rec # NoOffer
  BY <1>1, OfferTypes DEF Bond
<1> DEFINE issuer == rec.issuer
           o == rec.offer
           a == o.reward_asset
           r == o.reward
           b == o.nb_of_bonds
           share == RewardShare(n, o)
           value == n * o.bond_price
           left == [o EXCEPT !.nb_of_bonds = b - n, !.reward = r - share]
           reward == OnePeriod(o.reward_maturity, share)
           back == OnePeriod(o.maturity, value)
           finite == o.maturity # Infinite
           l1 == Transfer(ledger, o.asset, from, o.beneficiary, value)
           l2 == VestedLedger(l1, vesting_schedules, a, acc, from, reward)
           vs1 == VestedSchedules(vesting_schedules, a, from, reward)
           l3 == IF finite THEN VestedLedger(l2, vs1, o.asset, o.beneficiary, from, back)
                 ELSE l2
           vs2 == IF finite THEN VestedSchedules(vs1, o.asset, from, back) ELSE vs1
<1>4. issuer \in Users /\ o \in OfferType /\ acc # issuer
  BY <1>2, ChainTypes DEF BondRecord
<1>5. /\ a \in AssetIds /\ r \in Nat /\ b \in Nat /\ o.bond_price \in Nat
      /\ o.asset \in AssetIds /\ o.beneficiary \in Users
  BY <1>4, OfferParts
<1>6. /\ b # 0 /\ n \in 1..b
      /\ CanTransfer(ledger, o.asset, from, o.beneficiary, value, keep)
      /\ CanVestedTransfer(l1, vesting_schedules, a, acc, from, reward)
      /\ finite => CanVestedTransfer(l2, vs1, o.asset, o.beneficiary, from, back)
      /\ Completed(left) => CanTransfer(l3, NativeAsset, acc, issuer, Stake, FALSE)
      /\ ledger' = IF Completed(left) THEN Transfer(l3, NativeAsset, acc, issuer, Stake) ELSE l3
      /\ vesting_schedules' = vs2
      /\ bond_offers' = [bond_offers EXCEPT ![id].offer = left]
      /\ stakeReturns' = IF Completed(left) THEN [stakeReturns EXCEPT ![id] = @ + 1]
                         ELSE stakeReturns
      /\ now' = now /\ bond_offer_count' = bond_offer_count /\ gifts' = gifts
  BY <1>3 DEF Bond, Completed
<1>7. Serving(o, Free(id, NativeAsset), Free(id, a))
  BY <1>1, <1>3 DEF OfferKept
<1> HIDE DEF v, a, r, b
<1>8. /\ r >= v * b
      /\ IF a = NativeAsset THEN Free(id, NativeAsset) >= Stake + r
         ELSE Free(id, NativeAsset) >= Stake /\ Free(id, a) >= r
  BY <1>6, <1>7 DEF Serving, v, a, r, b
<1>9. /\ share \in Nat /\ share <= r /\ r - share >= v * (b - n)
      /\ n = b => share = r
  <2>1. share = (n * r) \div b
    BY DEF RewardShare, r, b
  <2> QED
    BY <1>2, <1>5, <1>6, <1>8, <2>1, ShareFacts
<1>10. n \in Nat /\ n >= 1 /\ n <= b /\ b - n \in Nat
  BY <1>5, <1>6
<1>11. value \in Nat
  BY <1>5, <1>10
<1>12. value = 0 \/ from = o.beneficiary \/ Unlocked(ledger, o.asset, from, value)
  <2> HIDE DEF value
  <2> QED
    BY <1>6 DEF CanTransfer, CanWithdraw, Unlocked
<1> HIDE DEF share, value
<1>13. /\ left \in OfferType /\ left.nb_of_bonds = b - n /\ left.reward = r - share
       /\ left.reward_asset = a
  <2>1. r - share \in Nat
    BY <1>5, <1>9
  <2> QED
    BY <1>4, <1>5, <1>10, <2>1 DEF OfferType, a, b, r
<1> HIDE DEF left
<1>14. /\ l3 \in Ledger /\ vs2 \in AcceptedSchedules
       /\ l3[a][acc].free <= ledger[a][acc].free - share
       /\ ledger[a][acc].free - share >= MinimumBalance[a]
             => l3[a][acc].free = ledger[a][acc].free - share
       /\ \A x \in AssetIds, w \in SubAccounts : x # a \/ w # acc => l3[x][w] = ledger[x][w]
  <2>1. BondMoves(ledger, vesting_schedules, o, acc, from, value, share, l1, l2, vs1, l3, vs2)
    BY <1>6, <1>12 DEF BondMoves, a
  <2> HIDE DEF l1, l2, l3, vs1, vs2, acc, o
  <2>5. /\ l3 \in Ledger /\ vs2 \in AcceptedSchedules
        /\ l3[o.reward_asset][acc].free <= ledger[o.reward_asset][acc].free - share
        /\ ledger[o.reward_asset][acc].free - share >= MinimumBalance[o.reward_asset]
              => l3[o.reward_asset][acc].free = ledger[o.reward_asset][acc].free - share
        /\ \A x \in AssetIds, w \in SubAccounts :
              x # o.reward_asset \/ w # acc => l3[x][w] = ledger[x][w]
    BY <1>1, <1>2, <1>4, <1>9, <1>11, <2>1, BondLedger
  <2> QED
    BY <2>5 DEF a
<1> HIDE DEF l1, l2, l3, vs1, vs2, acc, o, issuer
<1> DEFINE F == ledger[NativeAsset][acc].free
           H == ledger[a][acc].free
           F3 == l3[NativeAsset][acc].free
           H3 == l3[a][acc].free
<1>15. /\ F = Free(id, NativeAsset) /\ H = Free(id, a)
       /\ F \in Nat /\ H \in Nat /\ F3 \in Nat /\ H3 \in Nat
       /\ a # NativeAsset => F3 = F
       /\ MinimumBalance[NativeAsset] \in Nat /\ MinimumBalance[NativeAsset] <= Stake
       /\ MinimumBalance[a] \in Nat /\ (a # NativeAsset => MinimumBalance[a] <= v)
  BY <1>1, <1>2, <1>5, <1>14, LedgerEntries, ChainTypes, BondedFinanceDeposits DEF Free, acc, v
<1>16. /\ bond_offers' \in [OfferIds -> BondRecord \cup {NoOffer}]
       /\ bond_offers'[id] \in BondRecord /\ bond_offers'[id].offer = left
       /\ \A i \in OfferIds \ {id} : bond_offers'[i] = bond_offers[i]
  <2>1. [rec EXCEPT !.offer = left] \in BondRecord /\ [rec EXCEPT !.offer = left].offer = left
    BY <1>13 DEF BondRecord
  <2>2. bond_offers' = [bond_offers EXCEPT ![id] = [rec EXCEPT !.offer = left]]
    BY <1>3, <1>6
  <2>3. bond_offers \in [OfferIds -> BondRecord \cup {NoOffer}]
    BY <1>1 DEF BondTypeOK
  <2> QED
    BY <2>1, <2>2, <2>3
<1>17. stakeReturns \in [OfferIds -> Nat]
  BY <1>1 DEF BondTypeOK
<1>18. PICK new \in BondRecord : new = bond_offers'[id] /\ new.offer = left /\ new # NoOffer
  BY <1>16, BondedFinanceTypes DEF BondRecord
<1>19. /\ NativeLeft(new) = IF a = NativeAsset THEN r - share ELSE 0
       /\ NativeLeft(rec) = IF a = NativeAsset THEN r ELSE 0
  <2>1. NativeLeft(new) = IF left.reward_asset = NativeAsset THEN left.reward ELSE 0
    BY <1>18 DEF NativeLeft
  <2>2. NativeLeft(rec) = IF rec.offer.reward_asset = NativeAsset THEN rec.offer.reward ELSE 0
    BY <1>3 DEF NativeLeft
  <2> QED
    BY <1>13, <2>1, <2>2 DEF a, r, o
<1>20. /\ stakeReturns[id] * Stake + F <= StakeIn(id) + gifts[id] + NativeLeft(rec)
       /\ id > bond_offer_count => rec = NoOffer
       /\ stakeReturns[id] * Stake \in Nat
       /\ (stakeReturns[id] + 1) * Stake = stakeReturns[id] * Stake + Stake
  BY <1>1, <1>2, <1>3, <1>15 DEF OfferKept
<1>21. PICK native : native = ledger'[NativeAsset][acc].free
  OBVIOUS
<1>22. PICK held : held = ledger'[a][acc].free
  OBVIOUS
<1> DEFINE Kept == /\ ledger' \in Ledger
                   /\ stakeReturns' \in [OfferIds -> Nat]
                   /\ \A i \in OfferIds \ {id} : stakeReturns'[i] = stakeReturns[i]
                   /\ \A x \in AssetIds, w \in SubAccounts :
                         w # acc => ledger'[x][w] = ledger[x][w]
                   /\ Serving(left, native, held)
                   /\ stakeReturns'[id] * Stake + native
                         <= StakeIn(id) + gifts[id] + NativeLeft(new)
<1>23. ASSUME n = b PROVE Kept
  <2>1. /\ Completed(left) /\ left.nb_of_bonds = 0 /\ left.reward = 0 /\ share = r
    BY <1>5, <1>9, <1>10, <1>13, <1>23 DEF Completed
  <2>2. /\ CanTransfer(l3, NativeAsset, acc, issuer, Stake, FALSE)
        /\ ledger' = Transfer(l3, NativeAsset, acc, issuer, Stake)
        /\ stakeReturns' = [stakeReturns EXCEPT ![id] = @ + 1]
    BY <1>6, <2>1
  <2>3. Unlocked(l3, NativeAsset, acc, Stake)
    BY <1>2, <1>4, <2>2 DEF CanTransfer, CanWithdraw, Unlocked
  <2>4. /\ ledger' \in Ledger
        /\ ledger'[NativeAsset][acc].free <= l3[NativeAsset][acc].free - Stake
        /\ \A x \in AssetIds, w \in SubAccounts :
              x # NativeAsset \/ w # acc => ledger'[x][w] = l3[x][w]
    BY <1>1, <1>2, <1>4, <1>14, <2>2, <2>3, SubTransfer
  <2>5. native \in Nat /\ native <= F3 - Stake
    BY <1>1, <1>2, <1>21, <2>4, LedgerEntries
  <2>6. F3 + NativeLeft(rec) <= F + NativeLeft(new)
    <3>1. a = NativeAsset => F3 <= F - share
      BY <1>14
    <3> HIDE DEF F, F3, H, H3
    <3> QED
      BY <1>5, <1>9, <1>15, <1>19, <3>1
  <2>7. stakeReturns'[id] = stakeReturns[id] + 1
    BY <1>17, <2>2
  <2>8. stakeReturns'[id] * Stake + native <= StakeIn(id) + gifts[id] + NativeLeft(new)
    <3>1. NativeLeft(rec) \in Nat /\ NativeLeft(new) \in Int
      BY <1>5, <1>9, <1>19
    <3> HIDE DEF F, F3, H, H3
    <3> QED
      BY <1>2, <1>15, <1>20, <2>5, <2>6, <2>7, <3>1
  <2>9. Serving(left, native, held)
    BY <2>1 DEF Serving
  <2>10. /\ stakeReturns' \in [OfferIds -> Nat]
         /\ \A i \in OfferIds \ {id} : stakeReturns'[i] = stakeReturns[i]
    BY <1>17, <2>2
  <2>11. \A x \in AssetIds, w \in SubAccounts : w # acc => ledger'[x][w] = ledger[x][w]
    BY <1>14, <2>4
  <2> QED
    BY <2>4, <2>8, <2>9, <2>10, <2>11
<1>24. ASSUME n # b PROVE Kept
  <2>1. ~Completed(left) /\ left.nb_of_bonds # 0 /\ b - n >= 1
    BY <1>5, <1>10, <1>13, <1>24 DEF Completed
  <2>2. ledger' = l3 /\ stakeReturns' = stakeReturns
    BY <1>6, <2>1
  <2>3. r - share >= v
    <3>1. v * 1 <= v * (b - n) /\ v * 1 = v /\ v * (b - n) \in Nat
      BY <1>2, <1>10, <2>1, TimesMonotone
    <3> QED
      BY <1>2, <1>5, <1>9, <3>1
  <2>4. native = F3 /\ held = H3
    BY <1>21, <1>22, <2>2
  <2>5. /\ H - share >= MinimumBalance[a] => H3 = H - share
        /\ a = NativeAsset => F = H /\ F3 = H3
    BY <1>14
  <2>6. IF a = NativeAsset THEN F3 = F - share ELSE F3 = F /\ H3 = H - share
    <3> HIDE DEF F, F3, H, H3
    <3> QED
      BY <1>2, <1>5, <1>8, <1>9, <1>15, <2>3, <2>5
  <2>7. Serving(left, native, held)
    <3> HIDE DEF F, F3, H, H3
    <3>1. IF left.reward_asset = NativeAsset THEN native >= Stake + left.reward
          ELSE native >= Stake /\ held >= left.reward
      BY <1>2, <1>5, <1>8, <1>9, <1>13, <1>15, <2>4, <2>6
    <3>2. left.reward >= MinVestedTransfer * left.nb_of_bonds
      BY <1>9, <1>13 DEF v
    <3> QED
      BY <2>1, <3>1, <3>2 DEF Serving
  <2>8. stakeReturns'[id] * Stake + native <= StakeIn(id) + gifts[id] + NativeLeft(new)
    <3> HIDE DEF F, F3, H, H3
    <3> QED
      BY <1>2, <1>5, <1>9, <1>15, <1>19, <1>20, <2>2, <2>4, <2>6
  <2>9. \A x \in AssetIds, w \in SubAccounts : w # acc => ledger'[x][w] = ledger[x][w]
    BY <1>14, <2>2
  <2> QED
    BY <1>14, <1>17, <2>2, <2>7, <2>8, <2>9
<1>25. Kept
  BY <1>23, <1>24
<1>26. BondTypeOK'
  BY <1>1, <1>6, <1>14, <1>16, <1>25 DEF BondTypeOK
<1>27. OfferKept(id)'
  <2>1. /\ native = ledger'[NativeAsset][OfferAccount(id)].free
        /\ held = ledger'[new.offer.reward_asset][OfferAccount(id)].free
    BY <1>13, <1>18, <1>21, <1>22 DEF acc
  <2>2. id > bond_offer_count' => new = NoOffer
    BY <1>3, <1>6, <1>20
  <2>3. Serving(new.offer, native, held)
    BY <1>18, <1>25
  <2>4. stakeReturns'[id] * Stake + native
           <= (IF id <= bond_offer_count' THEN Stake ELSE 0) + gifts'[id] + NativeLeft(new)
    BY <1>6, <1>25 DEF StakeIn
  <2> QED
    BY <1>18, <2>1, <2>2, <2>3, <2>4, NowKept
<1>28. \A x \in AssetIds, w \in SubAccounts :
          w # OfferAccount(id) => ledger'[x][w] = ledger[x][w]
  BY <1>25 DEF acc
<1> QED
  BY <1>6, <1>16, <1>25, <1>26, <1>27, <1>28, OneOffer

LEMMA BondStarts ==
    ChainInit /\ VestingInit /\ BondInit => BondInv
<1> SUFFICES ASSUME ChainInit, VestingInit, BondInit PROVE BondInv
  OBVIOUS
<1>1. now \in Nat /\ ledger \in Ledger /\ vesting_schedules \in AcceptedSchedules
  BY VestingStarts DEF VestingInv, VestingTypeOK, AcceptedSchedules
<1>2. BondTypeOK
  BY <1>1 DEF BondTypeOK, BondInit
<1>3. ASSUME NEW id \in OfferIds PROVE OfferKept(id)
  <2>1. id \in Nat /\ Stake \in Nat /\ NativeAsset \in AssetIds
    BY BondedFinanceTypes, ChainTypes
  <2>2. Free(id, NativeAsset) = 0
    BY <2>1, NoFundsEntry DEF BondInit, Free
  <2>3. /\ bond_offers[id] = NoOffer /\ stakeReturns[id] = 0 /\ gifts[id] = 0
    BY DEF BondInit
  <2>4. NativeLeft(NoOffer) = 0 /\ StakeIn(id) \in Nat
    BY <2>1 DEF NativeLeft, StakeIn
  <2>5. 0 * Stake = 0
    BY <2>1
  <2> QED
    BY <2>2, <2>3, <2>4, <2>5 DEF OfferKept
<1> QED
  BY <1>2, <1>3 DEF BondInv

(* Rounding strands no offer, for every offer, stake and reward: however   *)
(* its bonds are bought (offer, do_bond, cancel and the vested transfers   *)
(* they make, and funds sent to the account of an offer), the account      *)
(* holds the stake and the rest of the reward, which is worth a vested     *)
(* transfer for every bond left, and a stake is paid back once.            *)
THEOREM OffersStayServed == BondSpec => []OffersServed
<1>1. ChainInit /\ VestingInit /\ BondInit => BondInv
  BY BondStarts
<1>2. BondInv /\ [BondNext]_<<now, ledger, vestingVars, bondVars>> => BondInv'
  <2> SUFFICES ASSUME BondInv, [BondNext]_<<now, ledger, vestingVars, bondVars>>
               PROVE  BondInv'
    OBVIOUS
  <2>1. ASSUME NEW from \in Users, NEW o \in Offers, NEW keep \in BOOLEAN,
               Offer(from, o, keep)
        PROVE  BondInv'
    <3>1. PICK id \in OfferIds : id = bond_offer_count + 1
      BY <2>1 DEF Offer
    <3> QED
      BY <2>1, <3>1, OfferKeeps
  <2>2. CASE \E from \in Users, o \in Offers, keep \in BOOLEAN : Offer(from, o, keep)
    BY <2>1, <2>2
  <2>3. CASE \E id \in OfferIds, from \in Users, keep \in BOOLEAN :
                \E n \in 1..(IF bond_offers[id] = NoOffer THEN 0
                             ELSE bond_offers[id].offer.nb_of_bonds) :
                   Bond(id, from, n, keep)
    BY <2>3, BondKeeps
  <2>4. CASE \E id \in OfferIds : Cancel(id)
    BY <2>4, CancelKeeps
  <2>5. CASE \E from \in Users, id \in OfferIds, n \in Gifts : Gift(from, id, n)
    BY <2>5, GiftKeeps, VestingTypes
  <2>6. CASE VestingNext /\ UNCHANGED bondVars
    BY <2>6, VestingAlone
  <2>7. CASE UNCHANGED <<now, ledger, vestingVars, bondVars>>
    <3>1. SameSub(ledger, ledger') /\ UNCHANGED bondVars
      BY <2>7 DEF SameSub
    <3>2. BondTypeOK'
      BY <2>7 DEF BondInv, BondTypeOK, vestingVars, bondVars
    <3> QED
      BY <3>1, <3>2, OffersAlone
  <2> QED
    BY <2>2, <2>3, <2>4, <2>5, <2>6, <2>7 DEF BondNext
<1>3. BondInv => OffersServed
  BY KeptIsServed
<1> QED
  BY <1>1, <1>2, <1>3, PTL DEF BondSpec

-----------------------------------------------------------------------------
(* Crowdloan rewards.                                                      *)

(* What a reward has released when `point' blocks have passed.             *)
Window(point) == point - (point % VestingStep)
Released(reward, point) ==
    IF point >= reward.vesting_period THEN reward.total
    ELSE Upfront(reward)
         + (SatSub(reward.total, Upfront(reward)) * Window(point)) \div reward.vesting_period

LEMMA WindowFacts ==
    ASSUME NEW x \in Nat, NEW y \in Nat, x <= y
    PROVE  Window(x) \in Nat /\ Window(x) <= x /\ Window(x) <= Window(y)
<1>1. VestingStep \in Nat \ {0}
  BY CrowdloanTypes
<1>2. ASSUME NEW z \in Nat
      PROVE  /\ Window(z) = VestingStep * (z \div VestingStep) /\ Window(z) <= z
             /\ z \div VestingStep \in Nat
  BY <1>1 DEF Window
<1>3. x \div VestingStep <= y \div VestingStep
  BY <1>1, QuotientMonotone
<1>4. /\ VestingStep * (x \div VestingStep) <= VestingStep * (y \div VestingStep)
      /\ VestingStep * (x \div VestingStep) \in Nat
  BY <1>1, <1>2, <1>3, TimesMonotone
<1> QED
  BY <1>2, <1>4

(* Rounding never releases more than the reward, and never takes back.     *)
LEMMA ReleasedFacts ==
    ASSUME NEW reward \in RewardType, NEW x \in Nat, NEW y \in Nat, x <= y
    PROVE  /\ Released(reward, x) \in Nat
           /\ Released(reward, x) <= reward.total
           /\ Released(reward, x) <= Released(reward, y)
<1> DEFINE T == reward.total
           P == reward.vesting_period
           U == Upfront(reward)
           R == SatSub(T, U)
<1>1. T \in Nat /\ P \in Nat
  BY DEF RewardType
<1>2. U \in Nat /\ U <= T
  <2>1. InitialPayment \in Nat /\ InitialPayment <= 100
    BY CrowdloanTypes
  <2>2. T * InitialPayment <= T * 100 /\ T * InitialPayment \in Nat
    BY <1>1, <2>1, TimesMonotone
  <2>3. InitialPayment * T = T * InitialPayment
    BY <1>1, <2>1
  <2>4. (InitialPayment * T) \div 100 <= T /\ (InitialPayment * T) \div 100 \in Nat
    <3> HIDE DEF T
    <3> QED
      BY <1>1, <2>2, <2>3, QuotientBelow, QuotientType
  <2> QED
    BY <2>4 DEF Upfront
<1>3. R \in Nat /\ U + R = T
  <2> HIDE DEF U, T
  <2> QED
    BY <1>1, <1>2 DEF SatSub
<1>4. ASSUME NEW z \in Nat, ~(z >= P)
      PROVE  /\ Released(reward, z) = U + (R * Window(z)) \div P
             /\ P \in Nat \ {0} /\ R * Window(z) \in Nat
             /\ (R * Window(z)) \div P \in Nat /\ (R * Window(z)) \div P <= R
  <2>1. Released(reward, z) = U + (R * Window(z)) \div P
    BY <1>4 DEF Released
  <2> HIDE DEF T, P, U, R
  <2>2. P \in Nat \ {0} /\ Window(z) \in Nat /\ Window(z) <= P
    BY <1>1, <1>4, WindowFacts
  <2>3. R * Window(z) \in Nat /\ R * Window(z) <= R * P
    BY <1>3, <2>2, TimesMonotone
  <2>4. (R * Window(z)) \div P \in Nat /\ (R * Window(z)) \div P <= R
    BY <1>3, <2>2, <2>3, QuotientBelow, QuotientType
  <2> QED
    BY <2>1, <2>2, <2>3, <2>4
<1>5. ASSUME NEW z \in Nat, z >= P PROVE Released(reward, z) = T
  BY <1>5 DEF Released
<1>6. ASSUME NEW z \in Nat PROVE Released(reward, z) \in Nat /\ Released(reward, z) <= T
  <2> HIDE DEF T, P, U, R
  <2>1. CASE z >= P
    BY <1>1, <1>5, <2>1
  <2>2. CASE ~(z >= P)
    BY <1>1, <1>2, <1>3, <1>4, <2>2
  <2> QED
    BY <2>1, <2>2
<1>7. Released(reward, x) <= Released(reward, y)
  <2> HIDE DEF T, P, U, R
  <2>1. CASE y >= P
    BY <1>5, <1>6, <2>1
  <2>2. CASE ~(y >= P)
    <3>1. ~(x >= P)
      BY <1>1, <2>2
    <3>2. Window(x) <= Window(y) /\ Window(x) \in Nat /\ Window(y) \in Nat
      BY WindowFacts
    <3>3. R * Window(x) <= R * Window(y)
      BY <1>3, <3>2, TimesMonotone
    <3>4. (R * Window(x)) \div P <= (R * Window(y)) \div P
      BY <1>4, <2>2, <3>1, <3>3, QuotientMonotone
    <3> QED
      BY <1>2, <1>4, <2>2, <3>1, <3>4
  <2> QED
    BY <2>1, <2>2
<1> QED
  BY <1>6, <1>7

CrowdloanTypeOK ==
    /\ now \in Nat
    /\ rewards \in [Remotes -> RewardType \cup {NoReward}]
    /\ vesting_block_start \in Nat \cup {NotStarted}
    /\ associations \in [Claimants -> Remotes \cup {NoRemote}]

(* Accounts are associated after the start only.                           *)
AssociatedStarted ==
    \A who \in Claimants : associations[who] # NoRemote => vesting_block_start # NotStarted

CrowdloanInv == CrowdloanTypeOK /\ AssociatedStarted /\ ClaimsAccounted

LEMMA ShouldFacts ==
    ASSUME CrowdloanTypeOK, vesting_block_start # NotStarted, NEW reward \in RewardType
    PROVE  /\ ShouldHaveClaimed(reward) \in Nat
           /\ ShouldHaveClaimed(reward) <= reward.total
<1> DEFINE x == SatSub(now, vesting_block_start)
<1>1. x \in Nat
  BY DEF CrowdloanTypeOK, SatSub
<1>2. ShouldHaveClaimed(reward) = Released(reward, x)
  BY DEF ShouldHaveClaimed, Released, Window
<1> HIDE DEF x
<1> QED
  BY <1>1, <1>2, ReleasedFacts

(* Every entry rs[r] is within its reward and within what it released.     *)
EntriesWithin(rs, start, point) ==
    \A r \in Rewarded(rs) :
        /\ rs[r].claimed <= rs[r].total
        /\ rs[r].claimed > 0 =>
              start # NotStarted /\ rs[r].claimed <= Released(rs[r], point)

(* The sums of the accounts, over rewards rs.                              *)
ClaimedOf(rs) == [r \in Rewarded(rs) |-> rs[r].claimed]
TotalOf(rs) == [r \in Rewarded(rs) |-> rs[r].total]

LEMMA RewardedFinite ==
    ASSUME NEW rs
    PROVE  IsFiniteSet(Rewarded(rs)) /\ Rewarded(rs) \subseteq Remotes
BY CrowdloanTypes, FS_Subset DEF Rewarded

LEMMA AccountedParts ==
    ClaimsAccounted <=>
        /\ claimed_rewards = SumFunction(ClaimedOf(rewards))
        /\ total_rewards = SumFunction(TotalOf(rewards))
        /\ EntriesWithin(rewards, vesting_block_start, SatSub(now, vesting_block_start))
BY DEF ClaimsAccounted, ClaimedOf, TotalOf, EntriesWithin, ShouldHaveClaimed, Released, Window

LEMMA CrowdloanStarts ==
    ChainInit /\ CrowdloanInit => CrowdloanInv
<1> SUFFICES ASSUME ChainInit, CrowdloanInit PROVE CrowdloanInv
  OBVIOUS
<1>1. CrowdloanTypeOK /\ AssociatedStarted
  BY DEF ChainInit, CrowdloanInit, CrowdloanTypeOK, AssociatedStarted
<1>2. Rewarded(rewards) = {}
  BY DEF CrowdloanInit, Rewarded
<1>3. SumFunction(ClaimedOf(rewards)) = 0 /\ SumFunction(TotalOf(rewards)) = 0
  <2>1. DOMAIN ClaimedOf(rewards) = {} /\ DOMAIN TotalOf(rewards) = {}
    BY <1>2 DEF ClaimedOf, TotalOf
  <2> QED
    BY <2>1, SumOfNone DEF SumFunction
<1>4. ClaimsAccounted
  BY <1>2, <1>3 DEF ClaimsAccounted, CrowdloanInit, ClaimedOf, TotalOf
<1> QED
  BY <1>1, <1>4 DEF CrowdloanInv

LEMMA InitializeKeeps ==
    ASSUME CrowdloanInv, NEW at \in StartBlocks \cup {now}, InitializeAt(at)
    PROVE  CrowdloanInv'
<1>1. at \in Nat /\ at # NotStarted
  BY CrowdloanTypes DEF CrowdloanInv, CrowdloanTypeOK
<1>2. /\ vesting_block_start = NotStarted /\ vesting_block_start' = at
      /\ rewards' = rewards /\ total_rewards' = total_rewards
      /\ claimed_rewards' = claimed_rewards /\ associations' = associations /\ now' = now
  BY DEF InitializeAt
<1>3. CrowdloanTypeOK' /\ AssociatedStarted'
  BY <1>1, <1>2 DEF CrowdloanInv, CrowdloanTypeOK, AssociatedStarted
<1>4. \A r \in Rewarded(rewards) : ~(rewards[r].claimed > 0) /\ rewards[r].claimed <= rewards[r].total
  BY <1>2 DEF CrowdloanInv, ClaimsAccounted
<1>5. /\ claimed_rewards' = SumFunction([r \in Rewarded(rewards) |-> rewards[r].claimed])
      /\ total_rewards' = SumFunction([r \in Rewarded(rewards) |-> rewards[r].total])
  BY <1>2 DEF CrowdloanInv, ClaimsAccounted
<1>6. ClaimsAccounted'
  BY <1>2, <1>4, <1>5 DEF ClaimsAccounted
<1> QED
  BY <1>3, <1>6 DEF CrowdloanInv

LEMMA PopulateKeeps ==
    ASSUME CrowdloanInv, NEW list \in RewardLists, Populate(list)
    PROVE  CrowdloanInv'
<1>1. /\ vesting_block_start = NotStarted /\ vesting_block_start' = NotStarted
      /\ total_rewards' = SumFunction(TotalOf(rewards'))
      /\ claimed_rewards' = claimed_rewards /\ associations' = associations /\ now' = now
      /\ rewards' = [r \in Remotes |->
                       IF r \in DOMAIN list
                       THEN [total |-> list[r].total, claimed |-> 0,
                             vesting_period |-> list[r].vesting_period]
                       ELSE NoReward]
  BY DEF Populate, TotalOf
<1>2. ASSUME NEW r \in Remotes
      PROVE  \/ rewards'[r] = NoReward
             \/ rewards'[r] \in RewardType /\ rewards'[r].claimed = 0
  BY <1>1, CrowdloanTypes DEF RewardType
<1>3. CrowdloanTypeOK' /\ AssociatedStarted'
  <2>1. rewards' \in [Remotes -> RewardType \cup {NoReward}]
    BY <1>1, <1>2
  <2> QED
    BY <1>1, <2>1 DEF CrowdloanInv, CrowdloanTypeOK, AssociatedStarted
<1>4. \A r \in Rewarded(rewards') :
         /\ rewards'[r].claimed = 0 /\ rewards'[r].claimed <= rewards'[r].total
         /\ rewards'[r].total \in Nat
  BY <1>2 DEF Rewarded, RewardType
<1>5. claimed_rewards = 0
  <2> DEFINE f == ClaimedOf(rewards)
  <2>1. DOMAIN f = Rewarded(rewards) /\ \A r \in Rewarded(rewards) : f[r] = rewards[r].claimed
    BY DEF ClaimedOf
  <2>2. \A r \in Rewarded(rewards) : f[r] = 0
    <3> TAKE r \in Rewarded(rewards)
    <3>1. rewards[r] \in RewardType /\ ~(rewards[r].claimed > 0)
      BY <1>1 DEF CrowdloanInv, ClaimsAccounted, CrowdloanTypeOK, Rewarded
    <3> QED
      BY <2>1, <3>1 DEF RewardType
  <2>3. claimed_rewards = SumFunctionOnSet(f, Rewarded(rewards))
    BY <2>1 DEF CrowdloanInv, ClaimsAccounted, SumFunction, ClaimedOf
  <2> HIDE DEF f
  <2> QED
    BY <2>2, <2>3, RewardedFinite, SumZero
<1>6. claimed_rewards' = SumFunction(ClaimedOf(rewards'))
  <2> DEFINE f == ClaimedOf(rewards')
  <2>1. DOMAIN f = Rewarded(rewards') /\ \A r \in Rewarded(rewards') : f[r] = 0
    BY <1>4 DEF ClaimedOf
  <2> HIDE DEF f
  <2>2. SumFunction(f) = 0
    BY <2>1, RewardedFinite, SumZero DEF SumFunction
  <2> QED
    BY <1>1, <1>5, <2>2 DEF f
<1>7. ClaimsAccounted'
  BY <1>1, <1>4, <1>6 DEF ClaimsAccounted, ClaimedOf, TotalOf
<1> QED
  BY <1>3, <1>7 DEF CrowdloanInv

(* What do_claim leaves, for the account of an association and for one     *)
(* that is made now.                                                       *)
LEMMA ClaimIntoKeeps ==
    ASSUME CrowdloanInv, NEW remote \in Remotes, NEW who, ClaimInto(remote, who),
           vesting_block_start # NotStarted, now' = now,
           vesting_block_start' = vesting_block_start, total_rewards' = total_rewards
    PROVE  ClaimsAccounted' /\ rewards' \in [Remotes -> RewardType \cup {NoReward}]
<1> DEFINE old == rewards[remote]
           due == ShouldHaveClaimed(old)
           S == Rewarded(rewards)
           new == [old EXCEPT !.claimed = due]
<1>1. /\ old \in RewardType /\ remote \in S
      /\ rewards \in [Remotes -> RewardType \cup {NoReward}]
  BY DEF CrowdloanInv, CrowdloanTypeOK, ClaimInto, Rewarded
<1>2. /\ old.claimed \in Nat /\ old.total \in Nat /\ due \in Nat /\ due <= old.total
  BY <1>1, ShouldFacts DEF CrowdloanInv, RewardType
<1>3. old.claimed < due /\ Available(remote) = due - old.claimed
  <2>1. Available(remote) > 0 /\ Available(remote) = SatSub(due, old.claimed)
    BY DEF ClaimInto, Available
  <2> HIDE DEF old, due
  <2> QED
    BY <1>2, <2>1 DEF SatSub
<1>4. rewards' = [rewards EXCEPT ![remote] = [old EXCEPT !.claimed = old.claimed + Available(remote)]]
  BY DEF ClaimInto
<1>5. old.claimed + Available(remote) = due
  <2> HIDE DEF old, due
  <2> QED
    BY <1>2, <1>3
<1>6. rewards' = [rewards EXCEPT ![remote] = new]
  <2> HIDE DEF old, due
  <2> QED
    BY <1>4, <1>5
<1>7. claimed_rewards' = claimed_rewards + (due - old.claimed)
  <2>1. claimed_rewards' = claimed_rewards + Available(remote)
    BY DEF ClaimInto
  <2> QED
    BY <1>3, <2>1
<1>8. /\ new \in RewardType /\ new.claimed = due /\ new.total = old.total
      /\ new.vesting_period = old.vesting_period
  <2> HIDE DEF old, due
  <2> QED
    BY <1>1, <1>2 DEF RewardType
<1>9. Released(new, SatSub(now, vesting_block_start)) = due
  <2>1. due = Released(old, SatSub(now, vesting_block_start))
    BY DEF ShouldHaveClaimed, Released, Window
  <2> HIDE DEF old, new
  <2>2. Upfront(new) = Upfront(old)
    BY <1>8 DEF Upfront
  <2> QED
    BY <1>8, <2>1, <2>2 DEF Released
<1>10. new # NoReward
  BY <1>8, CrowdloanTypes
<1> HIDE DEF old, due, new
<1>11. rewards'[remote] = new /\ \A r \in Remotes \ {remote} : rewards'[r] = rewards[r]
  BY <1>1, <1>6
<1>12. rewards' \in [Remotes -> RewardType \cup {NoReward}]
  BY <1>1, <1>6, <1>8
<1>13. Rewarded(rewards') = S
  BY <1>1, <1>10, <1>11 DEF Rewarded
<1>14. \A r \in S : rewards[r] \in RewardType /\ rewards[r].claimed \in Nat /\ rewards[r].total \in Nat
  BY <1>1 DEF Rewarded, RewardType
<1> DEFINE f == ClaimedOf(rewards)
           g == ClaimedOf(rewards')
<1>15. /\ DOMAIN f = S /\ DOMAIN g = S
       /\ \A r \in S : f[r] = rewards[r].claimed /\ g[r] = rewards'[r].claimed
  BY <1>13 DEF ClaimedOf
<1>16. /\ \A r \in S : f[r] \in Int /\ g[r] \in Int
       /\ \A r \in S \ {remote} : f[r] = g[r]
       /\ f[remote] = old.claimed /\ g[remote] = due
  <2> HIDE DEF f, g
  <2>1. \A r \in S \ {remote} : rewards'[r] = rewards[r]
    BY <1>11 DEF Rewarded
  <2> QED
    BY <1>1, <1>2, <1>8, <1>11, <1>14, <1>15, <2>1 DEF old
<1>17. claimed_rewards = SumFunctionOnSet(f, S)
  BY <1>15 DEF CrowdloanInv, ClaimsAccounted, SumFunction, ClaimedOf
<1> HIDE DEF f, g, S
<1>18. /\ SumFunctionOnSet(g, S) = SumFunctionOnSet(f, S) - f[remote] + g[remote]
       /\ SumFunctionOnSet(f, S) \in Int
  BY <1>1, <1>16, RewardedFinite, SumChange DEF S
<1>19. claimed_rewards' = SumFunction(ClaimedOf(rewards'))
  <2>1. claimed_rewards' = SumFunctionOnSet(g, S)
    BY <1>2, <1>7, <1>16, <1>17, <1>18
  <2> QED
    BY <1>15, <2>1 DEF SumFunction, g
<1>20. total_rewards' = SumFunction(TotalOf(rewards'))
  <2>1. TotalOf(rewards') = TotalOf(rewards)
    <3>1. \A r \in S : rewards'[r].total = rewards[r].total
      BY <1>8, <1>11 DEF S, Rewarded, old
    <3> QED
      BY <1>13, <3>1 DEF TotalOf, S
  <2> QED
    BY <2>1 DEF CrowdloanInv, ClaimsAccounted, TotalOf
<1> DEFINE point == SatSub(now, vesting_block_start)
<1>21. ASSUME NEW r \in S
       PROVE  /\ rewards'[r].claimed <= rewards'[r].total
              /\ rewards'[r].claimed > 0 => rewards'[r].claimed <= Released(rewards'[r], point)
  <2> HIDE DEF point
  <2>1. CASE r = remote
    BY <1>2, <1>8, <1>9, <1>11, <2>1 DEF point
  <2>2. CASE r # remote
    <3>1. rewards'[r] = rewards[r]
      BY <1>11, <2>2 DEF S, Rewarded
    <3>2. EntriesWithin(rewards, vesting_block_start, point)
      BY AccountedParts DEF CrowdloanInv, point
    <3> QED
      BY <3>1, <3>2 DEF EntriesWithin, S
  <2> QED
    BY <2>1, <2>2
<1>22. EntriesWithin(rewards', vesting_block_start', point)
  <2> HIDE DEF point
  <2> QED
    BY <1>13, <1>21 DEF EntriesWithin
<1>23. point = SatSub(now', vesting_block_start')
  OBVIOUS
<1>24. ClaimsAccounted'
  BY <1>19, <1>20, <1>22, <1>23 DEF ClaimsAccounted, ClaimedOf, TotalOf, EntriesWithin,
       ShouldHaveClaimed, Released, Window
<1> QED
  BY <1>12, <1>24

LEMMA CrowdloanBlockKeeps ==
    ASSUME CrowdloanInv, CrowdloanBlock
    PROVE  CrowdloanInv'
<1>1. /\ now \in Nat /\ now' = now + 1 /\ rewards' = rewards
      /\ total_rewards' = total_rewards /\ claimed_rewards' = claimed_rewards
      /\ vesting_block_start' = vesting_block_start /\ associations' = associations
  BY DEF CrowdloanInv, CrowdloanTypeOK, CrowdloanBlock, NextBlock, crowdloanVars
<1>2. CrowdloanTypeOK' /\ AssociatedStarted'
  BY <1>1 DEF CrowdloanInv, CrowdloanTypeOK, AssociatedStarted
<1> DEFINE x == SatSub(now, vesting_block_start)
           y == SatSub(now + 1, vesting_block_start)
<1>3. ASSUME NEW r \in Rewarded(rewards)
      PROVE  /\ rewards[r].claimed <= rewards[r].total
             /\ rewards[r].claimed > 0 =>
                   vesting_block_start # NotStarted /\ rewards[r].claimed <= Released(rewards[r], y)
  <2>1. /\ rewards[r].claimed <= rewards[r].total
        /\ rewards[r].claimed > 0 =>
              vesting_block_start # NotStarted /\ rewards[r].claimed <= Released(rewards[r], x)
    BY AccountedParts DEF CrowdloanInv, EntriesWithin
  <2>2. rewards[r] \in RewardType /\ rewards[r].claimed \in Nat
    BY DEF CrowdloanInv, CrowdloanTypeOK, Rewarded, RewardType
  <2>3. ASSUME vesting_block_start # NotStarted PROVE x \in Nat /\ y \in Nat /\ x <= y
    BY <1>1, <2>3 DEF CrowdloanInv, CrowdloanTypeOK, SatSub
  <2> HIDE DEF x, y
  <2>4. ASSUME vesting_block_start # NotStarted
        PROVE  /\ Released(rewards[r], x) \in Nat /\ Released(rewards[r], y) \in Nat
               /\ Released(rewards[r], x) <= Released(rewards[r], y)
    <3>1. x \in Nat /\ y \in Nat /\ x <= y /\ y <= y
      BY <2>3, <2>4
    <3> QED
      BY <2>2, <3>1, ReleasedFacts
  <2> QED
    BY <2>1, <2>2, <2>4
<1>4. EntriesWithin(rewards, vesting_block_start, y)
  BY <1>3 DEF EntriesWithin
<1>5. /\ claimed_rewards = SumFunction(ClaimedOf(rewards))
      /\ total_rewards = SumFunction(TotalOf(rewards))
  BY AccountedParts DEF CrowdloanInv
<1>6. y = SatSub(now', vesting_block_start')
  BY <1>1
<1> HIDE DEF y
<1>7. ClaimsAccounted'
  <2>1. /\ claimed_rewards' = SumFunction(ClaimedOf(rewards'))
        /\ total_rewards' = SumFunction(TotalOf(rewards'))
        /\ EntriesWithin(rewards', vesting_block_start', SatSub(now', vesting_block_start'))
    BY <1>1, <1>4, <1>5, <1>6
  <2> QED
    BY <2>1 DEF ClaimsAccounted, ClaimedOf, TotalOf, EntriesWithin,
         ShouldHaveClaimed, Released, Window
<1> QED
  BY <1>2, <1>7 DEF CrowdloanInv

LEMMA AssociateKeeps ==
    ASSUME CrowdloanInv, NEW who \in Claimants, NEW remote \in Remotes, Associate(who, remote)
    PROVE  CrowdloanInv'
<1>1. /\ vesting_block_start # NotStarted /\ ClaimInto(remote, who) /\ now' = now
      /\ vesting_block_start' = vesting_block_start /\ total_rewards' = total_rewards
      /\ associations' = [associations EXCEPT ![who] = remote]
  BY DEF Associate, ValidAssociation
<1>2. ClaimsAccounted' /\ rewards' \in [Remotes -> RewardType \cup {NoReward}]
  BY <1>1, ClaimIntoKeeps
<1>3. CrowdloanTypeOK' /\ AssociatedStarted'
  BY <1>1, <1>2 DEF CrowdloanInv, CrowdloanTypeOK, AssociatedStarted
<1> QED
  BY <1>2, <1>3 DEF CrowdloanInv

LEMMA ClaimRewardKeeps ==
    ASSUME CrowdloanInv, NEW who \in Claimants, ClaimReward(who)
    PROVE  CrowdloanInv'
<1> DEFINE remote == associations[who]
<1>1. /\ remote # NoRemote /\ ClaimInto(remote, who) /\ now' = now
      /\ vesting_block_start' = vesting_block_start /\ total_rewards' = total_rewards
      /\ associations' = associations
  BY DEF ClaimReward
<1>2. remote \in Remotes /\ vesting_block_start # NotStarted
  BY <1>1 DEF CrowdloanInv, CrowdloanTypeOK, AssociatedStarted
<1> HIDE DEF remote
<1>3. ClaimsAccounted' /\ rewards' \in [Remotes -> RewardType \cup {NoReward}]
  BY <1>1, <1>2, ClaimIntoKeeps
<1>4. CrowdloanTypeOK' /\ AssociatedStarted'
  BY <1>1, <1>3 DEF CrowdloanInv, CrowdloanTypeOK, AssociatedStarted
<1> QED
  BY <1>3, <1>4 DEF CrowdloanInv

(* The crowdloan pallet pays what its entries say: the totals are the sums *)
(* over the contributors, and no entry exceeds its reward or what has      *)
(* vested of it, for every reward list, vesting step and initial payment   *)
(* (populate, initialize, associate, claim).                               *)
THEOREM ClaimsStayAccounted == CrowdloanSpec => []ClaimsAccounted
<1>1. ChainInit /\ CrowdloanInit => CrowdloanInv
  BY CrowdloanStarts
<1>2. CrowdloanInv /\ [CrowdloanNext]_<<now, ledger, crowdloanVars>> => CrowdloanInv'
  <2> SUFFICES ASSUME CrowdloanInv, [CrowdloanNext]_<<now, ledger, crowdloanVars>>
               PROVE  CrowdloanInv'
    OBVIOUS
  <2>1. CASE \E at \in StartBlocks \cup {now} : InitializeAt(at)
    BY <2>1, InitializeKeeps
  <2>2. CASE \E list \in RewardLists : Populate(list)
    BY <2>2, PopulateKeeps
  <2>3. CASE \E who \in Claimants, remote \in Remotes : Associate(who, remote)
    BY <2>3, AssociateKeeps
  <2>4. CASE \E who \in Claimants : ClaimReward(who)
    BY <2>4, ClaimRewardKeeps
  <2>5. CASE CrowdloanBlock
    BY <2>5, CrowdloanBlockKeeps
  <2>6. CASE UNCHANGED <<now, ledger, crowdloanVars>>
    BY <2>6 DEF CrowdloanInv, CrowdloanTypeOK, AssociatedStarted, ClaimsAccounted,
         ShouldHaveClaimed, Upfront, crowdloanVars
  <2> QED
    BY <2>1, <2>2, <2>3, <2>4, <2>5, <2>6 DEF CrowdloanNext
<1>3. CrowdloanInv => ClaimsAccounted
  BY DEF CrowdloanInv
<1> QED
  BY <1>1, <1>2, <1>3, PTL DEF CrowdloanSpec

-----------------------------------------------------------------------------
(* What is issued of an asset.                                             *)

Totals(l, a) == [who \in Accounts |-> TotalBalance(l, a, who)]

LEMMA IssuanceIs ==
    ASSUME NEW l \in Ledger, NEW a \in AssetIds
    PROVE  /\ Issuance(l, a) = SumFunctionOnSet(Totals(l, a), Accounts)
           /\ Issuance(l, a) \in Nat
           /\ \A w \in Accounts : /\ Totals(l, a)[w] = TotalBalance(l, a, w)
                                   /\ TotalBalance(l, a, w) \in Nat
<1>1. DOMAIN Totals(l, a) = Accounts /\ IsFiniteSet(Accounts)
  BY VaultTypes DEF Totals
<1>2. Issuance(l, a) = SumFunctionOnSet(Totals(l, a), Accounts)
  BY <1>1 DEF Issuance, SumFunction, Totals
<1>3. \A w \in Accounts : Totals(l, a)[w] = TotalBalance(l, a, w) /\ TotalBalance(l, a, w) \in Nat
  <2> TAKE w \in Accounts
  <2>1. l[a][w].free \in Nat /\ l[a][w].reserved \in Nat
    BY LedgerEntries
  <2> QED
    BY <2>1 DEF Totals, TotalBalance
<1>4. \A w \in Accounts : Totals(l, a)[w] \in Nat
  BY <1>3
<1>5. SumFunctionOnSet(Totals(l, a), Accounts) \in Nat
  BY <1>1, <1>4, SumType
<1> QED
  BY <1>2, <1>3, <1>5

(* The ledgers l and m differ in the holdings of one account only.         *)
LEMMA IssuanceChange ==
    ASSUME NEW l \in Ledger, NEW m \in Ledger, NEW a \in AssetIds, NEW who \in Accounts,
           \A w \in Accounts : w # who => m[a][w] = l[a][w]
    PROVE  Issuance(m, a) = Issuance(l, a) - TotalBalance(l, a, who) + TotalBalance(m, a, who)
<1> DEFINE f == Totals(l, a)
           g == Totals(m, a)
<1>1. IsFiniteSet(Accounts)
  BY VaultTypes
<1>2. /\ Issuance(l, a) = SumFunctionOnSet(f, Accounts)
      /\ \A w \in Accounts : f[w] = TotalBalance(l, a, w) /\ TotalBalance(l, a, w) \in Nat
  BY IssuanceIs
<1>3. /\ Issuance(m, a) = SumFunctionOnSet(g, Accounts)
      /\ \A w \in Accounts : g[w] = TotalBalance(m, a, w) /\ TotalBalance(m, a, w) \in Nat
  BY IssuanceIs
<1>4. \A w \in Accounts : f[w] \in Int /\ g[w] \in Int
  BY <1>2, <1>3
<1>5. \A w \in Accounts \ {who} : f[w] = g[w]
  BY <1>2, <1>3 DEF TotalBalance
<1>6. f[who] = TotalBalance(l, a, who) /\ g[who] = TotalBalance(m, a, who)
  BY <1>2, <1>3
<1> HIDE DEF f, g
<1>7. SumFunctionOnSet(g, Accounts) = SumFunctionOnSet(f, Accounts) - f[who] + g[who]
  BY <1>1, <1>4, <1>5, SumChange
<1> QED
  BY <1>2, <1>3, <1>6, <1>7

LEMMA IssuanceSame ==
    ASSUME NEW l \in Ledger, NEW m \in Ledger, NEW a \in AssetIds,
           \A w \in Accounts : m[a][w] = l[a][w]
    PROVE  Issuance(m, a) = Issuance(l, a)
<1> DEFINE f == Totals(l, a)
           g == Totals(m, a)
<1>1. Issuance(l, a) = SumFunctionOnSet(f, Accounts) /\ Issuance(m, a) = SumFunctionOnSet(g, Accounts)
  BY IssuanceIs
<1>2. \A w \in Accounts : f[w] = g[w]
  BY DEF Totals, TotalBalance
<1> HIDE DEF f, g
<1> QED
  BY <1>1, <1>2, VaultTypes, SumSame

-----------------------------------------------------------------------------
(* The totals of accounts after a deposit, a withdrawal and a transfer.    *)

LEMMA DepositTotal ==
    ASSUME NEW l \in Ledger, NEW a \in AssetIds, NEW who \in Accounts, NEW n \in Nat
    PROVE  TotalBalance(Deposit(l, a, who, n), a, who) = TotalBalance(l, a, who) + n
<1>1. Deposit(l, a, who, n)[a][who] = [l[a][who] EXCEPT !.free = @ + n]
  BY DEF Deposit, Ledger, Entry
<1> QED
  BY <1>1, LedgerEntries DEF TotalBalance, Entry

LEMMA WithdrawTotal ==
    ASSUME NEW l \in Ledger, NEW a \in AssetIds, NEW who \in Accounts, NEW n \in Nat,
           Unlocked(l, a, who, n)
    PROVE  /\ TotalBalance(Withdraw(l, a, who, n), a, who) <= TotalBalance(l, a, who) - n
           /\ TotalBalance(l, a, who) - n >= MinimumBalance[a]
                 => /\ TotalBalance(Withdraw(l, a, who, n), a, who) = TotalBalance(l, a, who) - n
                    /\ Withdraw(l, a, who, n)[a][who].free = l[a][who].free - n
<1> DEFINE e == l[a][who]
           new == IF TotalBalance(l, a, who) - n < MinimumBalance[a] THEN NoFunds
                  ELSE [e EXCEPT !.free = e.free - n]
<1>1. /\ e \in Entry /\ e.free \in Nat /\ e.reserved \in Nat /\ e.frozen \in Nat
      /\ MinimumBalance[a] \in Nat /\ TotalBalance(l, a, who) = e.free + e.reserved
      /\ e.free - n >= e.frozen
  BY LedgerEntries, ChainTypes DEF TotalBalance, Unlocked
<1>2. Withdraw(l, a, who, n)[a][who] = new
  BY DEF Withdraw, Ledger
<1>3. NoFunds.free = 0 /\ NoFunds.reserved = 0
  BY DEF NoFunds
<1> HIDE DEF e
<1>4. /\ [e EXCEPT !.free = e.free - n].free = e.free - n
      /\ [e EXCEPT !.free = e.free - n].reserved = e.reserved
  BY <1>1 DEF Entry
<1> QED
  BY <1>1, <1>2, <1>3, <1>4 DEF TotalBalance, e

(* What a transfer that keeps its payer alive moves is neither created nor *)
(* lost.                                                                   *)
Alive(l, a, who, n) == TotalBalance(l, a, who) - n >= MinimumBalance[a]

LEMMA TransferTotals ==
    ASSUME NEW l \in Ledger, NEW a \in AssetIds, NEW from \in Accounts, NEW to \in Accounts,
           NEW n \in Nat, n # 0, from # to, Unlocked(l, a, from, n), Alive(l, a, from, n)
    PROVE  /\ Transfer(l, a, from, to, n) \in Ledger
           /\ TotalBalance(Transfer(l, a, from, to, n), a, to) = TotalBalance(l, a, to) + n
           /\ TotalBalance(Transfer(l, a, from, to, n), a, from) = TotalBalance(l, a, from) - n
           /\ Transfer(l, a, from, to, n)[a][from].free = l[a][from].free - n
           /\ \A b \in AssetIds, w \in Accounts :
                 b # a \/ w \notin {from, to} => Transfer(l, a, from, to, n)[b][w] = l[b][w]
           /\ \A b \in AssetIds : Issuance(Transfer(l, a, from, to, n), b) = Issuance(l, b)
<1> DEFINE k == Withdraw(l, a, from, n)
           m == Deposit(k, a, to, n)
<1>1. Transfer(l, a, from, to, n) = m
  BY DEF Transfer
<1>2. /\ k \in Ledger
      /\ \A b \in AssetIds, w \in Accounts : b # a \/ w # from => k[b][w] = l[b][w]
      /\ TotalBalance(k, a, from) = TotalBalance(l, a, from) - n
      /\ k[a][from].free = l[a][from].free - n
  BY WithdrawFacts, WithdrawTotal DEF Alive
<1> HIDE DEF k
<1>3. /\ m \in Ledger
      /\ \A b \in AssetIds, w \in Accounts : b # a \/ w # to => m[b][w] = k[b][w]
      /\ TotalBalance(m, a, to) = TotalBalance(k, a, to) + n
  BY <1>2, DepositFacts, DepositTotal
<1> HIDE DEF m
<1>4. /\ TotalBalance(k, a, to) = TotalBalance(l, a, to)
      /\ TotalBalance(m, a, from) = TotalBalance(k, a, from)
      /\ m[a][from] = k[a][from]
  BY <1>2, <1>3 DEF TotalBalance
<1>5. ASSUME NEW b \in AssetIds PROVE Issuance(m, b) = Issuance(l, b)
  <2>1. CASE b # a
    <3>1. \A w \in Accounts : m[b][w] = l[b][w]
      BY <1>2, <1>3, <2>1
    <3> QED
      BY <1>3, <3>1, IssuanceSame
  <2>2. CASE b = a
    <3>1. \A w \in Accounts : w # from => k[a][w] = l[a][w]
      BY <1>2
    <3>2. Issuance(k, a) = Issuance(l, a) - TotalBalance(l, a, from) + TotalBalance(k, a, from)
      BY <1>2, <3>1, IssuanceChange
    <3>3. \A w \in Accounts : w # to => m[a][w] = k[a][w]
      BY <1>3
    <3>4. Issuance(m, a) = Issuance(k, a) - TotalBalance(k, a, to) + TotalBalance(m, a, to)
      BY <1>2, <1>3, <3>3, IssuanceChange
    <3>5. /\ TotalBalance(l, a, from) \in Nat /\ TotalBalance(l, a, to) \in Nat
          /\ Issuance(l, a) \in Nat /\ TotalBalance(k, a, to) \in Nat
      BY <1>2, IssuanceIs
    <3> QED
      BY <1>2, <1>3, <2>2, <3>2, <3>4, <3>5
  <2> QED
    BY <2>1, <2>2
<1> QED
  BY <1>1, <1>2, <1>3, <1>4, <1>5

(* A transfer as the pallet makes it, with or without keep_alive.          *)
KeepsAlive(l, a, from, to, n) == CanTransfer(l, a, from, to, n, TRUE)
MayDie(l, a, from, to, n) == CanTransfer(l, a, from, to, n, FALSE)

LEMMA KeepAliveTransfer ==
    ASSUME NEW l \in Ledger, NEW a \in AssetIds, NEW from \in Accounts, NEW to \in Accounts,
           NEW n \in Nat, KeepsAlive(l, a, from, to, n)
    PROVE  /\ Transfer(l, a, from, to, n) \in Ledger
           /\ \A b \in AssetIds : Issuance(Transfer(l, a, from, to, n), b) = Issuance(l, b)
           /\ \A b \in AssetIds, w \in Accounts :
                 b # a \/ w \notin {from, to} => Transfer(l, a, from, to, n)[b][w] = l[b][w]
           /\ from # to =>
                 /\ TotalBalance(Transfer(l, a, from, to, n), a, to) = TotalBalance(l, a, to) + n
                 /\ TotalBalance(Transfer(l, a, from, to, n), a, from)
                       = TotalBalance(l, a, from) - n
                 /\ Transfer(l, a, from, to, n)[a][from].free = l[a][from].free - n
                 /\ Transfer(l, a, from, to, n)[a][to].free = l[a][to].free + n
<1>1. CASE n = 0 \/ from = to
  <2>1. Transfer(l, a, from, to, n) = l
    BY <1>1 DEF Transfer
  <2>2. /\ TotalBalance(l, a, to) \in Nat /\ TotalBalance(l, a, from) \in Nat
        /\ l[a][from].free \in Nat /\ l[a][to].free \in Nat
    BY IssuanceIs, LedgerEntries
  <2> QED
    BY <1>1, <2>1, <2>2
<1>2. CASE n # 0 /\ from # to
  <2>1. CanWithdraw(l, a, from, n, TRUE)
    BY <1>2 DEF KeepsAlive, CanTransfer
  <2>2. l[a][from].free \in Nat /\ l[a][from].reserved \in Nat
    BY LedgerEntries
  <2>3. Unlocked(l, a, from, n) /\ Alive(l, a, from, n)
    BY <2>1, <2>2, ChainTypes DEF CanWithdraw, Unlocked, Alive, TotalBalance
  <2>4. Transfer(l, a, from, to, n)[a][to].free = l[a][to].free + n
    BY <1>2, <2>3, TransferFacts
  <2> QED
    BY <1>2, <2>3, <2>4, TransferTotals
<1> QED
  BY <1>1, <1>2

LEMMA AllowDeathTransfer ==
    ASSUME NEW l \in Ledger, NEW a \in AssetIds, NEW from \in Accounts, NEW to \in Accounts,
           NEW n \in Nat, MayDie(l, a, from, to, n)
    PROVE  /\ Transfer(l, a, from, to, n) \in Ledger
           /\ \A b \in AssetIds :
                 b # a => Issuance(Transfer(l, a, from, to, n), b) = Issuance(l, b)
           /\ \A b \in AssetIds, w \in Accounts :
                 b # a \/ w \notin {from, to} => Transfer(l, a, from, to, n)[b][w] = l[b][w]
           /\ from # to => Transfer(l, a, from, to, n)[a][to].free = l[a][to].free + n
<1> DEFINE m == Transfer(l, a, from, to, n)
<1>1. n = 0 \/ from = to \/ Unlocked(l, a, from, n)
  BY DEF MayDie, CanTransfer, CanWithdraw, Unlocked
<1>2. l[a][to].free \in Nat
  BY LedgerEntries
<1>3. /\ m \in Ledger
      /\ \A b \in AssetIds, w \in Accounts : b # a \/ w \notin {from, to} => m[b][w] = l[b][w]
      /\ from # to => m[a][to].free = l[a][to].free + n
  BY <1>1, <1>2, TransferFacts
<1> HIDE DEF m
<1>4. ASSUME NEW b \in AssetIds, b # a PROVE Issuance(m, b) = Issuance(l, b)
  <2>1. \A w \in Accounts : m[b][w] = l[b][w]
    BY <1>3, <1>4
  <2> QED
    BY <1>3, <2>1, IssuanceSame
<1> QED
  BY <1>3, <1>4 DEF m

-----------------------------------------------------------------------------
(* The inductive invariant.                                                *)

(* The vault v with this id has the share token that was made for it, and  *)
(* what it lives on is in its rent account; the deposit was dated in the   *)
(* past, and that of a tombstoned vault not before it was tombstoned.      *)
Sound(id, v, rent, time, tomb) ==
    v # NoVault =>
        /\ v.lp_token_id = LpTokens[id]
        /\ v.deposit # Existential =>
              /\ v.deposit.amount <= rent
              /\ v.deposit.at <= time
              /\ Tombstoned(v) => tomb <= v.deposit.at

RentHeld(id) == ledger[NativeAsset][RentAccount(id)].free

VaultSound(id) == Sound(id, vaults[id], RentHeld(id), now, tombstonedAt[id])

VaultBooksOK ==
    /\ now \in Nat
    /\ ledger \in Ledger
    /\ VaultTypeOK
    /\ tombstonedAt \in [VaultIds -> Nat]

VaultInv == VaultBooksOK /\ \A id \in VaultIds : VaultSound(id)

Structures == [VaultIds -> [Strategists -> StrategyOverview \cup {NoStrategy}]]

LEMMA VaultParts ==
    ASSUME VaultBooksOK, NEW id \in VaultIds, Exists(id)
    PROVE  /\ vaults[id] \in VaultInfo
           /\ vaults[id].asset_id \in AssetIds /\ vaults[id].lp_token_id \in AssetIds
           /\ vaults[id].manager \in Accounts /\ vaults[id].deposit \in DepositType
           /\ vaults[id].capabilities \in SUBSET Flags
<1>1. vaults[id] \in VaultInfo
  BY DEF VaultBooksOK, VaultTypeOK, Exists
<1> QED
  BY <1>1 DEF VaultInfo

LEMMA VaultAccounts ==
    ASSUME NEW id \in VaultIds
    PROVE  /\ VaultAccount(id) \in Accounts /\ RentAccount(id) \in Accounts
           /\ DeletionAccount(id) \in Accounts
           /\ VaultAccount(id) \notin Users /\ RentAccount(id) \notin Users
           /\ DeletionAccount(id) \notin Users /\ RentAccount(id) \notin Strategists
<1>1. /\ VaultAccount(id) \in SubAccounts /\ RentAccount(id) \in SubAccounts
      /\ DeletionAccount(id) \in SubAccounts /\ RentAccount(id) \notin Strategists
  BY VaultTypes
<1> QED
  BY <1>1, ChainTypes DEF Accounts

LEMMA VaultNumbers ==
    /\ MaxVaults \in Nat /\ CreationDeposit \in Nat /\ TombstoneDuration \in Nat
    /\ RentPerBlock \in Nat /\ MinimumDeposit \in Nat /\ MinimumWithdrawal \in Nat
    /\ VaultExistentialDeposit \in Nat /\ One \in Nat /\ NativeAsset \in AssetIds
    /\ VaultDeposits \subseteq Nat /\ VaultAmounts \subseteq Nat /\ Reports \subseteq Nat
    /\ Strategists \subseteq Accounts /\ Users \subseteq Accounts
BY VaultTypes, ChainTypes DEF Accounts

LEMMA LpTokenFacts ==
    ASSUME NEW id \in VaultIds
    PROVE  LpTokens[id] \in AssetIds /\ LpTokens[id] # NativeAsset
BY VaultTypes

LEMMA RentApart ==
    ASSUME NEW i \in VaultIds, NEW id \in VaultIds, NEW who \in Users
    PROVE  /\ RentAccount(i) \in Accounts /\ RentAccount(i) # who
           /\ RentAccount(i) # VaultAccount(id) /\ RentAccount(i) # DeletionAccount(id)
           /\ RentAccount(i) = RentAccount(id) => i = id
<1>1. RentAccount(i) \in Accounts /\ RentAccount(i) \notin Users
  BY VaultAccounts
<1>2. /\ RentAccount(i) # VaultAccount(id) /\ RentAccount(i) # DeletionAccount(id)
      /\ RentAccount(i) = RentAccount(id) => i = id
  BY DEF RentAccount, VaultAccount, DeletionAccount
<1> QED
  BY <1>1, <1>2

(* What strategies hold is a number, and so is what shares are worth.      *)
LEMMA AumType ==
    ASSUME NEW l \in Ledger, NEW cs \in Structures, NEW id \in VaultIds,
           vaults[id].asset_id \in AssetIds
    PROVE  Aum(l, cs, id) \in Nat
<1> DEFINE f == [s \in Strategists |-> StrategyBalance(cs, id, s)]
<1>1. IsFiniteSet(Strategists)
  BY VaultTypes, FS_Subset
<1>2. \A s \in Strategists : f[s] \in Nat
  <2> TAKE s \in Strategists
  <2>1. cs[id][s] \in StrategyOverview \cup {NoStrategy}
    BY DEF Structures
  <2>2. StrategyBalance(cs, id, s) \in Nat
    BY <2>1 DEF StrategyBalance, StrategyOverview
  <2> QED
    BY <2>2
<1>3. DOMAIN f = Strategists
  OBVIOUS
<1>4. Aum(l, cs, id)
        = TotalBalance(l, vaults[id].asset_id, VaultAccount(id)) + SumFunctionOnSet(f, Strategists)
  BY <1>3 DEF Aum, SumFunction
<1> HIDE DEF f
<1>5. SumFunctionOnSet(f, Strategists) \in Nat
  BY <1>1, <1>2, SumType
<1>6. TotalBalance(l, vaults[id].asset_id, VaultAccount(id)) \in Nat
  BY VaultAccounts, IssuanceIs
<1> QED
  BY <1>4, <1>5, <1>6

(* What the vault's own account gains or loses its assets do.              *)
LEMMA AumChange ==
    ASSUME NEW l \in Ledger, NEW m \in Ledger, NEW cs \in Structures, NEW id \in VaultIds,
           vaults[id].asset_id \in AssetIds
    PROVE  Aum(m, cs, id) = Aum(l, cs, id)
              - TotalBalance(l, vaults[id].asset_id, VaultAccount(id))
              + TotalBalance(m, vaults[id].asset_id, VaultAccount(id))
<1> DEFINE q == SumFunction([s \in Strategists |-> StrategyBalance(cs, id, s)])
           x == TotalBalance(l, vaults[id].asset_id, VaultAccount(id))
           y == TotalBalance(m, vaults[id].asset_id, VaultAccount(id))
<1>1. Aum(l, cs, id) = x + q /\ Aum(m, cs, id) = y + q
  BY DEF Aum
<1>2. x \in Nat /\ y \in Nat
  BY VaultAccounts, IssuanceIs
<1>3. q \in Int
  <2> DEFINE f == [s \in Strategists |-> StrategyBalance(cs, id, s)]
  <2>1. IsFiniteSet(Strategists)
    BY VaultTypes, FS_Subset
  <2>2. \A s \in Strategists : f[s] \in Int
    <3> TAKE s \in Strategists
    <3>1. cs[id][s] \in StrategyOverview \cup {NoStrategy}
      BY DEF Structures
    <3>2. StrategyBalance(cs, id, s) \in Int
      BY <3>1 DEF StrategyBalance, StrategyOverview
    <3> QED
      BY <3>2
  <2>3. q = SumFunctionOnSet(f, Strategists)
    <3>1. DOMAIN f = Strategists
      OBVIOUS
    <3> QED
      BY <3>1 DEF SumFunction
  <2> HIDE DEF f, q
  <2>4. SumFunctionOnSet(f, Strategists) \in Int
    BY <2>1, <2>2, SumType
  <2> QED
    BY <2>3, <2>4
<1> HIDE DEF q, x, y
<1>4. Aum(m, cs, id) = Aum(l, cs, id) - x + y
  BY <1>1, <1>2, <1>3
<1> QED
  BY <1>4 DEF x, y

LEMMA MulDivFacts ==
    ASSUME NEW a \in Nat, NEW b \in Nat, NEW c \in Nat
    PROVE  /\ MulDiv(a, b, c) \in Nat
           /\ c # 0 => c * MulDiv(a, b, c) <= a * b
<1> DEFINE p == GreaterOf(c, 1)
<1>1. p \in Nat \ {0} /\ (c # 0 => p = c)
  BY DEF GreaterOf
<1> HIDE DEF p
<1>2. a * b \in Nat
  OBVIOUS
<1>3. (a * b) \div p \in Nat /\ p * ((a * b) \div p) <= a * b
  BY <1>1, <1>2, QuotientType
<1>4. MulDiv(a, b, c) = (a * b) \div p
  BY DEF MulDiv, p
<1> QED
  BY <1>1, <1>3, <1>4

LEMMA DepositParts ==
    ASSUME NEW v \in VaultInfo, v.deposit # Existential
    PROVE  /\ v.deposit \in [amount: Nat, at: Nat]
           /\ v.deposit.amount \in Nat /\ v.deposit.at \in Nat
BY DEF VaultInfo, DepositType

LEMMA SoundMore ==
    ASSUME NEW id \in VaultIds, NEW v \in VaultInfo \cup {NoVault}, NEW rent \in Nat,
           NEW more \in Nat, NEW time \in Nat, NEW later \in Nat, NEW tomb \in Nat,
           Sound(id, v, rent, time, tomb), rent <= more, time <= later
    PROVE  Sound(id, v, more, later, tomb)
<1> SUFFICES ASSUME v # NoVault, v.deposit # Existential
             PROVE  v.deposit.amount <= more /\ v.deposit.at <= later
  BY DEF Sound
<1>1. v.deposit.amount \in Nat /\ v.deposit.at \in Nat
  BY DepositParts
<1>2. v.deposit.amount <= rent /\ v.deposit.at <= time
  BY DEF Sound
<1> QED
  BY <1>1, <1>2

LEMMA RentHeldType ==
    ASSUME VaultBooksOK, NEW id \in VaultIds
    PROVE  RentHeld(id) \in Nat
BY VaultAccounts, VaultNumbers, LedgerEntries DEF VaultBooksOK, RentHeld

(* A vault that a call does not write, and whose rent account loses        *)
(* nothing.                                                                *)
LEMMA SoundAlone ==
    ASSUME VaultInv, VaultBooksOK', now <= now', NEW i \in VaultIds,
           vaults'[i] = vaults[i], tombstonedAt'[i] = tombstonedAt[i],
           RentHeld(i) <= RentHeld(i)'
    PROVE  VaultSound(i)'
<1>1. VaultBooksOK /\ VaultSound(i)
  BY DEF VaultInv
<1>2. RentHeld(i) \in Nat /\ RentHeld(i)' \in Nat
  <2>1. RentHeld(i) \in Nat
    BY <1>1, RentHeldType
  <2>2. RentHeld(i)' \in Nat
    BY VaultAccounts, VaultNumbers, LedgerEntries DEF VaultBooksOK, RentHeld
  <2> QED
    BY <2>1, <2>2
<1>3. /\ now \in Nat /\ now' \in Nat /\ tombstonedAt[i] \in Nat
      /\ vaults[i] \in VaultInfo \cup {NoVault}
  BY <1>1 DEF VaultBooksOK, VaultTypeOK
<1>4. Sound(i, vaults[i], RentHeld(i), now, tombstonedAt[i])
  BY <1>1 DEF VaultSound
<1>5. PICK more \in Nat : more = RentHeld(i)'
  BY <1>2
<1>6. PICK later \in Nat : later = now'
  BY <1>3
<1>7. RentHeld(i) <= more /\ now <= later
  BY <1>5, <1>6
<1>8. Sound(i, vaults[i], more, later, tombstonedAt[i])
  BY <1>2, <1>3, <1>4, <1>7, SoundMore
<1> QED
  BY <1>5, <1>6, <1>8 DEF VaultSound

LEMMA VaultsAlone ==
    ASSUME VaultInv, VaultBooksOK', now <= now', vaults' = vaults,
           tombstonedAt' = tombstonedAt,
           \A i \in VaultIds : RentHeld(i) <= RentHeld(i)'
    PROVE  VaultInv'
<1>1. ASSUME NEW i \in VaultIds PROVE VaultSound(i)'
  BY SoundAlone
<1> QED
  BY <1>1 DEF VaultInv

LEMMA OneVault ==
    ASSUME VaultInv, VaultBooksOK', now' = now, NEW id \in VaultIds,
           \A i \in VaultIds \ {id} :
              /\ vaults'[i] = vaults[i] /\ tombstonedAt'[i] = tombstonedAt[i]
              /\ RentHeld(i) <= RentHeld(i)',
           VaultSound(id)'
    PROVE  VaultInv'
<1>1. now <= now'
  BY DEF VaultInv, VaultBooksOK
<1>2. ASSUME NEW i \in VaultIds, i # id PROVE VaultSound(i)'
  BY <1>1, <1>2, SoundAlone
<1> QED
  BY <1>2 DEF VaultInv

-----------------------------------------------------------------------------
(* Shares: neither what is minted nor what is burnt lowers the value of    *)
(* the others.                                                             *)

ShareValueStep ==
    \A id \in VaultIds :
        LET before == Issuance(ledger, LpTokens[id])
            after  == Issuance(ledger', LpTokens[id])
        IN Exists(id) /\ before # after
              => Aum(ledger', capital_structure', id) * before
                    >= Aum(ledger, capital_structure, id) * after

LEMMA SharesAlone ==
    ASSUME \A id \in VaultIds : Issuance(ledger', LpTokens[id]) = Issuance(ledger, LpTokens[id])
    PROVE  ShareValueStep
BY DEF ShareValueStep

(* lp shares for a deposit of n, or n paid for lp shares, rounded down.    *)
LEMMA DepositRounds ==
    ASSUME NEW aum \in Nat, NEW issued \in Nat, NEW n \in Nat, NEW lp \in Nat,
           aum * lp <= n * issued
    PROVE  (aum + n) * issued >= aum * (issued + lp)
<1>1. /\ (aum + n) * issued = aum * issued + n * issued
      /\ aum * (issued + lp) = aum * issued + aum * lp
      /\ aum * issued \in Nat /\ n * issued \in Nat /\ aum * lp \in Nat
  OBVIOUS
<1> QED
  BY <1>1

LEMMA WithdrawRounds ==
    ASSUME NEW aum \in Nat, NEW issued \in Nat, NEW n \in Nat, NEW lp \in Nat,
           NEW after \in Nat, after <= issued - lp, issued * n <= lp * aum
    PROVE  (aum - n) * issued >= aum * after
<1>1. PICK d \in Nat : issued = after + lp + d
  <2>1. issued - lp - after \in Nat /\ issued = after + lp + (issued - lp - after)
    OBVIOUS
  <2> QED
    BY <2>1
<1>2. aum * issued = aum * after + aum * lp + aum * d
  BY <1>1
<1>3. (aum - n) * issued = aum * issued - issued * n
  OBVIOUS
<1>4. /\ aum * lp = lp * aum /\ lp * aum \in Nat /\ aum * d \in Nat
      /\ aum * after \in Nat /\ issued * n \in Nat
  OBVIOUS
<1> QED
  BY <1>2, <1>3, <1>4

LEMMA DepositVaultKeeps ==
    ASSUME VaultInv, NEW who \in Users, NEW id \in VaultIds, NEW n \in Nat,
           DepositVault(who, id, n)
    PROVE  VaultInv' /\ ShareValueStep
<1> DEFINE v == vaults[id]
           a == v.asset_id
           t == v.lp_token_id
           acc == VaultAccount(id)
           aum == Aum(ledger, capital_structure, id)
           issued == Issuance(ledger, t)
           lp == LpForDeposit(ledger, capital_structure, id, n)
           moved == Transfer(ledger, a, who, acc, n)
<1>1. /\ VaultBooksOK /\ ledger \in Ledger /\ now \in Nat /\ VaultTypeOK
      /\ capital_structure \in Structures /\ Exists(id)
  BY DEF VaultInv, VaultBooksOK, VaultTypeOK, Structures, DepositVault
<1>2. /\ a \in AssetIds /\ t \in AssetIds /\ t = LpTokens[id]
  BY <1>1, VaultParts DEF VaultInv, VaultSound, Sound, Exists
<1>3. /\ who \in Accounts /\ acc \in Accounts /\ who # acc
  BY VaultAccounts, VaultNumbers
<1>4. aum \in Nat /\ issued \in Nat
  BY <1>1, <1>2, AumType, IssuanceIs
<1>5. lp = IF aum = 0 THEN n ELSE MulDiv(n, issued, aum)
  BY DEF LpForDeposit
<1>6. /\ KeepsAlive(ledger, a, who, acc, n)
      /\ ledger' = Deposit(moved, t, who, lp)
      /\ now' = now /\ vault_count' = vault_count /\ vaults' = vaults
      /\ lp_tokens_to_vaults' = lp_tokens_to_vaults
      /\ capital_structure' = capital_structure /\ tombstonedAt' = tombstonedAt
  BY DEF DepositVault, KeepsAlive, Mint, vaultVars
<1> HIDE DEF a, t, acc, aum, issued, lp, moved
<1>7. lp \in Nat /\ aum * lp <= n * issued
  <2>1. CASE aum = 0
    <3>1. lp = n /\ 0 * lp = 0 /\ n * issued \in Nat
      BY <1>4, <1>5, <2>1
    <3> QED
      BY <2>1, <3>1
  <2>2. CASE aum # 0
    BY <1>4, <1>5, <2>2, MulDivFacts
  <2> QED
    BY <2>1, <2>2
<1>8. /\ moved \in Ledger
      /\ \A b \in AssetIds : Issuance(moved, b) = Issuance(ledger, b)
      /\ \A b \in AssetIds, w \in Accounts :
            b # a \/ w \notin {who, acc} => moved[b][w] = ledger[b][w]
      /\ TotalBalance(moved, a, acc) = TotalBalance(ledger, a, acc) + n
  BY <1>1, <1>2, <1>3, <1>6, KeepAliveTransfer DEF moved
<1>9. /\ ledger' \in Ledger
      /\ \A b \in AssetIds, w \in Accounts : b # t \/ w # who => ledger'[b][w] = moved[b][w]
      /\ TotalBalance(ledger', t, who) = TotalBalance(moved, t, who) + lp
  <2> DEFINE k == Deposit(moved, t, who, lp)
  <2>0. moved \in Ledger /\ t \in AssetIds /\ who \in Accounts /\ lp \in Nat
    BY <1>2, <1>3, <1>7, <1>8
  <2>1. /\ k \in Ledger
        /\ \A b \in AssetIds, w \in Accounts : b # t \/ w # who => k[b][w] = moved[b][w]
    BY <2>0, DepositFacts
  <2>2. TotalBalance(k, t, who) = TotalBalance(moved, t, who) + lp
    BY <2>0, DepositTotal
  <2>3. ledger' = k
    BY <1>6
  <2> HIDE DEF k
  <2> QED
    BY <2>1, <2>2, <2>3
<1>10. VaultBooksOK'
  BY <1>1, <1>6, <1>9 DEF VaultBooksOK, VaultTypeOK
<1>11. ASSUME NEW i \in VaultIds PROVE RentHeld(i) <= RentHeld(i)'
  <2>1. RentAccount(i) \in Accounts /\ RentAccount(i) \notin {who, acc}
    BY RentApart DEF acc
  <2>2. ledger'[NativeAsset][RentAccount(i)] = ledger[NativeAsset][RentAccount(i)]
    BY <1>8, <1>9, <2>1, VaultNumbers
  <2>3. RentHeld(i) \in Nat
    BY <1>1, RentHeldType
  <2> QED
    BY <2>2, <2>3 DEF RentHeld
<1>12. VaultInv'
  <2>1. now <= now'
    BY <1>1, <1>6
  <2> QED
    BY <1>6, <1>10, <1>11, <2>1, VaultsAlone
<1>13. \A b \in AssetIds : b # t => Issuance(ledger', b) = Issuance(ledger, b)
  <2> TAKE b \in AssetIds
  <2>1. b # t => \A w \in Accounts : ledger'[b][w] = moved[b][w]
    BY <1>9
  <2>2. b # t => Issuance(ledger', b) = Issuance(moved, b)
    BY <1>8, <1>9, <2>1, IssuanceSame
  <2> QED
    BY <1>8, <2>2
<1>14. Issuance(ledger', t) = issued + lp
  <2>1. \A w \in Accounts : w # who => ledger'[t][w] = moved[t][w]
    BY <1>2, <1>9
  <2>2. Issuance(ledger', t)
           = Issuance(moved, t) - TotalBalance(moved, t, who) + TotalBalance(ledger', t, who)
    BY <1>2, <1>3, <1>8, <1>9, <2>1, IssuanceChange
  <2>3. TotalBalance(moved, t, who) \in Nat /\ Issuance(moved, t) = issued
    BY <1>2, <1>3, <1>8, IssuanceIs DEF issued
  <2> QED
    BY <1>4, <1>7, <1>9, <2>2, <2>3
<1>15. Aum(ledger', capital_structure', id) = aum + n
  <2>1. ledger'[a][acc] = moved[a][acc]
    BY <1>2, <1>3, <1>9
  <2>2. TotalBalance(ledger', a, acc) = TotalBalance(ledger, a, acc) + n
    BY <1>8, <2>1 DEF TotalBalance
  <2>3. Aum(ledger', capital_structure, id) = aum - TotalBalance(ledger, a, acc)
                                                + TotalBalance(ledger', a, acc)
    BY <1>1, <1>2, <1>9, AumChange DEF aum, a, acc
  <2>4. TotalBalance(ledger, a, acc) \in Nat
    BY <1>1, <1>2, <1>3, IssuanceIs
  <2> QED
    BY <1>4, <1>6, <2>2, <2>3, <2>4
<1>16. (aum + n) * issued >= aum * (issued + lp)
  BY <1>4, <1>7, DepositRounds
<1>17. ASSUME NEW i \in VaultIds, Issuance(ledger, LpTokens[i]) # Issuance(ledger', LpTokens[i])
       PROVE  Aum(ledger', capital_structure', i) * Issuance(ledger, LpTokens[i])
                 >= Aum(ledger, capital_structure, i) * Issuance(ledger', LpTokens[i])
  <2>1. LpTokens[i] = t
    BY <1>13, <1>17, LpTokenFacts
  <2>2. i = id
    BY <1>2, <2>1, VaultTypes
  <2> QED
    BY <1>14, <1>15, <1>16, <2>1, <2>2 DEF aum, issued
<1> QED
  BY <1>12, <1>17 DEF ShareValueStep

LEMMA WithdrawVaultKeeps ==
    ASSUME VaultInv, NEW who \in Users, NEW id \in VaultIds, NEW lp \in Nat,
           WithdrawVault(who, id, lp)
    PROVE  VaultInv' /\ ShareValueStep
<1> DEFINE v == vaults[id]
           a == v.asset_id
           t == v.lp_token_id
           acc == VaultAccount(id)
           aum == Aum(ledger, capital_structure, id)
           issued == Issuance(ledger, t)
           value == LpShareValue(ledger, capital_structure, id, lp)
           burnt == Withdraw(ledger, t, who, lp)
<1>1. /\ VaultBooksOK /\ ledger \in Ledger /\ now \in Nat /\ VaultTypeOK
      /\ capital_structure \in Structures /\ Exists(id)
  BY DEF VaultInv, VaultBooksOK, VaultTypeOK, Structures, WithdrawVault
<1>2. /\ a \in AssetIds /\ t \in AssetIds /\ t = LpTokens[id]
  BY <1>1, VaultParts DEF VaultInv, VaultSound, Sound, Exists
<1>3. /\ who \in Accounts /\ acc \in Accounts /\ who # acc
  BY VaultAccounts, VaultNumbers
<1>4. aum \in Nat /\ issued \in Nat
  BY <1>1, <1>2, AumType, IssuanceIs
<1>5. value = MulDiv(lp, aum, issued)
  BY DEF LpShareValue
<1>6. lp # 0
  BY VaultNumbers DEF WithdrawVault
<1>7. /\ CanWithdraw(ledger, t, who, lp, FALSE)
      /\ ledger' = IF KeepsAlive(burnt, a, acc, who, value)
                   THEN Transfer(burnt, a, acc, who, value)
                   ELSE burnt
      /\ now' = now /\ vault_count' = vault_count /\ vaults' = vaults
      /\ lp_tokens_to_vaults' = lp_tokens_to_vaults
      /\ capital_structure' = capital_structure /\ tombstonedAt' = tombstonedAt
  BY <1>6 DEF WithdrawVault, KeepsAlive, Burn, vaultVars
<1> HIDE DEF a, t, acc, aum, issued, value, burnt
<1>8. value \in Nat /\ (issued # 0 => issued * value <= lp * aum)
  BY <1>4, <1>5, MulDivFacts
<1>9. Unlocked(ledger, t, who, lp)
  BY <1>7 DEF CanWithdraw, Unlocked
<1>10. /\ burnt \in Ledger
       /\ \A b \in AssetIds, w \in Accounts : b # t \/ w # who => burnt[b][w] = ledger[b][w]
       /\ TotalBalance(burnt, t, who) <= TotalBalance(ledger, t, who) - lp
  BY <1>1, <1>2, <1>3, <1>9, WithdrawFacts, WithdrawTotal DEF burnt
<1> DEFINE after == Issuance(burnt, t)
<1>11. after \in Nat /\ after <= issued - lp
  <2>1. \A w \in Accounts : w # who => burnt[t][w] = ledger[t][w]
    BY <1>2, <1>10
  <2>2. after = issued - TotalBalance(ledger, t, who) + TotalBalance(burnt, t, who)
    BY <1>1, <1>2, <1>3, <1>10, <2>1, IssuanceChange DEF issued
  <2>3. /\ TotalBalance(ledger, t, who) \in Nat /\ TotalBalance(burnt, t, who) \in Nat
        /\ after \in Nat
    BY <1>1, <1>2, <1>3, <1>10, IssuanceIs
  <2> HIDE DEF after
  <2> QED
    BY <1>4, <1>10, <2>2, <2>3
<1>12. issued # 0
  <2> HIDE DEF after
  <2> QED
    BY <1>4, <1>6, <1>11
<1>13. \A b \in AssetIds : b # t => Issuance(burnt, b) = Issuance(ledger, b)
  <2> TAKE b \in AssetIds
  <2>1. b # t => \A w \in Accounts : burnt[b][w] = ledger[b][w]
    BY <1>10
  <2> QED
    BY <1>1, <1>10, <2>1, IssuanceSame
<1>14. Aum(burnt, capital_structure, id) = aum
  <2>1. burnt[a][acc] = ledger[a][acc]
    BY <1>2, <1>3, <1>10
  <2>2. TotalBalance(burnt, a, acc) = TotalBalance(ledger, a, acc)
    BY <2>1 DEF TotalBalance
  <2>3. Aum(burnt, capital_structure, id) = aum - TotalBalance(ledger, a, acc)
                                              + TotalBalance(burnt, a, acc)
    BY <1>1, <1>2, <1>10, AumChange DEF aum, a, acc
  <2>4. TotalBalance(ledger, a, acc) \in Nat
    BY <1>1, <1>2, <1>3, IssuanceIs
  <2> QED
    BY <1>4, <2>2, <2>3, <2>4
(* what is paid: the value of the shares, or nothing                       *)
<1> DEFINE Paid(x) ==
              /\ ledger' \in Ledger
              /\ \A b \in AssetIds : Issuance(ledger', b) = Issuance(burnt, b)
              /\ \A b \in AssetIds, w \in Accounts :
                    w \notin {acc, who} => ledger'[b][w] = burnt[b][w]
              /\ TotalBalance(ledger', a, acc) = TotalBalance(burnt, a, acc) - x
<1>15. PICK x \in {0, value} : Paid(x)
  <2>1. CASE KeepsAlive(burnt, a, acc, who, value)
    <3>1. ledger' = Transfer(burnt, a, acc, who, value)
      BY <1>7, <2>1
    <3>2. Paid(value)
      BY <1>2, <1>3, <1>8, <1>10, <2>1, <3>1, KeepAliveTransfer
    <3> QED
      BY <3>2
  <2>2. CASE ~KeepsAlive(burnt, a, acc, who, value)
    <3>1. ledger' = burnt
      BY <1>7, <2>2
    <3>2. TotalBalance(burnt, a, acc) \in Nat
      BY <1>2, <1>3, <1>10, IssuanceIs
    <3>3. Paid(0)
      BY <1>10, <3>1, <3>2
    <3> QED
      BY <3>3
  <2> QED
    BY <2>1, <2>2
<1>16. x \in Nat /\ issued * x <= lp * aum
  <2>1. issued * 0 = 0 /\ lp * aum \in Nat
    BY <1>4
  <2> QED
    BY <1>8, <1>12, <2>1
<1>17. VaultBooksOK'
  BY <1>1, <1>7, <1>15 DEF VaultBooksOK, VaultTypeOK
<1>18. ASSUME NEW i \in VaultIds PROVE RentHeld(i) <= RentHeld(i)'
  <2>1. RentAccount(i) \in Accounts /\ RentAccount(i) \notin {acc, who}
    BY RentApart DEF acc
  <2>2. ledger'[NativeAsset][RentAccount(i)] = ledger[NativeAsset][RentAccount(i)]
    BY <1>10, <1>15, <2>1, VaultNumbers
  <2>3. RentHeld(i) \in Nat
    BY <1>1, RentHeldType
  <2> QED
    BY <2>2, <2>3 DEF RentHeld
<1>19. VaultInv'
  <2>1. now <= now'
    BY <1>1, <1>7
  <2> QED
    BY <1>7, <1>17, <1>18, <2>1, VaultsAlone
<1>20. Aum(ledger', capital_structure', id) = aum - x
  <2>1. Aum(ledger', capital_structure, id) = Aum(burnt, capital_structure, id)
           - TotalBalance(burnt, a, acc) + TotalBalance(ledger', a, acc)
    BY <1>1, <1>2, <1>10, <1>15, AumChange DEF a, acc
  <2>2. TotalBalance(burnt, a, acc) \in Nat
    BY <1>2, <1>3, <1>10, IssuanceIs
  <2> QED
    <3>1. TotalBalance(ledger', a, acc) = TotalBalance(burnt, a, acc) - x
      BY <1>15
    <3>2. capital_structure' = capital_structure
      BY <1>7
    <3> HIDE DEF Paid
    <3> QED
      BY <1>4, <1>14, <1>16, <2>1, <2>2, <3>1, <3>2
<1>21. (aum - x) * issued >= aum * after
  <2> HIDE DEF after
  <2> QED
    BY <1>4, <1>11, <1>16, WithdrawRounds
<1>22. ASSUME NEW i \in VaultIds, Issuance(ledger, LpTokens[i]) # Issuance(ledger', LpTokens[i])
       PROVE  Aum(ledger', capital_structure', i) * Issuance(ledger, LpTokens[i])
                 >= Aum(ledger, capital_structure, i) * Issuance(ledger', LpTokens[i])
  <2>1. LpTokens[i] = t
    BY <1>13, <1>15, <1>22, LpTokenFacts
  <2>2. i = id
    BY <1>2, <2>1, VaultTypes
  <2>3. Issuance(ledger', t) = after
    BY <1>2, <1>15
  <2> QED
    BY <1>20, <1>21, <2>1, <2>2, <2>3 DEF aum, issued
<1> QED
  BY <1>19, <1>22 DEF ShareValueStep

-----------------------------------------------------------------------------
(* Rent.                                                                   *)

LEMMA VaultWritten ==
    ASSUME VaultInv, NEW id \in VaultIds, NEW v \in VaultInfo \cup {NoVault},
           vaults' = [vaults EXCEPT ![id] = v], ledger' \in Ledger, now' = now,
           vault_count' \in 0..MaxVaults,
           lp_tokens_to_vaults' \in [AssetIds -> VaultIds \cup {NoVault}],
           capital_structure' \in Structures, tombstonedAt' \in [VaultIds -> Nat],
           \A i \in VaultIds \ {id} :
              /\ tombstonedAt'[i] = tombstonedAt[i] /\ RentHeld(i) <= RentHeld(i)',
           Sound(id, v, RentHeld(id)', now, tombstonedAt'[id])
    PROVE  VaultInv'
<1>1. now \in Nat /\ vaults \in [VaultIds -> VaultInfo \cup {NoVault}]
  BY DEF VaultInv, VaultBooksOK, VaultTypeOK
<1>2. /\ vaults' \in [VaultIds -> VaultInfo \cup {NoVault}] /\ vaults'[id] = v
      /\ \A i \in VaultIds \ {id} : vaults'[i] = vaults[i]
  BY <1>1
<1>3. VaultBooksOK'
  BY <1>1, <1>2 DEF VaultBooksOK, VaultTypeOK, Structures
<1>4. VaultSound(id)'
  BY <1>2 DEF VaultSound
<1> QED
  BY <1>2, <1>3, <1>4, OneVault

(* What the calls on the rent start from.                                  *)
LEMMA RentFacts ==
    ASSUME VaultInv, NEW id \in VaultIds, Exists(id), vaults[id].deposit # Existential
    PROVE  /\ vaults[id] \in VaultInfo
           /\ vaults[id].deposit.amount \in Nat /\ vaults[id].deposit.at \in Nat
           /\ vaults[id].deposit.at <= now /\ vaults[id].deposit.amount <= RentHeld(id)
           /\ vaults[id].lp_token_id = LpTokens[id]
           /\ Tombstoned(vaults[id]) => tombstonedAt[id] <= vaults[id].deposit.at
           /\ RentDue(vaults[id].deposit) \in Nat
           /\ RentHeld(id) \in Nat /\ now \in Nat /\ tombstonedAt[id] \in Nat
<1>1. VaultBooksOK /\ Sound(id, vaults[id], RentHeld(id), now, tombstonedAt[id])
  BY DEF VaultInv, VaultSound
<1>2. vaults[id] \in VaultInfo /\ vaults[id] # NoVault
  BY <1>1, VaultParts DEF Exists
<1>3. vaults[id].deposit.amount \in Nat /\ vaults[id].deposit.at \in Nat
  BY <1>2, DepositParts
<1>4. /\ vaults[id].deposit.at <= now /\ vaults[id].deposit.amount <= RentHeld(id)
      /\ vaults[id].lp_token_id = LpTokens[id]
      /\ Tombstoned(vaults[id]) => tombstonedAt[id] <= vaults[id].deposit.at
  BY <1>1, <1>2 DEF Sound
<1>5. RentHeld(id) \in Nat /\ now \in Nat /\ tombstonedAt[id] \in Nat
  BY <1>1, RentHeldType DEF VaultBooksOK
<1>6. RentDue(vaults[id].deposit) \in Nat
  <2> DEFINE t == now - vaults[id].deposit.at
  <2>1. t \in Nat /\ RentPerBlock \in Nat
    BY <1>3, <1>4, <1>5, VaultNumbers
  <2>2. RentDue(vaults[id].deposit) = RentPerBlock * t
    BY DEF RentDue
  <2> HIDE DEF t
  <2>3. RentPerBlock * t \in Nat
    BY <2>1
  <2> QED
    BY <2>2, <2>3
<1> QED
  BY <1>2, <1>3, <1>4, <1>5, <1>6

LEMMA NativeMoves ==
    ASSUME ledger \in Ledger, ledger' \in Ledger,
           \A b \in AssetIds : b # NativeAsset => Issuance(ledger', b) = Issuance(ledger, b)
    PROVE  ShareValueStep
BY LpTokenFacts, SharesAlone

(* A vault that is written to stays.                                       *)
NoneDeleted == \A id \in VaultIds : Exists(id) => vaults'[id] # NoVault

LEMMA WrittenStays ==
    ASSUME VaultInv, NEW id \in VaultIds, NEW v \in VaultInfo,
           vaults' = [vaults EXCEPT ![id] = v]
    PROVE  NoneDeleted
<1>1. vaults \in [VaultIds -> VaultInfo \cup {NoVault}]
  BY DEF VaultInv, VaultBooksOK, VaultTypeOK
<1>2. v # NoVault
  BY VaultTypes
<1> QED
  BY <1>1, <1>2 DEF NoneDeleted, Exists

LEMMA ChargeRentKeeps ==
    ASSUME VaultInv, NEW id \in VaultIds, NEW to \in Users, ChargeRent(id, to)
    PROVE  VaultInv' /\ ShareValueStep /\ NoneDeleted
<1> DEFINE d == vaults[id].deposit
           due == RentDue(d)
           acc == RentAccount(id)
<1>1. VaultBooksOK /\ ledger \in Ledger /\ now \in Nat
  BY DEF VaultInv, VaultBooksOK
<1>2. Exists(id) /\ d # Existential /\ ~(due >= d.amount)
  BY DEF ChargeRent, ChargeDue, EvictDue
<1>3. /\ vaults[id] \in VaultInfo /\ d.amount \in Nat /\ d.at \in Nat
      /\ d.at <= now /\ d.amount <= RentHeld(id) /\ vaults[id].lp_token_id = LpTokens[id]
      /\ Tombstoned(vaults[id]) => tombstonedAt[id] <= d.at
      /\ due \in Nat /\ RentHeld(id) \in Nat /\ tombstonedAt[id] \in Nat
  BY <1>2, RentFacts
<1>4. /\ acc \in Accounts /\ to \in Accounts /\ acc # to /\ NativeAsset \in AssetIds
  BY VaultAccounts, VaultNumbers
<1> DEFINE new == [amount |-> d.amount - due, at |-> now]
           v == [vaults[id] EXCEPT !.deposit = new]
<1>5. /\ KeepsAlive(ledger, NativeAsset, acc, to, due)
      /\ ledger' = Transfer(ledger, NativeAsset, acc, to, due)
      /\ vaults' = [vaults EXCEPT ![id] = v]
      /\ now' = now /\ tombstonedAt' = tombstonedAt /\ vault_count' = vault_count
      /\ lp_tokens_to_vaults' = lp_tokens_to_vaults /\ capital_structure' = capital_structure
  BY DEF ChargeRent, KeepsAlive, vaultBooks
<1>6. new \in [amount: Nat, at: Nat] /\ new.amount = d.amount - due /\ new.at = now
  <2> HIDE DEF d, due
  <2> QED
    BY <1>1, <1>2, <1>3
<1>7. new # Existential
  BY <1>6, VaultTypes
<1> HIDE DEF new
<1>8. /\ v \in VaultInfo /\ v.deposit = new /\ v.lp_token_id = vaults[id].lp_token_id
      /\ v.capabilities = vaults[id].capabilities
  BY <1>3, <1>6 DEF VaultInfo, DepositType
<1> HIDE DEF due, acc, d, v
<1>9. /\ ledger' \in Ledger
      /\ \A b \in AssetIds : Issuance(ledger', b) = Issuance(ledger, b)
      /\ \A b \in AssetIds, w \in Accounts :
            b # NativeAsset \/ w \notin {acc, to} => ledger'[b][w] = ledger[b][w]
      /\ ledger'[NativeAsset][acc].free = ledger[NativeAsset][acc].free - due
  BY <1>1, <1>3, <1>4, <1>5, KeepAliveTransfer
<1>10. RentHeld(id)' = RentHeld(id) - due
  BY <1>9 DEF RentHeld, acc
<1>11. Sound(id, v, RentHeld(id)', now, tombstonedAt'[id])
  <2>1. v.deposit.amount <= RentHeld(id)' /\ v.deposit.at <= now
    BY <1>1, <1>3, <1>6, <1>8, <1>10
  <2>2. Tombstoned(v) => tombstonedAt'[id] <= v.deposit.at
    BY <1>1, <1>3, <1>5, <1>6, <1>8 DEF Tombstoned
  <2> QED
    BY <1>3, <1>8, <2>1, <2>2 DEF Sound
<1>12. ASSUME NEW i \in VaultIds, i # id PROVE RentHeld(i) <= RentHeld(i)'
  <2>1. RentAccount(i) \in Accounts /\ RentAccount(i) \notin {acc, to}
    BY <1>12, RentApart DEF acc
  <2>2. RentHeld(i)' = RentHeld(i) /\ RentHeld(i) \in Nat
    BY <1>1, <1>4, <1>9, <2>1, RentHeldType DEF RentHeld
  <2> QED
    BY <2>2
<1>13. VaultInv'
  <2>1. /\ vault_count' \in 0..MaxVaults
        /\ lp_tokens_to_vaults' \in [AssetIds -> VaultIds \cup {NoVault}]
        /\ capital_structure' \in Structures /\ tombstonedAt' \in [VaultIds -> Nat]
    BY <1>1, <1>5 DEF VaultBooksOK, VaultTypeOK, Structures
  <2>2. \A i \in VaultIds \ {id} :
           /\ tombstonedAt'[i] = tombstonedAt[i] /\ RentHeld(i) <= RentHeld(i)'
    BY <1>5, <1>12
  <2> QED
    BY <1>5, <1>8, <1>9, <1>11, <2>1, <2>2, VaultWritten
<1> QED
  BY <1>1, <1>5, <1>8, <1>9, <1>13, NativeMoves, WrittenStays

LEMMA ReducibleType ==
    ASSUME NEW l \in Ledger, NEW a \in AssetIds, NEW who \in Accounts
    PROVE  Reducible(l, a, who, FALSE) \in Nat
BY LedgerEntries, ChainTypes DEF Reducible, SatSub, LesserOf

LEMMA EvictKeeps ==
    ASSUME VaultInv, NEW id \in VaultIds, NEW to \in Users, Evict(id, to)
    PROVE  VaultInv' /\ ShareValueStep /\ NoneDeleted
<1> DEFINE d == vaults[id].deposit
           acc == RentAccount(id)
           left == Reducible(ledger, NativeAsset, acc, FALSE)
<1>1. /\ VaultBooksOK /\ ledger \in Ledger /\ now \in Nat
      /\ vaults \in [VaultIds -> VaultInfo \cup {NoVault}]
  BY DEF VaultInv, VaultBooksOK, VaultTypeOK
<1>2. Exists(id) /\ d # Existential
  BY DEF Evict, ChargeDue, EvictDue
<1>3. /\ vaults[id] \in VaultInfo /\ d.at \in Nat
      /\ d.at <= now /\ vaults[id].lp_token_id = LpTokens[id]
      /\ Tombstoned(vaults[id]) => tombstonedAt[id] <= d.at
      /\ RentHeld(id) \in Nat /\ tombstonedAt[id] \in Nat
  BY <1>2, RentFacts
<1>4. /\ acc \in Accounts /\ to \in Accounts /\ acc # to /\ NativeAsset \in AssetIds
  BY VaultAccounts, VaultNumbers
<1>5. left \in Nat
  BY <1>1, <1>4, ReducibleType
<1> DEFINE new == [amount |-> 0, at |-> now]
           caps == vaults[id].capabilities \cup {"TOMBSTONED"}
           v == [vaults[id] EXCEPT !.deposit = new, !.capabilities = caps]
<1>6. /\ MayDie(ledger, NativeAsset, acc, to, left)
      /\ ledger' = Transfer(ledger, NativeAsset, acc, to, left)
      /\ tombstonedAt' = [tombstonedAt EXCEPT ![id] =
                            IF Tombstoned(vaults[id]) THEN @ ELSE now]
      /\ now' = now /\ vault_count' = vault_count
      /\ lp_tokens_to_vaults' = lp_tokens_to_vaults /\ capital_structure' = capital_structure
  BY DEF Evict, MayDie, vaultBooks
<1>7. vaults' = [vaults EXCEPT ![id] = v]
  BY <1>1 DEF Evict
<1>8. new \in [amount: Nat, at: Nat] /\ new.amount = 0 /\ new.at = now
  BY <1>1
<1>9. new # Existential
  BY <1>8, VaultTypes
<1>10. caps \in SUBSET Flags
  BY <1>3 DEF VaultInfo, Flags
<1> HIDE DEF new, caps
<1>11. /\ v \in VaultInfo /\ v.deposit = new /\ v.lp_token_id = vaults[id].lp_token_id
  BY <1>3, <1>8, <1>10 DEF VaultInfo, DepositType
<1> HIDE DEF left, acc, d, v
<1>12. /\ ledger' \in Ledger
       /\ \A b \in AssetIds : b # NativeAsset => Issuance(ledger', b) = Issuance(ledger, b)
       /\ \A b \in AssetIds, w \in Accounts :
             b # NativeAsset \/ w \notin {acc, to} => ledger'[b][w] = ledger[b][w]
  BY <1>1, <1>4, <1>5, <1>6, AllowDeathTransfer
<1>13. RentHeld(id)' \in Nat
  BY <1>4, <1>12, LedgerEntries DEF RentHeld, acc
<1>14. /\ tombstonedAt' \in [VaultIds -> Nat]
       /\ tombstonedAt'[id] <= now
       /\ \A i \in VaultIds \ {id} : tombstonedAt'[i] = tombstonedAt[i]
  <2>1. tombstonedAt \in [VaultIds -> Nat]
    BY <1>1 DEF VaultBooksOK
  <2> QED
    BY <1>1, <1>3, <1>6, <2>1
<1>15. Sound(id, v, RentHeld(id)', now, tombstonedAt'[id])
  <2>1. v.deposit.amount <= RentHeld(id)' /\ v.deposit.at <= now
    BY <1>1, <1>8, <1>11, <1>13
  <2>2. tombstonedAt'[id] <= v.deposit.at
    BY <1>8, <1>11, <1>14
  <2> QED
    BY <1>3, <1>11, <2>1, <2>2 DEF Sound
<1>16. ASSUME NEW i \in VaultIds, i # id PROVE RentHeld(i) <= RentHeld(i)'
  <2>1. RentAccount(i) \in Accounts /\ RentAccount(i) \notin {acc, to}
    BY <1>16, RentApart DEF acc
  <2>2. RentHeld(i)' = RentHeld(i) /\ RentHeld(i) \in Nat
    BY <1>1, <1>4, <1>12, <2>1, RentHeldType DEF RentHeld
  <2> QED
    BY <2>2
<1>17. VaultInv'
  <2>1. /\ vault_count' \in 0..MaxVaults
        /\ lp_tokens_to_vaults' \in [AssetIds -> VaultIds \cup {NoVault}]
        /\ capital_structure' \in Structures
    BY <1>1, <1>6 DEF VaultBooksOK, VaultTypeOK, Structures
  <2>2. \A i \in VaultIds \ {id} :
           /\ tombstonedAt'[i] = tombstonedAt[i] /\ RentHeld(i) <= RentHeld(i)'
    BY <1>14, <1>16
  <2> QED
    BY <1>6, <1>7, <1>11, <1>12, <1>14, <1>15, <2>1, <2>2, VaultWritten
<1> QED
  BY <1>1, <1>7, <1>11, <1>12, <1>17, NativeMoves, WrittenStays

LEMMA AddSurchargeKeeps ==
    ASSUME VaultInv, NEW who \in Users, NEW id \in VaultIds, NEW n \in Nat,
           AddSurcharge(who, id, n)
    PROVE  VaultInv' /\ ShareValueStep /\ NoneDeleted
<1> DEFINE d == vaults[id].deposit
           acc == RentAccount(id)
<1>1. /\ VaultBooksOK /\ ledger \in Ledger /\ now \in Nat
      /\ vaults \in [VaultIds -> VaultInfo \cup {NoVault}]
  BY DEF VaultInv, VaultBooksOK, VaultTypeOK
<1>2. Exists(id) /\ d # Existential
  BY DEF AddSurcharge
<1>3. /\ vaults[id] \in VaultInfo /\ d.amount \in Nat /\ d.amount <= RentHeld(id)
      /\ vaults[id].lp_token_id = LpTokens[id]
      /\ RentHeld(id) \in Nat /\ tombstonedAt[id] \in Nat
  BY <1>2, RentFacts
<1>4. /\ acc \in Accounts /\ who \in Accounts /\ acc # who /\ NativeAsset \in AssetIds
  BY VaultAccounts, VaultNumbers
<1> DEFINE new == DepositFromBalance(n + d.amount)
           caps == vaults[id].capabilities \ {"TOMBSTONED"}
           v == [vaults[id] EXCEPT !.deposit = new, !.capabilities = caps]
<1>5. /\ MayDie(ledger, NativeAsset, who, acc, n)
      /\ ledger' = Transfer(ledger, NativeAsset, who, acc, n)
      /\ tombstonedAt' = tombstonedAt /\ now' = now /\ vault_count' = vault_count
      /\ lp_tokens_to_vaults' = lp_tokens_to_vaults /\ capital_structure' = capital_structure
  BY DEF AddSurcharge, MayDie, vaultBooks
<1>6. vaults' = [vaults EXCEPT ![id] = v]
  BY <1>1 DEF AddSurcharge
<1>7. /\ new \in DepositType
      /\ new # Existential => new.amount = n + d.amount /\ new.at = now
  <2> HIDE DEF d
  <2> QED
    BY <1>1, <1>3 DEF DepositFromBalance, DepositType
<1>8. caps \in SUBSET Flags /\ "TOMBSTONED" \notin caps
  BY <1>3 DEF VaultInfo
<1> HIDE DEF new, caps
<1>9. /\ v \in VaultInfo /\ v.deposit = new /\ v.lp_token_id = vaults[id].lp_token_id
      /\ v.capabilities = caps
  BY <1>3, <1>7, <1>8 DEF VaultInfo
<1> HIDE DEF acc, d, v
<1>10. /\ ledger' \in Ledger
       /\ \A b \in AssetIds : b # NativeAsset => Issuance(ledger', b) = Issuance(ledger, b)
       /\ \A b \in AssetIds, w \in Accounts :
             b # NativeAsset \/ w \notin {who, acc} => ledger'[b][w] = ledger[b][w]
       /\ ledger'[NativeAsset][acc].free = ledger[NativeAsset][acc].free + n
  BY <1>1, <1>4, <1>5, AllowDeathTransfer
<1>11. RentHeld(id)' = RentHeld(id) + n
  BY <1>10 DEF RentHeld, acc
<1>12. Sound(id, v, RentHeld(id)', now, tombstonedAt'[id])
  <2>1. v.deposit # Existential => v.deposit.amount <= RentHeld(id)' /\ v.deposit.at <= now
    BY <1>1, <1>3, <1>7, <1>9, <1>11
  <2>2. ~Tombstoned(v)
    BY <1>8, <1>9 DEF Tombstoned
  <2> QED
    BY <1>3, <1>9, <2>1, <2>2 DEF Sound
<1>13. ASSUME NEW i \in VaultIds, i # id PROVE RentHeld(i) <= RentHeld(i)'
  <2>1. RentAccount(i) \in Accounts /\ RentAccount(i) \notin {who, acc}
    BY <1>13, RentApart DEF acc
  <2>2. RentHeld(i)' = RentHeld(i) /\ RentHeld(i) \in Nat
    BY <1>1, <1>4, <1>10, <2>1, RentHeldType DEF RentHeld
  <2> QED
    BY <2>2
<1>14. VaultInv'
  <2>1. /\ vault_count' \in 0..MaxVaults
        /\ lp_tokens_to_vaults' \in [AssetIds -> VaultIds \cup {NoVault}]
        /\ capital_structure' \in Structures /\ tombstonedAt' \in [VaultIds -> Nat]
    BY <1>1, <1>5 DEF VaultBooksOK, VaultTypeOK, Structures
  <2>2. \A i \in VaultIds \ {id} :
           /\ tombstonedAt'[i] = tombstonedAt[i] /\ RentHeld(i) <= RentHeld(i)'
    BY <1>5, <1>13
  <2> QED
    BY <1>5, <1>6, <1>9, <1>10, <1>12, <2>1, <2>2, VaultWritten
<1> QED
  BY <1>1, <1>6, <1>9, <1>10, <1>14, NativeMoves, WrittenStays

LEMMA DeleteKeeps ==
    ASSUME VaultInv, NEW id \in VaultIds, NEW to \in Users, DeleteTombstoned(id, to)
    PROVE  VaultInv' /\ ShareValueStep
<1> DEFINE acc == DeletionAccount(id)
           reward == Reducible(ledger, NativeAsset, acc, FALSE)
           a == vaults[id].asset_id
<1>1. /\ VaultBooksOK /\ ledger \in Ledger /\ now \in Nat
      /\ vaults \in [VaultIds -> VaultInfo \cup {NoVault}] /\ Exists(id)
  BY DEF VaultInv, VaultBooksOK, VaultTypeOK, DeleteTombstoned
<1>2. acc \in Accounts /\ to \in Accounts /\ NativeAsset \in AssetIds /\ a \in AssetIds
  BY <1>1, VaultAccounts, VaultNumbers, VaultParts
<1>3. reward \in Nat
  BY <1>1, <1>2, ReducibleType
<1>4. /\ MayDie(ledger, NativeAsset, acc, to, reward)
      /\ ledger' = Transfer(ledger, NativeAsset, acc, to, reward)
      /\ vaults' = [vaults EXCEPT ![id] = NoVault]
      /\ lp_tokens_to_vaults' = [lp_tokens_to_vaults EXCEPT ![a] = NoVault]
      /\ tombstonedAt' = tombstonedAt /\ now' = now /\ vault_count' = vault_count
      /\ capital_structure' = capital_structure
  BY DEF DeleteTombstoned, MayDie
<1> HIDE DEF reward, a
<1>5. /\ ledger' \in Ledger
      /\ \A b \in AssetIds : b # NativeAsset => Issuance(ledger', b) = Issuance(ledger, b)
      /\ \A b \in AssetIds, w \in Accounts :
            b # NativeAsset \/ w \notin {acc, to} => ledger'[b][w] = ledger[b][w]
  BY <1>1, <1>2, <1>3, <1>4, AllowDeathTransfer
<1>6. ASSUME NEW i \in VaultIds PROVE RentHeld(i) <= RentHeld(i)'
  <2>1. RentAccount(i) \in Accounts /\ RentAccount(i) \notin {acc, to}
    BY RentApart
  <2> HIDE DEF acc
  <2>2. RentHeld(i)' = RentHeld(i) /\ RentHeld(i) \in Nat
    BY <1>1, <1>2, <1>5, <2>1, RentHeldType DEF RentHeld
  <2> QED
    BY <2>2
<1>7. VaultInv'
  <2>1. /\ vault_count' \in 0..MaxVaults
        /\ lp_tokens_to_vaults' \in [AssetIds -> VaultIds \cup {NoVault}]
        /\ capital_structure' \in Structures /\ tombstonedAt' \in [VaultIds -> Nat]
    BY <1>1, <1>4 DEF VaultBooksOK, VaultTypeOK, Structures
  <2>2. \A i \in VaultIds \ {id} :
           /\ tombstonedAt'[i] = tombstonedAt[i] /\ RentHeld(i) <= RentHeld(i)'
    BY <1>4, <1>6
  <2>3. Sound(id, NoVault, RentHeld(id)', now, tombstonedAt'[id])
    BY DEF Sound
  <2> QED
    BY <1>4, <1>5, <2>1, <2>2, <2>3, VaultWritten
<1> QED
  BY <1>1, <1>5, <1>7, NativeMoves

-----------------------------------------------------------------------------
(* Creation, the manager and the strategies.                               *)

LEMMA AllocationBounded ==
    ASSUME NEW config \in VaultConfigs, CanCreateVault(config),
           NEW s \in DOMAIN config.strategies
    PROVE  config.strategies[s] \in 0..One
<1> DEFINE f == config.strategies
<1>1. /\ f \in [DOMAIN f -> Nat] /\ DOMAIN f \subseteq Strategists /\ config.reserved \in Nat
      /\ One \in Nat /\ IsFiniteSet(Accounts) /\ Strategists \subseteq Accounts
  BY VaultTypes
<1>2. config.reserved + SumFunction(f) = One
  BY DEF CanCreateVault
<1> HIDE DEF f
<1>3. IsFiniteSet(DOMAIN f)
  BY <1>1, FS_Subset
<1>4. \A y \in DOMAIN f : f[y] \in Nat
  BY <1>1
<1>5. SumFunction(f) = SumFunctionOnSet(f, DOMAIN f)
  BY DEF SumFunction
<1>6. s \in DOMAIN f
  BY DEF f
<1>7. f[s] <= SumFunctionOnSet(f, DOMAIN f) /\ SumFunctionOnSet(f, DOMAIN f) \in Nat
  BY <1>3, <1>4, <1>6, SumBounds
<1>8. f[s] \in 0..One
  BY <1>1, <1>2, <1>4, <1>5, <1>6, <1>7
<1> QED
  BY <1>8 DEF f

LEMMA CreateVaultKeeps ==
    ASSUME VaultInv, NEW from \in Users, NEW config \in VaultConfigs, NEW n \in Nat,
           CreateVault(from, config, n)
    PROVE  VaultInv' /\ ShareValueStep /\ NoneDeleted
<1>1. /\ VaultBooksOK /\ ledger \in Ledger /\ now \in Nat /\ vault_count \in 0..MaxVaults
      /\ vaults \in [VaultIds -> VaultInfo \cup {NoVault}]
  BY DEF VaultInv, VaultBooksOK, VaultTypeOK
<1>2. PICK id \in VaultIds : id = vault_count + 1
  <2>1. vault_count < MaxVaults /\ MaxVaults \in Nat
    BY VaultTypes DEF CreateVault, CanCreateVault
  <2> QED
    BY <1>1, <2>1 DEF VaultIds
<1> DEFINE rent == RentAccount(id)
           del == DeletionAccount(id)
           paid == n - CreationDeposit
           reward == Transfer(ledger, NativeAsset, from, del, CreationDeposit)
           new == DepositFromBalance(paid)
           v == [asset_id |-> config.asset_id, lp_token_id |-> LpTokens[id],
                 manager |-> config.manager, deposit |-> new, capabilities |-> {}]
           row == [s \in Strategists |->
                     IF s \in DOMAIN config.strategies
                     THEN [allocation |-> config.strategies[s], balance |-> 0]
                     ELSE capital_structure[id][s]]
<1>3. /\ n >= CreationDeposit /\ CanCreateVault(config)
      /\ KeepsAlive(ledger, NativeAsset, from, del, CreationDeposit)
      /\ KeepsAlive(reward, NativeAsset, from, rent, paid)
      /\ ledger' = Transfer(reward, NativeAsset, from, rent, paid)
      /\ now' = now /\ tombstonedAt' = tombstonedAt /\ vault_count' = id
      /\ lp_tokens_to_vaults' = [lp_tokens_to_vaults EXCEPT ![LpTokens[id]] = id]
  BY <1>2 DEF CreateVault, CreatesVault, KeepsAlive
<1>4. vaults' = [vaults EXCEPT ![id] = v]
  BY <1>2 DEF CreateVault, CreatesVault
<1>5. capital_structure' = [capital_structure EXCEPT ![id] = row]
  BY <1>1, <1>2 DEF CreateVault, CreatesVault, VaultBooksOK, VaultTypeOK
<1>6. /\ rent \in Accounts /\ del \in Accounts /\ from \in Accounts /\ rent # from
      /\ NativeAsset \in AssetIds /\ CreationDeposit \in Nat
      /\ LpTokens[id] \in AssetIds /\ config.asset_id \in AssetIds /\ config.manager \in Accounts
  BY VaultAccounts, VaultNumbers, LpTokenFacts, VaultTypes
<1>7. paid \in Nat
  BY <1>3, <1>6
<1>8. new \in DepositType /\ (new # Existential => new.amount = paid /\ new.at = now)
  <2> HIDE DEF paid
  <2> QED
    BY <1>1, <1>7 DEF DepositFromBalance, DepositType
<1> HIDE DEF new
<1>9. /\ v \in VaultInfo /\ v.deposit = new /\ v.lp_token_id = LpTokens[id]
      /\ v.capabilities = {}
  BY <1>6, <1>8 DEF VaultInfo
<1>10. capital_structure' \in Structures
  <2>1. capital_structure \in Structures
    BY <1>1 DEF VaultBooksOK, VaultTypeOK, Structures
  <2>2. ASSUME NEW s \in Strategists PROVE row[s] \in StrategyOverview \cup {NoStrategy}
    <3>1. CASE s \in DOMAIN config.strategies
      <4>1. config.strategies[s] \in 0..One
        BY <1>3, <3>1, AllocationBounded
      <4>2. row[s] = [allocation |-> config.strategies[s], balance |-> 0]
        BY <3>1
      <4> QED
        BY <4>1, <4>2 DEF StrategyOverview
    <3>2. CASE s \notin DOMAIN config.strategies
      BY <2>1, <3>2 DEF Structures
    <3> QED
      BY <3>1, <3>2
  <2>3. row \in [Strategists -> StrategyOverview \cup {NoStrategy}]
    BY <2>2
  <2> HIDE DEF row
  <2> QED
    BY <1>5, <2>1, <2>3 DEF Structures
<1> HIDE DEF rent, del, paid, reward, v
<1>11. /\ reward \in Ledger
       /\ \A b \in AssetIds : Issuance(reward, b) = Issuance(ledger, b)
       /\ \A b \in AssetIds, w \in Accounts :
             b # NativeAsset \/ w \notin {from, del} => reward[b][w] = ledger[b][w]
  <2>1. /\ ledger \in Ledger /\ NativeAsset \in AssetIds /\ from \in Accounts /\ del \in Accounts
        /\ CreationDeposit \in Nat /\ KeepsAlive(ledger, NativeAsset, from, del, CreationDeposit)
    BY <1>1, <1>3, <1>6
  <2> QED
    BY <2>1, KeepAliveTransfer DEF reward
<1>12. /\ ledger' \in Ledger
       /\ \A b \in AssetIds : Issuance(ledger', b) = Issuance(reward, b)
       /\ \A b \in AssetIds, w \in Accounts :
             b # NativeAsset \/ w \notin {from, rent} => ledger'[b][w] = reward[b][w]
       /\ ledger'[NativeAsset][rent].free = reward[NativeAsset][rent].free + paid
  BY <1>3, <1>6, <1>7, <1>11, KeepAliveTransfer
<1>13. RentHeld(id)' \in Nat /\ RentHeld(id)' >= paid
  <2>1. reward[NativeAsset][rent].free \in Nat
    BY <1>6, <1>11, LedgerEntries
  <2> QED
    BY <1>7, <1>12, <2>1 DEF RentHeld, rent
<1>14. Sound(id, v, RentHeld(id)', now, tombstonedAt'[id])
  <2>1. v.deposit # Existential => v.deposit.amount <= RentHeld(id)' /\ v.deposit.at <= now
    BY <1>1, <1>7, <1>8, <1>9, <1>13
  <2>2. ~Tombstoned(v)
    BY <1>9 DEF Tombstoned
  <2> QED
    BY <1>9, <2>1, <2>2 DEF Sound
<1>15. ASSUME NEW i \in VaultIds, i # id PROVE RentHeld(i) <= RentHeld(i)'
  <2>1. RentAccount(i) \in Accounts /\ RentAccount(i) \notin {from, del, rent}
    BY <1>15, RentApart DEF rent, del
  <2>2. ledger'[NativeAsset][RentAccount(i)] = ledger[NativeAsset][RentAccount(i)]
    BY <1>6, <1>11, <1>12, <2>1
  <2>3. RentHeld(i)' = RentHeld(i) /\ RentHeld(i) \in Nat
    BY <1>1, <2>2, RentHeldType DEF RentHeld
  <2> QED
    BY <2>3
<1>16. VaultInv'
  <2>1. vault_count' \in 0..MaxVaults
    BY <1>3, VaultNumbers DEF VaultIds
  <2>2. lp_tokens_to_vaults' \in [AssetIds -> VaultIds \cup {NoVault}]
    BY <1>1, <1>3, <1>6 DEF VaultBooksOK, VaultTypeOK
  <2>3. tombstonedAt' \in [VaultIds -> Nat]
    BY <1>1, <1>3 DEF VaultBooksOK
  <2>4. \A i \in VaultIds \ {id} :
           /\ tombstonedAt'[i] = tombstonedAt[i] /\ RentHeld(i) <= RentHeld(i)'
    BY <1>3, <1>15
  <2> QED
    BY <1>3, <1>4, <1>9, <1>10, <1>12, <1>14, <2>1, <2>2, <2>3, <2>4, VaultWritten
<1>17. \A b \in AssetIds : Issuance(ledger', b) = Issuance(ledger, b)
  BY <1>11, <1>12
<1> QED
  BY <1>1, <1>4, <1>9, <1>12, <1>16, <1>17, NativeMoves, WrittenStays

(* Only the capabilities of the vault are written, and no vault is         *)
(* tombstoned by it.                                                       *)
LEMMA CapabilitiesKeep ==
    ASSUME VaultInv, NEW id \in VaultIds, Exists(id), NEW caps \in SUBSET Flags,
           "TOMBSTONED" \notin caps,
           vaults' = [vaults EXCEPT ![id] = [vaults[id] EXCEPT !.capabilities = caps]],
           UNCHANGED <<now, ledger, vaultBooks, tombstonedAt>>
    PROVE  VaultInv' /\ ShareValueStep /\ NoneDeleted
<1> DEFINE v == [vaults[id] EXCEPT !.capabilities = caps]
<1>1. /\ VaultBooksOK /\ ledger \in Ledger /\ now \in Nat /\ vaults[id] # NoVault
      /\ Sound(id, vaults[id], RentHeld(id), now, tombstonedAt[id])
  BY DEF VaultInv, VaultBooksOK, VaultSound, Exists
<1>2. /\ now' = now /\ ledger' = ledger /\ vault_count' = vault_count
      /\ lp_tokens_to_vaults' = lp_tokens_to_vaults
      /\ capital_structure' = capital_structure /\ tombstonedAt' = tombstonedAt
  BY DEF vaultBooks
<1>3. vaults[id] \in VaultInfo
  BY <1>1, VaultParts
<1>4. /\ v \in VaultInfo /\ v.deposit = vaults[id].deposit /\ v.capabilities = caps
      /\ v.lp_token_id = vaults[id].lp_token_id
  BY <1>3 DEF VaultInfo
<1>5. vaults' = [vaults EXCEPT ![id] = v]
  OBVIOUS
<1> HIDE DEF v
<1>6. \A i \in VaultIds : RentHeld(i)' = RentHeld(i) /\ RentHeld(i) \in Nat
  BY <1>1, <1>2, RentHeldType DEF RentHeld
<1>7. Sound(id, v, RentHeld(id)', now, tombstonedAt'[id])
  BY <1>1, <1>2, <1>4, <1>6 DEF Sound, Tombstoned
<1>8. VaultInv'
  <2>1. /\ vault_count' \in 0..MaxVaults
        /\ lp_tokens_to_vaults' \in [AssetIds -> VaultIds \cup {NoVault}]
        /\ capital_structure' \in Structures /\ tombstonedAt' \in [VaultIds -> Nat]
    BY <1>1, <1>2 DEF VaultBooksOK, VaultTypeOK, Structures
  <2>2. \A i \in VaultIds \ {id} :
           /\ tombstonedAt'[i] = tombstonedAt[i] /\ RentHeld(i) <= RentHeld(i)'
    BY <1>2, <1>6
  <2> QED
    BY <1>1, <1>2, <1>4, <1>5, <1>7, <2>1, <2>2, VaultWritten
<1> QED
  BY <1>2, <1>4, <1>5, <1>8, SharesAlone, WrittenStays

LEMMA ShutdownKeeps ==
    ASSUME VaultInv, NEW id \in VaultIds, EmergencyShutdown(id) \/ StartVault(id)
    PROVE  VaultInv' /\ ShareValueStep /\ NoneDeleted
<1>1. /\ Exists(id) /\ "TOMBSTONED" \notin vaults[id].capabilities
      /\ UNCHANGED <<now, ledger, vaultBooks, tombstonedAt>>
  BY DEF EmergencyShutdown, StartVault, Tombstoned
<1>2. /\ vaults \in [VaultIds -> VaultInfo \cup {NoVault}]
      /\ vaults[id].capabilities \in SUBSET Flags
  BY <1>1, VaultParts DEF VaultInv, VaultBooksOK, VaultTypeOK
<1>3. PICK caps \in SUBSET Flags :
         /\ "TOMBSTONED" \notin caps
         /\ vaults' = [vaults EXCEPT ![id] = [vaults[id] EXCEPT !.capabilities = caps]]
  <2>1. CASE EmergencyShutdown(id)
    <3> DEFINE caps == vaults[id].capabilities \cup {"STOPPED"}
    <3>1. caps \in SUBSET Flags /\ "TOMBSTONED" \notin caps
      BY <1>1, <1>2 DEF Flags
    <3>2. vaults' = [vaults EXCEPT ![id] = [vaults[id] EXCEPT !.capabilities = caps]]
      BY <1>2, <2>1 DEF EmergencyShutdown
    <3> QED
      BY <3>1, <3>2
  <2>2. CASE StartVault(id)
    <3> DEFINE caps == vaults[id].capabilities \ {"STOPPED"}
    <3>1. caps \in SUBSET Flags /\ "TOMBSTONED" \notin caps
      BY <1>1, <1>2 DEF Flags
    <3>2. vaults' = [vaults EXCEPT ![id] = [vaults[id] EXCEPT !.capabilities = caps]]
      BY <1>2, <2>2 DEF StartVault
    <3> QED
      BY <3>1, <3>2
  <2> QED
    BY <2>1, <2>2
<1> QED
  BY <1>1, <1>3, CapabilitiesKeep

(* The calls of strategies write what they owe, and move the asset of the  *)
(* vault between its account and theirs.                                   *)
LEMMA StrategyKeeps ==
    ASSUME VaultInv, NEW id \in VaultIds, NEW s \in Strategists,
           NEW entry \in StrategyOverview \cup {NoStrategy}, NEW m \in Ledger,
           \A b \in AssetIds : Issuance(m, b) = Issuance(ledger, b),
           \A i \in VaultIds :
              m[NativeAsset][RentAccount(i)] = ledger[NativeAsset][RentAccount(i)],
           ledger' = m,
           capital_structure' = [capital_structure EXCEPT ![id][s] = entry],
           UNCHANGED <<now, vault_count, vaults, lp_tokens_to_vaults, tombstonedAt>>
    PROVE  VaultInv' /\ ShareValueStep
<1>1. /\ VaultBooksOK /\ now \in Nat /\ now' = now /\ vaults' = vaults
      /\ tombstonedAt' = tombstonedAt /\ vault_count' = vault_count
      /\ lp_tokens_to_vaults' = lp_tokens_to_vaults /\ now <= now'
      /\ capital_structure \in Structures
  BY DEF VaultInv, VaultBooksOK, VaultTypeOK, Structures
<1>2. capital_structure' \in Structures
  BY <1>1 DEF Structures
<1>3. VaultBooksOK'
  BY <1>1, <1>2 DEF VaultBooksOK, VaultTypeOK, Structures
<1>4. \A i \in VaultIds : RentHeld(i) <= RentHeld(i)'
  <2> TAKE i \in VaultIds
  <2>1. RentHeld(i)' = RentHeld(i) /\ RentHeld(i) \in Nat
    BY <1>1, RentHeldType DEF RentHeld
  <2> QED
    BY <2>1
<1>5. VaultInv'
  BY <1>1, <1>3, <1>4, VaultsAlone
<1>6. \A i \in VaultIds : Issuance(ledger', LpTokens[i]) = Issuance(ledger, LpTokens[i])
  BY LpTokenFacts
<1> QED
  BY <1>5, <1>6, SharesAlone

LEMMA OverviewType ==
    ASSUME VaultInv, NEW id \in VaultIds, NEW s \in Strategists
    PROVE  Overview(capital_structure, id, s) \in StrategyOverview
<1>1. capital_structure[id][s] \in StrategyOverview \cup {NoStrategy}
  BY DEF VaultInv, VaultBooksOK, VaultTypeOK
<1>2. CASE capital_structure[id][s] = NoStrategy
  BY <1>2, VaultNumbers DEF Overview, StrategyOverview
<1>3. CASE capital_structure[id][s] # NoStrategy
  BY <1>1, <1>3 DEF Overview
<1> QED
  BY <1>2, <1>3

LEMMA BalanceWritten ==
    ASSUME NEW o \in StrategyOverview
    PROVE  /\ o.balance \in Nat
           /\ \A n \in Nat : [o EXCEPT !.balance = n] \in StrategyOverview
BY DEF StrategyOverview

LEMMA LiquidateKeeps ==
    ASSUME VaultInv, NEW from \in Users, NEW id \in VaultIds, NEW s \in Strategists,
           LiquidateStrategy(from, id, s)
    PROVE  VaultInv' /\ ShareValueStep
<1>1. /\ ledger' = ledger
      /\ capital_structure' = [capital_structure EXCEPT ![id][s] = NoStrategy]
      /\ UNCHANGED <<now, vault_count, vaults, lp_tokens_to_vaults, tombstonedAt>>
  BY DEF LiquidateStrategy
<1>2. ledger \in Ledger
  BY DEF VaultInv, VaultBooksOK
<1> QED
  BY <1>1, <1>2, StrategyKeeps

LEMMA ReportKeeps ==
    ASSUME VaultInv, NEW id \in VaultIds, NEW s \in Strategists, NEW n \in Nat,
           UpdateStrategyReport(id, s, n)
    PROVE  VaultInv' /\ ShareValueStep
<1> DEFINE entry == [Overview(capital_structure, id, s) EXCEPT !.balance = n]
<1>1. /\ ledger' = ledger
      /\ capital_structure' = [capital_structure EXCEPT ![id][s] = entry]
      /\ UNCHANGED <<now, vault_count, vaults, lp_tokens_to_vaults, tombstonedAt>>
  BY DEF UpdateStrategyReport
<1>2. entry \in StrategyOverview
  BY OverviewType, BalanceWritten
<1>3. ledger \in Ledger
  BY DEF VaultInv, VaultBooksOK
<1> HIDE DEF entry
<1> QED
  BY <1>1, <1>2, <1>3, StrategyKeeps

(* The asset of the vault moves between its account and the strategy's.    *)
LEMMA StrategyMoves ==
    ASSUME VaultInv, NEW id \in VaultIds, NEW s \in Strategists, NEW n \in Nat, Exists(id),
           NEW from \in {VaultAccount(id), s}, NEW to \in {VaultAccount(id), s},
           KeepsAlive(ledger, vaults[id].asset_id, from, to, n),
           NEW m, m = Transfer(ledger, vaults[id].asset_id, from, to, n)
    PROVE  /\ m \in Ledger
           /\ \A b \in AssetIds : Issuance(m, b) = Issuance(ledger, b)
           /\ \A i \in VaultIds :
                 m[NativeAsset][RentAccount(i)] = ledger[NativeAsset][RentAccount(i)]
<1> DEFINE a == vaults[id].asset_id
<1>1. ledger \in Ledger /\ a \in AssetIds
  BY VaultParts DEF VaultInv, VaultBooksOK
<1>2. from \in Accounts /\ to \in Accounts /\ NativeAsset \in AssetIds
  BY VaultAccounts, VaultNumbers
<1> HIDE DEF a
<1>3. /\ m \in Ledger
      /\ \A b \in AssetIds : Issuance(m, b) = Issuance(ledger, b)
      /\ \A b \in AssetIds, w \in Accounts :
            b # a \/ w \notin {from, to} => m[b][w] = ledger[b][w]
  BY <1>1, <1>2, KeepAliveTransfer DEF a
<1>4. ASSUME NEW i \in VaultIds
      PROVE  m[NativeAsset][RentAccount(i)] = ledger[NativeAsset][RentAccount(i)]
  <2>1. RentAccount(i) \in Accounts /\ RentAccount(i) \notin Strategists
    BY VaultAccounts
  <2>2. RentAccount(i) # VaultAccount(id)
    BY DEF RentAccount, VaultAccount
  <2> QED
    BY <1>2, <1>3, <2>1, <2>2
<1> QED
  BY <1>3, <1>4

LEMMA DrawKeeps ==
    ASSUME VaultInv, NEW id \in VaultIds, NEW s \in Strategists, NEW n \in Nat,
           StrategyDraws(id, s, n)
    PROVE  VaultInv' /\ ShareValueStep
<1> DEFINE o == Overview(capital_structure, id, s)
           m == Transfer(ledger, vaults[id].asset_id, VaultAccount(id), s, n)
           entry == [o EXCEPT !.balance = o.balance + n]
<1>1. /\ Exists(id)
      /\ KeepsAlive(ledger, vaults[id].asset_id, VaultAccount(id), s, n)
      /\ ledger' = m
      /\ UNCHANGED <<now, vault_count, vaults, lp_tokens_to_vaults, tombstonedAt>>
  BY DEF StrategyDraws, CanStrategyWithdraw, StrategyWithdraw, KeepsAlive
<1>0. capital_structure' = [capital_structure EXCEPT ![id][s] = entry]
  BY Zenon DEF StrategyDraws, WithdrawnStructure
<1>2. /\ m \in Ledger
      /\ \A b \in AssetIds : Issuance(m, b) = Issuance(ledger, b)
      /\ \A i \in VaultIds :
            m[NativeAsset][RentAccount(i)] = ledger[NativeAsset][RentAccount(i)]
  BY <1>1, StrategyMoves
<1>3. o \in StrategyOverview
  BY OverviewType
<1>4. entry \in StrategyOverview
  <2> HIDE DEF o
  <2>1. o.balance + n \in Nat
    BY <1>3, BalanceWritten
  <2> QED
    BY <1>3, <2>1, BalanceWritten
<1> HIDE DEF m, entry
<1> QED
  BY <1>0, <1>1, <1>2, <1>4, StrategyKeeps

LEMMA ReturnKeeps ==
    ASSUME VaultInv, NEW id \in VaultIds, NEW s \in Strategists, NEW n \in Nat,
           StrategyReturns(id, s, n)
    PROVE  VaultInv' /\ ShareValueStep
<1> DEFINE o == Overview(capital_structure, id, s)
           m == Transfer(ledger, vaults[id].asset_id, s, VaultAccount(id), n)
           entry == [o EXCEPT !.balance = SatSub(o.balance, n)]
<1>1. /\ Exists(id)
      /\ KeepsAlive(ledger, vaults[id].asset_id, s, VaultAccount(id), n)
      /\ ledger' = m
      /\ UNCHANGED <<now, vault_count, vaults, lp_tokens_to_vaults, tombstonedAt>>
  BY DEF StrategyReturns, CanStrategyDeposit, StrategyDeposit, KeepsAlive
<1>0. capital_structure' = [capital_structure EXCEPT ![id][s] = entry]
  BY Zenon DEF StrategyReturns, DepositedStructure
<1>2. /\ m \in Ledger
      /\ \A b \in AssetIds : Issuance(m, b) = Issuance(ledger, b)
      /\ \A i \in VaultIds :
            m[NativeAsset][RentAccount(i)] = ledger[NativeAsset][RentAccount(i)]
  <2> HIDE DEF m
  <2> QED
    BY <1>1, StrategyMoves DEF m
<1>3. o \in StrategyOverview
  BY OverviewType
<1>4. entry \in StrategyOverview
  <2> HIDE DEF o
  <2>1. SatSub(o.balance, n) \in Nat
    BY <1>3, BalanceWritten DEF SatSub
  <2> QED
    BY <1>3, <2>1, BalanceWritten
<1> HIDE DEF m, entry
<1> QED
  BY <1>0, <1>1, <1>2, <1>4, StrategyKeeps

LEMMA BlockKeeps ==
    ASSUME VaultInv, VaultBlock \/ UNCHANGED <<now, ledger, vaultVars>>
    PROVE  VaultInv' /\ ShareValueStep
<1>1. /\ ledger' = ledger /\ vaults' = vaults /\ tombstonedAt' = tombstonedAt
      /\ vault_count' = vault_count /\ lp_tokens_to_vaults' = lp_tokens_to_vaults
      /\ capital_structure' = capital_structure /\ now' \in {now, now + 1}
  BY DEF VaultBlock, NextBlock, vaultVars
<1>2. VaultBooksOK /\ now \in Nat
  BY DEF VaultInv, VaultBooksOK
<1>3. now <= now' /\ now' \in Nat
  BY <1>1, <1>2
<1>4. VaultBooksOK'
  BY <1>1, <1>2, <1>3 DEF VaultBooksOK, VaultTypeOK
<1>5. \A i \in VaultIds : RentHeld(i) <= RentHeld(i)'
  <2> TAKE i \in VaultIds
  <2>1. RentHeld(i)' = RentHeld(i) /\ RentHeld(i) \in Nat
    BY <1>1, <1>2, RentHeldType DEF RentHeld
  <2> QED
    BY <2>1
<1>6. VaultInv'
  BY <1>1, <1>3, <1>4, <1>5, VaultsAlone
<1> QED
  BY <1>1, <1>6, SharesAlone

-----------------------------------------------------------------------------
(* The steps together.                                                     *)

DeletionStep ==
    \A id \in VaultIds :
        Exists(id) /\ vaults'[id] = NoVault => now >= tombstonedAt[id] + TombstoneDuration

LEMMA DeletionLate ==
    ASSUME VaultInv, NEW id \in VaultIds, NEW to \in Users, DeleteTombstoned(id, to)
    PROVE  DeletionStep
<1>1. /\ Exists(id) /\ Tombstoned(vaults[id]) /\ vaults[id].deposit # Existential
      /\ now - vaults[id].deposit.at >= TombstoneDuration
      /\ vaults' = [vaults EXCEPT ![id] = NoVault]
  BY DEF DeleteTombstoned
<1>2. /\ vaults[id].deposit.at \in Nat /\ tombstonedAt[id] \in Nat /\ now \in Nat
      /\ tombstonedAt[id] <= vaults[id].deposit.at
  BY <1>1, RentFacts
<1>3. now >= tombstonedAt[id] + TombstoneDuration
  BY <1>1, <1>2, VaultNumbers
<1>4. vaults \in [VaultIds -> VaultInfo \cup {NoVault}]
  BY DEF VaultInv, VaultBooksOK, VaultTypeOK
<1> QED
  BY <1>1, <1>3, <1>4 DEF DeletionStep, Exists

LEMMA NoneIsLate ==
    ASSUME NoneDeleted \/ vaults' = vaults
    PROVE  DeletionStep
BY DEF NoneDeleted, DeletionStep, Exists

LEMMA VaultStarts ==
    ASSUME ChainInit, VaultInit
    PROVE  VaultInv
<1>1. ledger \in Ledger /\ now = 0
  <2>1. \A n \in Nat : Holding(n) \in Entry
    BY DEF Holding, NoFunds, Entry
  <2>2. ledger \in [AssetIds -> [Accounts -> {Holding(n) : n \in Nat}]] /\ now = 0
    BY DEF ChainInit
  <2> QED
    BY <2>1, <2>2 DEF Ledger
<1>2. VaultTypeOK /\ tombstonedAt \in [VaultIds -> Nat]
  BY VaultNumbers DEF VaultInit, VaultTypeOK
<1>3. \A id \in VaultIds : VaultSound(id)
  BY DEF VaultInit, VaultSound, Sound
<1> QED
  BY <1>1, <1>2, <1>3 DEF VaultInv, VaultBooksOK

LEMMA VaultStep ==
    ASSUME VaultInv, [VaultNext]_<<now, ledger, vaultVars>>
    PROVE  VaultInv' /\ ShareValueStep /\ DeletionStep
<1>1. VaultDeposits \subseteq Nat /\ VaultAmounts \subseteq Nat /\ Reports \subseteq Nat
  BY VaultNumbers
<1>2. CASE \E from \in Users, config \in VaultConfigs, n \in VaultDeposits :
              CreateVault(from, config, n)
  BY <1>1, <1>2, CreateVaultKeeps, NoneIsLate
<1>3. CASE \E id \in VaultIds, who \in Users : ChargeRent(id, who)
  BY <1>3, ChargeRentKeeps, NoneIsLate
<1>4. CASE \E id \in VaultIds, who \in Users : Evict(id, who)
  BY <1>4, EvictKeeps, NoneIsLate
<1>5. CASE \E id \in VaultIds, who \in Users : DeleteTombstoned(id, who)
  BY <1>5, DeleteKeeps, DeletionLate
<1>6. CASE \E id \in VaultIds, who \in Users, n \in VaultDeposits : AddSurcharge(who, id, n)
  BY <1>1, <1>6, AddSurchargeKeeps, NoneIsLate
<1>7. CASE \E id \in VaultIds, who \in Users, n \in VaultAmounts : DepositVault(who, id, n)
  <2>1. vaults' = vaults
    BY <1>7 DEF DepositVault, vaultVars
  <2> QED
    BY <1>1, <1>7, <2>1, DepositVaultKeeps, NoneIsLate
<1>8. CASE \E id \in VaultIds, who \in Users, n \in VaultAmounts : WithdrawVault(who, id, n)
  <2>1. vaults' = vaults
    BY <1>8 DEF WithdrawVault, vaultVars
  <2> QED
    BY <1>1, <1>8, <2>1, WithdrawVaultKeeps, NoneIsLate
<1>9. CASE \E id \in VaultIds, who \in Users, s \in Strategists : LiquidateStrategy(who, id, s)
  <2>1. vaults' = vaults
    BY <1>9 DEF LiquidateStrategy
  <2> QED
    BY <1>9, <2>1, LiquidateKeeps, NoneIsLate
<1>10. CASE \E id \in VaultIds : EmergencyShutdown(id) \/ StartVault(id)
  BY <1>10, ShutdownKeeps, NoneIsLate
<1>11. CASE \E id \in VaultIds, s \in Strategists, n \in VaultAmounts : StrategyDraws(id, s, n)
  <2>1. vaults' = vaults
    BY <1>11 DEF StrategyDraws
  <2> QED
    BY <1>1, <1>11, <2>1, DrawKeeps, NoneIsLate
<1>12. CASE \E id \in VaultIds, s \in Strategists, n \in VaultAmounts : StrategyReturns(id, s, n)
  <2>1. vaults' = vaults
    BY <1>12 DEF StrategyReturns
  <2> QED
    BY <1>1, <1>12, <2>1, ReturnKeeps, NoneIsLate
<1>13. CASE \E id \in VaultIds, s \in Strategists, n \in Reports : UpdateStrategyReport(id, s, n)
  <2>1. vaults' = vaults
    BY <1>13 DEF UpdateStrategyReport
  <2> QED
    BY <1>1, <1>13, <2>1, ReportKeeps, NoneIsLate
<1>14. CASE VaultBlock \/ UNCHANGED <<now, ledger, vaultVars>>
  <2>1. vaults' = vaults
    BY <1>14 DEF VaultBlock, vaultVars
  <2> QED
    BY <1>14, <2>1, BlockKeeps, NoneIsLate
<1> QED
  BY <1>2, <1>3, <1>4, <1>5, <1>6, <1>7, <1>8, <1>9, <1>10, <1>11, <1>12, <1>13, <1>14
     DEF VaultNext

LEMMA VaultInvariant ==
    VaultSpec => []VaultInv
<1>1. ChainInit /\ VaultInit => VaultInv
  BY VaultStarts
<1>2. VaultInv /\ [VaultNext]_<<now, ledger, vaultVars>> => VaultInv'
  BY VaultStep
<1> QED
  BY <1>1, <1>2, PTL DEF VaultSpec

-----------------------------------------------------------------------------
(* Whatever calls are made, a vault's deposit, capabilities and strategies *)
(* stay well formed: no strategy is allotted more than the whole, and what *)
(* one owes never becomes negative when it returns more than it drew.      *)
THEOREM VaultTypesKept == VaultSpec => []VaultTypeOK
<1>1. VaultInv => VaultTypeOK
  BY DEF VaultInv, VaultBooksOK
<1> QED
  BY <1>1, VaultInvariant, PTL

(* However claim_surcharge, add_surcharge and evictions alternate, the     *)
(* deposit that a vault is said to live on is in its rent account.         *)
THEOREM RentStaysBacked == VaultSpec => []RentBacked
<1>1. VaultInv => RentBacked
  <2> SUFFICES ASSUME VaultInv, NEW id \in VaultIds, Exists(id),
                      vaults[id].deposit # Existential
               PROVE  vaults[id].deposit.amount <= ledger[NativeAsset][RentAccount(id)].free
    BY DEF RentBacked
  <2> QED
    BY RentFacts DEF RentHeld
<1> QED
  BY <1>1, VaultInvariant, PTL

(* do_deposit and do_withdraw round against whoever calls them: a step     *)
(* that mints or burns shares lowers the value of no other share, whatever *)
(* strategies reported before and even when the payment fails.             *)
THEOREM SharesKeepTheirValue == VaultSpec => ShareValueKept
<1>1. VaultInv /\ [VaultNext]_<<now, ledger, vaultVars>> => ShareValueStep
  BY VaultStep
<1>2. ShareValueStep
         => [\A id \in VaultIds :
               LET before == Issuance(ledger, LpTokens[id])
                   after  == Issuance(ledger', LpTokens[id])
               IN Exists(id) /\ before # after
                     => Aum(ledger', capital_structure', id) * before
                           >= Aum(ledger, capital_structure, id) * after]_<<ledger, capital_structure>>
  BY DEF ShareValueStep
<1> QED
  BY <1>1, <1>2, VaultInvariant, PTL DEF VaultSpec, ShareValueKept

(* delete_tombstoned removes no vault before TombstoneDuration blocks have *)
(* gone by since the claim that tombstoned it.                             *)
THEOREM VaultsNotDeletedEarly == VaultSpec => NotDeletedEarly
<1>1. VaultInv /\ [VaultNext]_<<now, ledger, vaultVars>> => DeletionStep
  BY VaultStep
<1>2. DeletionStep
         => [\A id \in VaultIds :
               Exists(id) /\ vaults'[id] = NoVault
                  => now >= tombstonedAt[id] + TombstoneDuration]_vaults
  BY DEF DeletionStep
<1> QED
  BY <1>1, <1>2, VaultInvariant, PTL DEF VaultSpec, NotDeletedEarly
=============================================================================
