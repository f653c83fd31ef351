---------------------------- MODULE OracleProofs ----------------------------
(***************************************************************************)
(* Proofs about Oracle and about PriceFeed, the service that oracle        *)
(* providers ask, for every value of their constants: assets, providers    *)
(* and stakes, the size of the channel and the duration of the cache.      *)
(***************************************************************************)
EXTENDS Oracle, PriceFeed, FiniteSetTheorems, SequenceTheorems, WellFoundedInduction, TLAPS

-----------------------------------------------------------------------------
(* Numbers and sets of positions.                                           *)

LEMMA LeastNatural ==
    ASSUME NEW T, T \subseteq Nat, T # {}
    PROVE  \E x \in T : \A y \in T : x <= y
<1>1. \E x \in T : \A y \in T : ~(<<y, x>> \in OpToRel(<, Nat))
  BY WFMin, NatLessThanWellFounded
<1>2. PICK x \in T : \A y \in T : ~(<<y, x>> \in OpToRel(<, Nat))
  BY <1>1
<1>3. \A y \in T : ~(y < x)
  BY <1>2 DEF OpToRel
<1> QED
  BY <1>3

LEMMA CountTo ==
    ASSUME NEW n \in Nat
    PROVE  IsFiniteSet(1..n) /\ Cardinality(1..n) = n
<1>1. /\ IsFiniteSet(1..n)
      /\ Cardinality(1..n) = IF 1 > n THEN 0 ELSE n - 1 + 1
  BY FS_Interval
<1> QED
  BY <1>1

(* The positions of a sequence, or any choice of them, can be counted.      *)
LEMMA PositionsFinite ==
    ASSUME NEW S, NEW s \in Seq(S), NEW I, I \subseteq DOMAIN s
    PROVE  IsFiniteSet(I) /\ Cardinality(I) \in Nat /\ Cardinality(I) <= Len(s)
<1>1. DOMAIN s = 1..Len(s) /\ Len(s) \in Nat
  OBVIOUS
<1> DEFINE n == Len(s)
<1> HIDE DEF n
<1>2. n \in Nat /\ I \subseteq 1..n
  BY <1>1 DEF n
<1>3. IsFiniteSet(1..n) /\ Cardinality(1..n) = n
  BY <1>2, CountTo
<1>4. IsFiniteSet(I) /\ Cardinality(I) <= Cardinality(1..n)
  BY <1>2, <1>3, FS_Subset, Zenon
<1>5. Cardinality(I) \in Nat
  BY <1>4, FS_CardinalityType
<1>6. Cardinality(I) <= n
  BY <1>3, <1>4
<1> QED
  BY <1>4, <1>5, <1>6 DEF n

LEMMA TailNotEmpty ==
    ASSUME NEW S, NEW s \in Seq(S), s # <<>>, Len(s) # 1
    PROVE  Tail(s) # <<>>
<1>1. Len(Tail(s)) = Len(s) - 1
  BY HeadTailProperties
<1>2. Len(s) \in Nat
  OBVIOUS
<1>3. Len(Tail(s)) # 0
  BY <1>1, <1>2
<1> DEFINE t == Tail(s)
<1> HIDE DEF t
<1>4. Len(t) # 0
  BY <1>3 DEF t
<1>5. t # <<>>
  BY <1>4
<1> QED
  BY <1>5 DEF t

LEMMA MonusNat ==
    ASSUME NEW x \in Nat, NEW y \in Nat
    PROVE  Monus(x, y) \in Nat /\ Monus(x, y) <= x
BY DEF Monus

-----------------------------------------------------------------------------
(* The median.                                                              *)

LEMMA KthType ==
    ASSUME NEW answers \in Seq(PrePrice), NEW k \in 1..Len(answers)
    PROVE  /\ Kth(answers, k) \in 0..MaxPrice
           /\ Cardinality({i \in DOMAIN answers : answers[i].price < Kth(answers, k)}) < k
           /\ k <= Cardinality({i \in DOMAIN answers : answers[i].price <= Kth(answers, k)})
           /\ \E i \in DOMAIN answers : answers[i].price = Kth(answers, k)
<1> DEFINE below(m) == {i \in DOMAIN answers : answers[i].price < m}
           upto(m) == {i \in DOMAIN answers : answers[i].price <= m}
           T == {m \in Nat : k <= Cardinality(upto(m))}
<1>1. \A i \in DOMAIN answers : answers[i].price \in 0..MaxPrice
  <2>1. \A i \in DOMAIN answers : answers[i] \in PrePrice
    OBVIOUS
  <2> QED
    BY <2>1 DEF PrePrice
<1>2. \A m : below(m) \subseteq DOMAIN answers /\ upto(m) \subseteq DOMAIN answers
  OBVIOUS
<1>3. upto(MaxPrice) = DOMAIN answers /\ below(0) = {}
  <2>1. \A i \in DOMAIN answers : answers[i].price <= MaxPrice /\ ~(answers[i].price < 0)
    BY <1>1, ParameterTypes
  <2> QED
    BY <2>1, Zenon
<1>4. \A m \in Nat \ {0} : below(m) = upto(m - 1)
  BY <1>1
<1>5. \A m \in Nat : (\A i \in DOMAIN answers : answers[i].price # m) => below(m) = upto(m)
  BY <1>1
<1>6. DOMAIN answers = 1..Len(answers) /\ Len(answers) \in Nat
  OBVIOUS
<1> HIDE DEF below, upto
<1>7. \A m : Cardinality(below(m)) \in Nat /\ Cardinality(upto(m)) \in Nat
  BY <1>2, PositionsFinite, Zenon
<1>8. Cardinality(upto(MaxPrice)) = Len(answers)
  BY <1>3, <1>6, CountTo
<1>9. MaxPrice \in T
  BY <1>8, ParameterTypes
<1>10. PICK m \in T : \A n \in T : m <= n
  BY <1>9, LeastNatural
<1>11. m \in 0..MaxPrice /\ k <= Cardinality(upto(m))
  BY <1>9, <1>10, ParameterTypes
<1>12. Cardinality(below(m)) < k
  <2>1. CASE m = 0
    <3>1. Cardinality(below(m)) = 0
      BY <1>3, <2>1, FS_EmptySet
    <3> QED
      BY <3>1
  <2>2. CASE m # 0
    <3>1. m - 1 \in Nat /\ m - 1 \notin T
      BY <1>10, <2>2
    <3>2. Cardinality(upto(m - 1)) < k
      BY <3>1, <1>7
    <3>3. below(m) = upto(m - 1)
      BY <1>4, <1>10, <2>2
    <3> QED
      BY <3>2, <3>3
  <2> QED
    BY <2>1, <2>2
<1>13. \E i \in DOMAIN answers : answers[i].price = m
  <2> SUFFICES ASSUME \A i \in DOMAIN answers : answers[i].price # m
               PROVE  FALSE
    OBVIOUS
  <2>1. below(m) = upto(m)
    BY <1>5, <1>11
  <2>2. Cardinality(upto(m)) < k
    BY <2>1, <1>12
  <2> QED
    BY <2>2, <1>7, <1>11
<1> QED
  BY <1>11, <1>12, <1>13 DEF Kth, below, upto

LEMMA MedianType ==
    ASSUME NEW answers \in Seq(PrePrice), answers # <<>>
    PROVE  GetMedianPrice(answers) \in 0..MaxPrice
<1> DEFINE n == Len(answers)
           mid == n \div 2
<1>1. n \in Nat \ {0}
  OBVIOUS
<1>2. CASE n % 2 = 1
  <2>1. mid + 1 \in 1..n
    BY <1>1, <1>2
  <2>2. Kth(answers, mid + 1) \in 0..MaxPrice
    BY <2>1, KthType
  <2> QED
    BY <1>2, <2>2 DEF GetMedianPrice
<1>3. CASE n % 2 # 1
  <2>1. mid \in 1..n /\ mid + 1 \in 1..n
    BY <1>1, <1>3
  <2>2. Kth(answers, mid) \in 0..MaxPrice /\ Kth(answers, mid + 1) \in 0..MaxPrice
    BY <2>1, KthType
  <2>3. \A x, y \in 0..MaxPrice : Least(x + y, MaxPrice) \div 2 \in 0..MaxPrice
    BY ParameterTypes DEF Least
  <2>4. GetMedianPrice(answers) =
           Least(Kth(answers, mid) + Kth(answers, mid + 1), MaxPrice) \div 2
    BY <1>3 DEF GetMedianPrice
  <2> QED
    BY <2>2, <2>3, <2>4
<1> QED
  BY <1>2, <1>3

-----------------------------------------------------------------------------
(* Pruning: what is left of the answers is a run of them that starts at the *)
(* first fresh one.                                                         *)

LEMMA FreshFromType ==
    ASSUME NEW answers \in Seq(PrePrice)
    PROVE  /\ FreshFrom(answers) \in 1..Len(answers) + 1
           /\ FreshFrom(answers) <= Len(answers) =>
                 answers[FreshFrom(answers)].block >= Monus(block, StalePrice)
<1> DEFINE fresh == {i \in DOMAIN answers : answers[i].block >= Monus(block, StalePrice)}
<1>1. fresh \subseteq 1..Len(answers) /\ Len(answers) \in Nat
  OBVIOUS
<1>2. CASE fresh = {}
  BY <1>1, <1>2 DEF FreshFrom
<1>3. CASE fresh # {}
  <2>0. fresh \subseteq Nat
    BY <1>1
  <2>1. \E i \in fresh : \A j \in fresh : i <= j
    <3> HIDE DEF fresh
    <3> QED
      BY <2>0, <1>3, LeastNatural
  <2>2. FreshFrom(answers) \in fresh
    <3>1. FreshFrom(answers) = CHOOSE i \in fresh : \A j \in fresh : i <= j
      BY <1>3, Zenon DEF FreshFrom
    <3> HIDE DEF fresh
    <3> QED
      BY <2>1, <3>1
  <2> QED
    BY <1>1, <2>2
<1> QED
  BY <1>2, <1>3

LEMMA PrunedType ==
    ASSUME NEW answers \in Seq(PrePrice), NEW info \in AssetInfo
    PROVE  /\ Pruned(answers, info) \in Seq(PrePrice)
           /\ \A i \in 1..Len(Pruned(answers, info)) :
                 /\ FreshFrom(answers) + i - 1 \in 1..Len(answers)
                 /\ Pruned(answers, info)[i] = answers[FreshFrom(answers) + i - 1]
<1> DEFINE f == FreshFrom(answers)
           fresh == SubSeq(answers, f, Len(answers))
           n == Least(info.max_answers, Len(fresh))
<1>1. f \in 1..Len(answers) + 1 /\ Len(answers) \in Nat
  BY FreshFromType
<1>2. \A i \in f..Len(answers) : answers[i] \in PrePrice
  BY <1>1
<1> HIDE DEF f
<1>3. /\ fresh \in Seq(PrePrice)
      /\ Len(fresh) = IF f <= Len(answers) THEN Len(answers) - f + 1 ELSE 0
      /\ \A i \in 1..Len(answers) - f + 1 : fresh[i] = answers[f + i - 1]
  <2>1. f \in Int /\ Len(answers) \in Int
    BY <1>1
  <2> QED
    BY <2>1, <1>2, SubSeqProperties
<1> HIDE DEF fresh
<1>4. info.max_answers \in Nat
  BY DEF AssetInfo
<1>5. n \in 0..Len(fresh) /\ Len(fresh) \in Nat
  BY <1>3, <1>4 DEF Least
<1>6. \A i \in 1..n : fresh[i] \in PrePrice
  BY <1>3, <1>5
<1>7. Pruned(answers, info) = SubSeq(fresh, 1, n)
  BY DEF Pruned, fresh, f
<1> HIDE DEF n
<1>8. /\ SubSeq(fresh, 1, n) \in Seq(PrePrice)
      /\ Len(SubSeq(fresh, 1, n)) = IF 1 <= n THEN n - 1 + 1 ELSE 0
      /\ \A i \in 1..n - 1 + 1 : SubSeq(fresh, 1, n)[i] = fresh[1 + i - 1]
  <2>1. n \in Int /\ 1 \in Int
    BY <1>5
  <2> QED
    BY <2>1, <1>6, SubSeqProperties
<1> DEFINE pruned == SubSeq(fresh, 1, n)
<1> HIDE DEF pruned
<1>9. /\ pruned \in Seq(PrePrice)
      /\ Len(pruned) = n
      /\ \A i \in 1..n : pruned[i] = fresh[i]
  BY <1>5, <1>8 DEF pruned
<1>10. \A i \in 1..n : f + i - 1 \in 1..Len(answers) /\ pruned[i] = answers[f + i - 1]
  BY <1>1, <1>3, <1>5, <1>9
<1> QED
  BY <1>7, <1>9, <1>10 DEF pruned, f

LEMMA TransitType ==
    ASSUME NEW answers \in Seq(PrePrice), NEW info \in AssetInfo,
           answerInTransit \in [Accounts -> Nat]
    PROVE  TransitAfterPruning(answers, info) \in [Accounts -> Nat]
<1> DEFINE first == FreshFrom(answers)
           fresh == Len(answers) + 1 - first
           released(w) == {i \in {first} \cap DOMAIN answers : answers[i].who = w}
           cut(w) ==
            {i \in DOMAIN answers : /\ answers[i].who = w /\ fresh > info.max_answers
                                    /\ i - first >= fresh - info.max_answers}
<1>1. \A w \in Accounts : released(w) \subseteq DOMAIN answers /\ cut(w) \subseteq DOMAIN answers
  OBVIOUS
<1>2. TransitAfterPruning(answers, info) =
        [w \in Accounts |->
            Monus(answerInTransit[w],
                  info.slash * (Cardinality(released(w)) + Cardinality(cut(w))))]
  BY DEF TransitAfterPruning, RemovePriceInTransit
<1> HIDE DEF released, cut
<1>3. \A w \in Accounts : Cardinality(released(w)) \in Nat /\ Cardinality(cut(w)) \in Nat
  BY <1>1, PositionsFinite, Zenon
<1>4. info.slash \in Nat
  BY DEF AssetInfo
<1>5. \A w \in Accounts :
         info.slash * (Cardinality(released(w)) + Cardinality(cut(w))) \in Nat
  BY <1>3, <1>4
<1>6. \A w \in Accounts :
         Monus(answerInTransit[w],
               info.slash * (Cardinality(released(w)) + Cardinality(cut(w)))) \in Nat
  BY <1>5, MonusNat
<1> QED
  BY <1>2, <1>6, Zenon

-----------------------------------------------------------------------------
(* The currency keeps balances.                                             *)

LEMMA BalanceTypes ==
    ASSUME NEW b \in Balance, NEW amount \in Nat
    PROVE  /\ Reaped(b) \in Balance
           /\ b.free >= amount => Reserve(b, amount) \in Balance
           /\ Unreserve(b, amount) \in Balance
           /\ Slash(b, amount) \in Balance
           /\ Slash(b, amount).reserved <= b.reserved
<1>1. b.free \in Nat /\ b.reserved \in Nat
  BY DEF Balance
<1>2. Reaped(b) \in Balance
  BY <1>1 DEF Reaped, Sum, Balance
<1>3. b.free >= amount => Reserve(b, amount) \in Balance
  BY <1>1 DEF Reserve, Balance
<1>4. Unreserve(b, amount) \in Balance
  BY <1>1 DEF Unreserve, Balance, Least
<1>5. Slash(b, amount) \in Balance /\ Slash(b, amount).reserved <= b.reserved
  BY <1>1 DEF Slash, Reaped, Sum, Monus, Balance
<1> QED
  BY <1>2, <1>3, <1>4, <1>5

(* An allowed transfer keeps balances, and takes from a reserve only by     *)
(* reaping the payer, which keep-alive rules out.                           *)
LEMMA TransferTypes ==
    ASSUME NEW bank \in [Accounts -> Balance], NEW from \in Accounts, NEW to \in Accounts,
           NEW amount \in Nat, amount = 0 \/ from = to \/ bank[from].free >= amount
    PROVE  /\ Transfer(bank, from, to, amount) \in [Accounts -> Balance]
           /\ \A u \in Accounts :
                 Transfer(bank, from, to, amount)[u].reserved <= bank[u].reserved
           /\ \A u \in Accounts :
                 (\/ amount = 0 \/ from = to \/ u # from
                  \/ Sum(bank[from]) - amount >= ED) =>
                 Transfer(bank, from, to, amount)[u].reserved = bank[u].reserved
<1>1. CASE amount = 0 \/ from = to
  <2>1. Transfer(bank, from, to, amount) = bank
    BY <1>1 DEF Transfer
  <2>2. \A u \in Accounts : bank[u].reserved \in Nat
    BY DEF Balance
  <2> QED
    BY <2>1, <2>2
<1>2. CASE amount # 0 /\ from # to
  <2> DEFINE paid == [free |-> bank[from].free - amount, reserved |-> bank[from].reserved]
             got == [free |-> bank[to].free + amount, reserved |-> bank[to].reserved]
  <2>1. /\ bank[from].free \in Nat /\ bank[from].reserved \in Nat
        /\ bank[to].free \in Nat /\ bank[to].reserved \in Nat
    BY DEF Balance
  <2>2. bank[from].free >= amount
    BY <1>2
  <2>3. paid \in Balance /\ got \in Balance
    BY <2>1, <2>2 DEF Balance
  <2>4. Reaped(paid) \in Balance /\ Reaped(paid).reserved <= bank[from].reserved
    BY <2>1, <2>3 DEF Reaped, Balance
  <2>5. Sum(bank[from]) - amount >= ED => Reaped(paid) = paid
    BY <2>1, <2>2, ParameterTypes DEF Reaped, Sum
  <2>6. Transfer(bank, from, to, amount) =
           [bank EXCEPT ![from] = Reaped(paid), ![to] = got]
    BY <1>2 DEF Transfer
  <2> HIDE DEF paid, got
  <2>7. got.reserved = bank[to].reserved /\ paid.reserved = bank[from].reserved
    BY DEF got, paid
  <2>8. \A u \in Accounts : bank[u].reserved \in Nat
    BY DEF Balance
  <2> QED
    BY <1>2, <2>3, <2>4, <2>5, <2>6, <2>7, <2>8
<1> QED
  BY <1>1, <1>2

-----------------------------------------------------------------------------
(* Type correctness.                                                        *)

(* on_initialize works through configured assets and non-empty payouts, and *)
(* every stored asset info has been validated.                              *)
HookOK ==
    /\ \A a \in todo : assetsInfo[a] # NULL
    /\ paying # NULL => paying.answers # <<>>
    /\ \A a \in Assets : assetsInfo[a] # NULL => ValidInfo(assetsInfo[a])

TypeInv == TypeOK /\ HookOK

LEMMA AddStakeTypes ==
    ASSUME TypeInv, NEW who \in Accounts, NEW signer \in Accounts, NEW stake \in Nat,
           DoAddStake(who, signer, stake)
    PROVE  /\ accounts' \in [Accounts -> Balance]
           /\ oracleStake' \in [Accounts -> Nat \cup {NULL}]
           /\ accounts'[signer].reserved = accounts[signer].reserved + stake
           /\ \A u \in Accounts \ {signer} : accounts'[u].reserved = accounts[u].reserved
           /\ oracleStake' = [oracleStake EXCEPT ![signer] = OrZero(oracleStake[signer]) + stake]
           /\ UNCHANGED <<block, config, declaredWithdraws, answerInTransit, feed, hook, lost>>
<1> DEFINE sent == Transfer(accounts, who, signer, stake)
<1>1. /\ accounts \in [Accounts -> Balance]
      /\ \/ stake = 0 \/ who = signer
         \/ accounts[who].free >= stake /\ Sum(accounts[who]) - stake >= ED
  BY DEF TypeInv, TypeOK, DoAddStake, CanTransfer
<1>2. /\ sent \in [Accounts -> Balance]
      /\ \A u \in Accounts : sent[u].reserved = accounts[u].reserved
  BY <1>1, TransferTypes
<1>3. /\ sent[signer].free >= stake
      /\ accounts' = [sent EXCEPT ![signer] = Reserve(sent[signer], stake)]
      /\ oracleStake' = [oracleStake EXCEPT ![signer] = OrZero(oracleStake[signer]) + stake]
  BY DEF DoAddStake
<1> HIDE DEF sent
<1>4. Reserve(sent[signer], stake) \in Balance
  BY <1>2, <1>3, BalanceTypes
<1>5. Reserve(sent[signer], stake).reserved = sent[signer].reserved + stake
  BY DEF Reserve
<1>6. OrZero(oracleStake[signer]) + stake \in Nat
  BY DEF TypeInv, TypeOK, OrZero
<1>7. oracleStake \in [Accounts -> Nat \cup {NULL}]
  BY DEF TypeInv, TypeOK
<1>8. UNCHANGED <<block, config, declaredWithdraws, answerInTransit, feed, hook, lost>>
  BY DEF DoAddStake
<1> QED
  BY <1>2, <1>3, <1>4, <1>5, <1>6, <1>7, <1>8

LEMMA ReclaimTypes ==
    ASSUME TypeInv, NEW who \in Accounts, ReclaimStake(who)
    PROVE  /\ accounts' \in [Accounts -> Balance]
           /\ lost' \in [Accounts -> Nat]
           /\ controllerToSigner[who] \in Accounts
           /\ declaredWithdraws[controllerToSigner[who]] \in Withdraw
           /\ declaredWithdraws' =
                 [declaredWithdraws EXCEPT ![controllerToSigner[who]] = NULL]
           /\ \A u \in Accounts \ {controllerToSigner[who]} :
                 accounts'[u].reserved = accounts[u].reserved /\ lost'[u] = lost[u]
           /\ accounts'[controllerToSigner[who]].reserved + lost'[controllerToSigner[who]]
                 = Monus(accounts[controllerToSigner[who]].reserved,
                         declaredWithdraws[controllerToSigner[who]].stake)
                   + lost[controllerToSigner[who]]
           /\ UNCHANGED <<block, config, oracleStake, answerInTransit, feed, hook>>
<1> DEFINE signer == controllerToSigner[who]
           withdrawal == declaredWithdraws[signer]
           stake == withdrawal.stake
           freed == [accounts EXCEPT ![signer] = Unreserve(accounts[signer], stake)]
           sent == Transfer(freed, signer, who, stake)
<1>1. signer \in Accounts /\ withdrawal \in Withdraw
  BY NullIsNoValue DEF TypeInv, TypeOK, ReclaimStake
<1>2. stake \in Nat
  BY <1>1 DEF Withdraw
<1>3. /\ accounts \in [Accounts -> Balance] /\ lost \in [Accounts -> Nat]
      /\ declaredWithdraws' = [declaredWithdraws EXCEPT ![signer] = NULL]
      /\ UNCHANGED <<block, config, oracleStake, answerInTransit, feed, hook>>
  BY DEF TypeInv, TypeOK, ReclaimStake
<1>4. \/ /\ stake = 0 \/ signer = who \/ freed[signer].free >= stake
         /\ accounts' = sent
         /\ lost' = [lost EXCEPT ![signer] =
                       @ + freed[signer].reserved - sent[signer].reserved]
      \/ accounts' = freed /\ lost' = lost
  BY DEF ReclaimStake, CanTransfer
<1> HIDE DEF signer, withdrawal, stake
<1>5. Unreserve(accounts[signer], stake) \in Balance
  BY <1>1, <1>2, <1>3, BalanceTypes
<1>6. Unreserve(accounts[signer], stake).reserved = Monus(accounts[signer].reserved, stake)
  <2>1. accounts[signer].reserved \in Nat
    BY <1>1, <1>3 DEF Balance
  <2> QED
    BY <2>1, <1>2 DEF Unreserve, Monus, Least
<1>7. /\ freed \in [Accounts -> Balance]
      /\ freed[signer].reserved = Monus(accounts[signer].reserved, stake)
      /\ \A u \in Accounts \ {signer} : freed[u] = accounts[u]
  BY <1>1, <1>3, <1>5, <1>6
<1> HIDE DEF freed
<1>8. freed[signer].reserved \in Nat /\ lost[signer] \in Nat
  BY <1>1, <1>3, <1>7 DEF Balance
<1>9. CASE accounts' = freed /\ lost' = lost
  BY <1>1, <1>3, <1>7, <1>9 DEF signer, withdrawal, stake
<1>10. CASE /\ stake = 0 \/ signer = who \/ freed[signer].free >= stake
            /\ accounts' = sent
            /\ lost' = [lost EXCEPT ![signer] =
                          @ + freed[signer].reserved - sent[signer].reserved]
  <2>1. /\ sent \in [Accounts -> Balance]
        /\ sent[signer].reserved <= freed[signer].reserved
        /\ \A u \in Accounts \ {signer} : sent[u].reserved = freed[u].reserved
    BY <1>1, <1>2, <1>7, <1>10, TransferTypes
  <2> HIDE DEF sent
  <2>2. sent[signer].reserved \in Nat
    BY <1>1, <2>1 DEF Balance
  <2>3. /\ lost' \in [Accounts -> Nat]
        /\ lost'[signer] = lost[signer] + freed[signer].reserved - sent[signer].reserved
        /\ \A u \in Accounts \ {signer} : lost'[u] = lost[u]
    BY <1>1, <1>3, <1>8, <1>10, <2>1, <2>2
  <2>4. sent[signer].reserved + lost'[signer]
           = Monus(accounts[signer].reserved, stake) + lost[signer]
    BY <1>7, <1>8, <2>2, <2>3
  <2>5. \A u \in Accounts \ {signer} : sent[u].reserved = accounts[u].reserved
    BY <1>7, <2>1
  <2> QED
    BY <1>1, <1>3, <1>10, <2>1, <2>3, <2>4, <2>5 DEF signer, withdrawal, stake
<1> QED
  BY <1>4, <1>9, <1>10

LEMMA PayOutTypes ==
    ASSUME TypeInv, PayOut
    PROVE  /\ accounts' \in [Accounts -> Balance]
           /\ lost' \in [Accounts -> Nat]
           /\ answerInTransit' \in [Accounts -> Nat]
           /\ paying' \in Payout \cup {NULL}
           /\ paying' # NULL => paying'.answers # <<>>
           /\ \A u \in Accounts :
                 accounts'[u].reserved + lost'[u] = accounts[u].reserved + lost[u]
           /\ UNCHANGED <<block, config, staking, feed, todo>>
<1> DEFINE answer == Head(paying.answers)
           who == answer.who
           controller == IF signerToController[who] = NULL THEN who
                         ELSE signerToController[who]
           slash == paying.info.slash
           reward == paying.info.reward
<1>1. paying \in Payout /\ paying.answers # <<>>
  BY DEF TypeInv, TypeOK, HookOK, PayOut
<1>2. paying.answers \in Seq(PrePrice) /\ paying.info \in AssetInfo
  BY <1>1 DEF Payout
<1>3. answer \in PrePrice /\ Tail(paying.answers) \in Seq(PrePrice)
  BY <1>1, <1>2
<1>4. who \in Accounts
  BY <1>3 DEF PrePrice
<1>5. controller \in Accounts
  BY <1>4 DEF TypeInv, TypeOK
<1>6. slash \in Nat /\ reward \in Nat
  BY <1>2 DEF AssetInfo
<1>7. /\ accounts \in [Accounts -> Balance] /\ lost \in [Accounts -> Nat]
      /\ answerInTransit \in [Accounts -> Nat]
  BY DEF TypeInv, TypeOK
<1>8. /\ paying' = IF Len(paying.answers) = 1 THEN NULL
                    ELSE [paying EXCEPT !.answers = Tail(paying.answers)]
      /\ answerInTransit' =
            [answerInTransit EXCEPT ![who] = Monus(answerInTransit[who], slash)]
      /\ UNCHANGED <<block, config, staking, feed, todo>>
  BY DEF PayOut, RemovePriceInTransit
<1>9. \/ /\ accounts' = [accounts EXCEPT ![who] = Slash(accounts[who], slash)]
         /\ lost' = [lost EXCEPT ![who] =
                       lost[who] + accounts[who].reserved - accounts'[who].reserved]
      \/ /\ accounts' = accounts
         /\ lost' = lost
      \/ /\ accounts' = [accounts EXCEPT ![controller].free = @ + reward]
         /\ lost' = lost
  BY DEF PayOut
<1>10. /\ paying' \in Payout \cup {NULL}
       /\ paying' # NULL => paying'.answers # <<>>
  <2>1. Len(paying.answers) # 1 => Tail(paying.answers) # <<>>
    BY <1>1, <1>2, TailNotEmpty
  <2> QED
    BY <1>1, <1>3, <1>8, <2>1 DEF Payout
<1>11. answerInTransit' \in [Accounts -> Nat]
  BY <1>4, <1>6, <1>7, <1>8, MonusNat
<1> HIDE DEF who, controller, slash, reward
<1>12. \A u \in Accounts : accounts[u].free \in Nat /\ accounts[u].reserved \in Nat
  BY <1>7 DEF Balance
<1>13. /\ Slash(accounts[who], slash) \in Balance
       /\ Slash(accounts[who], slash).reserved \in Nat
       /\ Slash(accounts[who], slash).reserved <= accounts[who].reserved
  <2>1. accounts[who] \in Balance
    BY <1>4, <1>7
  <2>2. /\ Slash(accounts[who], slash) \in Balance
        /\ Slash(accounts[who], slash).reserved <= accounts[who].reserved
    BY <2>1, <1>6, BalanceTypes
  <2> QED
    BY <2>2 DEF Balance
<1>14. CASE /\ accounts' = [accounts EXCEPT ![who] = Slash(accounts[who], slash)]
            /\ lost' = [lost EXCEPT ![who] =
                          lost[who] + accounts[who].reserved - accounts'[who].reserved]
  <2>1. accounts'[who] = Slash(accounts[who], slash)
    BY <1>4, <1>7, <1>14
  <2>2. /\ accounts' \in [Accounts -> Balance]
        /\ lost' \in [Accounts -> Nat]
    BY <1>4, <1>7, <1>12, <1>13, <1>14, <2>1
  <2>3. \A u \in Accounts \ {who} : accounts'[u] = accounts[u] /\ lost'[u] = lost[u]
    BY <1>7, <1>14
  <2>4. lost'[who] = lost[who] + accounts[who].reserved - accounts'[who].reserved
    BY <1>4, <1>7, <1>14
  <2>5. accounts'[who].reserved + lost'[who] = accounts[who].reserved + lost[who]
    BY <1>4, <1>7, <1>12, <1>13, <2>1, <2>4
  <2> QED
    BY <1>8, <1>10, <1>11, <2>2, <2>3, <2>5
<1>15. CASE accounts' = accounts /\ lost' = lost
  BY <1>7, <1>8, <1>10, <1>11, <1>15
<1>16. CASE /\ accounts' = [accounts EXCEPT ![controller].free = @ + reward]
            /\ lost' = lost
  <2>1. /\ accounts' \in [Accounts -> Balance]
        /\ \A u \in Accounts : accounts'[u].reserved = accounts[u].reserved
    BY <1>5, <1>6, <1>7, <1>12, <1>16 DEF Balance
  <2> QED
    BY <1>7, <1>8, <1>10, <1>11, <1>16, <2>1
<1> QED
  BY <1>9, <1>14, <1>15, <1>16

LEMMA RecordedType ==
    ASSUME NEW history \in Seq(Price), NEW price \in Price
    PROVE  Recorded(history, price) \in Seq(Price)
<1>1. CASE Len(history) >= MaxHistory
  <2>1. history # <<>>
    BY <1>1, ParameterTypes
  <2>2. Tail(history) \in Seq(Price)
    BY <2>1, HeadTailProperties
  <2> QED
    BY <1>1, <2>2, AppendProperties DEF Recorded
<1>2. CASE ~(Len(history) >= MaxHistory)
  BY <1>2, AppendProperties DEF Recorded
<1> QED
  BY <1>1, <1>2

LEMMA UpdateAssetTypes ==
    ASSUME TypeInv, NEW a \in Assets, UpdateAsset(a)
    PROVE  /\ assetsInfo[a] \in AssetInfo
           /\ ValidInfo(assetsInfo[a])
           /\ Pruned(prePrices[a], assetsInfo[a]) \in Seq(PrePrice)
           /\ answerInTransit' \in [Accounts -> Nat]
           /\ prices' \in [Assets -> Price]
           /\ priceHistory' \in [Assets -> Seq(Price)]
           /\ prePrices' \in [Assets -> Seq(PrePrice)]
           /\ paying' \in Payout \cup {NULL}
           /\ paying' # NULL => paying'.answers # <<>>
           /\ todo' = todo \ {a}
           /\ UNCHANGED <<block, config, staking, accounts, lost>>
<1> DEFINE info == assetsInfo[a]
           answers == prePrices[a]
           pruned == Pruned(answers, info)
           median == GetMedianPrice(pruned)
           new == [price |-> median, block |-> block]
<1>1. info \in AssetInfo /\ ValidInfo(info)
  BY DEF TypeInv, TypeOK, HookOK, UpdateAsset
<1>2. /\ answers \in Seq(PrePrice) /\ block \in Nat
      /\ prices \in [Assets -> Price] /\ priceHistory \in [Assets -> Seq(Price)]
      /\ prePrices \in [Assets -> Seq(PrePrice)]
      /\ answerInTransit \in [Accounts -> Nat]
      /\ priceHistory[a] \in Seq(Price)
  BY DEF TypeInv, TypeOK
<1>3. pruned \in Seq(PrePrice)
  BY <1>1, <1>2, PrunedType
<1>4. TransitAfterPruning(answers, info) \in [Accounts -> Nat]
  BY <1>1, <1>2, TransitType
<1>5. answerInTransit' \in [Accounts -> Nat]
  BY <1>2, <1>4 DEF UpdateAsset
<1>6. /\ todo' = todo \ {a}
      /\ UNCHANGED <<block, config, staking, accounts, lost>>
  BY DEF UpdateAsset
<1>7. \/ /\ Len(pruned) >= info.min_answers
         /\ prices' = [prices EXCEPT ![a] = new]
         /\ priceHistory' = [priceHistory EXCEPT ![a] = Recorded(priceHistory[a], prices'[a])]
         /\ prePrices' = [prePrices EXCEPT ![a] = <<>>]
         /\ paying' = [answers |-> pruned, price |-> median, info |-> info]
      \/ /\ prePrices' = [prePrices EXCEPT ![a] = pruned]
         /\ UNCHANGED <<prices, priceHistory, paying>>
      \/ UNCHANGED <<prices, priceHistory, prePrices, paying>>
  BY DEF UpdateAsset, feed
<1>8. paying = NULL
  BY DEF UpdateAsset
<1> HIDE DEF info, answers, pruned
<1>9. CASE /\ Len(pruned) >= info.min_answers
           /\ prices' = [prices EXCEPT ![a] = new]
           /\ priceHistory' = [priceHistory EXCEPT ![a] = Recorded(priceHistory[a], prices'[a])]
           /\ prePrices' = [prePrices EXCEPT ![a] = <<>>]
           /\ paying' = [answers |-> pruned, price |-> median, info |-> info]
  <2>1. pruned # <<>>
    <3>1. info.min_answers > 0 /\ info.min_answers \in Nat
      BY <1>1 DEF ValidInfo, AssetInfo
    <3> QED
      BY <3>1, <1>9
  <2>2. median \in 0..MaxPrice
    BY <1>3, <2>1, MedianType
  <2> HIDE DEF median
  <2>3. new \in Price
    BY <1>2, <2>2 DEF Price
  <2>4. prices'[a] = new
    BY <1>2, <1>9
  <2>5. Recorded(priceHistory[a], prices'[a]) \in Seq(Price)
    BY <1>2, <2>3, <2>4, RecordedType
  <2>6. <<>> \in Seq(PrePrice)
    OBVIOUS
  <2>7. paying' \in Payout /\ paying'.answers # <<>>
    BY <1>1, <1>3, <1>9, <2>1, <2>2 DEF Payout
  <2>8. /\ prices' \in [Assets -> Price]
        /\ priceHistory' \in [Assets -> Seq(Price)]
        /\ prePrices' \in [Assets -> Seq(PrePrice)]
    BY <1>2, <1>9, <2>3, <2>5, <2>6
  <2> QED
    BY <1>1, <1>3, <1>5, <1>6, <2>7, <2>8 DEF info, answers, pruned
<1>10. CASE /\ prePrices' = [prePrices EXCEPT ![a] = pruned]
            /\ UNCHANGED <<prices, priceHistory, paying>>
  <2>1. prePrices' \in [Assets -> Seq(PrePrice)]
    BY <1>2, <1>3, <1>10
  <2> QED
    BY <1>1, <1>2, <1>3, <1>5, <1>6, <1>8, <1>10, <2>1 DEF info, answers, pruned
<1>11. CASE UNCHANGED <<prices, priceHistory, prePrices, paying>>
  BY <1>1, <1>2, <1>3, <1>5, <1>6, <1>8, <1>11 DEF info, answers, pruned
<1> QED
  BY <1>7, <1>9, <1>10, <1>11

LEMMA TypeInit == Init => TypeInv
<1> SUFFICES ASSUME Init PROVE TypeInv
  OBVIOUS
<1>1. [free |-> InitialBalance, reserved |-> 0] \in Balance
  BY ParameterTypes DEF Balance
<1>2. [price |-> 0, block |-> 0] \in Price
  BY ParameterTypes DEF Price
<1>3. TypeOK
  BY <1>1, <1>2 DEF Init, TypeOK
<1>4. HookOK
  BY DEF Init, HookOK
<1> QED
  BY <1>3, <1>4 DEF TypeInv

LEMMA TypeStep == TypeInv /\ [Next]_vars => TypeInv'
<1> SUFFICES ASSUME TypeInv, [Next]_vars PROVE TypeInv'
  OBVIOUS
<1>1. ASSUME NEW a \in Assets, NEW info \in Infos, AddAssetAndInfo(a, info)
      PROVE  TypeInv'
  <2>1. info \in AssetInfo /\ info # NULL /\ ValidInfo(info)
    BY <1>1, ParameterTypes, NullIsNoValue DEF AddAssetAndInfo
  <2>2. assetsInfo' = [assetsInfo EXCEPT ![a] = info] /\ assetsCount' \in Nat
    BY <1>1 DEF AddAssetAndInfo, TypeInv, TypeOK
  <2>3. /\ UNCHANGED <<block, controllerToSigner, signerToController, declaredWithdraws,
                       oracleStake, answerInTransit, prices, priceHistory, prePrices,
                       accounts, todo, paying, lost>>
        /\ todo = {}
    BY <1>1 DEF AddAssetAndInfo, Idle, staking, keys, feed, hook
  <2>4. TypeOK'
    BY <2>1, <2>2, <2>3 DEF TypeInv, TypeOK
  <2>5. HookOK'
    BY <2>1, <2>2, <2>3 DEF TypeInv, TypeOK, HookOK, ValidInfo
  <2> QED
    BY <2>4, <2>5 DEF TypeInv
<1>2. ASSUME NEW who \in Accounts, NEW signer \in Accounts, SetSigner(who, signer)
      PROVE  TypeInv'
  <2>1. MinStake \in Nat /\ DoAddStake(who, signer, MinStake)
    BY <1>2, ParameterTypes DEF SetSigner
  <2>2. /\ accounts' \in [Accounts -> Balance]
        /\ oracleStake' \in [Accounts -> Nat \cup {NULL}]
        /\ UNCHANGED <<block, config, declaredWithdraws, answerInTransit, feed, hook, lost>>
    BY <2>1, AddStakeTypes
  <2>3. /\ controllerToSigner' \in [Accounts -> Accounts \cup {NULL}]
        /\ signerToController' \in [Accounts -> Accounts \cup {NULL}]
    BY <1>2 DEF SetSigner, TypeInv, TypeOK
  <2> QED
    BY <2>2, <2>3 DEF TypeInv, TypeOK, HookOK, config, feed, hook, ValidInfo
<1>3. ASSUME NEW who \in Accounts, NEW stake \in Stakes, AddStake(who, stake)
      PROVE  TypeInv'
  <2>1. /\ stake \in Nat /\ controllerToSigner[who] \in Accounts
        /\ DoAddStake(who, controllerToSigner[who], stake)
        /\ UNCHANGED keys
    BY <1>3, ParameterTypes DEF AddStake, TypeInv, TypeOK
  <2>2. /\ accounts' \in [Accounts -> Balance]
        /\ oracleStake' \in [Accounts -> Nat \cup {NULL}]
        /\ UNCHANGED <<block, config, declaredWithdraws, answerInTransit, feed, hook, lost>>
    BY <2>1, AddStakeTypes
  <2> QED
    BY <2>1, <2>2 DEF TypeInv, TypeOK, HookOK, keys, config, feed, hook, ValidInfo
<1>4. ASSUME NEW who \in Accounts, RemoveStake(who)
      PROVE  TypeInv'
  <2> DEFINE signer == controllerToSigner[who]
             withdrawal == [stake |-> oracleStake[signer], unlock_block |-> block + StakeLock]
  <2>1. signer \in Accounts /\ oracleStake[signer] \in Nat
    BY <1>4 DEF RemoveStake, TypeInv, TypeOK
  <2>2. withdrawal \in Withdraw
    BY <2>1, ParameterTypes DEF Withdraw, TypeInv, TypeOK
  <2>3. /\ oracleStake' = [oracleStake EXCEPT ![signer] = NULL]
        /\ declaredWithdraws' = [declaredWithdraws EXCEPT ![signer] = withdrawal]
        /\ UNCHANGED <<block, config, keys, answerInTransit, feed, accounts, hook, lost>>
    BY <1>4 DEF RemoveStake
  <2> HIDE DEF withdrawal, signer
  <2>4. /\ oracleStake' \in [Accounts -> Nat \cup {NULL}]
        /\ declaredWithdraws' \in [Accounts -> Withdraw \cup {NULL}]
    BY <2>1, <2>2, <2>3 DEF TypeInv, TypeOK
  <2> QED
    BY <2>3, <2>4 DEF TypeInv, TypeOK, HookOK, keys, config, feed, hook, ValidInfo
<1>5. ASSUME NEW who \in Accounts, ReclaimStake(who)
      PROVE  TypeInv'
  <2>1. /\ accounts' \in [Accounts -> Balance]
        /\ lost' \in [Accounts -> Nat]
        /\ declaredWithdraws' = [declaredWithdraws EXCEPT ![controllerToSigner[who]] = NULL]
        /\ UNCHANGED <<block, config, oracleStake, answerInTransit, feed, hook>>
    BY <1>5, ReclaimTypes
  <2>2. declaredWithdraws' \in [Accounts -> Withdraw \cup {NULL}]
    BY <2>1 DEF TypeInv, TypeOK
  <2>3. /\ controllerToSigner' \in [Accounts -> Accounts \cup {NULL}]
        /\ signerToController' \in [Accounts -> Accounts \cup {NULL}]
    BY <1>5 DEF ReclaimStake, TypeInv, TypeOK, keys
  <2> QED
    BY <2>1, <2>2, <2>3 DEF TypeInv, TypeOK, HookOK, config, feed, hook, ValidInfo
<1>6. ASSUME NEW who \in Accounts, NEW a \in Assets, NEW price \in Values,
             SubmitPrice(who, a, price)
      PROVE  TypeInv'
  <2> DEFINE answer == [price |-> price, block |-> block, who |-> who]
  <2>1. answer \in PrePrice
    BY ParameterTypes DEF PrePrice, TypeInv, TypeOK
  <2>2. assetsInfo[a].slash \in Nat
    <3>1. assetsInfo[a] \in AssetInfo
      BY <1>6 DEF SubmitPrice, IsRequested, TypeInv, TypeOK
    <3> QED
      BY <3>1 DEF AssetInfo
  <2>3. /\ prePrices' = [prePrices EXCEPT ![a] = Append(prePrices[a], answer)]
        /\ answerInTransit' =
              [answerInTransit EXCEPT ![who] = answerInTransit[who] + assetsInfo[a].slash]
        /\ UNCHANGED <<block, config, staking, prices, priceHistory, accounts, hook, lost>>
    BY <1>6 DEF SubmitPrice
  <2> HIDE DEF answer
  <2>4. Append(prePrices[a], answer) \in Seq(PrePrice)
    BY <2>1, AppendProperties DEF TypeInv, TypeOK
  <2>5. /\ prePrices' \in [Assets -> Seq(PrePrice)]
        /\ answerInTransit' \in [Accounts -> Nat]
    BY <2>2, <2>3, <2>4 DEF TypeInv, TypeOK
  <2> QED
    BY <2>3, <2>5 DEF TypeInv, TypeOK, HookOK, staking, keys, config, hook, ValidInfo
<1>7. ASSUME NewBlock PROVE TypeInv'
  <2>1. /\ block' \in Nat
        /\ todo' = {a \in Assets : assetsInfo[a] # NULL}
        /\ UNCHANGED <<config, staking, answerInTransit, feed, accounts, paying, lost>>
    BY <1>7 DEF NewBlock, TypeInv, TypeOK
  <2> QED
    BY <2>1 DEF TypeInv, TypeOK, HookOK, staking, keys, config, feed, ValidInfo
<1>8. ASSUME NEW a \in Assets, UpdateAsset(a)
      PROVE  TypeInv'
  <2>1. /\ answerInTransit' \in [Accounts -> Nat]
        /\ prices' \in [Assets -> Price]
        /\ priceHistory' \in [Assets -> Seq(Price)]
        /\ prePrices' \in [Assets -> Seq(PrePrice)]
        /\ paying' \in Payout \cup {NULL}
        /\ paying' # NULL => paying'.answers # <<>>
        /\ todo' = todo \ {a}
        /\ UNCHANGED <<block, config, staking, accounts, lost>>
    BY <1>8, UpdateAssetTypes
  <2> QED
    BY <2>1 DEF TypeInv, TypeOK, HookOK, staking, keys, config, ValidInfo
<1>9. ASSUME PayOut PROVE TypeInv'
  <2>1. /\ accounts' \in [Accounts -> Balance]
        /\ lost' \in [Accounts -> Nat]
        /\ answerInTransit' \in [Accounts -> Nat]
        /\ paying' \in Payout \cup {NULL}
        /\ paying' # NULL => paying'.answers # <<>>
        /\ UNCHANGED <<block, config, staking, feed, todo>>
    BY <1>9, PayOutTypes
  <2> QED
    BY <2>1 DEF TypeInv, TypeOK, HookOK, staking, keys, config, feed, ValidInfo
<1>10. CASE UNCHANGED vars
  BY <1>10 DEF TypeInv, TypeOK, HookOK, vars, ValidInfo
<1> QED
  BY <1>1, <1>2, <1>3, <1>4, <1>5, <1>6, <1>7, <1>8, <1>9, <1>10
     DEF Next, Call, OnInitialize

(* No interleaving of calls and blocks takes a storage item or a balance    *)
(* out of its type; in particular no subtraction of the currency or of the  *)
(* transit goes below zero.                                                 *)
THEOREM TypeCorrect == Spec => []TypeOK
<1>1. TypeInv => TypeOK
  BY DEF TypeInv
<1> QED
  BY <1>1, TypeInit, TypeStep, PTL DEF Spec

-----------------------------------------------------------------------------
(* Keys and stake.                                                          *)

LEMMA KeysStep == TypeInv /\ KeysPaired /\ [Next]_vars => KeysPaired'
<1> SUFFICES ASSUME TypeInv, KeysPaired, [Next]_vars PROVE KeysPaired'
  OBVIOUS
<1>0. /\ controllerToSigner \in [Accounts -> Accounts \cup {NULL}]
      /\ signerToController \in [Accounts -> Accounts \cup {NULL}]
  BY DEF TypeInv, TypeOK
<1>1. ASSUME NEW who \in Accounts, NEW signer \in Accounts, SetSigner(who, signer)
      PROVE  KeysPaired'
  BY <1>0, <1>1, NullIsNoValue DEF SetSigner, KeysPaired
<1>2. ASSUME NEW who \in Accounts, ReclaimStake(who)
      PROVE  KeysPaired'
  <2>1. CASE UNCHANGED keys
    BY <2>1 DEF KeysPaired, keys
  <2>2. CASE /\ controllerToSigner' = [controllerToSigner EXCEPT ![who] = NULL]
             /\ signerToController' =
                   [signerToController EXCEPT ![controllerToSigner[who]] = NULL]
    <3>1. controllerToSigner[who] \in Accounts
      BY <1>0, <1>2 DEF ReclaimStake
    <3> QED
      BY <1>0, <2>2, <3>1, NullIsNoValue DEF KeysPaired
  <2> QED
    BY <1>2, <2>1, <2>2 DEF ReclaimStake
<1>3. CASE UNCHANGED keys
  BY <1>3 DEF KeysPaired, keys
<1>4. ASSUME NEW who \in Accounts,
             \/ \E stake \in Stakes : AddStake(who, stake)
             \/ RemoveStake(who)
             \/ \E a \in Assets, price \in Values : SubmitPrice(who, a, price)
      PROVE  UNCHANGED keys
  BY <1>4 DEF AddStake, RemoveStake, SubmitPrice, staking
<1>5. ASSUME \/ \E a \in Assets, info \in Infos : AddAssetAndInfo(a, info)
             \/ NewBlock
             \/ OnInitialize
             \/ UNCHANGED vars
      PROVE  UNCHANGED keys
  BY <1>5 DEF AddAssetAndInfo, NewBlock, OnInitialize, UpdateAsset, PayOut, staking, keys, vars
<1> QED
  BY <1>1, <1>2, <1>3, <1>4, <1>5 DEF Next, Call

(* Whatever keys are set and reclaimed, in whatever order and however a     *)
(* reclaim fails, a signer has one controller and a controller one signer.  *)
THEOREM KeysSound == Spec => []KeysPaired
<1>1. Init => KeysPaired
  BY NullIsNoValue DEF Init, KeysPaired
<1> QED
  BY <1>1, TypeInit, TypeStep, KeysStep, PTL DEF Spec

LEMMA StakeStep == TypeInv /\ StakeBacked /\ [Next]_vars => StakeBacked'
<1> SUFFICES ASSUME TypeInv, StakeBacked, [Next]_vars PROVE StakeBacked'
  OBVIOUS
<1>1. \A s \in Accounts : /\ accounts[s].reserved \in Nat /\ lost[s] \in Nat
                          /\ OrZero(oracleStake[s]) \in Nat
                          /\ WithdrawalOf(s) \in Nat
  BY DEF TypeInv, TypeOK, Balance, OrZero, WithdrawalOf, Withdraw
<1>2. ASSUME NEW who \in Accounts, NEW signer \in Accounts, NEW stake \in Nat,
             DoAddStake(who, signer, stake)
      PROVE  StakeBacked'
  <2>1. /\ accounts'[signer].reserved = accounts[signer].reserved + stake
        /\ \A u \in Accounts \ {signer} : accounts'[u].reserved = accounts[u].reserved
        /\ oracleStake' = [oracleStake EXCEPT ![signer] = OrZero(oracleStake[signer]) + stake]
        /\ UNCHANGED <<declaredWithdraws, lost>>
    BY <1>2, AddStakeTypes
  <2>2. OrZero(oracleStake[signer]) + stake # NULL
    BY <1>1, NullIsNoValue
  <2>3. /\ OrZero(oracleStake'[signer]) = OrZero(oracleStake[signer]) + stake
        /\ \A u \in Accounts \ {signer} : OrZero(oracleStake'[u]) = OrZero(oracleStake[u])
    BY <2>1, <2>2 DEF OrZero, TypeInv, TypeOK
  <2>4. \A u \in Accounts : WithdrawalOf(u)' = WithdrawalOf(u) /\ lost'[u] = lost[u]
    BY <2>1 DEF WithdrawalOf
  <2>5. \A u \in Accounts : accounts[u].reserved + lost[u]
                              >= OrZero(oracleStake[u]) + WithdrawalOf(u)
    BY DEF StakeBacked
  <2>6. \A u \in Accounts : accounts'[u].reserved + lost'[u]
                              >= OrZero(oracleStake'[u]) + WithdrawalOf(u)'
    BY <1>1, <2>1, <2>3, <2>4, <2>5
  <2> QED
    BY <2>6 DEF StakeBacked, OrZero
<1>3. ASSUME NEW who \in Accounts, RemoveStake(who)
      PROVE  StakeBacked'
  <2>0. PICK signer \in Accounts : signer = controllerToSigner[who]
    BY <1>3 DEF RemoveStake, TypeInv, TypeOK
  <2>1. signer \in Accounts /\ oracleStake[signer] \in Nat /\ oracleStake[signer] # NULL
    BY <1>3, <2>0 DEF RemoveStake, TypeInv, TypeOK
  <2>2. /\ oracleStake' = [oracleStake EXCEPT ![signer] = NULL]
        /\ declaredWithdraws' = [declaredWithdraws EXCEPT ![signer] =
              [stake |-> oracleStake[signer], unlock_block |-> block + StakeLock]]
        /\ UNCHANGED <<accounts, lost>>
    BY <1>3, <2>0 DEF RemoveStake
  <2>3. OrZero(oracleStake'[signer]) = 0 /\ OrZero(oracleStake[signer]) = oracleStake[signer]
    BY <2>1, <2>2 DEF OrZero, TypeInv, TypeOK
  <2>4. WithdrawalOf(signer)' = oracleStake[signer]
    <3>1. declaredWithdraws'[signer] =
             [stake |-> oracleStake[signer], unlock_block |-> block + StakeLock]
      BY <2>1, <2>2 DEF TypeInv, TypeOK
    <3>2. [stake |-> oracleStake[signer], unlock_block |-> block + StakeLock] \in Withdraw
      BY <2>1, ParameterTypes DEF Withdraw, TypeInv, TypeOK
    <3>3. declaredWithdraws'[signer] # NULL
      BY <3>1, <3>2, NullIsNoValue
    <3> QED
      BY <3>1, <3>3 DEF WithdrawalOf
  <2>5. \A u \in Accounts \ {signer} :
           OrZero(oracleStake'[u]) = OrZero(oracleStake[u]) /\ WithdrawalOf(u)' = WithdrawalOf(u)
    BY <2>1, <2>2 DEF OrZero, WithdrawalOf, TypeInv, TypeOK
  <2>6. \A u \in Accounts : accounts[u].reserved + lost[u]
                              >= OrZero(oracleStake[u]) + WithdrawalOf(u)
    BY DEF StakeBacked
  <2>7. \A u \in Accounts : accounts[u].reserved + lost[u]
                              >= OrZero(oracleStake'[u]) + WithdrawalOf(u)'
    BY <1>1, <2>1, <2>3, <2>4, <2>5, <2>6
  <2> QED
    BY <2>2, <2>7 DEF StakeBacked, OrZero
<1>4. ASSUME NEW who \in Accounts, ReclaimStake(who)
      PROVE  StakeBacked'
  <2>0. PICK signer \in Accounts : signer = controllerToSigner[who]
    BY <1>4, ReclaimTypes
  <2> DEFINE stake == declaredWithdraws[signer].stake
  <2>1. /\ signer \in Accounts
        /\ declaredWithdraws[signer] \in Withdraw
        /\ declaredWithdraws' = [declaredWithdraws EXCEPT ![signer] = NULL]
        /\ \A u \in Accounts \ {signer} :
              accounts'[u].reserved = accounts[u].reserved /\ lost'[u] = lost[u]
        /\ accounts'[signer].reserved + lost'[signer]
              = Monus(accounts[signer].reserved, stake) + lost[signer]
        /\ UNCHANGED oracleStake
    BY <1>4, <2>0, ReclaimTypes
  <2>2. stake \in Nat /\ WithdrawalOf(signer) = stake
    BY <2>1, NullIsNoValue DEF Withdraw, WithdrawalOf
  <2> HIDE DEF stake
  <2>3. WithdrawalOf(signer)' = 0
    BY <2>1 DEF WithdrawalOf, TypeInv, TypeOK
  <2>4. \A u \in Accounts \ {signer} : WithdrawalOf(u)' = WithdrawalOf(u)
    BY <2>1 DEF WithdrawalOf, TypeInv, TypeOK
  <2>5. \A u \in Accounts : accounts[u].reserved + lost[u]
                              >= OrZero(oracleStake[u]) + WithdrawalOf(u)
    BY DEF StakeBacked
  <2>6. accounts'[signer].reserved + lost'[signer] >= OrZero(oracleStake[signer])
    BY <1>1, <2>1, <2>2, <2>5 DEF Monus
  <2>7. \A u \in Accounts : accounts'[u].reserved + lost'[u]
                              >= OrZero(oracleStake[u]) + WithdrawalOf(u)'
    <3> SUFFICES ASSUME NEW u \in Accounts
                 PROVE  accounts'[u].reserved + lost'[u]
                              >= OrZero(oracleStake[u]) + WithdrawalOf(u)'
      OBVIOUS
    <3>1. CASE u = signer
      BY <1>1, <2>3, <2>6, <3>1
    <3>2. CASE u # signer
      BY <2>1, <2>4, <2>5, <3>2
    <3> QED
      BY <3>1, <3>2
  <2> QED
    BY <2>1, <2>7 DEF StakeBacked, OrZero
<1>5. ASSUME PayOut PROVE StakeBacked'
  <2>1. /\ \A u \in Accounts :
              accounts'[u].reserved + lost'[u] = accounts[u].reserved + lost[u]
        /\ UNCHANGED <<oracleStake, declaredWithdraws>>
    BY <1>5, PayOutTypes DEF staking
  <2>2. \A u \in Accounts : accounts[u].reserved + lost[u]
                              >= OrZero(oracleStake[u]) + WithdrawalOf(u)
    BY DEF StakeBacked
  <2>3. \A u \in Accounts : WithdrawalOf(u)' = WithdrawalOf(u)
    BY <2>1 DEF WithdrawalOf
  <2> QED
    BY <2>1, <2>2, <2>3 DEF StakeBacked, OrZero
<1>6. CASE UNCHANGED <<accounts, lost, oracleStake, declaredWithdraws>>
  BY <1>6 DEF StakeBacked, WithdrawalOf, OrZero
<1>7. ASSUME NEW who \in Accounts, NEW signer \in Accounts, SetSigner(who, signer)
      PROVE  StakeBacked'
  <2>1. MinStake \in Nat /\ DoAddStake(who, signer, MinStake)
    BY <1>7, ParameterTypes DEF SetSigner
  <2> QED
    BY <2>1, <1>2
<1>8. ASSUME NEW who \in Accounts, NEW stake \in Stakes, AddStake(who, stake)
      PROVE  StakeBacked'
  <2>1. /\ stake \in Nat /\ controllerToSigner[who] \in Accounts
        /\ DoAddStake(who, controllerToSigner[who], stake)
    BY <1>8, ParameterTypes DEF AddStake, TypeInv, TypeOK
  <2> QED
    BY <2>1, <1>2
<1>9. ASSUME \/ \E a \in Assets, info \in Infos : AddAssetAndInfo(a, info)
             \/ \E who \in Accounts, a \in Assets, price \in Values : SubmitPrice(who, a, price)
             \/ NewBlock
             \/ \E a \in Assets : UpdateAsset(a)
             \/ UNCHANGED vars
      PROVE  UNCHANGED <<accounts, lost, oracleStake, declaredWithdraws>>
  BY <1>9 DEF AddAssetAndInfo, SubmitPrice, NewBlock, UpdateAsset, staking, vars
<1> QED
  BY <1>3, <1>4, <1>5, <1>6, <1>7, <1>8, <1>9 DEF Next, Call, OnInitialize

(* A recorded stake or withdrawal is never more than the currency reserves  *)
(* for the signer, slashes apart: for every deposit, lock and slash.        *)
THEOREM StakeSound == Spec => []StakeBacked
<1>1. Init => StakeBacked
  BY ParameterTypes DEF Init, StakeBacked, OrZero, WithdrawalOf
<1> QED
  BY <1>1, TypeInit, TypeStep, StakeStep, PTL DEF Spec

-----------------------------------------------------------------------------
(* Answers and prices.                                                      *)

(* An answer that waits is younger than the asset's price by more than      *)
(* StalePrice blocks, because the interval of a valid info is longer, and   *)
(* is not from the future.                                                  *)
AnswersTimed ==
    \A a \in Assets : \A i \in DOMAIN prePrices[a] :
        /\ prices[a].block + StalePrice < prePrices[a][i].block
        /\ prePrices[a][i].block <= block

LEMMA SubmitKeepsAnswers ==
    ASSUME TypeInv, AnswersInOrder, AnswersTimed,
           NEW who \in Accounts, NEW a \in Assets, NEW price \in Values,
           SubmitPrice(who, a, price)
    PROVE  AnswersInOrder' /\ AnswersTimed'
<1> DEFINE answer == [price |-> price, block |-> block, who |-> who]
           old == prePrices[a]
           new == Append(old, answer)
<1>1. /\ prePrices \in [Assets -> Seq(PrePrice)] /\ prices \in [Assets -> Price]
      /\ block \in Nat
  BY DEF TypeInv, TypeOK
<1>2. /\ prePrices' = [prePrices EXCEPT ![a] = new]
      /\ UNCHANGED <<block, prices>>
      /\ \A i \in DOMAIN old : old[i].who # who
  BY DEF SubmitPrice
<1>3. /\ prices[a].block \in Nat
      /\ prices[a].block + StalePrice < block
  <2>1. /\ assetsInfo[a] # NULL /\ prices[a].block + assetsInfo[a].block_interval < block
        /\ assetsInfo[a] \in AssetInfo /\ ValidInfo(assetsInfo[a])
    BY DEF SubmitPrice, IsRequested, TypeInv, TypeOK, HookOK
  <2>2. assetsInfo[a].block_interval \in Nat /\ assetsInfo[a].block_interval > StalePrice
    BY <2>1 DEF AssetInfo, ValidInfo
  <2>3. prices[a].block \in Nat
    BY <1>1 DEF Price
  <2> QED
    BY <1>1, <2>1, <2>2, <2>3, ParameterTypes
<1>4. old \in Seq(PrePrice) /\ Len(old) \in Nat /\ DOMAIN old = 1..Len(old)
  BY <1>1
<1>5. answer \in PrePrice
  BY <1>1, ParameterTypes DEF PrePrice
<1>6. answer.block = block /\ answer.who = who
  OBVIOUS
<1> HIDE DEF answer
<1>7. /\ DOMAIN new = 1..Len(old) + 1
      /\ \A i \in 1..Len(old) : new[i] = old[i]
      /\ new[Len(old) + 1] = answer
  BY <1>4, <1>5, AppendProperties
<1> HIDE DEF old, new
<1>8. /\ \A b \in Assets \ {a} : prePrices'[b] = prePrices[b]
      /\ prePrices'[a] = new
  BY <1>1, <1>2
<1>9. \A i \in DOMAIN old : /\ prices[a].block + StalePrice < old[i].block
                            /\ old[i].block <= block
  BY DEF AnswersTimed, old
<1>10. \A i, j \in DOMAIN old : i < j => old[i].block <= old[j].block /\ old[i].who # old[j].who
  BY DEF AnswersInOrder, old
<1>11. \A i \in DOMAIN new : /\ prices[a].block + StalePrice < new[i].block
                             /\ new[i].block <= block
  <2> SUFFICES ASSUME NEW i \in DOMAIN new
               PROVE  /\ prices[a].block + StalePrice < new[i].block
                      /\ new[i].block <= block
    OBVIOUS
  <2>1. CASE i = Len(old) + 1
    BY <1>1, <1>3, <1>6, <1>7, <2>1
  <2>2. CASE i # Len(old) + 1
    <3>1. i \in DOMAIN old
      BY <1>4, <1>7, <2>2
    <3> QED
      BY <3>1, <1>4, <1>7, <1>9
  <2> QED
    BY <2>1, <2>2
<1>12. \A i, j \in DOMAIN new : i < j => new[i].block <= new[j].block /\ new[i].who # new[j].who
  <2> SUFFICES ASSUME NEW i \in DOMAIN new, NEW j \in DOMAIN new, i < j
               PROVE  new[i].block <= new[j].block /\ new[i].who # new[j].who
    OBVIOUS
  <2>1. i \in DOMAIN old /\ new[i] = old[i]
    BY <1>4, <1>7
  <2>2. CASE j = Len(old) + 1
    <3>1. new[j] = answer
      BY <1>7, <2>2
    <3> QED
      BY <3>1, <1>2, <1>6, <1>9, <2>1 DEF old
  <2>3. CASE j # Len(old) + 1
    <3>1. j \in DOMAIN old /\ new[j] = old[j]
      BY <1>4, <1>7, <2>3
    <3> QED
      BY <2>1, <3>1, <1>10
  <2> QED
    BY <2>2, <2>3
<1> QED
  BY <1>2, <1>8, <1>11, <1>12 DEF AnswersInOrder, AnswersTimed

LEMMA UpdateKeepsAnswers ==
    ASSUME TypeInv, AnswersInOrder, AnswersTimed, NEW a \in Assets, UpdateAsset(a)
    PROVE  /\ AnswersInOrder' /\ AnswersTimed'
           /\ \/ UNCHANGED <<prices, priceHistory>>
              \/ /\ prices'[a].block = block /\ block > prices[a].block + StalePrice
                 /\ \A b \in Assets \ {a} : prices'[b] = prices[b]
                 /\ priceHistory' =
                       [priceHistory EXCEPT ![a] = Recorded(priceHistory[a], prices'[a])]
<1> DEFINE info == assetsInfo[a]
           old == prePrices[a]
           pruned == Pruned(old, info)
           f == FreshFrom(old)
<1>1. /\ prePrices \in [Assets -> Seq(PrePrice)] /\ prices \in [Assets -> Price]
      /\ block \in Nat
  BY DEF TypeInv, TypeOK
<1>2. info \in AssetInfo /\ ValidInfo(info) /\ pruned \in Seq(PrePrice) /\ UNCHANGED block
  BY UpdateAssetTypes
<1>3. old \in Seq(PrePrice) /\ Len(old) \in Nat /\ DOMAIN old = 1..Len(old)
  BY <1>1
<1>4. /\ f \in Int
      /\ \A i \in 1..Len(pruned) : f + i - 1 \in 1..Len(old) /\ pruned[i] = old[f + i - 1]
  <2>1. f \in 1..Len(old) + 1
    BY <1>3, FreshFromType
  <2>2. \A i \in 1..Len(pruned) : f + i - 1 \in 1..Len(old) /\ pruned[i] = old[f + i - 1]
    BY <1>2, <1>3, PrunedType, Zenon
  <2> HIDE DEF f, old
  <2>3. f \in Int
    BY <2>1, <1>3
  <2> QED
    BY <2>2, <2>3
<1>5. \/ /\ Len(pruned) >= info.min_answers
         /\ prices' = [prices EXCEPT ![a] = [price |-> GetMedianPrice(pruned), block |-> block]]
         /\ prePrices' = [prePrices EXCEPT ![a] = <<>>]
         /\ priceHistory' = [priceHistory EXCEPT ![a] = Recorded(priceHistory[a], prices'[a])]
      \/ /\ prePrices' = [prePrices EXCEPT ![a] = pruned]
         /\ UNCHANGED <<prices, priceHistory>>
      \/ UNCHANGED <<prices, priceHistory, prePrices>>
  BY DEF UpdateAsset, feed
<1> HIDE DEF info, old, pruned, f
<1>6. DOMAIN pruned = 1..Len(pruned) /\ Len(pruned) \in Nat
  BY <1>2
<1>7. \A i \in DOMAIN old : /\ prices[a].block + StalePrice < old[i].block
                            /\ old[i].block <= block
  BY DEF AnswersTimed, old
<1>8. \A i, j \in DOMAIN old : i < j => old[i].block <= old[j].block /\ old[i].who # old[j].who
  BY DEF AnswersInOrder, old
<1>9. CASE /\ Len(pruned) >= info.min_answers
           /\ prices' = [prices EXCEPT ![a] = [price |-> GetMedianPrice(pruned), block |-> block]]
           /\ prePrices' = [prePrices EXCEPT ![a] = <<>>]
           /\ priceHistory' = [priceHistory EXCEPT ![a] = Recorded(priceHistory[a], prices'[a])]
  <2>1. Len(pruned) >= 1
    <3>1. info.min_answers > 0 /\ info.min_answers \in Nat
      BY <1>2 DEF ValidInfo, AssetInfo
    <3> QED
      BY <3>1, <1>6, <1>9
  <2>2. f + 1 - 1 \in DOMAIN old
    BY <1>3, <1>4, <1>6, <2>1
  <2>3. block > prices[a].block + StalePrice
    <3>1. /\ prices[a].block + StalePrice < old[f + 1 - 1].block
          /\ old[f + 1 - 1].block <= block
      BY <1>7, <2>2
    <3>2. old[f + 1 - 1] \in PrePrice /\ prices[a] \in Price
      BY <1>1, <1>3, <2>2
    <3>3. old[f + 1 - 1].block \in Nat /\ prices[a].block \in Nat
      BY <3>2 DEF PrePrice, Price
    <3> QED
      BY <3>1, <3>3, <1>1, ParameterTypes
  <2>4. /\ DOMAIN prePrices'[a] = {}
        /\ \A b \in Assets \ {a} : prePrices'[b] = prePrices[b] /\ prices'[b] = prices[b]
    BY <1>1, <1>9
  <2>5. prices'[a].block = block
    BY <1>1, <1>9
  <2>6. AnswersInOrder'
    BY <2>4 DEF AnswersInOrder
  <2>7. AnswersTimed'
    BY <1>2, <2>4 DEF AnswersTimed
  <2> QED
    BY <1>9, <2>3, <2>4, <2>5, <2>6, <2>7
<1>10. CASE /\ prePrices' = [prePrices EXCEPT ![a] = pruned]
            /\ UNCHANGED <<prices, priceHistory>>
  <2>1. /\ prePrices'[a] = pruned
        /\ \A b \in Assets \ {a} : prePrices'[b] = prePrices[b]
    BY <1>1, <1>10
  <2>2. \A i \in DOMAIN pruned : /\ prices[a].block + StalePrice < pruned[i].block
                                 /\ pruned[i].block <= block
    BY <1>3, <1>4, <1>6, <1>7
  <2>3. \A i, j \in DOMAIN pruned :
           i < j => pruned[i].block <= pruned[j].block /\ pruned[i].who # pruned[j].who
    <3> SUFFICES ASSUME NEW i \in DOMAIN pruned, NEW j \in DOMAIN pruned, i < j
                 PROVE  pruned[i].block <= pruned[j].block /\ pruned[i].who # pruned[j].who
      OBVIOUS
    <3>1. /\ f + i - 1 \in DOMAIN old /\ f + j - 1 \in DOMAIN old
          /\ pruned[i] = old[f + i - 1] /\ pruned[j] = old[f + j - 1]
      BY <1>3, <1>4, <1>6
    <3>2. f + i - 1 < f + j - 1
      BY <1>4, <1>6
    <3> QED
      BY <3>1, <3>2, <1>8
  <2>4. AnswersInOrder'
    BY <2>1, <2>3 DEF AnswersInOrder
  <2>5. AnswersTimed'
    BY <1>2, <1>10, <2>1, <2>2 DEF AnswersTimed
  <2> QED
    BY <1>10, <2>4, <2>5
<1>11. CASE UNCHANGED <<prices, priceHistory, prePrices>>
  BY <1>2, <1>11 DEF AnswersInOrder, AnswersTimed
<1> QED
  BY <1>5, <1>9, <1>10, <1>11

LEMMA AnswersStep ==
    TypeInv /\ AnswersInOrder /\ AnswersTimed /\ [Next]_vars =>
        /\ AnswersInOrder' /\ AnswersTimed'
        /\ \A b \in Assets : prices'[b] # prices[b] =>
              prices'[b].block > prices[b].block + StalePrice
<1> SUFFICES ASSUME TypeInv, AnswersInOrder, AnswersTimed, [Next]_vars
             PROVE  /\ AnswersInOrder' /\ AnswersTimed'
                    /\ \A b \in Assets : prices'[b] # prices[b] =>
                          prices'[b].block > prices[b].block + StalePrice
  OBVIOUS
<1>1. CASE \E who \in Accounts, a \in Assets, price \in Values : SubmitPrice(who, a, price)
  <2>1. AnswersInOrder' /\ AnswersTimed'
    BY <1>1, SubmitKeepsAnswers
  <2>2. prices' = prices
    BY <1>1 DEF SubmitPrice
  <2> QED
    BY <2>1, <2>2
<1>2. ASSUME NEW a \in Assets, UpdateAsset(a)
      PROVE  /\ AnswersInOrder' /\ AnswersTimed'
             /\ \A b \in Assets : prices'[b] # prices[b] =>
                   prices'[b].block > prices[b].block + StalePrice
  BY <1>2, UpdateKeepsAnswers
<1>3. CASE NewBlock
  <2>1. block \in Nat /\ block' = block + 1 /\ UNCHANGED <<prices, prePrices>>
    BY <1>3 DEF NewBlock, feed, TypeInv, TypeOK
  <2>2. \A a \in Assets : \A i \in DOMAIN prePrices[a] : prePrices[a][i].block \in Nat
    <3>1. \A a \in Assets : \A i \in DOMAIN prePrices[a] : prePrices[a][i] \in PrePrice
      BY DEF TypeInv, TypeOK
    <3> QED
      BY <3>1 DEF PrePrice
  <2> QED
    BY <2>1, <2>2 DEF AnswersInOrder, AnswersTimed
<1>4. CASE UNCHANGED <<block, prices, prePrices>>
  BY <1>4 DEF AnswersInOrder, AnswersTimed
<1>5. ASSUME \/ \E a \in Assets, info \in Infos : AddAssetAndInfo(a, info)
             \/ \E who, signer \in Accounts : SetSigner(who, signer)
             \/ \E who \in Accounts, stake \in Stakes : AddStake(who, stake)
             \/ \E who \in Accounts : RemoveStake(who) \/ ReclaimStake(who)
             \/ PayOut
             \/ UNCHANGED vars
      PROVE  UNCHANGED <<block, prices, prePrices>>
  BY <1>5 DEF AddAssetAndInfo, SetSigner, AddStake, DoAddStake, RemoveStake, ReclaimStake,
              PayOut, feed, vars
<1> QED
  BY <1>1, <1>2, <1>3, <1>4, <1>5 DEF Next, Call, OnInitialize

LEMMA AnswersInit == Init => AnswersInOrder /\ AnswersTimed
BY DEF Init, AnswersInOrder, AnswersTimed

(* The order prune_old_pre_prices relies on, and one answer per signer, in  *)
(* every reachable state.                                                   *)
THEOREM AnswersSound == Spec => []AnswersInOrder
BY AnswersInit, AnswersStep, TypeInit, TypeStep, PTL DEF Spec

(* An asset's price is never replaced within StalePrice blocks of it.       *)
THEOREM SpacingSound == Spec => PricesSpaced
<1>1. TypeInv /\ AnswersInOrder /\ AnswersTimed /\ [Next]_vars =>
        [\A a \in Assets : prices'[a] # prices[a] =>
            prices'[a].block > prices[a].block + StalePrice]_vars
  BY AnswersStep
<1> QED
  BY <1>1, AnswersInit, AnswersStep, TypeInit, TypeStep, PTL DEF Spec, PricesSpaced

-----------------------------------------------------------------------------
(* The history of prices.                                                   *)

(* Recording drops the oldest entry of a full history, keeps the others in  *)
(* their order and puts the new price last.                                 *)
LEMMA RecordedEntries ==
    ASSUME NEW history \in Seq(Price), Len(history) <= MaxHistory, NEW price \in Price
    PROVE  /\ Recorded(history, price) \in Seq(Price)
           /\ Len(Recorded(history, price)) \in 1..MaxHistory
           /\ Recorded(history, price)[Len(Recorded(history, price))] = price
           /\ \E d \in {0, 1} : \A i \in 1..Len(Recorded(history, price)) - 1 :
                 /\ i + d \in DOMAIN history
                 /\ Recorded(history, price)[i] = history[i + d]
<1>0. MaxHistory \in Nat \ {0} /\ Len(history) \in Nat /\ DOMAIN history = 1..Len(history)
  BY ParameterTypes
<1>1. CASE Len(history) >= MaxHistory
  <2> DEFINE t == Tail(history)
  <2>1. history # <<>>
    BY <1>0, <1>1
  <2>2. /\ t \in Seq(Price) /\ Len(t) = Len(history) - 1
        /\ \A i \in 1..Len(t) : t[i] = history[i + 1]
    BY <2>1, HeadTailProperties
  <2>3. Recorded(history, price) = Append(t, price)
    BY <1>1 DEF Recorded
  <2> HIDE DEF t
  <2>4. /\ Append(t, price) \in Seq(Price) /\ Len(Append(t, price)) = Len(t) + 1
        /\ \A i \in 1..Len(t) : Append(t, price)[i] = t[i]
        /\ Append(t, price)[Len(t) + 1] = price
    BY <2>2, AppendProperties
  <2>5. \A i \in 1..Len(t) : i + 1 \in DOMAIN history
    BY <1>0, <2>2
  <2> DEFINE r == Append(t, price)
  <2> HIDE DEF r
  <2>6. /\ r \in Seq(Price) /\ Len(r) = Len(history) /\ r[Len(r)] = price
        /\ \A i \in 1..Len(r) - 1 : i + 1 \in DOMAIN history /\ r[i] = history[i + 1]
    BY <1>0, <2>2, <2>4, <2>5 DEF r
  <2>7. r = Recorded(history, price) /\ Len(r) \in 1..MaxHistory
    BY <1>0, <1>1, <2>3, <2>6 DEF r
  <2> QED
    BY <2>6, <2>7
<1>2. CASE ~(Len(history) >= MaxHistory)
  <2> DEFINE r == Append(history, price)
  <2>1. Recorded(history, price) = r
    BY <1>2 DEF Recorded
  <2>2. /\ r \in Seq(Price) /\ Len(r) = Len(history) + 1
        /\ \A i \in 1..Len(history) : r[i] = history[i]
        /\ r[Len(history) + 1] = price
    BY AppendProperties
  <2> HIDE DEF r
  <2>3. /\ Len(r) \in 1..MaxHistory /\ r[Len(r)] = price
        /\ \A i \in 1..Len(r) - 1 : i + 0 \in DOMAIN history /\ r[i] = history[i + 0]
    BY <1>0, <1>2, <2>2
  <2> QED
    BY <2>1, <2>2, <2>3
<1> QED
  BY <1>1, <1>2

HistoryOf(a) ==
    LET history == priceHistory[a]
    IN  /\ Len(history) <= MaxHistory
        /\ \A i, j \in DOMAIN history : i < j => history[i].block < history[j].block
        /\ history # <<>> => history[Len(history)] = prices[a]
        /\ prices[a].block # 0 => history # <<>>

HistoryInv == \A a \in Assets : HistoryOf(a)

LEMMA HistoryImplied == TypeInv /\ HistoryInv => HistoryEndsInPrice
BY DEF HistoryInv, HistoryOf, HistoryEndsInPrice, Last

LEMMA HistoryStep ==
    TypeInv /\ AnswersInOrder /\ AnswersTimed /\ HistoryInv /\ [Next]_vars => HistoryInv'
<1> SUFFICES ASSUME TypeInv, AnswersInOrder, AnswersTimed, HistoryInv, [Next]_vars
             PROVE  HistoryInv'
  OBVIOUS
<1>1. ASSUME NEW a \in Assets, UpdateAsset(a) PROVE HistoryInv'
  <2>1. /\ prices \in [Assets -> Price] /\ priceHistory \in [Assets -> Seq(Price)]
        /\ prices' \in [Assets -> Price] /\ block \in Nat
    BY <1>1, UpdateAssetTypes DEF TypeInv, TypeOK
  <2>2. CASE UNCHANGED <<prices, priceHistory>>
    BY <2>2 DEF HistoryInv, HistoryOf
  <2>3. CASE /\ prices'[a].block = block /\ block > prices[a].block + StalePrice
             /\ \A b \in Assets \ {a} : prices'[b] = prices[b]
             /\ priceHistory' =
                   [priceHistory EXCEPT ![a] = Recorded(priceHistory[a], prices'[a])]
    <3> DEFINE old == priceHistory[a]
               r == Recorded(old, prices'[a])
    <3>1. old \in Seq(Price) /\ prices'[a] \in Price /\ Len(old) <= MaxHistory
      BY <2>1 DEF HistoryInv, HistoryOf
    <3>2. /\ r \in Seq(Price)
          /\ Len(r) \in 1..MaxHistory
          /\ r[Len(r)] = prices'[a]
          /\ \E d \in {0, 1} : \A i \in 1..Len(r) - 1 : i + d \in DOMAIN old /\ r[i] = old[i + d]
      BY <3>1, RecordedEntries
    <3>3. /\ \A i, j \in DOMAIN old : i < j => old[i].block < old[j].block
          /\ old # <<>> => old[Len(old)] = prices[a]
      BY DEF HistoryInv, HistoryOf
    <3>4. \A i \in DOMAIN old : old[i].block \in Nat
      <4>1. \A i \in DOMAIN old : old[i] \in Price
        BY <3>1
      <4> QED
        BY <4>1 DEF Price
    <3>5. prices[a].block \in Nat
      BY <2>1 DEF Price
    <3> HIDE DEF old, r
    <3>6. DOMAIN old = 1..Len(old) /\ Len(old) \in Nat /\ DOMAIN r = 1..Len(r) /\ Len(r) \in Nat
      BY <3>1, <3>2
    <3>7. \A i \in DOMAIN old : old[i].block < block
      <4> SUFFICES ASSUME NEW i \in DOMAIN old PROVE old[i].block < block
        OBVIOUS
      <4>1. old # <<>> /\ Len(old) \in DOMAIN old
        BY <3>6
      <4>2. i = Len(old) \/ i < Len(old)
        BY <3>6
      <4>3. old[i].block <= old[Len(old)].block
        BY <3>3, <3>4, <4>1, <4>2
      <4>4. old[Len(old)].block = prices[a].block
        BY <3>3, <4>1
      <4> QED
        BY <2>1, <2>3, <3>4, <3>5, <4>3, <4>4, ParameterTypes
    <3>8. \A i, j \in DOMAIN r : i < j => r[i].block < r[j].block
      <4> SUFFICES ASSUME NEW i \in DOMAIN r, NEW j \in DOMAIN r, i < j
                   PROVE  r[i].block < r[j].block
        OBVIOUS
      <4>1. PICK d \in {0, 1} : \A k \in 1..Len(r) - 1 : k + d \in DOMAIN old /\ r[k] = old[k + d]
        BY <3>2
      <4>2. i \in 1..Len(r) - 1
        BY <3>6
      <4>3. CASE j = Len(r)
        <5>1. r[j].block = block
          BY <2>3, <3>2, <4>3
        <5>2. r[i].block < block
          BY <3>7, <4>1, <4>2
        <5> QED
          BY <5>1, <5>2
      <4>4. CASE j # Len(r)
        <5>1. j \in 1..Len(r) - 1 /\ i + d < j + d
          BY <3>6, <4>4
        <5>2. r[i] = old[i + d] /\ r[j] = old[j + d] /\ i + d \in DOMAIN old /\ j + d \in DOMAIN old
          BY <4>1, <4>2, <5>1
        <5> QED
          BY <3>3, <5>1, <5>2
      <4> QED
        BY <4>3, <4>4
    <3>9. priceHistory'[a] = r /\ \A b \in Assets \ {a} : priceHistory'[b] = priceHistory[b]
      BY <2>1, <2>3 DEF r, old
    <3>10. r # <<>>
      BY <3>2, <3>6
    <3>11. Len(r) <= MaxHistory
      BY <3>2, ParameterTypes
    <3>12. HistoryOf(a)'
      BY <3>2, <3>8, <3>9, <3>10, <3>11 DEF HistoryOf
    <3>13. \A b \in Assets \ {a} : HistoryOf(b)'
      BY <2>3, <3>9 DEF HistoryInv, HistoryOf
    <3> QED
      BY <3>12, <3>13 DEF HistoryInv
  <2> QED
    BY <1>1, <2>2, <2>3, UpdateKeepsAnswers
<1>2. CASE UNCHANGED <<prices, priceHistory>>
  BY <1>2 DEF HistoryInv, HistoryOf
<1>3. ASSUME \/ \E a \in Assets, info \in Infos : AddAssetAndInfo(a, info)
             \/ \E who \in Accounts : Call(who)
             \/ NewBlock
             \/ PayOut
             \/ UNCHANGED vars
      PROVE  UNCHANGED <<prices, priceHistory>>
  BY <1>3 DEF AddAssetAndInfo, Call, SetSigner, AddStake, DoAddStake, RemoveStake,
              ReclaimStake, SubmitPrice, NewBlock, PayOut, feed, vars
<1> QED
  BY <1>1, <1>2, <1>3 DEF Next, OnInitialize

(* However prices follow each other and however full the history is, it is  *)
(* bounded, in the order of its blocks, and ends in the current price.      *)
THEOREM HistorySound == Spec => []HistoryEndsInPrice
<1>1. Init => HistoryInv
  BY ParameterTypes DEF Init, HistoryInv, HistoryOf
<1> QED
  BY <1>1, HistoryStep, HistoryImplied, AnswersInit, AnswersStep, TypeInit, TypeStep, PTL
     DEF Spec

-----------------------------------------------------------------------------
(* A majority of the answers decides the price.                             *)

LEMMA Disjoint ==
    ASSUME NEW S, NEW s \in Seq(S), NEW I, NEW J, I \subseteq DOMAIN s, J \subseteq DOMAIN s,
           I \cap J = {}
    PROVE  Cardinality(I) + Cardinality(J) <= Len(s)
<1>1. IsFiniteSet(I) /\ IsFiniteSet(J) /\ Cardinality(I) \in Nat /\ Cardinality(J) \in Nat
  BY PositionsFinite
<1>2. I \cup J \subseteq DOMAIN s
  OBVIOUS
<1>3. Cardinality(I \cup J) <= Len(s)
  BY <1>2, PositionsFinite
<1>4. Cardinality(I \cap J) = 0
  BY FS_EmptySet
<1>5. Cardinality(I \cup J) = Cardinality(I) + Cardinality(J) - Cardinality(I \cap J)
  BY <1>1, FS_Union
<1> QED
  BY <1>1, <1>3, <1>4, <1>5

(* A price with enough of an interval's answers on either side is in it.    *)
LEMMA KthWithin ==
    ASSUME NEW answers \in Seq(PrePrice), NEW k \in 1..Len(answers),
           NEW lo \in 0..MaxPrice, NEW hi \in 0..MaxPrice, NEW W,
           W = {i \in DOMAIN answers : answers[i].price \in lo..hi},
           Cardinality(W) >= k, Cardinality(W) > Len(answers) - k
    PROVE  Kth(answers, k) \in lo..hi
<1> DEFINE p == Kth(answers, k)
           n == Len(answers)
           below == {i \in DOMAIN answers : answers[i].price < p}
           upto == {i \in DOMAIN answers : answers[i].price <= p}
<1>1. p \in 0..MaxPrice /\ Cardinality(below) < k /\ k <= Cardinality(upto)
  BY KthType
<1>2. \A i \in DOMAIN answers : answers[i].price \in 0..MaxPrice
  <2>1. \A i \in DOMAIN answers : answers[i] \in PrePrice
    OBVIOUS
  <2> QED
    BY <2>1 DEF PrePrice
<1>3. n \in Nat /\ MaxPrice \in Nat /\ k \in Nat
  BY ParameterTypes
<1>4. p < lo => W \cap upto = {}
  BY <1>1, <1>2
<1>5. p > hi => W \subseteq below
  BY <1>1, <1>2
<1>6. W \subseteq DOMAIN answers /\ upto \subseteq DOMAIN answers /\ below \subseteq DOMAIN answers
  OBVIOUS
<1> HIDE DEF p, n, below, upto
<1>7. /\ Cardinality(W) \in Nat /\ Cardinality(upto) \in Nat /\ Cardinality(below) \in Nat
      /\ IsFiniteSet(below)
  BY <1>6, PositionsFinite
<1>8. ASSUME p < lo PROVE FALSE
  <2>1. Cardinality(W) + Cardinality(upto) <= n
    BY <1>4, <1>6, <1>8, Disjoint DEF n
  <2>2. Cardinality(W) > n - k
    BY DEF n
  <2> QED
    BY <1>1, <1>3, <1>7, <2>1, <2>2
<1>9. ASSUME p > hi PROVE FALSE
  <2>1. Cardinality(W) <= Cardinality(below)
    BY <1>5, <1>7, <1>9, FS_Subset
  <2> QED
    BY <1>1, <1>3, <1>7, <2>1
<1>10. p \in lo..hi
  BY <1>1, <1>3, <1>8, <1>9
<1> QED
  BY <1>10 DEF p

LEMMA MedianWithin ==
    ASSUME NEW answers \in Seq(PrePrice), answers # <<>>,
           NEW lo \in 0..MaxPrice, NEW hi \in 0..MaxPrice, NEW W,
           W = {i \in DOMAIN answers : answers[i].price \in lo..hi},
           2 * Cardinality(W) > Len(answers), hi <= MaxPrice \div 2
    PROVE  GetMedianPrice(answers) \in lo..hi
<1> DEFINE n == Len(answers)
           mid == n \div 2
           c == Cardinality(W)
<1>1. n \in Nat /\ n # 0 /\ mid \in Nat /\ MaxPrice \in Nat
  BY ParameterTypes
<1>2. c \in Nat /\ 2 * c > n
  <2>1. W \subseteq DOMAIN answers
    OBVIOUS
  <2> QED
    BY <2>1, PositionsFinite
<1>3. CASE n % 2 = 1
  <2>1. n = 2 * mid + 1
    BY <1>1, <1>3
  <2>2. GetMedianPrice(answers) = Kth(answers, mid + 1)
    BY <1>3 DEF GetMedianPrice
  <2> HIDE DEF mid
  <2>3. mid + 1 \in 1..n /\ c >= mid + 1 /\ c > n - (mid + 1)
    BY <1>1, <1>2, <2>1
  <2> QED
    BY <2>2, <2>3, KthWithin
<1>4. CASE n % 2 # 1
  <2>1. n = 2 * mid
    BY <1>1, <1>4
  <2>2. GetMedianPrice(answers) =
           Least(Kth(answers, mid) + Kth(answers, mid + 1), MaxPrice) \div 2
    BY <1>4 DEF GetMedianPrice
  <2> HIDE DEF mid
  <2>3. /\ mid \in 1..n /\ c >= mid /\ c > n - mid
        /\ mid + 1 \in 1..n /\ c >= mid + 1 /\ c > n - (mid + 1)
    BY <1>1, <1>2, <2>1
  <2>4. Kth(answers, mid) \in lo..hi /\ Kth(answers, mid + 1) \in lo..hi
    BY <2>3, KthWithin
  <2>5. \A p, q \in lo..hi : Least(p + q, MaxPrice) \div 2 \in lo..hi
    <3> SUFFICES ASSUME NEW p \in lo..hi, NEW q \in lo..hi
                 PROVE  Least(p + q, MaxPrice) \div 2 \in lo..hi
      OBVIOUS
    <3>1. p + q <= MaxPrice /\ p + q \in Nat
      BY <1>1
    <3>2. Least(p + q, MaxPrice) = p + q
      BY <1>1, <3>1 DEF Least
    <3>3. (p + q) \div 2 \in lo..hi
      OBVIOUS
    <3> QED
      BY <3>2, <3>3
  <2> QED
    BY <2>2, <2>4, <2>5
<1> QED
  BY <1>3, <1>4

(* A run of positions.                                                      *)
LEMMA RunCounts ==
    ASSUME NEW f \in Nat, NEW m \in Nat
    PROVE  IsFiniteSet(f..f + m - 1) /\ Cardinality(f..f + m - 1) = m
<1> DEFINE g == f + m - 1
<1>1. IsFiniteSet(f..g) /\ Cardinality(f..g) = IF f > g THEN 0 ELSE g - f + 1
  BY FS_Interval
<1> QED
  BY <1>1

(* The answers that count are the ones pruning leaves.                      *)
LEMMA CountedArePruned ==
    ASSUME NEW answers \in Seq(PrePrice), NEW info \in AssetInfo, block \in Nat,
           \A i, j \in DOMAIN answers : i < j => answers[i].block <= answers[j].block
    PROVE  LET fresh == {i \in DOMAIN answers : answers[i].block + StalePrice >= block}
               counted == {i \in fresh : Cardinality({j \in fresh : j <= i}) <= info.max_answers}
               m == Len(Pruned(answers, info))
               f == FreshFrom(answers)
           IN  f \in Nat /\ m \in Nat /\ counted = f..f + m - 1
<1> DEFINE fresh == {i \in DOMAIN answers : answers[i].block + StalePrice >= block}
           counted == {i \in fresh : Cardinality({j \in fresh : j <= i}) <= info.max_answers}
           m == Len(Pruned(answers, info))
           f == FreshFrom(answers)
           N == Len(answers)
           x == info.max_answers
<1>1. N \in Nat /\ DOMAIN answers = 1..N /\ x \in Nat /\ StalePrice \in Nat
  BY ParameterTypes DEF AssetInfo
<1>2. \A i \in 1..N : answers[i].block \in Nat
  <2>1. \A i \in 1..N : answers[i] \in PrePrice
    BY <1>1
  <2> QED
    BY <2>1 DEF PrePrice
<1>3. fresh = {i \in DOMAIN answers : answers[i].block >= Monus(block, StalePrice)}
  BY <1>1, <1>2 DEF Monus
<1>4. f \in 1..N + 1 /\ fresh = f..N
  <2>1. fresh \subseteq 1..N
    BY <1>1
  <2>2. CASE fresh = {}
    <3>1. f = N + 1
      BY <1>3, <2>2 DEF FreshFrom
    <3> HIDE DEF fresh, f, N
    <3> QED
      BY <1>1, <2>2, <3>1
  <2>3. CASE fresh # {}
    <3>1. f \in fresh /\ \A j \in fresh : f <= j
      <4>1. f = CHOOSE i \in fresh : \A j \in fresh : i <= j
        BY <1>3, <2>3, Zenon DEF FreshFrom
      <4> HIDE DEF fresh, f
      <4>2. fresh \subseteq Nat
        BY <1>1, <2>1
      <4>3. \E i \in fresh : \A j \in fresh : i <= j
        BY <2>3, <4>2, LeastNatural
      <4> QED
        BY <4>1, <4>3
    <3>2. f \in 1..N /\ answers[f].block + StalePrice >= block
      BY <1>1, <3>1
    <3> HIDE DEF f, N
    <3>3. \A i \in f..N : i \in 1..N /\ answers[f].block <= answers[i].block
      BY <1>1, <1>2, <3>2
    <3>4. \A i \in f..N : i \in fresh
      BY <1>1, <1>2, <3>2, <3>3
    <3> HIDE DEF fresh
    <3>5. \A j \in fresh : j \in f..N
      BY <1>1, <2>1, <3>1, <3>2
    <3>6. fresh = f..N
      BY <3>4, <3>5
    <3> QED
      BY <1>1, <3>2, <3>6
  <2> QED
    BY <2>2, <2>3
<1>5. m = Least(x, N + 1 - f)
  <2> DEFINE rest == SubSeq(answers, f, N)
             k == Least(x, Len(rest))
  <2>1. \A i \in f..N : answers[i] \in PrePrice
    BY <1>1, <1>4
  <2>2. m = Len(SubSeq(rest, 1, k))
    BY DEF Pruned
  <2> HIDE DEF f, N
  <2>3. rest \in Seq(PrePrice) /\ Len(rest) = IF f <= N THEN N - f + 1 ELSE 0
    <3>1. f \in Int /\ N \in Int
      BY <1>1, <1>4
    <3> QED
      BY <2>1, <3>1, SubSeqProperties
  <2> HIDE DEF rest
  <2>4. Len(rest) = N + 1 - f /\ Len(rest) \in Nat
    BY <1>1, <1>4, <2>3
  <2>5. k \in 0..Len(rest)
    BY <1>1, <2>4 DEF Least
  <2> HIDE DEF x, k
  <2>6. Len(SubSeq(rest, 1, k)) = IF 1 <= k THEN k - 1 + 1 ELSE 0
    <3>1. k \in Int /\ 1 \in Int
      BY <2>5
    <3>2. \A i \in 1..k : rest[i] \in PrePrice
      BY <2>3, <2>4, <2>5
    <3> QED
      BY <3>1, <3>2, SubSeqProperties
  <2>7. m = k
    BY <2>2, <2>4, <2>5, <2>6
  <2> QED
    BY <2>4, <2>7 DEF k
<1> HIDE DEF m, f, N, fresh, x
<1>6. m \in Nat /\ f \in Nat /\ m <= x /\ f + m - 1 <= N /\ (m < x => m = N + 1 - f)
  BY <1>1, <1>4, <1>5 DEF Least
<1>7. ASSUME NEW i \in f..N PROVE Cardinality({j \in fresh : j <= i}) = i - f + 1
  <2>1. {j \in fresh : j <= i} = f..f + (i - f + 1) - 1
    BY <1>1, <1>4, <1>6
  <2>2. i - f + 1 \in Nat
    BY <1>1, <1>6
  <2> QED
    BY <1>6, <2>1, <2>2, RunCounts
<1>8. counted = {i \in f..N : i - f + 1 <= x}
  BY <1>4, <1>7 DEF x
<1>9. {i \in f..N : i - f + 1 <= x} = f..f + m - 1
  BY <1>1, <1>6
<1> QED
  BY <1>6, <1>8, <1>9 DEF fresh, m, f, x

LEMMA UpdateDecides ==
    ASSUME TypeInv, AnswersInOrder, NEW a \in Assets, UpdateAsset(a), NEW b \in Assets,
           prices'[b] # prices[b]
    PROVE  MajorityFor(b)
<1> DEFINE info == assetsInfo[a]
           answers == prePrices[a]
           pruned == Pruned(answers, info)
           fresh == {i \in DOMAIN answers : answers[i].block + StalePrice >= block}
           counted == {i \in fresh : Cardinality({j \in fresh : j <= i}) <= info.max_answers}
           within(lo, hi) == {i \in counted : answers[i].price \in lo..hi}
           m == Len(pruned)
           f == FreshFrom(answers)
<1>1. /\ prePrices \in [Assets -> Seq(PrePrice)] /\ prices \in [Assets -> Price]
      /\ block \in Nat
  BY DEF TypeInv, TypeOK
<1>2. info \in AssetInfo /\ ValidInfo(info) /\ pruned \in Seq(PrePrice)
  BY UpdateAssetTypes
<1>3. /\ Len(pruned) >= info.min_answers
      /\ prices' = [prices EXCEPT ![a] = [price |-> GetMedianPrice(pruned), block |-> block]]
  BY DEF UpdateAsset, feed
<1>4. b = a /\ prices'[a].price = GetMedianPrice(pruned)
  BY <1>1, <1>3
<1>5. answers \in Seq(PrePrice)
      /\ \A i, j \in DOMAIN answers : i < j => answers[i].block <= answers[j].block
  BY <1>1 DEF AnswersInOrder
<1> HIDE DEF answers, info
<1>6. f \in Nat /\ m \in Nat /\ counted = f..f + m - 1
  BY <1>1, <1>2, <1>5, CountedArePruned
<1>7. \A i \in 1..m : f + i - 1 \in 1..Len(answers) /\ pruned[i] = answers[f + i - 1]
  BY <1>2, <1>5, PrunedType, Zenon
<1> HIDE DEF fresh, counted, f
<1>8. Cardinality(counted) = m
  BY <1>6, RunCounts
<1>9. m >= info.min_answers /\ pruned # <<>> /\ DOMAIN pruned = 1..m
  <2>1. info.min_answers \in Nat /\ info.min_answers > 0
    BY <1>2 DEF ValidInfo, AssetInfo
  <2>2. Len(pruned) >= 1
    BY <1>2, <1>3, <2>1
  <2> HIDE DEF pruned
  <2> QED
    BY <1>2, <1>3, <2>2
<1> HIDE DEF pruned
<1>10. ASSUME NEW lo \in Values, NEW hi \in Values, hi <= MaxPrice \div 2,
              2 * Cardinality(within(lo, hi)) > m
       PROVE  GetMedianPrice(pruned) \in lo..hi
  <2> DEFINE W == {i \in DOMAIN pruned : pruned[i].price \in lo..hi}
             V == within(lo, hi)
             shift == [i \in W |-> f + i - 1]
  <2>1. lo \in 0..MaxPrice /\ hi \in 0..MaxPrice
    BY ParameterTypes
  <2>2. IsFiniteSet(W) /\ Cardinality(W) \in Nat
    <3>1. W \subseteq DOMAIN pruned
      OBVIOUS
    <3> QED
      BY <1>2, <3>1, PositionsFinite
  <2>3. \A i \in W : i \in 1..m /\ f + i - 1 \in V
    <3>1. \A i \in W : i \in 1..m /\ f + i - 1 \in counted
      BY <1>6, <1>9
    <3> QED
      BY <1>7, <3>1
  <2>4. \A v \in V : v - f + 1 \in W /\ v \in Int
    <3>1. \A v \in V : v - f + 1 \in 1..m /\ v \in Int /\ f + (v - f + 1) - 1 = v
      BY <1>6
    <3>2. \A v \in V : pruned[v - f + 1] = answers[v]
      BY <1>7, <3>1
    <3> QED
      BY <1>9, <3>1, <3>2
  <2> HIDE DEF W, V
  <2>5. shift \in Bijection(W, V)
    <3>1. shift \in [W -> V]
      BY <2>3
    <3>2. \A i, j \in W : shift[i] = shift[j] => i = j
      BY <1>6, <2>3
    <3>3. \A v \in V : \E i \in W : shift[i] = v
      <4> SUFFICES ASSUME NEW v \in V PROVE \E i \in W : shift[i] = v
        OBVIOUS
      <4>1. v - f + 1 \in W /\ v \in Int
        BY <2>4
      <4>2. shift[v - f + 1] = v
        BY <1>6, <4>1
      <4> QED
        BY <4>1, <4>2
    <3> QED
      BY <3>1, <3>2, <3>3 DEF Bijection, Injection, Surjection, IsInjective
  <2>6. Cardinality(V) = Cardinality(W)
    <3>1. ExistsBijection(W, V)
      BY <2>5 DEF ExistsBijection
    <3> QED
      BY <2>2, <3>1, FS_Bijection
  <2>7. 2 * Cardinality(W) > Len(pruned)
    BY <1>10, <2>6 DEF V
  <2>8. hi <= MaxPrice \div 2
    BY <1>10
  <2> QED
    BY <1>2, <1>9, <2>1, <2>7, <2>8, MedianWithin DEF W
<1> QED
  BY <1>4, <1>8, <1>9, <1>10 DEF MajorityFor, answers, info, counted, fresh

(* A new price rests on min_answers fresh answers, and whatever the other   *)
(* answers were, it lies in every interval that holds more than half of     *)
(* those that count: pruning keeps the fresh ones because answers wait in   *)
(* the order of their blocks, and the median is among the majority.         *)
THEOREM MajoritySound == Spec => MajorityDecides
<1>1. TypeInv /\ AnswersInOrder /\ [Next]_vars =>
         \A b \in Assets : prices'[b] # prices[b] => MajorityFor(b)
  <2> SUFFICES ASSUME TypeInv, AnswersInOrder, [Next]_vars, NEW b \in Assets,
                      prices'[b] # prices[b]
               PROVE  MajorityFor(b)
    OBVIOUS
  <2>1. \/ \E a \in Assets : UpdateAsset(a)
        \/ UNCHANGED prices
    BY DEF Next, Call, OnInitialize, AddAssetAndInfo, SetSigner, AddStake, DoAddStake,
           RemoveStake, ReclaimStake, SubmitPrice, NewBlock, PayOut, feed, vars
  <2> QED
    BY <2>1, UpdateDecides
<1>2. TypeInv /\ AnswersInOrder /\ [Next]_vars =>
         [\A a \in Assets : prices'[a] # prices[a] => MajorityFor(a)]_vars
  BY <1>1
<1> QED
  BY <1>2, AnswersInit, AnswersStep, TypeInit, TypeStep, PTL DEF Spec, MajorityDecides

-----------------------------------------------------------------------------
(* The price feed: the inductive invariant of its tasks.                   *)

Prices == [kind: {"price"}, asset: FeedAssets, time: 1..MaxTime]

(* The event loop holds a price only while it sends it, and it is the      *)
(* last one of its asset.                                                  *)
UpdateHeld ==
    IF event_loop = "sending"
    THEN update \in Prices /\ update.time = latest_trade[update.asset]
    ELSE update = NoPrice

TasksInStep ==
    /\ backend = "running" => receiving
    /\ feed_task = "opening" => event_loop = "none"

(* The prices of an asset leave the channel in the order of their trades:  *)
(* the cache is never ahead of the channel, nor the channel of the feed.   *)
ChannelOrdered ==
    \A j, k \in DOMAIN channel :
       /\ j < k /\ channel[j] \in Prices /\ channel[k] \in Prices
       /\ channel[j].asset = channel[k].asset
       => channel[j].time <= channel[k].time

ChannelBetween ==
    \A k \in DOMAIN channel : channel[k] \in Prices =>
       /\ prices_cache[channel[k].asset] <= channel[k].time
       /\ channel[k].time <= latest_trade[channel[k].asset]

CacheBetween ==
    \A a \in FeedAssets :
       /\ answered[a] <= prices_cache[a]
       /\ prices_cache[a] <= latest_trade[a]
       /\ latest_trade[a] <= clock

FeedInv ==
    /\ FeedTypeOK /\ UpdateHeld /\ TasksInStep
    /\ ChannelOrdered /\ ChannelBetween /\ CacheBetween
    /\ NoTradeLost

-----------------------------------------------------------------------------
(* The channel.                                                            *)

InChannel == {channel[k] : k \in DOMAIN channel}

LEMMA NoticeKinds ==
    /\ \A k : Notice(k) \in Prices => k = "price"
    /\ \A a \in FeedAssets, t \in 1..MaxTime : PriceOf(a, t) \in Prices
    /\ \A m \in Notifications : m.kind = "price" <=> m \in Prices
    /\ \A m \in Prices : m = PriceOf(m.asset, m.time) /\ m \in Notifications
    /\ Notice("started") \in Notifications /\ Notice("opening") \in Notifications
    /\ Notice("closing") \in Notifications /\ Notice("stopped") \in Notifications
BY DEF Notice, PriceOf, Prices, Notifications

LEMMA FeedParts ==
    ASSUME FeedTypeOK
    PROVE  /\ clock \in 1..MaxTime /\ channel \in Seq(Notifications)
           /\ Len(channel) \in Nat /\ DOMAIN channel = 1..Len(channel)
           /\ prices_cache \in [FeedAssets -> 0..MaxTime]
           /\ answered \in [FeedAssets -> 0..MaxTime]
           /\ latest_trade \in [FeedAssets -> 0..MaxTime]
           /\ MaxTime \in Nat /\ ChannelSize \in Nat
BY FeedTypes DEF FeedTypeOK

(* A notification goes behind the others: a price that is the last of its  *)
(* asset keeps the order.                                                  *)
LEMMA SendKeepsOrder ==
    ASSUME FeedInv, NEW m \in Notifications, Sends(m),
           m \in Prices => m.time = latest_trade[m.asset],
           UNCHANGED <<clock, latest_trade, prices_cache, answered>>
    PROVE  /\ channel' \in Seq(Notifications) /\ Len(channel') <= ChannelSize
           /\ ChannelOrdered' /\ ChannelBetween' /\ CacheBetween'
           /\ InChannel' = InChannel \cup {m}
<1>1. /\ FeedTypeOK /\ ChannelOrdered /\ ChannelBetween /\ CacheBetween
      /\ channel' = Append(channel, m) /\ Len(channel) < ChannelSize
  BY DEF FeedInv, Sends, HasRoom
<1>2. /\ channel \in Seq(Notifications) /\ Len(channel) \in Nat
      /\ DOMAIN channel = 1..Len(channel)
  BY <1>1, FeedParts
<1>3. /\ channel' \in Seq(Notifications)
      /\ DOMAIN channel' = 1..(Len(channel) + 1) /\ Len(channel') = Len(channel) + 1
      /\ \A k \in 1..Len(channel) : channel'[k] = channel[k]
      /\ channel'[Len(channel) + 1] = m
  BY <1>1, <1>2
<1>4. Len(channel') <= ChannelSize
  BY <1>1, <1>2, <1>3, FeedTypes
<1>5. \A a \in FeedAssets :
         /\ latest_trade[a] \in Nat /\ prices_cache[a] \in Nat
         /\ prices_cache[a] <= latest_trade[a]
  BY <1>1, FeedParts DEF CacheBetween
<1>6. \A n \in Prices : n.asset \in FeedAssets /\ n.time \in Nat
  BY FeedTypes DEF Prices
<1>7. ChannelOrdered'
  <2> SUFFICES ASSUME NEW j \in DOMAIN channel', NEW k \in DOMAIN channel',
                      j < k, channel'[j] \in Prices, channel'[k] \in Prices,
                      channel'[j].asset = channel'[k].asset
               PROVE  channel'[j].time <= channel'[k].time
    BY DEF ChannelOrdered, Prices
  <2>1. j \in DOMAIN channel /\ channel'[j] = channel[j]
    BY <1>2, <1>3
  <2>2. CASE k \in DOMAIN channel
    BY <1>1, <1>2, <1>3, <2>1, <2>2 DEF ChannelOrdered
  <2>3. CASE k \notin DOMAIN channel
    <3>1. channel'[k] = m
      BY <1>2, <1>3, <2>3
    <3> QED
      BY <1>1, <2>1, <3>1 DEF ChannelBetween
  <2> QED
    BY <2>2, <2>3
<1>8. ChannelBetween'
  <2> SUFFICES ASSUME NEW k \in DOMAIN channel', channel'[k] \in Prices
               PROVE  /\ prices_cache[channel'[k].asset] <= channel'[k].time
                      /\ channel'[k].time <= latest_trade[channel'[k].asset]
    BY DEF ChannelBetween, Prices
  <2>1. CASE k \in DOMAIN channel
    BY <1>1, <1>2, <1>3, <2>1 DEF ChannelBetween
  <2>2. CASE k \notin DOMAIN channel
    <3>1. channel'[k] = m
      BY <1>2, <1>3, <2>2
    <3> QED
      BY <1>5, <1>6, <3>1
  <2> QED
    BY <2>1, <2>2
<1>9. CacheBetween'
  BY <1>1 DEF CacheBetween
<1>10. InChannel' = InChannel \cup {m}
  BY <1>2, <1>3 DEF InChannel
<1> QED
  BY <1>3, <1>4, <1>7, <1>8, <1>9, <1>10

(* The task's notices carry no price.                                      *)
LEMMA NoticeSent ==
    ASSUME FeedInv, NEW kind \in {"opening", "closing", "stopped"}, Sends(Notice(kind)),
           feed_task' \in {"opening", "waiting", "closing", "ended"},
           feed_task' # "opening" \/ feed_task = "opening",
           to_notify' \subseteq FeedAssets, UNCHANGED <<taskFrame, event_loop>>
    PROVE  FeedInv'
<1>1. /\ Notice(kind) \in Notifications /\ Notice(kind) \notin Prices
  BY NoticeKinds
<1>2. /\ channel' \in Seq(Notifications) /\ Len(channel') <= ChannelSize
      /\ ChannelOrdered' /\ ChannelBetween' /\ CacheBetween'
      /\ InChannel' = InChannel \cup {Notice(kind)}
  BY <1>1, SendKeepsOrder DEF taskFrame
<1>3. FeedTypeOK'
  BY <1>2 DEF FeedInv, FeedTypeOK, taskFrame
<1>4. UpdateHeld' /\ TasksInStep'
  BY DEF FeedInv, UpdateHeld, TasksInStep, taskFrame
<1>5. NoTradeLost'
  BY <1>2 DEF FeedInv, NoTradeLost, InChannel, taskFrame
<1> QED
  BY <1>2, <1>3, <1>4, <1>5 DEF FeedInv

LEMMA TakeKeeps ==
    ASSUME FeedInv, TakeNotification
    PROVE  FeedInv'
<1> DEFINE m == Head(channel)
<1>1. /\ FeedTypeOK /\ UpdateHeld /\ TasksInStep /\ ChannelOrdered /\ ChannelBetween
      /\ CacheBetween /\ NoTradeLost
      /\ backend = "running" /\ channel # <<>> /\ channel' = Tail(channel)
      /\ prices_cache' = TakenUpdate(m)
      /\ UNCHANGED <<backendFrame, receiving, backend>>
  BY DEF FeedInv, TakeNotification
<1>2. /\ channel \in Seq(Notifications) /\ Len(channel) \in Nat
      /\ DOMAIN channel = 1..Len(channel)
  BY <1>1, FeedParts
<1>3. /\ channel' \in Seq(Notifications) /\ Len(channel') = Len(channel) - 1
      /\ DOMAIN channel' = 1..(Len(channel) - 1)
      /\ \A k \in DOMAIN channel' : k + 1 \in DOMAIN channel /\ channel'[k] = channel[k + 1]
      /\ 1 \in DOMAIN channel /\ m = channel[1]
  BY <1>1, <1>2
<1>4. m \in Notifications
  BY <1>2, <1>3
<1>5. \A n \in Prices : n.asset \in FeedAssets /\ n.time \in 1..MaxTime
  BY DEF Prices
<1>6. /\ prices_cache \in [FeedAssets -> 0..MaxTime] /\ answered \in [FeedAssets -> 0..MaxTime]
      /\ latest_trade \in [FeedAssets -> 0..MaxTime] /\ MaxTime \in Nat
      /\ ChannelSize \in Nat
  BY <1>1, FeedParts
<1>7. /\ m \in Prices => prices_cache' = [prices_cache EXCEPT ![m.asset] = m.time]
      /\ m \notin Prices => prices_cache' = prices_cache
  BY <1>1, <1>4, NoticeKinds DEF TakenUpdate
<1>8. m \in Prices => /\ prices_cache[m.asset] <= m.time
                      /\ m.time <= latest_trade[m.asset]
  BY <1>1, <1>3 DEF ChannelBetween
<1>9. prices_cache' \in [FeedAssets -> 0..MaxTime]
  BY <1>5, <1>6, <1>7
<1>10. \A a \in FeedAssets : prices_cache[a] <= prices_cache'[a]
                             /\ prices_cache'[a] <= latest_trade[a]
  <2> SUFFICES ASSUME NEW a \in FeedAssets
               PROVE  prices_cache[a] <= prices_cache'[a]
                      /\ prices_cache'[a] <= latest_trade[a]
    OBVIOUS
  <2>1. prices_cache[a] \in Nat /\ prices_cache[a] <= latest_trade[a]
    BY <1>1, <1>6 DEF CacheBetween
  <2>2. CASE m \in Prices /\ m.asset = a
    <3>1. prices_cache'[a] = m.time
      BY <1>6, <1>7, <2>2
    <3> QED
      BY <1>8, <2>2, <3>1
  <2>3. CASE ~(m \in Prices /\ m.asset = a)
    <3>1. prices_cache'[a] = prices_cache[a]
      BY <1>5, <1>6, <1>7, <2>3
    <3> QED
      BY <2>1, <3>1
  <2> QED
    BY <2>2, <2>3
<1> HIDE DEF m
<1>11. FeedTypeOK'
  BY <1>1, <1>2, <1>3, <1>6, <1>9 DEF FeedTypeOK, backendFrame
<1>12. UpdateHeld' /\ TasksInStep'
  BY <1>1 DEF UpdateHeld, TasksInStep, backendFrame
<1>13. ChannelOrdered'
  <2> SUFFICES ASSUME NEW j \in DOMAIN channel', NEW k \in DOMAIN channel',
                      j < k, channel'[j] \in Prices, channel'[k] \in Prices,
                      channel'[j].asset = channel'[k].asset
               PROVE  channel'[j].time <= channel'[k].time
    BY DEF ChannelOrdered, Prices
  <2>1. j + 1 < k + 1
    BY <1>2, <1>3
  <2> QED
    BY <1>1, <1>3, <2>1 DEF ChannelOrdered
<1>14. ChannelBetween'
  <2> SUFFICES ASSUME NEW k \in DOMAIN channel', channel'[k] \in Prices
               PROVE  /\ prices_cache'[channel'[k].asset] <= channel'[k].time
                      /\ channel'[k].time <= latest_trade[channel'[k].asset]
    BY <1>1 DEF ChannelBetween, Prices, backendFrame
  <2>1. k + 1 \in DOMAIN channel /\ channel'[k] = channel[k + 1] /\ 1 < k + 1
    BY <1>2, <1>3
  <2>2. /\ prices_cache[channel'[k].asset] <= channel'[k].time
        /\ channel'[k].time <= latest_trade[channel'[k].asset]
    BY <1>1, <2>1 DEF ChannelBetween
  <2>3. CASE m \in Prices /\ m.asset = channel'[k].asset
    <3>1. m.time <= channel'[k].time
      BY <1>1, <1>3, <2>1, <2>3 DEF ChannelOrdered
    <3>2. prices_cache'[channel'[k].asset] = m.time
      BY <1>5, <1>6, <1>7, <2>3
    <3> QED
      BY <2>2, <3>1, <3>2
  <2>4. CASE ~(m \in Prices /\ m.asset = channel'[k].asset)
    <3>1. prices_cache'[channel'[k].asset] = prices_cache[channel'[k].asset]
      BY <1>5, <1>6, <1>7, <2>4
    <3> QED
      BY <2>2, <3>1
  <2> QED
    BY <2>3, <2>4
<1>15. CacheBetween'
  <2>1. \A a \in FeedAssets : /\ answered[a] \in Nat /\ prices_cache[a] \in Nat
                              /\ prices_cache'[a] \in Nat
    BY <1>6, <1>9
  <2>2. answered' = answered /\ latest_trade' = latest_trade /\ clock' = clock
    BY <1>1 DEF backendFrame
  <2>3. \A a \in FeedAssets : answered[a] <= prices_cache[a] /\ latest_trade[a] <= clock
    BY <1>1 DEF CacheBetween
  <2>4. \A a \in FeedAssets : answered[a] <= prices_cache'[a]
    BY <1>10, <2>1, <2>3
  <2> QED
    BY <1>10, <2>2, <2>3, <2>4 DEF CacheBetween
<1>16. NoTradeLost'
  <2> SUFFICES ASSUME NEW a \in FeedAssets
               PROVE  \/ prices_cache'[a] = latest_trade[a]
                      \/ PriceOf(a, latest_trade[a]) \in InChannel' \cup {update}
    BY <1>1 DEF NoTradeLost, InChannel, backendFrame
  <2>1. CASE prices_cache[a] = latest_trade[a]
    BY <1>6, <1>9, <1>10, <2>1
  <2>2. CASE PriceOf(a, latest_trade[a]) = update
    BY <2>2
  <2>3. CASE PriceOf(a, latest_trade[a]) \in InChannel
    <3>1. PICK k \in DOMAIN channel : channel[k] = PriceOf(a, latest_trade[a])
      BY <2>3 DEF InChannel
    <3>2. CASE k = 1
      <4>1. m = PriceOf(a, latest_trade[a])
        BY <1>3, <3>1, <3>2
      <4>2. m.kind = "price" /\ m.asset = a /\ m.time = latest_trade[a]
        BY <4>1 DEF PriceOf
      <4>3. m \in Prices
        BY <1>4, <4>2, NoticeKinds
      <4> QED
        BY <1>6, <1>7, <4>2, <4>3
    <3>3. CASE k # 1
      <4>1. k - 1 \in DOMAIN channel' /\ channel'[k - 1] = channel[k]
        BY <1>2, <1>3, <3>3
      <4> QED
        BY <3>1, <4>1 DEF InChannel
    <3> QED
      BY <3>2, <3>3
  <2>4. \/ prices_cache[a] = latest_trade[a]
        \/ PriceOf(a, latest_trade[a]) \in InChannel
        \/ PriceOf(a, latest_trade[a]) = update
    BY <1>1 DEF NoTradeLost, InChannel
  <2> QED
    BY <2>1, <2>2, <2>3, <2>4
<1> QED
  BY <1>11, <1>12, <1>13, <1>14, <1>15, <1>16 DEF FeedInv

-----------------------------------------------------------------------------
(* The steps of the tasks.                                                 *)

LEMMA FeedTaskKeeps ==
    ASSUME FeedInv, FeedTask
    PROVE  FeedInv'
<1>1. ASSUME NEW a \in FeedAssets, OpenAsset(a) \/ CloseAsset(a)
      PROVE  FeedInv'
  <2>1. PICK kind \in {"opening", "closing"} : NotifyAsset(a, kind)
    BY <1>1 DEF OpenAsset, CloseAsset
  <2>2. /\ Sends(Notice(kind)) /\ to_notify' \subseteq FeedAssets
        /\ UNCHANGED <<taskFrame, feed_task, event_loop>>
        /\ feed_task \in {"opening", "waiting", "closing", "ended"}
    BY <2>1 DEF NotifyAsset, FeedInv, FeedTypeOK
  <2> QED
    BY <2>2, NoticeSent
<1>2. CASE SpawnEventLoop
  BY <1>2 DEF SpawnEventLoop, taskFrame, FeedInv, FeedTypeOK, UpdateHeld, TasksInStep,
              ChannelOrdered, ChannelBetween, CacheBetween, NoTradeLost
<1>3. CASE EventLoopJoined
  BY <1>3 DEF EventLoopJoined, taskFrame, FeedInv, FeedTypeOK, UpdateHeld, TasksInStep,
              ChannelOrdered, ChannelBetween, CacheBetween, NoTradeLost
<1>4. CASE StopFeed
  <2>1. /\ Sends(Notice("stopped")) /\ to_notify' \subseteq FeedAssets
        /\ feed_task' = "ended" /\ UNCHANGED <<taskFrame, event_loop>>
    BY <1>4 DEF StopFeed, FeedInv, FeedTypeOK
  <2> QED
    BY <2>1, NoticeSent
<1>5. CASE ChannelIsBroken
  BY <1>5 DEF ChannelIsBroken, taskFrame, FeedInv, FeedTypeOK, UpdateHeld, TasksInStep,
              ChannelOrdered, ChannelBetween, CacheBetween, NoTradeLost
<1> QED
  BY <1>1, <1>2, <1>3, <1>4, <1>5 DEF FeedTask

(* The loop's steps that leave the price alone.                            *)
LEMMA LoopToKeeps ==
    ASSUME FeedInv, NEW from, NEW to, LoopTo(from, to), from \notin {"none", "sending"},
           to \in {"checking", "reading", "ended"}
    PROVE  FeedInv'
BY DEF LoopTo, loopFrame, FeedInv, FeedTypeOK, UpdateHeld, TasksInStep, ChannelOrdered,
       ChannelBetween, CacheBetween, NoTradeLost

(* A trade is stamped with a time that is not before any other's.          *)
LEMMA TradeKeeps ==
    ASSUME FeedInv, NEW a \in FeedAssets, TradeEvent(a)
    PROVE  FeedInv'
<1>1. /\ FeedTypeOK /\ UpdateHeld /\ TasksInStep /\ ChannelOrdered /\ ChannelBetween
      /\ CacheBetween /\ NoTradeLost
  BY DEF FeedInv
<1>2. /\ event_loop = "reading" /\ event_loop' = "sending"
      /\ update' = PriceOf(a, clock) /\ latest_trade' = [latest_trade EXCEPT ![a] = clock]
      /\ UNCHANGED <<loopFrame, channel>>
  BY DEF TradeEvent
<1>3. /\ clock \in 1..MaxTime /\ latest_trade \in [FeedAssets -> 0..MaxTime]
      /\ prices_cache \in [FeedAssets -> 0..MaxTime] /\ MaxTime \in Nat
  BY <1>1, FeedParts
<1>4. /\ latest_trade' \in [FeedAssets -> 0..MaxTime] /\ latest_trade'[a] = clock
      /\ \A b \in FeedAssets : latest_trade[b] <= latest_trade'[b]
      /\ \A b \in FeedAssets : b # a => latest_trade'[b] = latest_trade[b]
  BY <1>1, <1>2, <1>3 DEF CacheBetween
<1>5. \A m \in Prices : m.asset \in FeedAssets /\ m.time \in Nat
  BY FeedTypes DEF Prices
<1>6. FeedTypeOK'
  BY <1>1, <1>2, <1>4 DEF FeedTypeOK, loopFrame
<1>7. UpdateHeld' /\ TasksInStep'
  <2>1. update' \in Prices /\ update'.asset = a /\ update'.time = clock
    BY <1>2, <1>3, NoticeKinds DEF PriceOf
  <2> QED
    BY <1>1, <1>2, <1>4, <2>1 DEF UpdateHeld, TasksInStep, loopFrame
<1>8. ChannelOrdered'
  BY <1>1, <1>2 DEF ChannelOrdered
<1>9. ChannelBetween'
  <2> SUFFICES ASSUME NEW k \in DOMAIN channel, channel[k] \in Prices
               PROVE  /\ prices_cache[channel[k].asset] <= channel[k].time
                      /\ channel[k].time <= latest_trade'[channel[k].asset]
    BY <1>2 DEF ChannelBetween, Prices, loopFrame
  <2>1. /\ prices_cache[channel[k].asset] <= channel[k].time
        /\ channel[k].time <= latest_trade[channel[k].asset]
    BY <1>1 DEF ChannelBetween
  <2> QED
    BY <1>3, <1>4, <1>5, <2>1
<1>10. CacheBetween'
  <2>1. \A b \in FeedAssets :
          /\ answered[b] <= prices_cache[b] /\ prices_cache[b] <= latest_trade[b]
          /\ latest_trade[b] <= clock
    BY <1>1 DEF CacheBetween
  <2>2. \A b \in FeedAssets :
          /\ answered[b] <= prices_cache[b] /\ prices_cache[b] <= latest_trade'[b]
          /\ latest_trade'[b] <= clock
    BY <1>3, <1>4, <2>1
  <2> QED
    BY <1>2, <2>2 DEF CacheBetween, loopFrame
<1>11. NoTradeLost'
  <2> SUFFICES ASSUME backend = "running", NEW b \in FeedAssets
               PROVE  \/ prices_cache[b] = latest_trade'[b]
                      \/ PriceOf(b, latest_trade'[b]) \in InChannel \cup {update'}
    BY <1>2 DEF NoTradeLost, InChannel, loopFrame
  <2>1. CASE b = a
    BY <1>2, <1>4, <2>1
  <2>2. CASE b # a
    <3>1. latest_trade'[b] = latest_trade[b]
      BY <1>4, <2>2
    <3>2. PriceOf(b, latest_trade[b]) # update
      BY <1>1, <1>2 DEF UpdateHeld, NoPrice, Notice, PriceOf
    <3> QED
      BY <1>1, <3>1, <3>2 DEF NoTradeLost, InChannel
  <2> QED
    BY <2>1, <2>2
<1> QED
  BY <1>6, <1>7, <1>8, <1>9, <1>10, <1>11 DEF FeedInv

LEMMA SendUpdateKeeps ==
    ASSUME FeedInv, SendUpdate
    PROVE  FeedInv'
<1>1. /\ FeedTypeOK /\ UpdateHeld /\ TasksInStep /\ ChannelOrdered /\ ChannelBetween
      /\ CacheBetween /\ NoTradeLost
      /\ event_loop = "sending" /\ event_loop' = "checking" /\ update' = NoPrice
      /\ UNCHANGED <<loopFrame, latest_trade>>
  BY DEF FeedInv, SendUpdate
<1>2. UpdateHeld' /\ TasksInStep'
  BY <1>1 DEF UpdateHeld, TasksInStep, loopFrame
<1>3. CASE ~receiving /\ UNCHANGED channel
  <2>1. backend' # "running"
    BY <1>1, <1>3 DEF TasksInStep, loopFrame
  <2> QED
    BY <1>1, <1>2, <1>3, <2>1 DEF FeedInv, FeedTypeOK, ChannelOrdered, ChannelBetween,
                                   CacheBetween, NoTradeLost, loopFrame
<1>4. CASE Sends(update)
  <2>1. /\ update \in Prices /\ update.time = latest_trade[update.asset]
        /\ update \in Notifications
    BY <1>1, NoticeKinds DEF UpdateHeld
  <2>2. /\ channel' \in Seq(Notifications) /\ Len(channel') <= ChannelSize
        /\ ChannelOrdered' /\ ChannelBetween' /\ CacheBetween'
        /\ InChannel' = InChannel \cup {update}
    BY <1>1, <1>4, <2>1, SendKeepsOrder DEF loopFrame
  <2>3. FeedTypeOK'
    BY <1>1, <2>2 DEF FeedTypeOK, loopFrame
  <2>4. NoTradeLost'
    BY <1>1, <2>2 DEF NoTradeLost, InChannel, loopFrame
  <2> QED
    BY <1>2, <2>2, <2>3, <2>4 DEF FeedInv
<1> QED
  BY <1>3, <1>4 DEF SendUpdate

LEMMA EventLoopKeeps ==
    ASSUME FeedInv, EventLoop
    PROVE  FeedInv'
<1>1. CASE Connect \/ CheckRunning \/ OtherEvent \/ NetworkFailure
  <2>1. PICK from \in {"connecting", "checking", "reading"},
             to \in {"checking", "reading", "ended"} : LoopTo(from, to)
    BY <1>1 DEF Connect, CheckRunning, OtherEvent, NetworkFailure
  <2> QED
    BY <2>1, LoopToKeeps
<1> QED
  BY <1>1, TradeKeeps, SendUpdateKeeps DEF EventLoop

LEMMA OthersKeep ==
    ASSUME FeedInv, EndBackend \/ MainTask \/ FrontendEnds \/ Signal
    PROVE  FeedInv'
<1>1. CASE EndBackend
  <2>1. /\ channel' = <<>> /\ backend' = "ended" /\ UNCHANGED <<backendFrame, prices_cache>>
    BY <1>1 DEF EndBackend
  <2>2. channel' \in Seq(Notifications) /\ Len(channel') = 0 /\ DOMAIN channel' = {}
    BY <2>1
  <2>3. FeedTypeOK'
    BY <2>1, <2>2, FeedTypes DEF FeedInv, FeedTypeOK, backendFrame
  <2> QED
    BY <2>1, <2>2, <2>3 DEF FeedInv, UpdateHeld, TasksInStep, ChannelOrdered,
                            ChannelBetween, CacheBetween, NoTradeLost, backendFrame
<1>2. CASE MainTask \/ FrontendEnds
  BY <1>2 DEF MainTask, BackendJoined, FeedsJoined, FrontendJoined, FrontendEnds, mainFrame,
              FeedInv, FeedTypeOK, UpdateHeld, TasksInStep, ChannelOrdered,
              ChannelBetween, CacheBetween, NoTradeLost
<1>3. CASE Signal
  BY <1>3 DEF Signal, FeedInv, FeedTypeOK, UpdateHeld, TasksInStep, ChannelOrdered,
              ChannelBetween, CacheBetween, NoTradeLost
<1> QED
  BY <1>1, <1>2, <1>3

LEMMA TickKeeps ==
    ASSUME FeedInv, Tick
    PROVE  FeedInv'
<1>1. clock' \in 1..MaxTime /\ clock <= clock'
  BY FeedTypes DEF Tick, FeedInv, FeedTypeOK
<1>2. FeedTypeOK'
  BY <1>1 DEF Tick, FeedInv, FeedTypeOK
<1>3. CacheBetween'
  <2>1. \A a \in FeedAssets : latest_trade[a] \in Nat /\ clock \in Nat /\ clock' \in Nat
    BY <1>1, FeedParts DEF FeedInv
  <2> QED
    BY <1>1, <2>1 DEF Tick, FeedInv, CacheBetween
<1> QED
  BY <1>2, <1>3 DEF Tick, FeedInv, UpdateHeld, TasksInStep, ChannelOrdered, ChannelBetween,
                    NoTradeLost

LEMMA GetPriceKeeps ==
    ASSUME FeedInv, NEW a \in FeedAssets, GetPrice(a)
    PROVE  /\ FeedInv'
           /\ \A b \in FeedAssets : answered'[b] >= answered[b]
<1>1. /\ answered' = [answered EXCEPT ![a] = prices_cache[a]]
      /\ UNCHANGED <<clock, channel, receiving, feed_task, to_notify, event_loop, update,
                     latest_trade, keep_running, signalled, backend, prices_cache, main,
                     frontend>>
  BY DEF GetPrice
<1>2. /\ prices_cache \in [FeedAssets -> 0..MaxTime] /\ MaxTime \in Nat
      /\ answered \in [FeedAssets -> 0..MaxTime]
  BY FeedParts DEF FeedInv
<1>3. FeedTypeOK'
  BY <1>1, <1>2 DEF FeedInv, FeedTypeOK
<1>4. \A b \in FeedAssets :
         /\ answered[b] <= prices_cache[b] /\ prices_cache[b] <= latest_trade[b]
         /\ latest_trade[b] <= clock
  BY DEF FeedInv, CacheBetween
<1>5. CacheBetween'
  BY <1>1, <1>2, <1>4 DEF CacheBetween
<1>6. \A b \in FeedAssets : answered'[b] >= answered[b]
  BY <1>1, <1>2, <1>4
<1> QED
  BY <1>1, <1>3, <1>5, <1>6 DEF FeedInv, UpdateHeld, TasksInStep, ChannelOrdered,
                                 ChannelBetween, NoTradeLost

LEMMA FeedInitInv == FeedInit => FeedInv
<1> SUFFICES ASSUME FeedInit PROVE FeedInv
  OBVIOUS
<1>1. /\ channel = <<Notice("started")>> /\ Notice("started") \in Notifications
      /\ Notice("started") \notin Prices
  BY NoticeKinds DEF FeedInit
<1>2. channel \in Seq(Notifications) /\ Len(channel) = 1 /\ DOMAIN channel = {1}
      /\ channel[1] = Notice("started")
  BY <1>1
<1>3. FeedTypeOK
  BY <1>2, FeedTypes DEF FeedInit, FeedTypeOK
<1> QED
  BY <1>1, <1>2, <1>3, FeedTypes
     DEF FeedInit, FeedInv, UpdateHeld, TasksInStep, ChannelOrdered, ChannelBetween,
         CacheBetween, NoTradeLost

LEMMA FeedStep == FeedInv /\ [FeedNext]_feedVars => FeedInv'
<1>1. ASSUME FeedInv, UNCHANGED feedVars PROVE FeedInv'
  BY <1>1 DEF feedVars, FeedInv, FeedTypeOK, UpdateHeld, TasksInStep, ChannelOrdered,
              ChannelBetween, CacheBetween, NoTradeLost
<1> QED
  BY <1>1, FeedTaskKeeps, EventLoopKeeps, TakeKeeps, OthersKeep, TickKeeps, GetPriceKeeps
     DEF FeedNext, BackendTask

-----------------------------------------------------------------------------
(* The states of the tasks keep their types and the channel of the price   *)
(* feed is never over full, whatever the order in which the tasks run.     *)
THEOREM FeedTypesKept == FeedSpec => []FeedTypeOK
<1>1. FeedInv => FeedTypeOK
  BY DEF FeedInv
<1> QED
  BY <1>1, FeedInitInv, FeedStep, PTL DEF FeedSpec

(* As long as the backend runs, the last trade of every asset is cached,   *)
(* on its way or being sent: the feed loses no price to a full channel.    *)
THEOREM TradesReachTheCache == FeedSpec => []NoTradeLost
<1>1. FeedInv => NoTradeLost
  BY DEF FeedInv
<1> QED
  BY <1>1, FeedInitInv, FeedStep, PTL DEF FeedSpec

(* get_price never answers with a price older than one it gave before.     *)
THEOREM PricesMoveForward == FeedSpec => AnswersNeverOlder
<1>1. ASSUME FeedInv, [FeedNext]_feedVars
      PROVE  [\A a \in FeedAssets : answered'[a] >= answered[a]]_feedVars
  <2>1. CASE \E a \in FeedAssets : GetPrice(a)
    BY <1>1, <2>1, GetPriceKeeps
  <2>2. CASE UNCHANGED feedVars
    BY <2>2
  <2>3. CASE /\ FeedNext
             /\ ~ \E a \in FeedAssets : GetPrice(a)
    <3>1. answered' = answered
      BY <2>3 DEF FeedNext, FeedTask, OpenAsset, CloseAsset, NotifyAsset, SpawnEventLoop,
                  EventLoopJoined, StopFeed, ChannelIsBroken, taskFrame, EventLoop,
                  Connect, CheckRunning, OtherEvent, NetworkFailure, LoopTo, TradeEvent,
                  SendUpdate, loopFrame, BackendTask, TakeNotification, EndBackend,
                  backendFrame, MainTask, BackendJoined, FeedsJoined, FrontendJoined,
                  FrontendEnds, mainFrame, Signal, Tick
    <3>2. \A a \in FeedAssets : answered[a] \in Nat
      BY <1>1, FeedParts DEF FeedInv
    <3> QED
      BY <3>1, <3>2
  <2> QED
    BY <1>1, <2>1, <2>2, <2>3
<1> QED
  BY <1>1, FeedInitInv, FeedStep, PTL DEF FeedSpec, AnswersNeverOlder
=============================================================================
