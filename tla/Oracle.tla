------------------------------- MODULE Oracle -------------------------------
(***************************************************************************)
(* The oracle pallet (frame/oracle): controllers stake for signers,        *)
(* signers answer price requests, and on_initialize prunes stale answers,  *)
(* publishes the median, and slashes or rewards the signers that answered. *)
(*                                                                         *)
(* on_initialize is one handler; its loop over the assets, and its payout  *)
(* of the answers of an asset, are unrolled into steps during which no     *)
(* call runs.  The extrinsics are not #[transactional]: reclaim_stake      *)
(* keeps what it wrote when its transfer fails.  Other refused calls       *)
(* leave the state alone and are stuttering steps.                         *)
(*                                                                         *)
(* Left out: events, weights, overflow of Balance (amounts are small), the *)
(* queries (get_price, get_ratio, get_twap), and how an off-chain worker   *)
(* obtains a price: it calls submit_price like any other signer.           *)
(***************************************************************************)
EXTENDS Integers, SequencesExt

CONSTANTS
    Accounts,       \* controllers and signers
    Assets,         \* AssetId
    NULL,           \* Rust's None
    MinStake,       \* Config::MinStake
    StakeLock,      \* Config::StakeLock, in blocks
    StalePrice,     \* Config::StalePrice, in blocks
    MaxAnswerBound, \* Config::MaxAnswerBound
    MaxAssetsCount, \* Config::MaxAssetsCount
    MaxHistory,     \* Config::MaxHistory
    MaxPrePrices,   \* Config::MaxPrePrices
    MaxPrice,       \* PriceValue::MAX (u128 in the runtime)
    ED,             \* existential deposit of the currency
    InitialBalance, \* free balance of each account at genesis
    Infos,          \* inputs: asset infos of add_asset_and_info
    Stakes,         \* inputs: amounts of add_stake
    Values,         \* inputs: prices submitted
    MaxBlock        \* bound: the last block produced

AssetInfo == [threshold : 0..100, min_answers : Nat, max_answers : Nat,
              block_interval : Nat, reward : Nat, slash : Nat]
PrePrice == [price : 0..MaxPrice, block : Nat, who : Accounts]
Price == [price : 0..MaxPrice, block : Nat]
Withdraw == [stake : Nat, unlock_block : Nat]
Balance == [free : Nat, reserved : Nat]
Payout == [answers : Seq(PrePrice), price : 0..MaxPrice, info : AssetInfo]

ASSUME ParameterTypes ==
    /\ MinStake \in Nat /\ StakeLock \in Nat /\ StalePrice \in Nat
    /\ MaxAnswerBound \in Nat /\ MaxAssetsCount \in Nat /\ MaxHistory \in Nat \ {0}
    /\ MaxPrePrices \in Nat /\ MaxPrice \in Nat /\ ED \in Nat
    /\ InitialBalance \in Nat /\ MaxBlock \in Nat
    /\ Infos \subseteq AssetInfo /\ Stakes \subseteq Nat /\ Values \subseteq 0..MaxPrice

ASSUME NullIsNoValue ==
    /\ NULL \notin Accounts /\ NULL \notin AssetInfo /\ NULL \notin Withdraw
    /\ NULL \notin Nat /\ NULL \notin Payout

VARIABLES
    block,              \* frame_system's block number
    assetsInfo,         \* AssetsInfo
    assetsCount,        \* AssetsCount
    controllerToSigner, \* ControllerToSigner
    signerToController, \* SignerToController
    declaredWithdraws,  \* DeclaredWithdraws, by signer
    oracleStake,        \* OracleStake, by signer
    answerInTransit,    \* AnswerInTransit, by signer; absent is 0
    prices,             \* Prices
    priceHistory,       \* PriceHistory
    prePrices,          \* PrePrices
    accounts,           \* T::Currency
    todo,               \* on_initialize: assets it has still to go through
    paying,             \* on_initialize: the payout under way
    lost                \* history: reserve a signer lost to slashes and reaping

keys == <<controllerToSigner, signerToController>>
staking == <<keys, declaredWithdraws, oracleStake>>
config == <<assetsInfo, assetsCount>>
feed == <<prices, priceHistory, prePrices>>
hook == <<todo, paying>>
vars == <<block, assetsInfo, assetsCount, controllerToSigner, signerToController,
          declaredWithdraws, oracleStake, answerInTransit, prices, priceHistory,
          prePrices, accounts, todo, paying, lost>>

-----------------------------------------------------------------------------
(* The currency (pallet_balances).                                          *)

Monus(x, y) == IF x > y THEN x - y ELSE 0
Least(x, y) == IF x < y THEN x ELSE y
Sum(b) == b.free + b.reserved

CanTransfer(bank, from, to, amount, keepAlive) ==
    \/ amount = 0 \/ from = to
    \/ /\ bank[from].free >= amount
       /\ keepAlive => Sum(bank[from]) - amount >= ED
       /\ Sum(bank[to]) + amount >= ED

(* An account below the existential deposit is reaped with what it holds.   *)
Reaped(b) == IF Sum(b) < ED THEN [free |-> 0, reserved |-> 0] ELSE b

Transfer(bank, from, to, amount) ==
    IF amount = 0 \/ from = to THEN bank
    ELSE [bank EXCEPT ![from] = Reaped([free |-> @.free - amount, reserved |-> @.reserved]),
                      ![to] = [free |-> @.free + amount, reserved |-> @.reserved]]

Reserve(b, amount) == [free |-> b.free - amount, reserved |-> b.reserved + amount]

Unreserve(b, amount) ==
    LET released == Least(amount, b.reserved)
    IN  [free |-> b.free + released, reserved |-> b.reserved - released]

(* Free balance is slashed before reserved balance.                         *)
Slash(b, amount) ==
    Reaped([free |-> Monus(b.free, amount),
            reserved |-> Monus(b.reserved, Monus(amount, b.free))])

-----------------------------------------------------------------------------
(* Calls.  No call runs while on_initialize does.                           *)

Idle == todo = {} /\ paying = NULL

OrZero(x) == IF x = NULL THEN 0 ELSE x

ValidInfo(info) ==
    /\ info.threshold < 100
    /\ info.min_answers > 0
    /\ info.max_answers <= MaxAnswerBound
    /\ info.block_interval > StalePrice
    /\ info.max_answers >= info.min_answers

AddAssetAndInfo(a, info) ==
    /\ Idle
    /\ ValidInfo(info)
    /\ assetsCount < MaxAssetsCount
    /\ assetsCount' = IF assetsInfo[a] = NULL THEN assetsCount + 1 ELSE assetsCount
    /\ assetsInfo' = [assetsInfo EXCEPT ![a] = info]
    /\ UNCHANGED <<block, staking, answerInTransit, feed, accounts, hook, lost>>

DoAddStake(who, signer, stake) ==
    LET sent == Transfer(accounts, who, signer, stake)
    IN  /\ CanTransfer(accounts, who, signer, stake, TRUE)
        /\ sent[signer].free >= stake
        /\ accounts' = [sent EXCEPT ![signer] = Reserve(@, stake)]
        /\ oracleStake' = [oracleStake EXCEPT ![signer] = OrZero(@) + stake]
        /\ UNCHANGED <<block, config, declaredWithdraws, answerInTransit, feed, hook, lost>>

SetSharedSigner(who, signer) ==            \* mutant: a signer may be used twice
    /\ Idle
    /\ controllerToSigner[who] = NULL
    /\ DoAddStake(who, signer, MinStake)
    /\ controllerToSigner' = [controllerToSigner EXCEPT ![who] = signer]
    /\ signerToController' = [signerToController EXCEPT ![signer] = who]

SetSigner(who, signer) ==
    /\ Idle
    /\ controllerToSigner[who] = NULL
    /\ signerToController[signer] = NULL
    /\ DoAddStake(who, signer, MinStake)
    /\ controllerToSigner' = [controllerToSigner EXCEPT ![who] = signer]
    /\ signerToController' = [signerToController EXCEPT ![signer] = who]

AddStake(who, stake) ==
    /\ Idle
    /\ controllerToSigner[who] # NULL
    /\ DoAddStake(who, controllerToSigner[who], stake)
    /\ UNCHANGED keys

RemoveKeepingStake(who) ==                 \* mutant: the stake stays recorded
    LET signer == controllerToSigner[who]
    IN  /\ Idle
        /\ signer # NULL
        /\ oracleStake[signer] # NULL
        /\ declaredWithdraws' = [declaredWithdraws EXCEPT ![signer] =
              [stake |-> oracleStake[signer], unlock_block |-> block + StakeLock]]
        /\ UNCHANGED <<block, config, keys, oracleStake, answerInTransit, feed,
                       accounts, hook, lost>>

(* A withdrawal declared before is overwritten.                             *)
RemoveStake(who) ==
    LET signer == controllerToSigner[who]
    IN  /\ Idle
        /\ signer # NULL
        /\ oracleStake[signer] # NULL
        /\ oracleStake' = [oracleStake EXCEPT ![signer] = NULL]
        /\ declaredWithdraws' = [declaredWithdraws EXCEPT ![signer] =
              [stake |-> oracleStake[signer], unlock_block |-> block + StakeLock]]
        /\ UNCHANGED <<block, config, keys, answerInTransit, feed, accounts, hook, lost>>

(* The withdrawal is taken down and the reserve released first; when the    *)
(* signer cannot pay (a slash took part of it) the keys stay.               *)
ReclaimStake(who) ==
    LET signer == controllerToSigner[who]
        withdrawal == declaredWithdraws[signer]
        freed == [accounts EXCEPT ![signer] = Unreserve(@, withdrawal.stake)]
    IN  /\ Idle
        /\ signer # NULL
        /\ withdrawal # NULL
        /\ block > withdrawal.unlock_block
        /\ declaredWithdraws' = [declaredWithdraws EXCEPT ![signer] = NULL]
        /\ \/ /\ CanTransfer(freed, signer, who, withdrawal.stake, FALSE)
              /\ accounts' = Transfer(freed, signer, who, withdrawal.stake)
              /\ lost' = [lost EXCEPT ![signer] =
                            @ + freed[signer].reserved - accounts'[signer].reserved]
              /\ controllerToSigner' = [controllerToSigner EXCEPT ![who] = NULL]
              /\ signerToController' = [signerToController EXCEPT ![signer] = NULL]
           \/ /\ ~CanTransfer(freed, signer, who, withdrawal.stake, FALSE)
              /\ accounts' = freed
              /\ UNCHANGED <<keys, lost>>
        /\ UNCHANGED <<block, config, oracleStake, answerInTransit, feed, hook>>

AnyBlock(a) == assetsInfo[a] # NULL        \* mutant: no interval between prices

IsRequested(a) ==
    assetsInfo[a] # NULL /\ prices[a].block + assetsInfo[a].block_interval < block

SubmitAgain(who, a, price) ==              \* mutant: no check of earlier answers
    /\ Idle
    /\ OrZero(oracleStake[who]) >= MinStake + answerInTransit[who]
    /\ IsRequested(a)
    /\ Len(prePrices[a]) < Least(assetsInfo[a].max_answers, MaxPrePrices)
    /\ prePrices' = [prePrices EXCEPT ![a] =
                       Append(@, [price |-> price, block |-> block, who |-> who])]
    /\ answerInTransit' = [answerInTransit EXCEPT ![who] = @ + assetsInfo[a].slash]
    /\ UNCHANGED <<block, config, staking, prices, priceHistory, accounts, hook, lost>>

SubmitPrice(who, a, price) ==
    /\ Idle
    /\ OrZero(oracleStake[who]) >= MinStake + answerInTransit[who]
    /\ IsRequested(a)
    /\ Len(prePrices[a]) < Least(assetsInfo[a].max_answers, MaxPrePrices)
    /\ \A i \in DOMAIN prePrices[a] : prePrices[a][i].who # who
    /\ prePrices' = [prePrices EXCEPT ![a] =
                       Append(@, [price |-> price, block |-> block, who |-> who])]
    /\ answerInTransit' = [answerInTransit EXCEPT ![who] = @ + assetsInfo[a].slash]
    /\ UNCHANGED <<block, config, staking, prices, priceHistory, accounts, hook, lost>>

-----------------------------------------------------------------------------
(* on_initialize.                                                           *)

NewBlock ==
    /\ Idle
    /\ block < MaxBlock
    /\ block' = block + 1
    /\ todo' = {a \in Assets : assetsInfo[a] # NULL}
    /\ UNCHANGED <<config, staking, answerInTransit, feed, accounts, paying, lost>>

RemoveUnchecked(transit, amount) == transit - amount  \* mutant: does not saturate

RemovePriceInTransit(transit, amount) == Monus(transit, amount)

(* prune_old_pre_prices splits the answers at the first fresh one ...       *)
FreshFrom(answers) ==
    LET fresh == {i \in DOMAIN answers : answers[i].block >= Monus(block, StalePrice)}
    IN  IF fresh = {} THEN Len(answers) + 1
        ELSE CHOOSE i \in fresh : \A j \in fresh : i <= j

Pruned(answers, info) ==
    LET fresh == SubSeq(answers, FreshFrom(answers), Len(answers))
    IN  SubSeq(fresh, 1, Least(info.max_answers, Len(fresh)))

(* ... and releases the transit of that first fresh answer and, if there    *)
(* are more than max_answers, of the last max_answers of them.              *)
TransitAfterPruning(answers, info) ==
    LET first == FreshFrom(answers)
        fresh == Len(answers) + 1 - first
        released(w) ==
            {i \in {first} \cap DOMAIN answers : answers[i].who = w}
        cut(w) ==
            {i \in DOMAIN answers : /\ answers[i].who = w /\ fresh > info.max_answers
                                    /\ i - first >= fresh - info.max_answers}
    IN  [w \in Accounts |->
            RemovePriceInTransit(answerInTransit[w],
                info.slash * (Cardinality(released(w)) + Cardinality(cut(w))))]

FirstOfMiddle(answers) ==                  \* mutant: answers are not sorted
    answers[Len(answers) \div 2 + 1].price

(* The k-th of the prices in ascending order.                               *)
Kth(answers, k) ==
    CHOOSE p \in 0..MaxPrice :
        /\ Cardinality({i \in DOMAIN answers : answers[i].price < p}) < k
        /\ k <= Cardinality({i \in DOMAIN answers : answers[i].price <= p})
        /\ \E i \in DOMAIN answers : answers[i].price = p

GetMedianPrice(answers) ==
    LET mid == Len(answers) \div 2
    IN  IF Len(answers) % 2 = 1 THEN Kth(answers, mid + 1)
        ELSE Least(Kth(answers, mid) + Kth(answers, mid + 1), MaxPrice) \div 2

Ungated(history, price) == Append(history, price)  \* mutant: never drops the oldest

Recorded(history, price) ==
    Append(IF Len(history) >= MaxHistory THEN Tail(history) ELSE history, price)

(* update_pre_prices and update_price for one asset, up to the payout.      *)
UpdateAsset(a) ==
    LET info == assetsInfo[a]
        enough == Len(prePrices[a]) >= info.min_answers
        pruned == Pruned(prePrices[a], info)
        median == GetMedianPrice(pruned)
    IN  /\ paying = NULL
        /\ a \in todo
        /\ todo' = todo \ {a}
        /\ answerInTransit' = IF enough THEN TransitAfterPruning(prePrices[a], info)
                              ELSE answerInTransit
        /\ \/ /\ enough /\ Len(pruned) >= info.min_answers
              /\ prices' = [prices EXCEPT ![a] = [price |-> median, block |-> block]]
              /\ priceHistory' = [priceHistory EXCEPT ![a] = Recorded(@, prices'[a])]
              /\ prePrices' = [prePrices EXCEPT ![a] = <<>>]
              /\ paying' = [answers |-> pruned, price |-> median, info |-> info]
           \/ /\ enough /\ Len(pruned) < info.min_answers
              /\ prePrices' = [prePrices EXCEPT ![a] = pruned]
              /\ UNCHANGED <<prices, priceHistory, paying>>
           \/ /\ ~enough
              /\ UNCHANGED <<feed, paying>>
        /\ UNCHANGED <<block, config, staking, accounts, lost>>

(* Percent::from_rational rounds down; its denominator is at least 1.       *)
PercentOf(p, q) == IF q = 0 THEN 0 ELSE (100 * p) \div q

Accuracy(answer, price) ==
    IF answer < price THEN PercentOf(answer, price)
    ELSE PercentOf(Monus(price, answer - price), price)

(* handle_payout, one answer at a time.                                     *)
PayOut ==
    LET answer == Head(paying.answers)
        who == answer.who
        controller == IF signerToController[who] = NULL THEN who
                      ELSE signerToController[who]
    IN  /\ paying # NULL
        /\ paying' = IF Len(paying.answers) = 1 THEN NULL
                     ELSE [paying EXCEPT !.answers = Tail(@)]
        /\ answerInTransit' =
              [answerInTransit EXCEPT ![who] = RemovePriceInTransit(@, paying.info.slash)]
        /\ \/ /\ Accuracy(answer.price, paying.price) < paying.info.threshold
              /\ accounts' = [accounts EXCEPT ![who] = Slash(@, paying.info.slash)]
              /\ lost' = [lost EXCEPT ![who] =
                            @ + accounts[who].reserved - accounts'[who].reserved]
           \/ /\ Accuracy(answer.price, paying.price) >= paying.info.threshold
              \* deposit_into_existing
              /\ accounts' = IF Sum(accounts[controller]) = 0 THEN accounts
                             ELSE [accounts EXCEPT ![controller].free =
                                     @ + paying.info.reward]
              /\ UNCHANGED lost
        /\ UNCHANGED <<block, config, staking, feed, todo>>

-----------------------------------------------------------------------------

Init ==
    /\ block = 0
    /\ assetsInfo = [a \in Assets |-> NULL]
    /\ assetsCount = 0
    /\ controllerToSigner = [u \in Accounts |-> NULL]
    /\ signerToController = [u \in Accounts |-> NULL]
    /\ declaredWithdraws = [u \in Accounts |-> NULL]
    /\ oracleStake = [u \in Accounts |-> NULL]
    /\ answerInTransit = [u \in Accounts |-> 0]
    /\ prices = [a \in Assets |-> [price |-> 0, block |-> 0]]
    /\ priceHistory = [a \in Assets |-> <<>>]
    /\ prePrices = [a \in Assets |-> <<>>]
    /\ accounts = [u \in Accounts |-> [free |-> InitialBalance, reserved |-> 0]]
    /\ todo = {}
    /\ paying = NULL
    /\ lost = [u \in Accounts |-> 0]

Call(who) ==
    \/ \E signer \in Accounts : SetSigner(who, signer)
    \/ \E stake \in Stakes : AddStake(who, stake)
    \/ RemoveStake(who)
    \/ ReclaimStake(who)
    \/ \E a \in Assets, price \in Values : SubmitPrice(who, a, price)

OnInitialize ==
    \/ \E a \in Assets : UpdateAsset(a)
    \/ PayOut

Next ==
    \/ \E a \in Assets, info \in Infos : AddAssetAndInfo(a, info)
    \/ \E who \in Accounts : Call(who)
    \/ NewBlock
    \/ OnInitialize

Spec == Init /\ [][Next]_vars

-----------------------------------------------------------------------------
(* Properties.                                                              *)

(* Every storage item and every balance keeps its type.                     *)
TypeOK ==
    /\ block \in Nat /\ assetsCount \in Nat
    /\ assetsInfo \in [Assets -> AssetInfo \cup {NULL}]
    /\ controllerToSigner \in [Accounts -> Accounts \cup {NULL}]
    /\ signerToController \in [Accounts -> Accounts \cup {NULL}]
    /\ declaredWithdraws \in [Accounts -> Withdraw \cup {NULL}]
    /\ oracleStake \in [Accounts -> Nat \cup {NULL}]
    /\ answerInTransit \in [Accounts -> Nat]
    /\ prices \in [Assets -> Price]
    /\ priceHistory \in [Assets -> Seq(Price)]
    /\ prePrices \in [Assets -> Seq(PrePrice)]
    /\ accounts \in [Accounts -> Balance]
    /\ todo \subseteq Assets
    /\ paying \in Payout \cup {NULL}
    /\ lost \in [Accounts -> Nat]

(* set_signer and reclaim_stake keep the two key maps inverse to each       *)
(* other, so a signer has one controller and the payout finds it.           *)
KeysPaired ==
    \A c, s \in Accounts :
        controllerToSigner[c] = s <=> signerToController[s] = c

WithdrawalOf(s) == IF declaredWithdraws[s] = NULL THEN 0 ELSE declaredWithdraws[s].stake

(* What the pallet records as a signer's stake, and as its withdrawal, is   *)
(* reserved in the currency, up to what slashes and reaping took from the   *)
(* reserve: however staking, withdrawals, failed reclaims and payouts       *)
(* interleave.                                                              *)
StakeBacked ==
    \A s \in Accounts :
        accounts[s].reserved + lost[s] >= OrZero(oracleStake[s]) + WithdrawalOf(s)

(* Answers wait in the order of their blocks, as prune_old_pre_prices       *)
(* assumes when it splits them at the first fresh one, and no signer has    *)
(* two among them.                                                          *)
AnswersInOrder ==
    \A a \in Assets : \A i, j \in DOMAIN prePrices[a] :
        i < j => /\ prePrices[a][i].block <= prePrices[a][j].block
                 /\ prePrices[a][i].who # prePrices[a][j].who

(* The answers that count for a new price are the fresh ones, and the first *)
(* max_answers of them if there are more.                                   *)
MajorityFor(a) ==
    LET answers == prePrices[a]
        fresh == {i \in DOMAIN answers : answers[i].block + StalePrice >= block}
        counted == {i \in fresh :
                       Cardinality({j \in fresh : j <= i}) <= assetsInfo[a].max_answers}
        within(lo, hi) == {i \in counted : answers[i].price \in lo..hi}
        n == Cardinality(counted)
    IN  /\ n >= assetsInfo[a].min_answers
        /\ \A lo, hi \in Values :
              (hi <= MaxPrice \div 2 /\ 2 * Cardinality(within(lo, hi)) > n)
                  => prices'[a].price \in lo..hi

(* A new price rests on at least min_answers answers, none of them older    *)
(* than StalePrice, and a majority decides: it lies in every interval that  *)
(* holds more than half of the answers (up to half of PriceValue::MAX,      *)
(* above which the sum in the median saturates).                            *)
MajorityDecides ==
    [][\A a \in Assets : prices'[a] # prices[a] => MajorityFor(a)]_vars

(* Two prices of an asset are more than StalePrice blocks apart, whatever   *)
(* happens to the interval in between: no answer can count for both.        *)
PricesSpaced ==
    [][\A a \in Assets : prices'[a] # prices[a] =>
          prices'[a].block > prices[a].block + StalePrice]_vars

(* The history of an asset never outgrows MaxHistory, is ordered by block,  *)
(* and ends in the current price.                                           *)
HistoryEndsInPrice ==
    \A a \in Assets :
        /\ Len(priceHistory[a]) <= MaxHistory
        /\ \A i, j \in DOMAIN priceHistory[a] :
              i < j => priceHistory[a][i].block < priceHistory[a][j].block
        /\ prices[a].block # 0 => prices[a] = Last(priceHistory[a])

Outstanding(w) ==
    MapThenSumSet(LAMBDA a : assetsInfo[a].slash,
                  {a \in Assets : \E i \in DOMAIN prePrices[a] : prePrices[a][i].who = w})

(* "Mapping of slash amounts currently in transit": between blocks, the     *)
(* amount of a signer is the slash of its answers that wait.                *)
TransitIsOutstanding == Idle => \A w \in Accounts : answerInTransit[w] = Outstanding(w)
=============================================================================
