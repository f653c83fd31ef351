--------------------------- MODULE BondedFinance ----------------------------
(***************************************************************************)
(* frame/bonded-finance over frame/vesting.  An issuer puts a stake and a  *)
(* reward into the account of an offer; users buy its bonds and are paid   *)
(* their share of the reward, and perhaps their money, by vested           *)
(* transfers.  The stake goes back with the last bond or on cancellation.  *)
(*                                                                         *)
(* Shares are rounded down, each from what the earlier bonds left; the     *)
(* offer's own account pays, so an offer that promises more than the       *)
(* account holds could not be completed and its stake not be returned.     *)
(***************************************************************************)
EXTENDS Vesting

CONSTANTS
    Stake,
    MinReward,
    OfferIds,    \* bound: 1..n, the offers ever made
    Offers,      \* the offers issuers may make
    Infinite,    \* BondDuration::Infinite
    NoOffer      \* an id without offer

OfferType == [beneficiary: Users, asset: AssetIds, bond_price: Nat,
              nb_of_bonds: Nat, maturity: Nat \cup {Infinite},
              reward_asset: AssetIds, reward: Nat, reward_maturity: Nat]

OfferAccount(id) == <<"bondedfi", id>>

ASSUME BondedFinanceTypes ==
    /\ Stake \in Nat \ {0}
    /\ MinReward \in Nat
    /\ OfferIds \subseteq Nat
    /\ Offers \subseteq OfferType
    /\ NoOffer \notin [issuer: Users, offer: OfferType]
    /\ Infinite \notin Nat
    /\ \A id \in OfferIds : OfferAccount(id) \in SubAccounts

(* As the runtimes configure it: the stake keeps an account alive, and so  *)
(* does the smallest reward.                                               *)
ASSUME BondedFinanceDeposits ==
    /\ MinimumBalance[NativeAsset] <= Stake
    /\ \A a \in AssetIds \ {NativeAsset} : MinimumBalance[a] <= MinVestedTransfer

VARIABLES
    bond_offer_count,
    bond_offers,  \* id -> NoOffer or [issuer, offer]
    stakeReturns, \* history: how often the stake of an offer was paid out
    gifts         \* history: native funds sent to the account of an offer

bondVars == <<bond_offer_count, bond_offers, stakeReturns, gifts>>

-----------------------------------------------------------------------------

Completed(o) == o.nb_of_bonds = 0

ValidOffer(o) ==
    /\ o.maturity # 0
    /\ o.nb_of_bonds # 0
    /\ o.bond_price >= MinVestedTransfer
    /\ o.reward_maturity # 0
    /\ o.reward >= MinReward
    /\ o.reward \div o.nb_of_bonds >= MinVestedTransfer

RewardShare(n, o) == (n * o.reward) \div o.nb_of_bonds

OnePeriod(maturity, amount) ==
    [start |-> now, period |-> maturity, period_count |-> 1, per_period |-> amount]

Offer(from, o, keepAlive) ==
    LET id  == bond_offer_count + 1
        acc == OfferAccount(id)
        staked == Transfer(ledger, NativeAsset, from, acc, Stake)
    IN /\ id \in OfferIds
       /\ ValidOffer(o)
       /\ CanTransfer(ledger, NativeAsset, from, acc, Stake, keepAlive)
       /\ CanTransfer(staked, o.reward_asset, from, acc, o.reward, keepAlive)
       /\ ledger' = Transfer(staked, o.reward_asset, from, acc, o.reward)
       /\ bond_offer_count' = id
       /\ bond_offers' = [bond_offers EXCEPT ![id] = [issuer |-> from, offer |-> o]]
       /\ UNCHANGED <<now, vesting_schedules, selfVested, stakeReturns, gifts>>

(* What do_bond does after the price is paid: the reward is vested from    *)
(* the offer's account, the price from the beneficiary if it is to be      *)
(* returned, and the stake is paid back when no bond is left.              *)
Bond(id, from, n, keepAlive) ==
    LET issuer == bond_offers[id].issuer
        o      == bond_offers[id].offer
        acc    == OfferAccount(id)
        value  == n * o.bond_price
        share  == RewardShare(n, o)
        reward == OnePeriod(o.reward_maturity, share)
        back   == OnePeriod(o.maturity, value)
        finite == o.maturity # Infinite
        left   == [o EXCEPT !.nb_of_bonds = @ - n, !.reward = @ - share]
        vs0 == vesting_schedules
        l1  == Transfer(ledger, o.asset, from, o.beneficiary, value)
        l2  == VestedLedger(l1, vs0, o.reward_asset, acc, from, reward)
        vs1 == VestedSchedules(vs0, o.reward_asset, from, reward)
        l3  == IF finite
               THEN VestedLedger(l2, vs1, o.asset, o.beneficiary, from, back)
               ELSE l2
        vs2 == IF finite THEN VestedSchedules(vs1, o.asset, from, back) ELSE vs1
    IN /\ bond_offers[id] # NoOffer
       /\ ~Completed(o)
       /\ n \in 1..o.nb_of_bonds
       /\ CanTransfer(ledger, o.asset, from, o.beneficiary, value, keepAlive)
       /\ CanVestedTransfer(l1, vs0, o.reward_asset, acc, from, reward)
       /\ finite => CanVestedTransfer(l2, vs1, o.asset, o.beneficiary, from, back)
       /\ Completed(left) => CanTransfer(l3, NativeAsset, acc, issuer, Stake, FALSE)
       /\ ledger' = IF Completed(left)
                    THEN Transfer(l3, NativeAsset, acc, issuer, Stake)
                    ELSE l3
       /\ vesting_schedules' = vs2
       /\ bond_offers' = [bond_offers EXCEPT ![id].offer = left]
       /\ stakeReturns' = IF Completed(left)
                          THEN [stakeReturns EXCEPT ![id] = @ + 1]
                          ELSE stakeReturns
       /\ selfVested' = IF finite
                        THEN NotedSelf(selfVested, o.beneficiary, from, o.asset)
                        ELSE selfVested
       /\ UNCHANGED <<now, bond_offer_count, gifts>>

(* mutant: cancelling leaves the offer                                     *)
CancelKeepingOffer(id) ==
    LET issuer == bond_offers[id].issuer
        acc    == OfferAccount(id)
    IN /\ bond_offers[id] # NoOffer
       /\ CanTransfer(ledger, NativeAsset, acc, issuer, Stake, FALSE)
       /\ ledger' = Transfer(ledger, NativeAsset, acc, issuer, Stake)
       /\ stakeReturns' = [stakeReturns EXCEPT ![id] = @ + 1]
       /\ UNCHANGED <<now, vesting_schedules, selfVested, bond_offer_count,
                      bond_offers, gifts>>

(* By the issuer or the admin.                                             *)
Cancel(id) ==
    LET issuer == bond_offers[id].issuer
        o      == bond_offers[id].offer
        acc    == OfferAccount(id)
        l1     == Transfer(ledger, NativeAsset, acc, issuer, Stake)
    IN /\ bond_offers[id] # NoOffer
       /\ CanTransfer(ledger, NativeAsset, acc, issuer, Stake, FALSE)
       /\ CanTransfer(l1, o.reward_asset, acc, issuer, o.reward, FALSE)
       /\ ledger' = Transfer(l1, o.reward_asset, acc, issuer, o.reward)
       /\ bond_offers' = [bond_offers EXCEPT ![id] = NoOffer]
       /\ stakeReturns' = [stakeReturns EXCEPT ![id] = @ + 1]
       /\ UNCHANGED <<now, vesting_schedules, selfVested, bond_offer_count, gifts>>

(* Anyone may send native funds to the account of an offer.                *)
Gift(from, id, n) ==
    /\ CanTransfer(ledger, NativeAsset, from, OfferAccount(id), n, FALSE)
    /\ ledger' = Transfer(ledger, NativeAsset, from, OfferAccount(id), n)
    /\ gifts' = [gifts EXCEPT ![id] = @ + n]
    /\ UNCHANGED <<now, vesting_schedules, selfVested, bond_offer_count,
                   bond_offers, stakeReturns>>

BondInit ==
    /\ bond_offer_count = 0
    /\ bond_offers = [id \in OfferIds |-> NoOffer]
    /\ stakeReturns = [id \in OfferIds |-> 0]
    /\ gifts = [id \in OfferIds |-> 0]
    /\ \A id \in OfferIds, a \in AssetIds : ledger[a][OfferAccount(id)] = NoFunds

BondNext ==
    \/ \E from \in Users, o \in Offers, keep \in BOOLEAN : Offer(from, o, keep)
    \/ \E id \in OfferIds, from \in Users, keep \in BOOLEAN :
          \E n \in 1..(IF bond_offers[id] = NoOffer THEN 0
                       ELSE bond_offers[id].offer.nb_of_bonds) :
             Bond(id, from, n, keep)
    \/ \E id \in OfferIds : Cancel(id)
    \/ \E from \in Users, id \in OfferIds, n \in Gifts : Gift(from, id, n)
    \/ VestingNext /\ UNCHANGED bondVars

BondSpec ==
    ChainInit /\ VestingInit /\ BondInit
        /\ [][BondNext]_<<now, ledger, vestingVars, bondVars>>

-----------------------------------------------------------------------------
(* Properties.                                                             *)

OfferBacked(id) ==
    LET o == bond_offers[id].offer
        held(a) == ledger[a][OfferAccount(id)].free
    IN IF o.reward_asset = NativeAsset
       THEN held(NativeAsset) >= Stake + o.reward
       ELSE held(NativeAsset) >= Stake /\ held(o.reward_asset) >= o.reward

OfferServable(id) ==
    LET o == bond_offers[id].offer
    IN IF Completed(o) THEN o.reward = 0
       ELSE /\ OfferBacked(id)
            /\ \A n \in 1..o.nb_of_bonds : RewardShare(n, o) >= MinVestedTransfer

StakeReturnedOnce(id) ==
    stakeReturns[id] * Stake <= (IF id <= bond_offer_count THEN Stake ELSE 0) + gifts[id]

(* Rounding never strands an offer: after any sequence of bonds its        *)
(* account holds the stake and the reward that is left, any number of the  *)
(* bonds left still earns a share that vested_transfer accepts, and the    *)
(* last bonds take exactly the rest of the reward (do_bond,                *)
(* BondOffer::valid).  And a stake is paid back once, by the last bond or  *)
(* by cancel, and not again by cancelling the completed offer, except out  *)
(* of funds somebody sent to the account of the offer afterwards.          *)
OffersServed ==
    \A id \in OfferIds :
        /\ bond_offers[id] # NoOffer => OfferServable(id)
        /\ StakeReturnedOnce(id)
=============================================================================
