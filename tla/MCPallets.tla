----------------------------- MODULE MCPallets ------------------------------
(***************************************************************************)
(* Bonded finance over vesting, crowdloan rewards, assets with             *)
(* currency-factory and governance-registry, uniswap and curve with        *)
(* currency-factory, the router over both, assets-registry and privilege,  *)
(* one at a time: `focus' is chosen at the start and never changes, and    *)
(* only the calls of that component are made.                              *)
(***************************************************************************)
EXTENDS BondedFinance, CrowdloanRewards, Assets, DexRouter, AssetsRegistry, Privilege, TLC

CONSTANTS Focuses, u1, u2

VARIABLE focus

swapVars == <<poolVars, curveVars, dex_routes>>

vars == <<focus, now, ledger, vestingVars, bondVars, crowdloanVars, factoryVars,
          origins_by_asset_id, swapVars, registryVars, privilegeVars>>

-----------------------------------------------------------------------------
(* Constants.                                                              *)

MCSubAccounts == {OfferAccount(1), PoolAccount(0), CurveAccount(0)}

MCMinimumBalance == [a \in AssetIds |-> IF a = NativeAsset THEN 1 ELSE 0]
MCGoverned == AssetIds \ {Shadow}

MCSchedules == {[start |-> 0, period |-> 1, period_count |-> 2, per_period |-> 1]}
MCOffers ==
    {[beneficiary |-> u1, asset |-> 2, bond_price |-> 1, nb_of_bonds |-> 2,
      maturity |-> 1, reward_asset |-> 2, reward |-> 3, reward_maturity |-> 1],
     [beneficiary |-> u1, asset |-> 2, bond_price |-> 1, nb_of_bonds |-> 2,
      maturity |-> Infinite, reward_asset |-> NativeAsset, reward |-> 2,
      reward_maturity |-> 1]}

MCRewardLists ==
    {"r1" :> [total |-> 4, vesting_period |-> 3],
     ("r1" :> [total |-> 1, vesting_period |-> 2])
        @@ ("r2" :> [total |-> 5, vesting_period |-> 3]),
     ("r1" :> [total |-> 3, vesting_period |-> 2])
        @@ ("r2" :> [total |-> 2, vesting_period |-> 1])}

MCRanges == <<[current |-> 4, end |-> 6], [current |-> 7, end |-> 9],
              [current |-> 11, end |-> 12]>>

MCPools ==
    {[pair |-> [base |-> 2, quote |-> 3], fee |-> 0, owner_fee |-> 0],
     [pair |-> [base |-> 2, quote |-> 3], fee |-> 1, owner_fee |-> 1],
     [pair |-> [base |-> 2, quote |-> 3], fee |-> 2, owner_fee |-> 2]}

MCCurves ==
    {[pair |-> [base |-> 3, quote |-> 2], amplification_coefficient |-> 1,
      fee |-> 0, protocol_fee |-> 0],
     [pair |-> [base |-> 3, quote |-> 2], amplification_coefficient |-> 3,
      fee |-> 4, protocol_fee |-> 5]}

MCPairs == {[base |-> 3, quote |-> 2]}
MCRoutes ==
    LET u == [dex |-> "Uniswap", pool |-> 0]
        c == [dex |-> "Curve", pool |-> 0]
    IN {<<>>, <<c>>, <<u, c>>, <<c, u, c>>}

MCGroups == {<<>>, <<u1>>, <<u2, u1>>, <<u1, u1>>}

-----------------------------------------------------------------------------
(* What accounts hold at the start, and how many blocks a focus runs for.  *)

Endowment(f) ==
    CASE f = "bonds" -> (<<1, u1>> :> 3) @@ (<<2, u1>> :> 3) @@ (<<2, u2>> :> 1)
      [] f \in {"assets", "traits"} -> (<<1, u1>> :> 2) @@ (<<2, u1>> :> 1)
      [] f = "uniswap" -> (<<2, u1>> :> 4) @@ (<<3, u1>> :> 4) @@ (<<3, u2>> :> 3)
      [] f = "curve" -> (<<2, u1>> :> 7) @@ (<<3, u1>> :> 7) @@ (<<2, u2>> :> 7)
      [] f = "router" -> (<<2, u1>> :> 4) @@ (<<3, u1>> :> 5) @@ (<<2, u2>> :> 2)
                         @@ (<<3, u2>> :> 2)
      [] OTHER -> <<>>

Horizon(f) == IF f = "bonds" THEN 1 ELSE MaxBlock

Init ==
    /\ focus \in Focuses
    /\ now = 0
    /\ LET held == Endowment(focus) IN
       ledger = [a \in AssetIds |-> [who \in Accounts |->
                    Holding(IF <<a, who>> \in DOMAIN held THEN held[<<a, who>>] ELSE 0)]]
    /\ VestingInit /\ BondInit /\ CrowdloanInit /\ FactoryInit /\ RegistryInit
    /\ UniswapInit /\ CurveInit /\ RouterInit /\ RegistryGenesis /\ PrivilegeInit

-----------------------------------------------------------------------------
(* One component's step, with everything else as it is.                    *)

BondsFocus ==
    /\ focus = "bonds" /\ BondNext
    /\ UNCHANGED <<crowdloanVars, factoryVars, origins_by_asset_id, swapVars, registryVars,
                   privilegeVars>>

CrowdloanFocus ==
    /\ focus = "crowdloan" /\ CrowdloanNext
    /\ UNCHANGED <<vestingVars, bondVars, factoryVars, origins_by_asset_id, swapVars,
                   registryVars, privilegeVars>>

AssetsFocus ==
    /\ \/ focus = "assets" /\ AssetsNext
       \/ focus = "traits" /\ TraitsNext
    /\ UNCHANGED <<vestingVars, bondVars, crowdloanVars, swapVars, registryVars, privilegeVars>>

SwapsOnly ==
    UNCHANGED <<vestingVars, bondVars, crowdloanVars, origins_by_asset_id, registryVars,
                privilegeVars>>

UniswapFocus ==
    /\ focus = "uniswap" /\ UniswapNext
    /\ UNCHANGED <<curveVars, dex_routes>>
    /\ SwapsOnly

CurveFocus ==
    /\ focus = "curve" /\ CurveNext
    /\ UNCHANGED <<poolVars, dex_routes>>
    /\ SwapsOnly

(* The router, over one pool of each kind that u1 creates and funds.       *)
RoutedPools ==
    \/ /\ \/ \E input \in PoolInputs : input.fee = 1 /\ CreatePool(u1, input)
          \/ AddLiquidity(u1, 0, 2, 3, 0, FALSE)
       /\ UNCHANGED <<curveVars, dex_routes>>
    \/ /\ \/ \E input \in CurveInputs : input.fee = 0 /\ CreateCurve(u1, input)
          \/ CurveAddLiquidity(u1, 0, 2, 2, 0, FALSE)
       /\ UNCHANGED <<poolVars, dex_routes>>

RouterFocus ==
    /\ focus = "router" /\ (RouterNext \/ RoutedPools)
    /\ SwapsOnly

RegistryFocus ==
    /\ focus = "registry" /\ AssetsRegistryNext
    /\ UNCHANGED <<now, ledger, vestingVars, bondVars, crowdloanVars, factoryVars,
                   origins_by_asset_id, swapVars, privilegeVars>>

PrivilegeFocus ==
    /\ focus = "privilege" /\ PrivilegeNext
    /\ UNCHANGED <<now, ledger, vestingVars, bondVars, crowdloanVars, factoryVars,
                   origins_by_asset_id, swapVars, registryVars>>

Next ==
    /\ \/ BondsFocus
       \/ CrowdloanFocus
       \/ AssetsFocus
       \/ UniswapFocus
       \/ CurveFocus
       \/ RouterFocus
       \/ RegistryFocus
       \/ PrivilegeFocus
    /\ now' <= Horizon(focus)
    /\ UNCHANGED focus

(* CrowdloanFairness, in its focus.                                        *)
Fairness ==
    /\ WF_<<now, ledger, crowdloanVars>>(focus = "crowdloan" /\ CrowdloanBlock)
    /\ \A who \in Claimants :
          WF_<<now, ledger, crowdloanVars>>(focus = "crowdloan" /\ ClaimReward(who))

Spec == Init /\ [][Next]_vars /\ Fairness
=============================================================================
