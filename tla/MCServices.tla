---------------------------- MODULE MCServices ------------------------------
(***************************************************************************)
(* The vault alone, lending over the vault and liquidations, democracy (in *)
(* three parts: voting, queues, enactment) and the price feed, one at a    *)
(* time: `focus' is chosen at the start and never changes.                 *)
(***************************************************************************)
EXTENDS Lending, Democracy, PriceFeed, TLC

CONSTANTS Focuses, u1, u2, h1

VARIABLE focus

vars == <<focus, now, ledger, vaultVars, lendingVars, origins_by_asset_id, democracyVars,
          feedVars>>

-----------------------------------------------------------------------------
(* Constants.                                                              *)

MCSubAccounts == {VaultAccount(1), RentAccount(1), DeletionAccount(1), MarketAccount(1),
                  AuctionAccount, Treasury}

MCMinimumBalance == [a \in AssetIds |-> IF a = NativeAsset THEN 1 ELSE 0]
MCTreasury == <<"treasury">>

MCLpTokens == [id \in 1..1 |-> 11]
MCDebtTokens == [id \in 1..1 |-> 12]
MCStrategists == {MarketAccount(1)}
MCVaultConfigs ==
    {[asset_id |-> 2, reserved |-> 1, manager |-> u1,
      strategies |-> (MarketAccount(1) :> 1)]}

MCModel == [kind |-> "jump", base |-> 0, jump |-> 300, full |-> 500, target |-> 50]
MCController == [kind |-> "controller", kp |-> -500, ki |-> -500, kd |-> -1000,
                 error |-> 100, integral |-> 50, rate |-> 100, target |-> 500]
MCModels == {[kind |-> "curve", base |-> 100], MCController,
             [kind |-> "double", coefficients |-> <<10, 40, 50>>]}
MarketInput(model) ==
    [borrow_asset |-> 2, collateral_asset |-> 3, reserved_factor |-> 0,
     collateral_factor |-> 2000, model |-> model, liquidators |-> <<9, 1>>]
MCMarkets == {MarketInput(model) : model \in MCModels \cup {MCModel}}
MCUpdates ==
    {[collateral_factor |-> 3000, model |-> model, liquidators |-> <<>>] :
        model \in {MCController, [MCModel EXCEPT !.jump = 600]}}
MCPrices == {[a \in AssetIds |-> IF a = 3 THEN p ELSE 1] : p \in {1, 3}}

MCFastTrack == {<<2, 0>>}
Std(aye, conviction, balance) ==
    [kind |-> "standard", aye |-> aye, conviction |-> conviction, balance |-> balance]
MCVotes == {Std(TRUE, 2, 2), Std(FALSE, 1, 1), [kind |-> "split", aye |-> 1, nay |-> 1]}
MCDelegations == {<<1, 1>>, <<2, 2>>}

-----------------------------------------------------------------------------
(* What accounts hold at the start, and how many blocks a focus runs for.  *)

Endowment(f) ==
    CASE f = "vault" -> (<<1, u1>> :> 7) @@ (<<2, u1>> :> 2) @@ (<<2, MarketAccount(1)>> :> 1)
      [] f \in {"lending", "rates"} -> (<<2, u1>> :> 3) @@ (<<3, u2>> :> 2)
                            @@ (<<1, u2>> :> 2) @@ (<<1, MarketAccount(1)>> :> 2)
      [] f \in {"voting", "queue", "enact"} ->
            (<<2, u1>> :> 2) @@ (<<2, u2>> :> 2) @@ (<<1, u1>> :> 2) @@ (<<1, u2>> :> 2)
               @@ (<<1, Treasury>> :> 1)
      [] OTHER -> <<>>

Horizon(f) ==
    CASE f = "lending" -> 2
      [] f = "rates" -> 3
      [] f = "queue" -> 2
      [] f = "enact" -> 3
      [] OTHER -> MaxBlock

(* The voting and the enactment focus start with a proposal tabled.        *)
Tabled(f) == IF f \in {"voting", "enact"}
             THEN <<[id |-> <<h1, 2>>, threshold |-> "SimpleMajority"]>> ELSE <<>>

DemocracyStart(f) ==
    /\ public_props = <<>> /\ public_prop_count = 0
    /\ deposit_of = [p \in PropIds |-> NoDeposit]
    /\ preimages = [id \in ProposalIds |-> NoPreimage]
    /\ referendum_count = 0 /\ lowest_unbaked = 0
    /\ referendum_info = [i \in RefIds |-> NoInfo]
    /\ voting_of = [u \in Voters |-> [a \in VotedAssets |-> Idle(NoPower, NoPrior)]]
    /\ last_tabled_was_external = FALSE
    /\ next_external = Tabled(f)
    /\ blacklisted = [id \in ProposalIds |-> NotListed]
    /\ cancellations = {}
    /\ agenda = <<>>
    /\ enactments = [i \in RefIds |-> <<>>]

Init ==
    /\ focus \in Focuses
    /\ now = 0
    /\ LET held == Endowment(focus) IN
       ledger = [a \in AssetIds |-> [who \in Accounts |->
                    Holding(IF <<a, who>> \in DOMAIN held THEN held[<<a, who>>] ELSE 0)]]
    /\ VaultInit
    /\ LendingInit /\ prices = [a \in AssetIds |-> 1]
    /\ RegistryInit
    /\ DemocracyStart(focus)
    /\ FeedInit

-----------------------------------------------------------------------------
(* One component's step, with everything else as it is.                    *)

VaultFocus ==
    /\ focus = "vault" /\ VaultNext
    /\ UNCHANGED <<lendingVars, origins_by_asset_id, democracyVars, feedVars>>

(* Every call of lending under the jump model, and loans alone under       *)
(* every model, from a vault with one lender.                              *)
OfKind(kind, inputs) == {input \in inputs : input.model.kind = kind}

LendingFocus ==
    /\ \/ /\ focus = "lending"
          /\ LendingNext(OfKind("jump", MarketInputs), OfKind("jump", MarketUpdates))
       \/ /\ focus = "rates"
          /\ \/ MarketNext(MarketInputs, MarketUpdates)
             \/ LoanNext
             \/ \E n \in LenderAmounts : DepositVault(u1, 1, n) /\ UNCHANGED lendingVars
             \/ InitializeBlock
    /\ UNCHANGED <<origins_by_asset_id, democracyVars, feedVars>>

DemocracyFocus ==
    /\ \/ /\ focus \in {"voting", "queue", "enact"} /\ BeginBlock
       \/ /\ focus = "voting" /\ VotingNext
       \/ /\ focus = "queue" /\ QueueNext({u1})
       \/ /\ focus = "enact"
          /\ \/ EnactNext({u1})
             \/ RegistryNext
             \/ \E i \in RefIds : Vote(u1, i, Std(TRUE, 2, 2)) \/ CancelReferendum(i)
             \/ \E id \in ProposalIds : ExternalProposeReplacing(id, "SuperMajorityAgainst")
             \/ \E id \in ProposalIds, input \in FastTrackInputs :
                   FastTrack(id, input[1], input[2])
    /\ UNCHANGED <<vaultVars, lendingVars, feedVars>>

FeedFocus ==
    /\ focus = "feed" /\ FeedNext
    /\ UNCHANGED <<now, ledger, vaultVars, lendingVars, origins_by_asset_id, democracyVars>>

Next ==
    /\ \/ VaultFocus
       \/ LendingFocus
       \/ DemocracyFocus
       \/ FeedFocus
    /\ now' <= Horizon(focus)
    /\ UNCHANGED focus

(* FeedFairness, in its focus.                                             *)
Fairness ==
    /\ WF_feedVars(focus = "feed" /\ FeedTask)
    /\ WF_feedVars(focus = "feed" /\ EventLoop)
    /\ WF_feedVars(focus = "feed" /\ TakeNotification)
    /\ WF_feedVars(focus = "feed" /\ EndBackend)
    /\ WF_feedVars(focus = "feed" /\ MainTask)
    /\ WF_feedVars(focus = "feed" /\ FrontendEnds)

Spec == Init /\ [][Next]_vars /\ Fairness
SafetySpec == Init /\ [][Next]_vars

(* Types of the state of these components.                                 *)
ServiceTypesOK == VaultTypeOK /\ LendingTypeOK /\ DemocracyTypeOK /\ FeedTypeOK
=============================================================================
