-------------------------- MODULE CrowdloanRewards --------------------------
(***************************************************************************)
(* frame/crowdloan-rewards: rewards of contributors, known by a remote     *)
(* account (relay chain or Ethereum), minted step by step to the local     *)
(* accounts that were associated with it.  Whether a proof is genuine is a *)
(* matter of signatures; an association is made for a remote account whose *)
(* owner signed it, and one remote account may sign for several accounts.  *)
(***************************************************************************)
EXTENDS Chain, Functions

CONSTANTS
    Remotes,         \* remote accounts
    Claimants,       \* local accounts that may be associated
    InitialPayment,  \* percentage paid at the first claim
    VestingStep,
    RewardLists,     \* what the admin may populate: functions from remotes
    StartBlocks,     \* blocks the admin may start at
    NoReward, NoRemote, NotStarted

RewardType == [total: Nat, claimed: Nat, vesting_period: Nat]

ASSUME CrowdloanTypes ==
    /\ IsFiniteSet(Remotes)
    /\ Claimants \subseteq Users
    /\ InitialPayment \in 0..100
    /\ VestingStep \in Nat \ {0}
    /\ StartBlocks \subseteq Nat
    /\ \A list \in RewardLists, r \in Remotes : r \in DOMAIN list =>
          list[r].total \in Nat /\ list[r].vesting_period \in Nat
    /\ NotStarted \notin Nat
    /\ NoRemote \notin Remotes
    /\ NoReward \notin RewardType

VARIABLES
    rewards,              \* remote -> NoReward or reward
    total_rewards,
    claimed_rewards,
    total_contributors,
    vesting_block_start,
    associations          \* claimant -> remote or NoRemote

crowdloanVars == <<rewards, total_rewards, claimed_rewards, total_contributors,
                   vesting_block_start, associations>>

-----------------------------------------------------------------------------

Rewarded(rs) == {r \in Remotes : rs[r] # NoReward}

(* initialize is initialize_at for the present block.                      *)
InitializeAt(at) ==
    /\ vesting_block_start = NotStarted
    /\ vesting_block_start' = at
    /\ UNCHANGED <<now, ledger, rewards, total_rewards, claimed_rewards,
                   total_contributors, associations>>

(* All earlier rewards go; the totals are computed afresh.                 *)
Populate(list) ==
    LET entered == [r \in Remotes |->
            IF r \in DOMAIN list
            THEN [total |-> list[r].total, claimed |-> 0,
                  vesting_period |-> list[r].vesting_period]
            ELSE NoReward]
    IN /\ vesting_block_start = NotStarted
       /\ rewards' = entered
       /\ total_rewards' = SumFunction([r \in Rewarded(entered) |-> entered[r].total])
       /\ total_contributors' = Cardinality(Rewarded(entered))
       /\ UNCHANGED <<now, ledger, claimed_rewards, vesting_block_start, associations>>

Upfront(reward) == (InitialPayment * reward.total) \div 100

(* mutant: the window is the rest of the division                          *)
DueInWindow(reward) ==
    LET point == SatSub(now, vesting_block_start)
    IN IF point >= reward.vesting_period THEN reward.total
       ELSE Upfront(reward)
            + (SatSub(reward.total, Upfront(reward)) * (point % VestingStep))
                 \div reward.vesting_period

(* should_have_claimed                                                     *)
ShouldHaveClaimed(reward) ==
    LET point  == SatSub(now, vesting_block_start)
        window == point - (point % VestingStep)
    IN IF point >= reward.vesting_period THEN reward.total
       ELSE Upfront(reward)
            + (SatSub(reward.total, Upfront(reward)) * window)
                 \div reward.vesting_period

Available(remote) ==
    SatSub(ShouldHaveClaimed(rewards[remote]), rewards[remote].claimed)

(* mutant: a claim has to exceed the minimum balance                       *)
ClaimAboveMinimum(remote, who) ==
    /\ rewards[remote] # NoReward
    /\ Available(remote) > MinimumBalance[NativeAsset]
    /\ ledger' = Mint(ledger, NativeAsset, who, Available(remote))
    /\ rewards' = [rewards EXCEPT ![remote].claimed = @ + Available(remote)]
    /\ claimed_rewards' = claimed_rewards + Available(remote)

(* do_claim                                                                *)
ClaimInto(remote, who) ==
    /\ rewards[remote] # NoReward
    /\ Available(remote) > 0
    /\ CanMint(ledger, NativeAsset, who, Available(remote))
    /\ ledger' = Mint(ledger, NativeAsset, who, Available(remote))
    /\ rewards' = [rewards EXCEPT ![remote].claimed = @ + Available(remote)]
    /\ claimed_rewards' = claimed_rewards + Available(remote)

(* validate_unsigned admits the call to a block, do_associate performs it. *)
ValidAssociation(who, remote) ==
    /\ vesting_block_start # NotStarted
    /\ vesting_block_start <= now
    /\ associations[who] = NoRemote
    /\ rewards[remote] # NoReward
    /\ rewards[remote].total # 0

Associate(who, remote) ==
    /\ ValidAssociation(who, remote)
    /\ ClaimInto(remote, who)
    /\ associations' = [associations EXCEPT ![who] = remote]
    /\ UNCHANGED <<now, total_rewards, total_contributors, vesting_block_start>>

ClaimReward(who) ==
    /\ associations[who] # NoRemote
    /\ ClaimInto(associations[who], who)
    /\ UNCHANGED <<now, total_rewards, total_contributors, vesting_block_start,
                   associations>>

CrowdloanBlock == NextBlock /\ UNCHANGED <<ledger, crowdloanVars>>

CrowdloanInit ==
    /\ rewards = [r \in Remotes |-> NoReward]
    /\ total_rewards = 0
    /\ claimed_rewards = 0
    /\ total_contributors = 0
    /\ vesting_block_start = NotStarted
    /\ associations = [who \in Claimants |-> NoRemote]

CrowdloanNext ==
    \/ \E at \in StartBlocks \cup {now} : InitializeAt(at)
    \/ \E list \in RewardLists : Populate(list)
    \/ \E who \in Claimants, remote \in Remotes : Associate(who, remote)
    \/ \E who \in Claimants : ClaimReward(who)
    \/ CrowdloanBlock

CrowdloanSpec ==
    ChainInit /\ CrowdloanInit /\ [][CrowdloanNext]_<<now, ledger, crowdloanVars>>

-----------------------------------------------------------------------------
(* Properties.                                                             *)

(* However many accounts draw on one contributor, and whatever was         *)
(* populated before the start, what was paid is what the contributors'     *)
(* entries say, and no entry exceeds its reward (do_claim).  Nothing is    *)
(* claimed ahead of the vesting: rounding to windows and the upfront       *)
(* payment never take back what a block before had released                *)
(* (should_have_claimed).                                                  *)
ClaimsAccounted ==
    /\ claimed_rewards =
          SumFunction([r \in Rewarded(rewards) |-> rewards[r].claimed])
    /\ total_rewards =
          SumFunction([r \in Rewarded(rewards) |-> rewards[r].total])
    /\ \A r \in Rewarded(rewards) :
          /\ rewards[r].claimed <= rewards[r].total
          /\ rewards[r].claimed > 0 =>
                /\ vesting_block_start # NotStarted
                /\ rewards[r].claimed <= ShouldHaveClaimed(rewards[r])

(* A contributor who keeps claiming receives the whole reward, if the      *)
(* chain lives long enough for its period: rounding leaves no rest.        *)
RewardsPaidInFull ==
    \A who \in Claimants, r \in Remotes :
        /\ associations[who] = r
        /\ vesting_block_start + rewards[r].vesting_period <= MaxBlock
        ~> associations[who] = r /\ rewards[r].claimed = rewards[r].total

(* Blocks are produced, and contributors claim what they may.              *)
CrowdloanFairness ==
    /\ WF_<<now, ledger, crowdloanVars>>(CrowdloanBlock)
    /\ \A who \in Claimants : WF_<<now, ledger, crowdloanVars>>(ClaimReward(who))
=============================================================================
