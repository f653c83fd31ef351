----------------------------- MODULE Democracy ------------------------------
(***************************************************************************)
(* frame/democracy: proposals wait in a public or in an external queue, a  *)
(* referendum is launched from one of them every LaunchPeriod, accounts    *)
(* vote with locked funds or delegate to someone who votes, and what is    *)
(* approved is executed, later, with the origin that governs the asset it  *)
(* was proposed for.  A proposal is a hash and an asset; its preimage is   *)
(* noted apart.                                                            *)
(*                                                                         *)
(* The tally of an open referendum is never counted: every call that       *)
(* changes a vote or a delegation corrects it in place.                    *)
(***************************************************************************)
EXTENDS Chain, GovernanceRegistry, SequencesExt, FiniteSetsExt, Functions

CONSTANTS
    Hashes, Decodable,   \* proposal hashes; those whose data is a call
    PreimageDeposit,     \* PreimageByteDeposit times the length of the data
    Treasury,
    LaunchPeriod, VotingPeriod, EnactmentPeriod, VoteLockingPeriod,
    CooloffPeriod, MinimumDeposit_, MaxProposals, MaxVotes,
    FastTrackInputs,     \* <<voting_period, delay>> of fast_track
    AccountVotes,        \* votes cast
    DelegationInputs,    \* <<conviction, balance>> of delegate
    VotedAssets,         \* bound: assets proposals are made for
    Voters,              \* bound: accounts that vote, delegate and propose
    MaxReferenda,        \* bound: referenda started
    MaxPublicProps       \* bound: public proposals made

RefIds == 0 .. MaxReferenda - 1
PropIds == 0 .. MaxPublicProps - 1
ProposalIds == Hashes \X VotedAssets
Forever == MaxBlock + 1

NoVote == [kind |-> "none"]
AccountVoteType ==
    [kind: {"standard"}, aye: BOOLEAN, conviction: 0..6, balance: Nat]
        \cup [kind: {"split"}, aye: Nat, nay: Nat]

ASSUME DemocracyTypes ==
    /\ Decodable \subseteq Hashes
    /\ VotedAssets \subseteq GovernedAssets \cap AssetIds
    /\ Treasury \in SubAccounts
    /\ Voters \subseteq Users
    /\ IsFiniteSet(Voters) /\ IsFiniteSet(Accounts)
    /\ IsFiniteSet(Hashes) /\ IsFiniteSet(VotedAssets)
    /\ {PreimageDeposit, VotingPeriod, EnactmentPeriod, VoteLockingPeriod,
        CooloffPeriod, MinimumDeposit_, MaxProposals, MaxVotes, MaxReferenda,
        MaxPublicProps} \subseteq Nat
    /\ LaunchPeriod \in Nat \ {0}
    /\ FastTrackInputs \subseteq Nat \X Nat
    /\ AccountVotes \subseteq AccountVoteType
    /\ DelegationInputs \subseteq (0..6) \X Nat

VARIABLES
    public_props,       \* sequence of [index, id]
    public_prop_count,
    deposit_of,         \* proposal -> who locked a deposit, and how much each
    preimages,          \* proposal id -> status
    referendum_count,
    lowest_unbaked,
    referendum_info,    \* referendum -> none, ongoing or finished
    voting_of,          \* account -> asset -> direct or delegating
    last_tabled_was_external,
    next_external,      \* <<proposal id, threshold>>, at most one
    blacklisted,        \* proposal id -> block until which it may not return, vetoers
    cancellations,
    agenda,             \* the scheduler's enact_proposal calls, in order
    enactments          \* history: referendum -> outcomes of do_enact_proposal

votingVars == <<voting_of, referendum_info>>
queueVars == <<public_props, public_prop_count, deposit_of, next_external,
               last_tabled_was_external, blacklisted, cancellations>>
enactVars == <<preimages, agenda, enactments>>
countVars == <<referendum_count, lowest_unbaked>>
democracyVars == <<votingVars, queueVars, enactVars, countVars>>

-----------------------------------------------------------------------------
(* Votes, delegations and tallies.                                         *)

Power(conviction, capital) ==
    [votes   |-> IF conviction = 0 THEN capital \div 10 ELSE capital * conviction,
     capital |-> capital]
NoPower == [votes |-> 0, capital |-> 0]

LockPeriods(conviction) == <<0, 1, 2, 4, 8, 16, 32>>[conviction + 1]

VoteBalance(v) == IF v.kind = "standard" THEN v.balance ELSE v.aye + v.nay

NoTally == [ayes |-> 0, nays |-> 0, turnout |-> 0]

OnSide(aye, power) ==
    [ayes    |-> IF aye THEN power.votes ELSE 0,
     nays    |-> IF aye THEN 0 ELSE power.votes,
     turnout |-> power.capital]

VoteTally(v) ==
    IF v.kind = "standard" THEN OnSide(v.aye, Power(v.conviction, v.balance))
    ELSE [ayes    |-> Power(0, v.aye).votes,
          nays    |-> Power(0, v.nay).votes,
          turnout |-> v.aye + v.nay]

PowerPlus(p, q) == [votes |-> p.votes + q.votes, capital |-> p.capital + q.capital]
PowerMinus(p, q) ==
    [votes |-> SatSub(p.votes, q.votes), capital |-> SatSub(p.capital, q.capital)]

TallyPlus(t, u) ==
    [ayes |-> t.ayes + u.ayes, nays |-> t.nays + u.nays, turnout |-> t.turnout + u.turnout]
TallyMinus(t, u) ==
    [ayes |-> SatSub(t.ayes, u.ayes), nays |-> SatSub(t.nays, u.nays),
     turnout |-> SatSub(t.turnout, u.turnout)]
TallyCovers(t, u) == t.ayes >= u.ayes /\ t.nays >= u.nays /\ t.turnout >= u.turnout

(* A standard vote carries the delegations of its account along.           *)
Followers(v, power) == IF v.kind = "standard" THEN OnSide(v.aye, power) ELSE NoTally
WithVote(t, v, power) == TallyPlus(TallyPlus(t, VoteTally(v)), Followers(v, power))
(* mutant: the delegations stay in the tally                               *)
WithoutFollowers(t, v, power) == TallyMinus(t, VoteTally(v))
WithoutVote(t, v, power) == TallyMinus(TallyMinus(t, VoteTally(v)), Followers(v, power))

NoPrior == [until |-> 0, amount |-> 0]
Accumulated(prior, until, amount) ==
    [until |-> GreaterOf(prior.until, until), amount |-> GreaterOf(prior.amount, amount)]

Idle(power, prior) ==
    [kind |-> "direct", votes |-> [i \in RefIds |-> NoVote],
     delegations |-> power, prior |-> prior]
Delegating(n, to, conviction, power, prior) ==
    [kind |-> "delegating", balance |-> n, target |-> to, conviction |-> conviction,
     delegations |-> power, prior |-> prior]

VotedOn(voting) == {i \in RefIds : voting.votes[i] # NoVote}

(* mutant: the smallest vote is what is locked                             *)
LeastBalance(voting) ==
    IF voting.kind = "delegating" THEN voting.balance
    ELSE Min({voting.prior.amount} \cup {VoteBalance(voting.votes[i]) : i \in VotedOn(voting)})
LockedBalance(voting) ==
    IF voting.kind = "delegating" THEN voting.balance
    ELSE Max({voting.prior.amount} \cup {VoteBalance(voting.votes[i]) : i \in VotedOn(voting)})

Rejig(voting) ==
    IF now >= voting.prior.until THEN [voting EXCEPT !.prior = NoPrior] ELSE voting

-----------------------------------------------------------------------------
(* The thresholds.  compare_rationals tells n1/d1 < n2/d2 from the         *)
(* continued fractions of the two, without a product that could overflow.  *)

CompareRationals[args \in Nat \X (Nat \ {0}) \X Nat \X (Nat \ {0})] ==
    LET n1 == args[1]   d1 == args[2]   n2 == args[3]   d2 == args[4]
        q1 == n1 \div d1   q2 == n2 \div d2
        r1 == n1 % d1      r2 == n2 % d2
    IN CASE q1 < q2 -> TRUE
         [] q2 < q1 -> FALSE
         [] q1 = q2 /\ r2 = 0 -> FALSE
         [] q1 = q2 /\ r2 # 0 /\ r1 = 0 -> TRUE
         [] OTHER -> CompareRationals[<<d2, r2, d1, r1>>]

\* integer_sqrt of sp-arithmetic
IntegerSqrt(n) == Max({r \in 0..n : r * r <= n})

Approved(threshold, t, electorate) ==
    LET voters == IntegerSqrt(t.turnout)
        all == IntegerSqrt(electorate)
    IN /\ voters # 0
       /\ CASE threshold = "SuperMajorityApprove" ->
                   CompareRationals[<<t.nays, voters, t.ayes, all>>]
            [] threshold = "SuperMajorityAgainst" ->
                   CompareRationals[<<t.nays, all, t.ayes, voters>>]
            [] threshold = "SimpleMajority" -> t.ayes > t.nays

Electorate(a) == SumFunction([u \in Accounts |-> TotalBalance(ledger, a, u)])

-----------------------------------------------------------------------------
(* The currencies as this pallet uses them.                                *)

ExtendLock(l, a, who, n) == SetLock(l, a, who, GreaterOf(l[a][who].frozen, n))

(* Moves a hold to another account's free balance, which must exist.       *)
TransferHeld(l, from, to, n) ==
    LET part == LesserOf(n, l[NativeAsset][from].reserved) IN
    CASE from = to -> UnreserveFunds(l, NativeAsset, from, n)
      [] from # to /\ TotalBalance(l, NativeAsset, to) = 0 -> l
      [] OTHER -> [l EXCEPT ![NativeAsset][from].reserved = @ - part,
                            ![NativeAsset][to].free = @ + part]

(* What the depositors of a proposal have on hold is released to them, or  *)
(* slashed, one after the other.                                           *)
PaidOut(l, deposit, slash) ==
    LET after[k \in 0..Len(deposit.whos)] ==
            IF k = 0 THEN l
            ELSE TransferHeld(after[k - 1], deposit.whos[k],
                              IF slash THEN Treasury ELSE deposit.whos[k], deposit.amount)
    IN after[Len(deposit.whos)]

ReleasedAll(l, deposit) == PaidOut(l, deposit, FALSE)
(* mutant: only the first account pays                                     *)
SlashedFirst(l, deposit) ==
    IF deposit.whos = <<>> THEN l
    ELSE TransferHeld(l, deposit.whos[1], Treasury, deposit.amount)
SlashedAll(l, deposit) == PaidOut(l, deposit, TRUE)

(* retain: the entries at the positions to keep, in their order.           *)
Retain(s, keep) ==
    LET kept[k \in 0..Len(s)] ==
            IF k = 0 THEN <<>>
            ELSE IF k \in keep THEN Append(kept[k - 1], s[k]) ELSE kept[k - 1]
    IN kept[Len(s)]

-----------------------------------------------------------------------------
(* Voting.                                                                 *)

NoInfo == [kind |-> "none"]
Ongoing(i) == referendum_info[i].kind = "ongoing"

(* A second vote on a referendum replaces the first.  The test of MaxVotes *)
(* is made before the vote is added.                                       *)
Vote(who, i, v) ==
    LET status == referendum_info[i]
        a == status.id[2]
        voting == voting_of[who][a]
        old == voting.votes[i]
        rest == IF old = NoVote THEN status.tally
                ELSE WithoutVote(status.tally, old, voting.delegations)
    IN
    /\ Ongoing(i)
    /\ VoteBalance(v) <= ledger[a][who].free
    /\ voting.kind = "direct"
    /\ IF old = NoVote THEN Cardinality(VotedOn(voting)) <= MaxVotes
       ELSE TallyCovers(status.tally, VoteTally(old))
    /\ voting_of' = [voting_of EXCEPT ![who][a].votes[i] = v]
    /\ referendum_info' =
          [referendum_info EXCEPT ![i].tally = WithVote(rest, v, voting.delegations)]
    /\ ledger' = ExtendLock(ledger, a, who, VoteBalance(v))
    /\ UNCHANGED <<now, queueVars, enactVars, countVars, origins_by_asset_id>>

(* remove_vote, and remove_other_vote by someone else, who may only remove *)
(* what is no longer locked.  Finished referenda leave the winner a lock.  *)
RemoveVote(who, a, i, byOther) ==
    LET voting == voting_of[who][a]
        v == voting.votes[i]
        info == referendum_info[i]
        wins == info.kind = "finished" /\ v.kind = "standard" /\ v.aye = info.approved
        unlockAt == info.end + VoteLockingPeriod * LockPeriods(v.conviction)
        held == wins /\ now < unlockAt
    IN
    /\ voting.kind = "direct"
    /\ v # NoVote
    /\ Ongoing(i) \/ held => ~ byOther
    /\ Ongoing(i) => TallyCovers(info.tally, VoteTally(v))
    /\ voting_of' = [voting_of EXCEPT
          ![who][a].votes[i] = NoVote,
          ![who][a].prior = IF held THEN Accumulated(@, unlockAt, v.balance) ELSE @]
    /\ referendum_info' =
          IF Ongoing(i)
          THEN [referendum_info EXCEPT ![i].tally = WithoutVote(@, v, voting.delegations)]
          ELSE referendum_info
    /\ UNCHANGED <<now, ledger, queueVars, enactVars, countVars, origins_by_asset_id>>

(* A delegation to an account is added to, or taken from, the open         *)
(* referenda it has a standard vote on.  book holds VotingOf and           *)
(* ReferendumInfoOf.                                                       *)
Carries(book, to, a, i) ==
    /\ book.voting[to][a].kind = "direct"
    /\ book.voting[to][a].votes[i].kind = "standard"
    /\ book.info[i].kind = "ongoing"

Behind(book, to, a, i, power) == OnSide(book.voting[to][a].votes[i].aye, power)

Increased(book, to, a, power) ==
    [voting |-> [book.voting EXCEPT ![to][a].delegations = PowerPlus(@, power)],
     info   |-> [i \in RefIds |->
                    IF Carries(book, to, a, i)
                    THEN [book.info[i] EXCEPT !.tally =
                             TallyPlus(@, Behind(book, to, a, i, power))]
                    ELSE book.info[i]]]
Reduced(book, to, a, power) ==
    [voting |-> [book.voting EXCEPT ![to][a].delegations = PowerMinus(@, power)],
     info   |-> [i \in RefIds |->
                    IF Carries(book, to, a, i)
                    THEN [book.info[i] EXCEPT !.tally =
                             TallyMinus(@, Behind(book, to, a, i, power))]
                    ELSE book.info[i]]]

VotingBook == [voting |-> voting_of, info |-> referendum_info]

(* The old delegation is dropped without a prior lock.                     *)
Delegate(who, to, a, conviction, n) ==
    LET old == voting_of[who][a]
        left == IF old.kind = "delegating"
                THEN Reduced(VotingBook, old.target, a, Power(old.conviction, old.balance))
                ELSE VotingBook
        after == Increased(left, to, a, Power(conviction, n))
    IN
    /\ who # to
    /\ n <= ledger[a][who].free
    /\ old.kind = "direct" => VotedOn(old) = {}
    /\ voting_of' = [after.voting EXCEPT ![who][a] =
                        Delegating(n, to, conviction, old.delegations, old.prior)]
    /\ referendum_info' = after.info
    /\ ledger' = ExtendLock(ledger, a, who, n)
    /\ UNCHANGED <<now, queueVars, enactVars, countVars, origins_by_asset_id>>

Undelegate(who, a) ==
    LET old == voting_of[who][a]
        left == Reduced(VotingBook, old.target, a, Power(old.conviction, old.balance))
        until == now + VoteLockingPeriod * LockPeriods(old.conviction)
    IN
    /\ old.kind = "delegating"
    /\ voting_of' = [left.voting EXCEPT ![who][a] =
                        Idle(old.delegations, Accumulated(old.prior, until, old.balance))]
    /\ referendum_info' = left.info
    /\ UNCHANGED <<now, ledger, queueVars, enactVars, countVars, origins_by_asset_id>>

Unlock(target, a) ==
    /\ voting_of' = [voting_of EXCEPT ![target][a] = Rejig(@)]
    /\ ledger' = SetLock(ledger, a, target, LockedBalance(voting_of'[target][a]))
    /\ UNCHANGED <<now, referendum_info, queueVars, enactVars, countVars,
                   origins_by_asset_id>>

-----------------------------------------------------------------------------
(* The two queues.                                                         *)

NoDeposit == [whos |-> <<>>, amount |-> 0]
NoPreimage == [kind |-> "none"]
NotListed == [until |-> 0, vetoers |-> {}]

queueFrame == <<now, votingVars, enactVars, countVars, origins_by_asset_id>>

Propose(who, id, value) ==
    /\ value >= MinimumDeposit_
    /\ Len(public_props) < MaxProposals
    /\ now >= blacklisted[id].until
    /\ CanReserve(ledger, NativeAsset, who, value)
    /\ public_prop_count < MaxPublicProps
    /\ ledger' = ReserveFunds(ledger, NativeAsset, who, value)
    /\ public_prop_count' = public_prop_count + 1
    /\ deposit_of' = [deposit_of EXCEPT
                         ![public_prop_count] = [whos |-> <<who>>, amount |-> value]]
    /\ public_props' = Append(public_props, [index |-> public_prop_count, id |-> id])
    /\ UNCHANGED <<next_external, last_tabled_was_external, blacklisted, cancellations,
                   queueFrame>>

Second(who, p, upperBound) ==
    /\ deposit_of[p] # NoDeposit
    /\ Len(deposit_of[p].whos) <= upperBound
    /\ CanReserve(ledger, NativeAsset, who, deposit_of[p].amount)
    /\ ledger' = ReserveFunds(ledger, NativeAsset, who, deposit_of[p].amount)
    /\ deposit_of' = [deposit_of EXCEPT ![p].whos = Append(@, who)]
    /\ UNCHANGED <<public_props, public_prop_count, next_external,
                   last_tabled_was_external, blacklisted, cancellations, queueFrame>>

ClearPublicProposals ==
    /\ public_props' = <<>>
    /\ UNCHANGED <<ledger, public_prop_count, deposit_of, next_external,
                   last_tabled_was_external, blacklisted, cancellations, queueFrame>>

CancelProposal(p) ==
    /\ public_props' = Retain(public_props,
                              {k \in DOMAIN public_props : public_props[k].index # p})
    /\ ledger' = SlashedAll(ledger, deposit_of[p])
    /\ deposit_of' = [deposit_of EXCEPT ![p] = NoDeposit]
    /\ UNCHANGED <<public_prop_count, next_external, last_tabled_was_external,
                   blacklisted, cancellations, queueFrame>>

(* external_propose: one at a time, and not what is blacklisted.  The      *)
(* other two replace what waits and ignore the blacklist.                  *)
ExternalPropose(id) ==
    /\ next_external = <<>>
    /\ now >= blacklisted[id].until
    /\ next_external' = <<[id |-> id, threshold |-> "SuperMajorityApprove"]>>
    /\ UNCHANGED <<ledger, public_props, public_prop_count, deposit_of,
                   last_tabled_was_external, blacklisted, cancellations, queueFrame>>

ExternalProposeReplacing(id, threshold) ==
    /\ next_external' = <<[id |-> id, threshold |-> threshold]>>
    /\ UNCHANGED <<ledger, public_props, public_prop_count, deposit_of,
                   last_tabled_was_external, blacklisted, cancellations, queueFrame>>

VetoExternal(who, id) ==
    /\ next_external # <<>>
    /\ next_external[1].id = id
    /\ who \notin blacklisted[id].vetoers
    /\ blacklisted' = [blacklisted EXCEPT ![id] =
          [until |-> now + CooloffPeriod, vetoers |-> @.vetoers \cup {who}]]
    /\ next_external' = <<>>
    /\ UNCHANGED <<ledger, public_props, public_prop_count, deposit_of,
                   last_tabled_was_external, cancellations, queueFrame>>

(* inject_referendum, on the counter and the map.                          *)
OngoingStatus(end, id, threshold, delay) ==
    [kind |-> "ongoing", end |-> end, id |-> id, threshold |-> threshold,
     delay |-> delay, tally |-> NoTally]

(* Only the hash is compared with the proposal that waits.                 *)
FastTrack(id, votingPeriod, delay) ==
    /\ next_external # <<>>
    /\ next_external[1].threshold # "SuperMajorityApprove"
    /\ next_external[1].id[1] = id[1]
    /\ referendum_count < MaxReferenda
    /\ next_external' = <<>>
    /\ referendum_count' = referendum_count + 1
    /\ referendum_info' = [referendum_info EXCEPT ![referendum_count] =
          OngoingStatus(now + votingPeriod, id, next_external[1].threshold, delay)]
    /\ UNCHANGED <<now, ledger, voting_of, enactVars, lowest_unbaked, public_props,
                   public_prop_count, deposit_of, last_tabled_was_external,
                   blacklisted, cancellations, origins_by_asset_id>>

CancelReferendum(i) ==
    /\ referendum_info' = [referendum_info EXCEPT ![i] = NoInfo]
    /\ UNCHANGED <<now, ledger, voting_of, queueVars, enactVars, countVars,
                   origins_by_asset_id>>

EmergencyCancel(i) ==
    /\ Ongoing(i)
    /\ referendum_info[i].id \notin cancellations
    /\ cancellations' = cancellations \cup {referendum_info[i].id}
    /\ referendum_info' = [referendum_info EXCEPT ![i] = NoInfo]
    /\ UNCHANGED <<now, ledger, voting_of, enactVars, countVars, public_props,
                   public_prop_count, deposit_of, next_external,
                   last_tabled_was_external, blacklisted, origins_by_asset_id>>

(* blacklist, transactional, with an index of a referendum or none: the    *)
(* first public proposal of the id goes, with its deposits, and what waits *)
(* or is voted on under that id.                                           *)
BlacklistProposal(id, refs) ==
    LET hits == {k \in DOMAIN public_props : public_props[k].id = id}
        first == Min(hits)
    IN
    /\ blacklisted' = [blacklisted EXCEPT ![id] = [until |-> Forever, vetoers |-> {}]]
    /\ IF hits = {} THEN UNCHANGED <<public_props, deposit_of, ledger>>
       ELSE LET p == public_props[first].index IN
            /\ public_props' = Retain(public_props, DOMAIN public_props \ {first})
            /\ ledger' = SlashedAll(ledger, deposit_of[p])
            /\ deposit_of' = [deposit_of EXCEPT ![p] = NoDeposit]
    /\ next_external' = IF next_external # <<>> /\ next_external[1].id = id THEN <<>>
                        ELSE next_external
    /\ referendum_info' = [i \in RefIds |->
          IF i \in refs /\ Ongoing(i) /\ referendum_info[i].id = id THEN NoInfo
          ELSE referendum_info[i]]
    /\ UNCHANGED <<now, voting_of, enactVars, countVars, public_prop_count,
                   last_tabled_was_external, cancellations, origins_by_asset_id>>

-----------------------------------------------------------------------------
(* Preimages.                                                              *)

preimageFrame == <<now, votingVars, queueVars, countVars, agenda, enactments,
                   origins_by_asset_id>>

Noted(provider, deposit, expiry) ==
    [kind |-> "available", provider |-> provider, deposit |-> deposit,
     since |-> now, expiry |-> expiry]
MissingUntil(expiry) == [kind |-> "missing", expiry |-> expiry]

(* An expiry of 0 stands for None.                                         *)
NotePreimage(who, id) ==
    /\ preimages[id] = NoPreimage
    /\ CanReserve(ledger, NativeAsset, who, PreimageDeposit)
    /\ ledger' = ReserveFunds(ledger, NativeAsset, who, PreimageDeposit)
    /\ preimages' = [preimages EXCEPT ![id] = Noted(who, PreimageDeposit, 0)]
    /\ UNCHANGED preimageFrame

NoteImminentPreimage(who, id) ==
    /\ preimages[id].kind = "missing"
    /\ preimages' = [preimages EXCEPT ![id] = Noted(who, 0, @.expiry)]
    /\ UNCHANGED <<ledger, preimageFrame>>

(* The result of the transfer is not looked at.  Whoever signs the call    *)
(* pays for it and so exists.                                              *)
ReapPreimage(who, id) ==
    LET p == preimages[id] IN
    /\ TotalBalance(ledger, NativeAsset, who) > 0
    /\ p.kind = "available"
    /\ now >= p.since + VotingPeriod + (IF who = p.provider THEN 0 ELSE EnactmentPeriod)
    /\ p.expiry = 0 \/ now > p.expiry
    /\ ledger' = TransferHeld(ledger, p.provider, who, p.deposit)
    /\ preimages' = [preimages EXCEPT ![id] = NoPreimage]
    /\ UNCHANGED preimageFrame

CancelQueued(i) ==
    /\ \E k \in DOMAIN agenda : agenda[k].index = i
    /\ agenda' = Retain(agenda, {k \in DOMAIN agenda : agenda[k].index # i})
    /\ UNCHANGED <<now, ledger, votingVars, queueVars, countVars, preimages,
                   enactments, origins_by_asset_id>>

-----------------------------------------------------------------------------
(* A block: the scheduler runs the enactments that are due, and            *)
(* begin_block launches a referendum, bakes those that end and moves       *)
(* LowestUnbaked.  chain holds what these steps write, in their order.     *)

ChainNow ==
    [props |-> public_props, deposits |-> deposit_of, external |-> next_external,
     wasExternal |-> last_tabled_was_external, count |-> referendum_count,
     info |-> referendum_info, pre |-> preimages, agenda |-> agenda,
     outcomes |-> enactments, ledger |-> ledger]

(* do_enact_proposal takes the preimage before anything can fail.          *)
Outcome(p, id) ==
    CASE p.kind # "available" -> "missing"
      [] p.kind = "available" /\ id[1] \notin Decodable -> "invalid"
      [] p.kind = "available" /\ id[1] \in Decodable ->
            IF origins_by_asset_id[id[2]] = NoOrigin THEN "ungoverned" ELSE "executed"

Refunded(l, p, outcome) ==
    CASE outcome = "missing" -> l
      [] outcome = "invalid" -> TransferHeld(l, p.provider, Treasury, p.deposit)
      [] OTHER -> UnreserveFunds(l, NativeAsset, p.provider, p.deposit)

Enact(chain, id, i) ==
    LET p == chain.pre[id]
        outcome == Outcome(p, id)
    IN [chain EXCEPT
           !.pre = [chain.pre EXCEPT ![id] = NoPreimage],
           !.outcomes = [chain.outcomes EXCEPT ![i] = Append(chain.outcomes[i], outcome)],
           !.ledger = Refunded(chain.ledger, p, outcome)]

Due(chain, n) == {k \in DOMAIN chain.agenda : chain.agenda[k].when = n}

EnactAll(chain, entries, due) ==
    LET after[k \in 0..Len(entries)] ==
            IF k = 0 THEN chain
            ELSE IF k \in due THEN Enact(after[k - 1], entries[k].id, entries[k].index)
            ELSE after[k - 1]
    IN after[Len(entries)]

(* mutant: what was enacted stays on the agenda                            *)
EnactOverdue(chain, n) ==
    EnactAll(chain, chain.agenda, {k \in DOMAIN chain.agenda : chain.agenda[k].when <= n})
EnactDue(chain, n) ==
    EnactAll([chain EXCEPT !.agenda = Retain(chain.agenda, DOMAIN chain.agenda \ Due(chain, n))],
             chain.agenda, Due(chain, n))

Injected(chain, n, id, threshold) ==
    [chain EXCEPT
        !.count = chain.count + 1,
        !.info = [chain.info EXCEPT ![chain.count] =
            OngoingStatus(n + VotingPeriod, id, threshold, EnactmentPeriod)]]

LaunchExternal(chain, n) ==
    LET e == chain.external[1] IN
    Injected([chain EXCEPT !.external = <<>>, !.wasExternal = TRUE], n, e.id, e.threshold)

BackingFor(chain, k) ==
    LET d == chain.deposits[chain.props[k].index] IN d.amount * Len(d.whos)

(* The last of the proposals with the highest backing, whose place the     *)
(* last of the queue takes.                                                *)
SwapRemoved(s, k) == [j \in 1 .. Len(s) - 1 |-> IF j = k THEN s[Len(s)] ELSE s[j]]

BestBacked(chain) ==
    Max({j \in DOMAIN chain.props : \A other \in DOMAIN chain.props :
            BackingFor(chain, other) <= BackingFor(chain, j)})

LaunchPublic(chain, n) ==
    LET k == BestBacked(chain)
        p == chain.props[k]
    IN Injected([chain EXCEPT
                     !.props = SwapRemoved(chain.props, k),
                     !.wasExternal = FALSE,
                     !.deposits = [chain.deposits EXCEPT ![p.index] = NoDeposit],
                     !.ledger = ReleasedAll(chain.ledger, chain.deposits[p.index])],
                n, p.id, "SuperMajorityApprove")

LaunchNext(chain, n) ==
    LET external == chain.external # <<>>
        public == chain.props # <<>>
    IN CASE external /\ (~ public \/ ~ chain.wasExternal) -> LaunchExternal(chain, n)
         [] public /\ (~ external \/ chain.wasExternal) -> LaunchPublic(chain, n)
         [] OTHER -> [chain EXCEPT !.wasExternal = FALSE]

(* An approved referendum without delay is enacted at once; otherwise its  *)
(* preimage must stay, or come, until the enactment.                       *)
KeptUntil(p, when) ==
    IF p.kind = "available" THEN [p EXCEPT !.expiry = when] ELSE MissingUntil(when)

Scheduled(chain, i, id, when) ==
    [chain EXCEPT
        !.pre = [chain.pre EXCEPT ![id] = KeptUntil(chain.pre[id], when)],
        !.agenda = Append(chain.agenda, [index |-> i, when |-> when, id |-> id])]

Decided(chain, i, n, passed) ==
    [chain EXCEPT !.info = [chain.info EXCEPT
        ![i] = [kind |-> "finished", approved |-> passed, end |-> n]]]

Bake(chain, i, n) ==
    LET s == chain.info[i]
        passed == Approved(s.threshold, s.tally, Electorate(s.id[2]))
        after == CASE ~ passed -> chain
                   [] passed /\ s.delay = 0 -> Enact(chain, s.id, i)
                   [] passed /\ s.delay # 0 -> Scheduled(chain, i, s.id, n + s.delay)
    IN Decided(after, i, n, passed)

Maturing(chain, n, last) ==
    {i \in lowest_unbaked .. last - 1 :
        chain.info[i].kind = "ongoing" /\ chain.info[i].end = n}

BakeAll(chain, n, last) ==
    LET maturing == Maturing(chain, n, last)
        after[k \in 0..last] ==
            IF k = 0 THEN chain
            ELSE IF k - 1 \in maturing THEN Bake(after[k - 1], k - 1, n)
            ELSE after[k - 1]
    IN after[last]

(* The first referendum, up to the last before this block, that is open.   *)
(* mutant: every referendum of the blocks before is passed over            *)
UnbakedAll(low, last, info) == last
(* mutant: the search goes one too far                                     *)
UnbakedBeyond(low, last, info) ==
    Min({last + 1} \cup {i \in low .. last - 1 : info[i].kind = "ongoing"})
UnbakedFrom(low, last, info) ==
    Min({last} \cup {i \in low .. last - 1 : info[i].kind = "ongoing"})

BeginBlock ==
    LET n == now + 1
        last == referendum_count
        enacted == EnactDue(ChainNow, n)
        launched == IF n % LaunchPeriod = 0 THEN LaunchNext(enacted, n) ELSE enacted
        baked == BakeAll(launched, n, last)
    IN
    /\ now < MaxBlock
    /\ n % LaunchPeriod = 0 /\ referendum_count = MaxReferenda
          => next_external = <<>> /\ public_props = <<>>
    /\ now' = n
    /\ public_props' = baked.props
    /\ deposit_of' = baked.deposits
    /\ next_external' = baked.external
    /\ last_tabled_was_external' = baked.wasExternal
    /\ referendum_count' = baked.count
    /\ referendum_info' = baked.info
    /\ preimages' = baked.pre
    /\ agenda' = baked.agenda
    /\ enactments' = baked.outcomes
    /\ ledger' = baked.ledger
    /\ lowest_unbaked' = UnbakedFrom(lowest_unbaked, last, baked.info)
    /\ UNCHANGED <<voting_of, public_prop_count, blacklisted, cancellations,
                   origins_by_asset_id>>

-----------------------------------------------------------------------------

DemocracyInit ==
    /\ public_props = <<>>
    /\ public_prop_count = 0
    /\ deposit_of = [p \in PropIds |-> NoDeposit]
    /\ preimages = [id \in ProposalIds |-> NoPreimage]
    /\ referendum_count = 0
    /\ lowest_unbaked = 0
    /\ referendum_info = [i \in RefIds |-> NoInfo]
    /\ voting_of = [u \in Voters |-> [a \in VotedAssets |-> Idle(NoPower, NoPrior)]]
    /\ last_tabled_was_external = FALSE
    /\ next_external = <<>>
    /\ blacklisted = [id \in ProposalIds |-> NotListed]
    /\ cancellations = {}
    /\ agenda = <<>>
    /\ enactments = [i \in RefIds |-> <<>>]

VotingNext ==
    \/ \E u \in Voters, i \in RefIds, v \in AccountVotes : Vote(u, i, v)
    \/ \E u \in Voters, a \in VotedAssets, i \in RefIds, byOther \in BOOLEAN :
          RemoveVote(u, a, i, byOther)
    \/ \E u, to \in Voters, a \in VotedAssets, input \in DelegationInputs :
          Delegate(u, to, a, input[1], input[2])
    \/ \E u \in Voters, a \in VotedAssets : Undelegate(u, a) \/ Unlock(u, a)

QueueNext(callers) ==
    \/ \E u \in callers, id \in ProposalIds : Propose(u, id, MinimumDeposit_)
    \/ \E u \in callers, p \in PropIds : Second(u, p, MaxPublicProps)
    \/ ClearPublicProposals
    \/ \E p \in PropIds : CancelProposal(p)
    \/ \E id \in ProposalIds :
          \/ ExternalPropose(id)
          \/ \E t \in {"SimpleMajority", "SuperMajorityAgainst"} :
                ExternalProposeReplacing(id, t)
          \/ \E u \in callers : VetoExternal(u, id)
          \/ \E input \in FastTrackInputs : FastTrack(id, input[1], input[2])
          \/ \E refs \in {{}} \cup {{i} : i \in RefIds} : BlacklistProposal(id, refs)
    \/ \E i \in RefIds : CancelReferendum(i) \/ EmergencyCancel(i)

EnactNext(callers) ==
    \/ \E u \in callers, id \in ProposalIds :
          NotePreimage(u, id) \/ NoteImminentPreimage(u, id)
    \/ \E u \in Voters, id \in ProposalIds : ReapPreimage(u, id)
    \/ \E i \in RefIds : CancelQueued(i)

RegistryNext ==
    /\ \E a \in VotedAssets : GrantRoot(a) \/ RegistryRemove(a)
    /\ UNCHANGED <<now, ledger, democracyVars>>

DemocracyNext ==
    VotingNext \/ QueueNext(Voters) \/ EnactNext(Voters) \/ RegistryNext \/ BeginBlock

DemocracySpec ==
    /\ ChainInit /\ RegistryInit /\ DemocracyInit
    /\ [][DemocracyNext]_<<now, ledger, democracyVars, origins_by_asset_id>>

-----------------------------------------------------------------------------
(* Properties.                                                             *)

PowerType == [votes: Nat, capital: Nat]
TallyType == [ayes: Nat, nays: Nat, turnout: Nat]
PriorType == [until: Nat, amount: Nat]
Thresholds == {"SuperMajorityApprove", "SuperMajorityAgainst", "SimpleMajority"}
VotingType ==
    [kind: {"direct"}, votes: [RefIds -> AccountVotes \cup {NoVote}],
     delegations: PowerType, prior: PriorType]
        \cup [kind: {"delegating"}, balance: Nat, target: Voters, conviction: 0..6,
             delegations: PowerType, prior: PriorType]
StatusType ==
    [kind: {"ongoing"}, end: Nat, id: ProposalIds, threshold: Thresholds,
     delay: Nat, tally: TallyType]
        \cup [kind: {"finished"}, approved: BOOLEAN, end: Nat] \cup {NoInfo}

(* Types of the pallet's storage, with the two counters of referenda in    *)
(* their order.                                                            *)
DemocracyTypeOK ==
    /\ public_prop_count \in 0..MaxPublicProps
    /\ \A k \in DOMAIN public_props :
          public_props[k].index \in PropIds /\ public_props[k].id \in ProposalIds
    /\ \A p \in PropIds : \A k \in DOMAIN deposit_of[p].whos : deposit_of[p].whos[k] \in Voters
    /\ referendum_count \in 0..MaxReferenda
    /\ lowest_unbaked \in 0..referendum_count
    /\ referendum_info \in [RefIds -> StatusType]
    /\ voting_of \in [Voters -> [VotedAssets -> VotingType]]
    /\ Len(next_external) <= 1
    /\ cancellations \subseteq ProposalIds

(* The tally of an open referendum, which vote, remove_vote, delegate and  *)
(* undelegate correct in place, is what a count of the votes would give:   *)
(* each vote with its conviction, and with the standing delegations of its *)
(* account behind it.                                                      *)
CountedFor(voting, i) ==
    IF voting.kind = "direct" /\ voting.votes[i] # NoVote
    THEN WithVote(NoTally, voting.votes[i], voting.delegations)
    ELSE NoTally
CountOf(i) ==
    LET a == referendum_info[i].id[2]
        part(u) == CountedFor(voting_of[u][a], i)
    IN [ayes    |-> SumFunction([u \in Voters |-> part(u).ayes]),
        nays    |-> SumFunction([u \in Voters |-> part(u).nays]),
        turnout |-> SumFunction([u \in Voters |-> part(u).turnout])]
GivenTo(voting, to) ==
    IF voting.kind = "delegating" /\ voting.target = to
    THEN Power(voting.conviction, voting.balance) ELSE NoPower
DelegatedTo(to, a) ==
    [votes   |-> SumFunction([u \in Voters |-> GivenTo(voting_of[u][a], to).votes]),
     capital |-> SumFunction([u \in Voters |-> GivenTo(voting_of[u][a], to).capital])]
TallyMatchesVotes ==
    /\ \A i \in RefIds : Ongoing(i) => referendum_info[i].tally = CountOf(i)
    /\ \A u \in Voters, a \in VotedAssets :
          voting_of[u][a].delegations = DelegatedTo(u, a)

(* Funds cannot be spent while they vote: the lock of an account covers    *)
(* each vote it has standing and what it delegates.                        *)
LockCoversVotes ==
    \A u \in Voters, a \in VotedAssets :
        LET voting == voting_of[u][a]
            lock == ledger[a][u].frozen
        IN IF voting.kind = "delegating" THEN lock >= voting.balance
           ELSE \A i \in VotedOn(voting) : lock >= VoteBalance(voting.votes[i])

(* What an account has on hold is the sum of the deposits the pallet still *)
(* has on record for it: for proposals made and seconded, tabled, cleared, *)
(* cancelled or blacklisted, and for preimages noted, reaped or used.      *)
StakeOf(deposit, u) ==
    deposit.amount * Cardinality({k \in DOMAIN deposit.whos : deposit.whos[k] = u})
PutDownBy(p, u) == IF p.kind = "available" /\ p.provider = u THEN p.deposit ELSE 0
HeldFor(u) ==
    SumFunction([p \in PropIds |-> StakeOf(deposit_of[p], u)])
    + SumFunction([id \in ProposalIds |-> PutDownBy(preimages[id], u)])
DepositsHeld == \A u \in Voters : ledger[NativeAsset][u].reserved = HeldFor(u)

ExactlyApproved(threshold, tally, electorate) ==
    LET voters == IntegerSqrt(tally.turnout)
        all == IntegerSqrt(electorate)
    IN /\ voters # 0
       /\ CASE threshold = "SuperMajorityApprove" -> tally.nays * all < tally.ayes * voters
            [] threshold = "SuperMajorityAgainst" -> tally.nays * voters < tally.ayes * all
            [] OTHER -> tally.nays < tally.ayes

(* begin_block only looks at referenda from LowestUnbaked on: none below   *)
(* it is open, or it would never be decided.  And the decision, for every  *)
(* tally that can arise, is the exact comparison of the fractions, which   *)
(* compare_rationals makes without their products.                         *)
BakingSound ==
    \A i \in RefIds : Ongoing(i) =>
        /\ i >= lowest_unbaked
        /\ LET s == referendum_info[i]
               e == Electorate(s.id[2])
           IN Approved(s.threshold, s.tally, e) <=> ExactlyApproved(s.threshold, s.tally, e)

(* The stage of a referendum, told from the storage of the pallet and of   *)
(* the scheduler.                                                          *)
StageOf(i) ==
    CASE i >= referendum_count -> "unopened"
      [] i < referendum_count /\ enactments[i] # <<>> ->
            IF enactments[i] = <<"executed">> THEN "executed"
            ELSE IF Len(enactments[i]) = 1 THEN "closed" ELSE "again"
      [] i < referendum_count /\ enactments[i] = <<>> ->
            IF \E k \in DOMAIN agenda : agenda[k].index = i THEN "queued"
            ELSE IF Ongoing(i) THEN "open" ELSE "closed"

Abstract == INSTANCE Referendum
    WITH Referenda <- RefIds, stage <- [i \in RefIds |-> StageOf(i)]

(* Each referendum is opened, decided and executed as Referendum says: at  *)
(* most one execution, from the vote or from the queue, whatever is        *)
(* cancelled, vetoed, blacklisted, reaped or removed meanwhile.            *)
RefinesReferendum == Abstract!ReferendumSpec
=============================================================================
