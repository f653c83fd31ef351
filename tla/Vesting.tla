------------------------------ MODULE Vesting -------------------------------
(***************************************************************************)
(* frame/vesting: funds handed over at once and released in periods.  All  *)
(* schedules of an account for one asset are enforced by one lock on the   *)
(* account, VESTING_LOCK_ID, which is only brought up to date when someone *)
(* calls the pallet.                                                       *)
(***************************************************************************)
EXTENDS Chain, Functions

CONSTANTS
    MinVestedTransfer,
    MaxVestingSchedules,
    Schedules,   \* schedules users and root may ask for
    VestedAssets, \* bound: the assets they ask it for
    Gifts        \* amounts users may send each other

ScheduleType == [start: Nat, period: Nat, period_count: Nat, per_period: Nat]

ASSUME VestingTypes ==
    /\ MinVestedTransfer \in Nat \ {0}
    /\ MaxVestingSchedules \in Nat
    /\ Schedules \subseteq ScheduleType
    /\ VestedAssets \subseteq AssetIds
    /\ Gifts \subseteq Nat

VARIABLES
    vesting_schedules, \* account -> asset -> sequence of schedules
    selfVested         \* history: <<account, asset>> pairs vested to themselves

vestingVars == <<vesting_schedules, selfVested>>

-----------------------------------------------------------------------------

TotalAmount(s) == s.per_period * s.period_count

LockedAmount(s, time) ==
    s.per_period * SatSub(s.period_count, SatSub(time, s.start) \div s.period)

ValidSchedule(s) ==
    /\ s.period # 0
    /\ s.period_count # 0
    /\ TotalAmount(s) >= MinVestedTransfer

AmountOfAll(schedules) ==
    SumFunction([i \in DOMAIN schedules |-> TotalAmount(schedules[i])])

(* locked_balance returns what is still to vest and drops the schedules    *)
(* that are through.                                                       *)
Unvested(schedules, time) ==
    SumFunction([i \in DOMAIN schedules |-> LockedAmount(schedules[i], time)])
Retained(schedules, time) ==
    LET kept[n \in 0..Len(schedules)] ==
            IF n = 0 THEN <<>>
            ELSE IF LockedAmount(schedules[n], time) = 0 THEN kept[n - 1]
            ELSE Append(kept[n - 1], schedules[n])
    IN kept[Len(schedules)]

(* vested_transfer, transactional: what it needs and what it leaves in the *)
(* ledger l and in the schedules vs.                                       *)
CanVestedTransfer(l, vs, a, from, to, s) ==
    /\ ValidSchedule(s)
    /\ CanTransfer(l, a, from, to, TotalAmount(s), FALSE)
    /\ Len(Retained(vs[to][a], now)) < MaxVestingSchedules

(* mutant: the lock is that of the new schedule alone                      *)
LockNewOnly(l, vs, a, from, to, s) ==
    SetLock(Transfer(l, a, from, to, TotalAmount(s)), a, to, TotalAmount(s))

VestedLedger(l, vs, a, from, to, s) ==
    SetLock(Transfer(l, a, from, to, TotalAmount(s)), a, to,
            Unvested(vs[to][a], now) + TotalAmount(s))

VestedSchedules(vs, a, to, s) ==
    [vs EXCEPT ![to][a] = Append(Retained(@, now), s)]

NotedSelf(noted, from, to, a) ==
    IF from = to THEN noted \cup {<<to, a>>} ELSE noted

-----------------------------------------------------------------------------

VestedTransfer(from, to, a, s) ==
    /\ CanVestedTransfer(ledger, vesting_schedules, a, from, to, s)
    /\ ledger' = VestedLedger(ledger, vesting_schedules, a, from, to, s)
    /\ vesting_schedules' = VestedSchedules(vesting_schedules, a, to, s)
    /\ selfVested' = NotedSelf(selfVested, from, to, a)
    /\ UNCHANGED now

(* claim and claim_for: any signed account may bring any lock up to date.  *)
DoClaim(who, a) ==
    /\ vesting_schedules' = [vesting_schedules EXCEPT ![who][a] = Retained(@, now)]
    /\ ledger' = SetLock(ledger, a, who, Unvested(vesting_schedules[who][a], now))
    /\ UNCHANGED <<now, selfVested>>

(* By root.  The lock takes the schedules' full amounts, whatever has      *)
(* vested of them; no schedules at all lift it.                            *)
UpdateVestingSchedules(who, a, schedules) ==
    /\ Len(schedules) <= MaxVestingSchedules
    /\ \A i \in DOMAIN schedules : ValidSchedule(schedules[i])
    /\ schedules # <<>> => ledger[a][who].free >= AmountOfAll(schedules)
    /\ ledger' = SetLock(ledger, a, who, AmountOfAll(schedules))
    /\ vesting_schedules' = [vesting_schedules EXCEPT ![who][a] = schedules]
    /\ UNCHANGED <<now, selfVested>>

(* A transfer between users, by the assets pallet.                         *)
Spend(from, to, a, n) ==
    /\ CanTransfer(ledger, a, from, to, n, FALSE)
    /\ ledger' = Transfer(ledger, a, from, to, n)
    /\ UNCHANGED <<now, vesting_schedules, selfVested>>

VestingBlock == NextBlock /\ UNCHANGED <<ledger, vesting_schedules, selfVested>>

VestingInit ==
    /\ vesting_schedules = [who \in Accounts |-> [a \in AssetIds |-> <<>>]]
    /\ selfVested = {}

VestingNext ==
    \/ \E from, to \in Users, a \in VestedAssets, s \in Schedules :
          VestedTransfer(from, to, a, s)
    \/ \E who \in Users, a \in AssetIds : DoClaim(who, a)
    \/ \E who \in Users, a \in VestedAssets, s \in Schedules :
          \/ UpdateVestingSchedules(who, a, <<s>>)
          \/ UpdateVestingSchedules(who, a, <<>>)
    \/ \E from, to \in Users, a \in VestedAssets, n \in Gifts :
          Spend(from, to, a, n)
    \/ VestingBlock

VestingSpec ==
    ChainInit /\ VestingInit /\ [][VestingNext]_<<now, ledger, vestingVars>>

-----------------------------------------------------------------------------
(* Properties.                                                             *)

LockCoversUnvested ==
    \A who \in Accounts, a \in AssetIds :
        ledger[a][who].frozen >= Unvested(vesting_schedules[who][a], now)

UnvestedFundsHeld ==
    \A who \in Accounts, a \in AssetIds :
        <<who, a>> \notin selfVested
            => Unvested(vesting_schedules[who][a], now) <= ledger[a][who].free

(* The lock the pallet set last is never below what is still to vest:      *)
(* whoever calls, in whatever order, between the calls only time passes    *)
(* and that releases funds (do_claim, vested_transfer, locked_balance).    *)
(* And what is still to vest is in the account: its owner cannot spend it  *)
(* under any sequence of transfers, claims and updates.  vested_transfer   *)
(* to oneself is the exception: the currency moves nothing and checks      *)
(* nothing, and the lock is set all the same.                              *)
UnvestedLocked == LockCoversUnvested /\ UnvestedFundsHeld
=============================================================================
