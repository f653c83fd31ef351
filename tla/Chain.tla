------------------------------- MODULE Chain --------------------------------
(***************************************************************************)
(* What the pallets stand on and what is not in this repository: the block *)
(* number of frame_system, and the currencies (pallet_balances for the     *)
(* native asset, orml-tokens for the others).  The currencies are modelled *)
(* as the pallets use them, as operators from a ledger to the ledger after *)
(* the call, so that a call which moves funds several times can be written *)
(* as a chain of ledgers and is all or nothing where the code says         *)
(* #[transactional].                                                       *)
(*                                                                         *)
(* An account holds, per asset, a free and a reserved part; `frozen' is    *)
(* the largest lock on the free part.  An account whose total is below the *)
(* minimum balance of the asset is reaped and what is left is lost.        *)
(***************************************************************************)
EXTENDS Integers, FiniteSets, Sequences

CONSTANTS
    Users,          \* accounts that sign calls
    SubAccounts,    \* accounts the pallets derive from their ids
    AssetIds,       \* assets of the ledger
    NativeAsset,    \* NativeAssetId of pallet-assets
    MinimumBalance, \* existential deposit per asset
    MaxBlock        \* bound: number of blocks

Accounts == Users \cup SubAccounts

ASSUME ChainTypes ==
    /\ NativeAsset \in AssetIds
    /\ Users \cap SubAccounts = {}
    /\ MinimumBalance \in [AssetIds -> Nat]
    /\ MaxBlock \in Nat

VARIABLES
    now,    \* the block number
    ledger  \* asset -> account -> holdings

Entry == [free: Nat, reserved: Nat, frozen: Nat]
Ledger == [AssetIds -> [Accounts -> Entry]]

NoFunds == [free |-> 0, reserved |-> 0, frozen |-> 0]
Holding(n) == [NoFunds EXCEPT !.free = n]

TotalBalance(l, a, who) == l[a][who].free + l[a][who].reserved

SatSub(x, y) == IF x > y THEN x - y ELSE 0
LesserOf(x, y) == IF x < y THEN x ELSE y
GreaterOf(x, y) == IF x < y THEN y ELSE x

(* Locks and the minimum balance limit a withdrawal.  A locked account is  *)
(* never reaped, whatever the caller allows.                               *)
CanWithdraw(l, a, who, n, keepAlive) ==
    LET left == l[a][who].free - n IN
    /\ left >= l[a][who].frozen
    /\ keepAlive \/ l[a][who].frozen > 0
          => left + l[a][who].reserved >= MinimumBalance[a]

CanDeposit(l, a, who, n) == TotalBalance(l, a, who) + n >= MinimumBalance[a]

Withdraw(l, a, who, n) ==
    [l EXCEPT ![a][who] =
        IF TotalBalance(l, a, who) - n < MinimumBalance[a]
        THEN NoFunds
        ELSE [l[a][who] EXCEPT !.free = l[a][who].free - n]]

Deposit(l, a, who, n) == [l EXCEPT ![a][who].free = @ + n]

(* The currencies return early for nothing and for a transfer to oneself,  *)
(* before any check of the balance.                                        *)
CanTransfer(l, a, from, to, n, keepAlive) ==
    \/ n = 0
    \/ from = to
    \/ /\ CanWithdraw(l, a, from, n, keepAlive)
       /\ CanDeposit(l, a, to, n)

Transfer(l, a, from, to, n) ==
    IF n = 0 \/ from = to THEN l
    ELSE Deposit(Withdraw(l, a, from, n), a, to, n)

(* What transfer_all may move.                                             *)
Reducible(l, a, who, keepAlive) ==
    LET e == l[a][who]
        usable == SatSub(e.free, e.frozen)
    IN IF keepAlive \/ e.frozen > 0
       THEN LesserOf(usable, SatSub(e.free + e.reserved, MinimumBalance[a]))
       ELSE usable

CanMint(l, a, who, n) == n = 0 \/ CanDeposit(l, a, who, n)
Mint(l, a, who, n) == Deposit(l, a, who, n)
CanBurn(l, a, who, n) == n = 0 \/ CanWithdraw(l, a, who, n, FALSE)
Burn(l, a, who, n) == IF n = 0 THEN l ELSE Withdraw(l, a, who, n)

SetLock(l, a, who, n) == [l EXCEPT ![a][who].frozen = n]

(* A reserve comes out of the free part and leaves the locks covered.      *)
CanReserve(l, a, who, n) == n = 0 \/ l[a][who].free - n >= l[a][who].frozen
ReserveFunds(l, a, who, n) ==
    [l EXCEPT ![a][who].free = @ - n, ![a][who].reserved = @ + n]
UnreserveFunds(l, a, who, n) ==
    LET back == LesserOf(n, l[a][who].reserved) IN
    [l EXCEPT ![a][who].free = @ + back, ![a][who].reserved = @ - back]

(* A slash takes the free part first, then the reserved one, as far as     *)
(* they go.                                                                *)
SlashFunds(l, a, who, n) ==
    LET e    == l[a][who]
        free == LesserOf(n, e.free)
        held == LesserOf(n - free, e.reserved)
    IN [l EXCEPT ![a][who] =
          IF e.free + e.reserved - free - held < MinimumBalance[a] THEN NoFunds
          ELSE [e EXCEPT !.free = e.free - free, !.reserved = e.reserved - held]]

(* From the reserved part: burnt, or to the free or the reserved part of   *)
(* another account, which must exist.                                      *)
SlashReserved(l, a, who, n) ==
    [l EXCEPT ![a][who].reserved = SatSub(@, n)]

CanRepatriate(l, a, to) == TotalBalance(l, a, to) > 0
Repatriate(l, a, from, to, n, onHold) ==
    LET moved == LesserOf(n, l[a][from].reserved)
        taken == [l EXCEPT ![a][from].reserved = @ - moved]
    IN IF onHold THEN [taken EXCEPT ![a][to].reserved = @ + moved]
       ELSE Deposit(taken, a, to, moved)

(* Unbalanced: the balance of an account is set as a whole.                *)
SetTotal(l, a, who, n) ==
    [l EXCEPT ![a][who] =
        IF n < MinimumBalance[a] THEN NoFunds
        ELSE [@ EXCEPT !.free = n - l[a][who].reserved]]

(* At genesis funds are free and without locks.                            *)
ChainInit ==
    /\ now = 0
    /\ ledger \in [AssetIds -> [Accounts -> {Holding(n) : n \in Nat}]]

(* Block production.                                                       *)
NextBlock == now < MaxBlock /\ now' = now + 1
=============================================================================
