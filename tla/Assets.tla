------------------------------- MODULE Assets -------------------------------
(***************************************************************************)
(* frame/assets: one interface to two currencies.  Balances of the native  *)
(* asset are kept by pallet_balances, those of every other asset by        *)
(* orml-tokens, and every function of the pallet's many traits makes that  *)
(* choice for itself.  orml-tokens has a place for the native id too: it   *)
(* is the entry Shadow of the ledger, and must stay empty.                 *)
(*                                                                         *)
(* mint_initialize and mint_initialize_with_governance are not             *)
(* transactional: when minting fails, the id is taken and governed.        *)
(***************************************************************************)
EXTENDS Chain, CurrencyFactory, GovernanceRegistry, FiniteSetsExt, SequencesExt

CONSTANTS
    Shadow,          \* the native id within orml-tokens, unlike every id
    AssetAmounts,    \* amounts in calls
    HeldAssets,      \* bound: assets other pallets put on hold
    ManagedAssets,   \* bound: assets root appoints governors for
    MaxSupply        \* bound: the issuance of an asset that may still grow

ASSUME AssetsTypes ==
    /\ Shadow \in AssetIds \ {NativeAsset}
    /\ Shadow \notin Nat
    /\ GovernedAssets = AssetIds \ {Shadow}
    /\ Governors = Users
    /\ AssetAmounts \subseteq Nat
    /\ HeldAssets \cup ManagedAssets \subseteq GovernedAssets
    /\ MaxSupply \in Nat

Callers == Users \cup {Root}

-----------------------------------------------------------------------------

(* Where orml-tokens keeps an asset, and where the pallet looks for it.    *)
InTokens(a) == IF a = NativeAsset THEN Shadow ELSE a

(* mutant: the test for the native id is missing                           *)
AlwaysTokens(a) == InTokens(a)

CurrencyOf(a) == IF a = NativeAsset THEN NativeAsset ELSE InTokens(a)

\* fungibles::Transfer
AssetsTransfer(l, a, from, to, n) == Transfer(l, CurrencyOf(a), from, to, n)
CanAssetsTransfer(l, a, from, to, n, keepAlive) ==
    CanTransfer(l, CurrencyOf(a), from, to, n, keepAlive)

\* fungibles::Mutate
AssetsMint(l, a, who, n) == Mint(l, CurrencyOf(a), who, n)
CanAssetsMint(l, a, who, n) == CanMint(l, CurrencyOf(a), who, n)
AssetsBurn(l, a, who, n) == Burn(l, CurrencyOf(a), who, n)
CanAssetsBurn(l, a, who, n) == CanBurn(l, CurrencyOf(a), who, n)

\* fungibles::Inspect
AssetsReducible(l, a, who, keepAlive) == Reducible(l, CurrencyOf(a), who, keepAlive)

\* fungibles::MutateHold and MultiReservableCurrency
CanHold(l, a, who, n) == CanReserve(l, CurrencyOf(a), who, n)
Hold(l, a, who, n) == ReserveFunds(l, CurrencyOf(a), who, n)
Release(l, a, who, n) == UnreserveFunds(l, CurrencyOf(a), who, n)

-----------------------------------------------------------------------------
(* The traits through which other pallets use the two currencies, as the   *)
(* ledgers a call may leave.  `native' is the native currency where a      *)
(* trait has no asset id; `c' is the currency that was chosen for an id.   *)

OnlyIf(possible, l) == IF possible THEN {l} ELSE {}

(* ReservableCurrency, MutateHold: a reserve made, ended, slashed or moved.*)
ReserveCalls(l, c, who, to, n) ==
    {UnreserveFunds(l, c, who, n), SlashReserved(l, c, who, n)}
        \cup OnlyIf(CanReserve(l, c, who, n), ReserveFunds(l, c, who, n))
        \cup OnlyIf(CanRepatriate(l, c, to), Repatriate(l, c, who, to, n, FALSE))
        \cup OnlyIf(CanRepatriate(l, c, to), Repatriate(l, c, who, to, n, TRUE))
NativeReserves(l, who, to, n) == ReserveCalls(l, NativeAsset, who, to, n)
NativeHolds(l, who, to, n) == ReserveCalls(l, NativeAsset, who, to, n)
Repatriations(l, a, who, to, n) == ReserveCalls(l, CurrencyOf(a), who, to, n)

(* Currency: deposit_creating and its likes, withdraw, transfer and slash; *)
(* what make_free_balance_be sets is one of these.                         *)
NativeCurrencyCalls(l, who, to, n) ==
    {SlashFunds(l, NativeAsset, who, n)}
        \cup OnlyIf(CanDeposit(l, NativeAsset, who, n), Deposit(l, NativeAsset, who, n))
        \cup OnlyIf(CanWithdraw(l, NativeAsset, who, n, FALSE), Withdraw(l, NativeAsset, who, n))
        \cup OnlyIf(CanTransfer(l, NativeAsset, who, to, n, FALSE),
                    Transfer(l, NativeAsset, who, to, n))

(* Mutate and Unbalanced: teleport is a burn and a mint; decreases and     *)
(* increases set a balance, at most as far as there is one.                *)
Balances(l, c, who, n) ==
    LET have == TotalBalance(l, c, who)
        wanted == {n, have + n, SatSub(have, n)}
    IN {SetTotal(l, c, who, m) : m \in {w \in wanted : w >= l[c][who].reserved}}
NativeMutations(l, who, to, n) ==
    {SlashFunds(l, NativeAsset, who, n)}
        \cup Balances(l, NativeAsset, who, n)
        \cup OnlyIf(CanTransfer(l, NativeAsset, who, to, n, FALSE),
                    Transfer(l, NativeAsset, who, to, n))
UnbalancedCalls(l, a, who, n) == Balances(l, CurrencyOf(a), who, n)

\* MultiCurrency::slash and MultiLockableCurrency
AssetsSlash(l, a, who, n) == SlashFunds(l, CurrencyOf(a), who, n)
Locks(l, a, who, n) ==
    {SetLock(l, CurrencyOf(a), who, m) :
        m \in {0, n, GreaterOf(n, l[CurrencyOf(a)][who].frozen)}}

-----------------------------------------------------------------------------

AssetsFrame == UNCHANGED <<now, factoryVars, origins_by_asset_id>>

(* transfer and transfer_native; force_transfer(_native) is the same call  *)
(* made by root.                                                           *)
TransferAsset(from, a, to, n, keepAlive) ==
    /\ CanAssetsTransfer(ledger, a, from, to, n, keepAlive)
    /\ ledger' = AssetsTransfer(ledger, a, from, to, n)
    /\ AssetsFrame

TransferNative(from, to, n, keepAlive) ==
    /\ CanTransfer(ledger, NativeAsset, from, to, n, keepAlive)
    /\ ledger' = Transfer(ledger, NativeAsset, from, to, n)
    /\ AssetsFrame

TransferAll(from, a, to, keepAlive) ==
    LET n == AssetsReducible(ledger, a, from, keepAlive)
    IN /\ CanAssetsTransfer(ledger, a, from, to, n, keepAlive)
       /\ ledger' = AssetsTransfer(ledger, a, from, to, n)
       /\ AssetsFrame

(* What minting into a new asset does to the ledger, if it is possible.    *)
MintOrFail(a, to, n) ==
    ledger' = IF CanAssetsMint(ledger, a, to, n)
              THEN AssetsMint(ledger, a, to, n) ELSE ledger

(* By root.                                                                *)
MintInitialize(n, to) ==
    /\ CreatesId(TOKENS)
    /\ MintOrFail(NewId(TOKENS), to, n)
    /\ UNCHANGED <<now, origins_by_asset_id>>

MintInitializeWithGovernance(n, governor, to) ==
    /\ CreatesId(TOKENS)
    /\ SetsOrigin(NewId(TOKENS), governor)
    /\ MintOrFail(NewId(TOKENS), to, n)
    /\ UNCHANGED now

(* ensure_admin_or_governance: an asset that root governs is open to any   *)
(* signed account.                                                         *)
AdminOrGovernance(caller, a) ==
    caller = Root \/ origins_by_asset_id[a] \in {Root, caller}

SupplyOf(l, a) == MapThenSumSet(LAMBDA who : TotalBalance(l, CurrencyOf(a), who), Users)
IssuedBelowBound(a) == SupplyOf(ledger, a) < MaxSupply

MintInto(caller, a, to, n) ==
    /\ AdminOrGovernance(caller, a)
    /\ IssuedBelowBound(a)
    /\ CanAssetsMint(ledger, a, to, n)
    /\ ledger' = AssetsMint(ledger, a, to, n)
    /\ AssetsFrame

BurnFrom(caller, a, from, n) ==
    /\ AdminOrGovernance(caller, a)
    /\ CanAssetsBurn(ledger, a, from, n)
    /\ ledger' = AssetsBurn(ledger, a, from, n)
    /\ AssetsFrame

(* Holds are made and released by other pallets.                           *)
HoldAsset(who, a, n) ==
    /\ CanHold(ledger, a, who, n)
    /\ ledger' = Hold(ledger, a, who, n)
    /\ AssetsFrame

ReleaseAsset(who, a, n) ==
    /\ ledger' = Release(ledger, a, who, n)
    /\ AssetsFrame

(* Bound: no trait call adds to an issuance that is at the bound.          *)
WithinBound(l, a) == SupplyOf(l, a) <= GreaterOf(MaxSupply, SupplyOf(ledger, a))

(* Another pallet uses one of the traits.                                  *)
UseNative(who, to, n) ==
    /\ ledger' \in {l \in NativeReserves(ledger, who, to, n) \cup NativeHolds(ledger, who, to, n)
                          \cup NativeCurrencyCalls(ledger, who, to, n)
                          \cup NativeMutations(ledger, who, to, n) : WithinBound(l, NativeAsset)}
    /\ AssetsFrame

UseAsset(a, who, to, n) ==
    /\ ledger' \in {l \in Repatriations(ledger, a, who, to, n)
                          \cup UnbalancedCalls(ledger, a, who, n)
                          \cup {AssetsSlash(ledger, a, who, n)}
                          \cup Locks(ledger, a, who, n) : WithinBound(l, a)}
    /\ AssetsFrame

(* Bound: the assets calls name.                                           *)
AssetsInUse == {NativeAsset} \cup ManagedAssets \cup ToSet(createdIds)

AssetsNext ==
    \/ \E from, to \in Users, a \in AssetsInUse, n \in AssetAmounts, keep \in BOOLEAN :
          TransferAsset(from, a, to, n, keep)
    \/ \E from, to \in Users, n \in AssetAmounts, keep \in BOOLEAN :
          TransferNative(from, to, n, keep)
    \/ \E from, to \in Users, a \in AssetsInUse, keep \in BOOLEAN :
          TransferAll(from, a, to, keep)
    \/ \E n \in AssetAmounts, to \in Users : MintInitialize(n, to)
    \/ \E n \in AssetAmounts, governor, to \in Users :
          MintInitializeWithGovernance(n, governor, to)
    \/ \E caller \in Callers, a \in AssetsInUse, to \in Users, n \in AssetAmounts :
          MintInto(caller, a, to, n)
    \/ \E caller \in Callers, a \in AssetsInUse, from \in Users, n \in AssetAmounts :
          BurnFrom(caller, a, from, n)
    \/ \E who \in Users, a \in HeldAssets, n \in AssetAmounts :
          HoldAsset(who, a, n) \/ ReleaseAsset(who, a, n)
    \/ \E length \in RangeLengths :
          AddRange(length) /\ UNCHANGED <<now, ledger, origins_by_asset_id>>
    \/ \E a \in ManagedAssets, who \in Users :
          RegistrySet(a, who) /\ UNCHANGED <<now, ledger, factoryVars>>
    \/ \E a \in ManagedAssets :
          /\ GrantRoot(a) \/ RegistryRemove(a)
          /\ UNCHANGED <<now, ledger, factoryVars>>

(* The two currencies as other pallets use them.                           *)
TraitsNext ==
    \E who, to \in Users, n \in AssetAmounts :
        \/ UseNative(who, to, n)
        \/ \E a \in HeldAssets \cup {NativeAsset} :
              \/ UseAsset(a, who, to, n)
              \/ TransferAsset(who, a, to, n, FALSE)

(* At genesis orml-tokens has nothing under the native id.                 *)
AssetsInit ==
    /\ ChainInit /\ FactoryInit /\ RegistryInit
    /\ \A who \in Accounts : ledger[Shadow][who] = NoFunds

AssetsSpec ==
    AssetsInit
        /\ [][AssetsNext \/ TraitsNext]_<<now, ledger, factoryVars, origins_by_asset_id>>

-----------------------------------------------------------------------------
(* Properties.                                                             *)

(* The native asset has one home: no sequence of calls through this        *)
(* pallet, whether they name the native id or are the _native variants,    *)
(* puts native funds into orml-tokens, where neither pallet_balances nor   *)
(* the fees would find them.  And whatever ranges are appended between     *)
(* creations, the ids under which balances are kept are handed out once.   *)
BalancesApart ==
    /\ \A who \in Accounts : ledger[Shadow][who] = NoFunds
    /\ IdsUnique
=============================================================================
