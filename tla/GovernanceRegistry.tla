------------------------- MODULE GovernanceRegistry -------------------------
(***************************************************************************)
(* frame/governance-registry: which account, or root, governs an asset.    *)
(* Set by root, and by the assets pallet when it creates an asset.  Read   *)
(* by the assets pallet and by democracy.                                  *)
(***************************************************************************)
CONSTANTS
    Governors,      \* accounts that may govern
    GovernedAssets, \* assets
    Root, NoOrigin

ASSUME RegistryTypes == Root \notin Governors /\ NoOrigin \notin Governors \cup {Root}

VARIABLE origins_by_asset_id

SetsOrigin(a, origin) ==
    origins_by_asset_id' = [origins_by_asset_id EXCEPT ![a] = origin]

\* set, grant_root and remove, by root
RegistrySet(a, who) == SetsOrigin(a, who)
GrantRoot(a) == SetsOrigin(a, Root)
RegistryRemove(a) == SetsOrigin(a, NoOrigin)

RegistryInit == origins_by_asset_id = [a \in GovernedAssets |-> NoOrigin]
=============================================================================
