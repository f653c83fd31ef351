--------------------------- MODULE AssetsRegistry ---------------------------
(***************************************************************************)
(* frame/assets-registry: which foreign asset a local asset stands for.  A *)
(* mapping needs the approval of a local and of a foreign administrator,   *)
(* who may be replaced at any time and may be the same account.            *)
(***************************************************************************)
EXTENDS Chain

CONSTANTS
    LocalAssets, ForeignAssets,
    GenesisPairs,                \* asset_pairs of the genesis configuration
    NoAdmin, NotMapped, NoStatus

ASSUME AssetsRegistryTypes ==
    /\ GenesisPairs \subseteq LocalAssets \X ForeignAssets
    /\ \A p, q \in GenesisPairs : p[1] = q[1] <=> p[2] = q[2]
    /\ NoAdmin \notin Users
    /\ NotMapped \notin LocalAssets \cup ForeignAssets
    /\ NoStatus \notin {"local", "foreign"}

VARIABLES
    local_admin, foreign_admin,
    local_to_foreign, foreign_to_local,
    candidates,  \* AssetsMappingCandidates
    described,   \* the local assets with ForeignAssetMetadata
    approvals    \* history: <<role, local, foreign>>, the roles of who approved

registryVars == <<local_admin, foreign_admin, local_to_foreign, foreign_to_local,
                  candidates, described, approvals>>

SetLocalAdmin(who) ==
    /\ local_admin' = who
    /\ UNCHANGED <<foreign_admin, local_to_foreign, foreign_to_local, candidates,
                   described, approvals>>

SetForeignAdmin(who) ==
    /\ foreign_admin' = who
    /\ UNCHANGED <<local_admin, local_to_foreign, foreign_to_local, candidates,
                   described, approvals>>

\* ensure_admins_only, with EnsureLocalAdmin and EnsureForeignAdmin
IsAdmin(who) == who \in {local_admin, foreign_admin}

RolesOf(who) == {role \in {"local", "foreign"} :
    who = IF role = "local" THEN local_admin ELSE foreign_admin}

\* set_location of RemoteAssetRegistry
SetsLocation(local, foreign) ==
    /\ local_to_foreign' = [local_to_foreign EXCEPT ![local] = foreign]
    /\ foreign_to_local' = [foreign_to_local EXCEPT ![foreign] = local]

(* mutant: only the local id is tested                                     *)
UnusedLocal(local, foreign) == local_to_foreign[local] = NotMapped

Unused(local, foreign) ==
    /\ local_to_foreign[local] = NotMapped
    /\ foreign_to_local[foreign] = NotMapped

(* approve_candidate: the first approval counts as the local one when one  *)
(* account is both administrators; an approval by the same side again has  *)
(* no effect.                                                              *)
ApproveAssetsMappingCandidate(who, local, foreign) ==
    LET status == candidates[<<local, foreign>>]
        first == IF who = local_admin THEN "local" ELSE "foreign"
        second == \/ status = "local" /\ who = foreign_admin
                  \/ status = "foreign" /\ who = local_admin
    IN /\ IsAdmin(who)
       /\ Unused(local, foreign)
       /\ approvals' = approvals \cup {<<role, local, foreign>> : role \in RolesOf(who)}
       /\ \/ /\ status = NoStatus
             /\ candidates' = [candidates EXCEPT ![<<local, foreign>>] = first]
             /\ UNCHANGED <<local_to_foreign, foreign_to_local>>
          \/ /\ second
             /\ SetsLocation(local, foreign)
             /\ candidates' = [candidates EXCEPT ![<<local, foreign>>] = NoStatus]
          \/ /\ status # NoStatus /\ ~second
             /\ UNCHANGED <<candidates, local_to_foreign, foreign_to_local>>
       /\ UNCHANGED <<local_admin, foreign_admin, described>>

SetMetadata(who, local) ==
    /\ IsAdmin(who)
    /\ local_to_foreign[local] # NotMapped
    /\ described' = described \cup {local}
    /\ UNCHANGED <<local_admin, foreign_admin, local_to_foreign, foreign_to_local,
                   candidates, approvals>>

RegistryGenesis ==
    /\ local_admin = NoAdmin
    /\ foreign_admin = NoAdmin
    /\ local_to_foreign = [a \in LocalAssets |->
          IF \E p \in GenesisPairs : p[1] = a
          THEN (CHOOSE p \in GenesisPairs : p[1] = a)[2] ELSE NotMapped]
    /\ foreign_to_local = [f \in ForeignAssets |->
          IF \E p \in GenesisPairs : p[2] = f
          THEN (CHOOSE p \in GenesisPairs : p[2] = f)[1] ELSE NotMapped]
    /\ candidates = [pair \in LocalAssets \X ForeignAssets |-> NoStatus]
    /\ described = {}
    /\ approvals = {}

AssetsRegistryNext ==
    \/ \E who \in Users : SetLocalAdmin(who) \/ SetForeignAdmin(who)
    \/ \E who \in Users, a \in LocalAssets, f \in ForeignAssets :
          ApproveAssetsMappingCandidate(who, a, f)
    \/ \E who \in Users, a \in LocalAssets : SetMetadata(who, a)

AssetsRegistrySpec == RegistryGenesis /\ [][AssetsRegistryNext]_registryVars

-----------------------------------------------------------------------------

(* Whatever candidates are pending, in whatever order they are approved    *)
(* and however often the administrators change, the two maps are inverse   *)
(* to each other, a mapping was approved in both roles unless genesis made *)
(* it, and nothing is described that is not mapped.                        *)
MappingApproved ==
    /\ \A a \in LocalAssets, f \in ForeignAssets :
          local_to_foreign[a] = f <=> foreign_to_local[f] = a
    /\ \A a \in LocalAssets :
          LET f == local_to_foreign[a] IN
          f # NotMapped /\ <<a, f>> \notin GenesisPairs
             => {<<"local", a, f>>, <<"foreign", a, f>>} \subseteq approvals
    /\ \A a \in described : local_to_foreign[a] # NotMapped
=============================================================================
