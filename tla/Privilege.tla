----------------------------- MODULE Privilege ------------------------------
(***************************************************************************)
(* frame/privilege: privileges of accounts, and groups of accounts that    *)
(* hold a common privilege.  There are no extrinsics: other pallets make   *)
(* these calls, and none of them is transactional.                         *)
(*                                                                         *)
(* A privilege is a set of flags, of which the code has one so far.        *)
(***************************************************************************)
EXTENDS Chain

CONSTANTS
    PrivilegeFlags,
    MaxGroup, MaxMember,
    GroupInputs,    \* lists of members of create, duplicates included
    MaxGroups,      \* bound: ids of groups
    NoEntry         \* no value under a key

Privileges == SUBSET PrivilegeFlags
GroupIds == 1..MaxGroups

ASSUME PrivilegeTypes ==
    /\ \E flag \in PrivilegeFlags : PrivilegeFlags = {flag}
    /\ \A p \in Privileges : p # NoEntry
    /\ GroupInputs \subseteq Seq(Users)
    /\ MaxGroup \in Nat /\ MaxMember \in Nat /\ MaxGroups \in Nat

VARIABLES
    account_privileges, group_privileges, group_members, group_id, group_count

privilegeVars ==
    <<account_privileges, group_privileges, group_members, group_id, group_count>>

\* an account without entry has no privilege, not even the empty one
HasPrivilege(who, privilege) ==
    account_privileges[who] # NoEntry /\ privilege \subseteq account_privileges[who]

Held(who) == IF account_privileges[who] = NoEntry THEN {} ELSE account_privileges[who]

Promote(who, privilege) ==
    /\ account_privileges' = [account_privileges EXCEPT ![who] = Held(who) \cup privilege]
    /\ UNCHANGED <<group_privileges, group_members, group_id, group_count>>

(* mutant: the privilege goes and the memberships stay                     *)
NoGroupsOf(privilege) == {}

\* the groups revoke takes the account out of: those that enforce all of it
GroupsEnforcing(privilege) ==
    {g \in GroupIds : group_privileges[g] # NoEntry /\ privilege \subseteq group_privileges[g]}

RevokePrivilege(who, privilege) ==
    LET groups == IF Held(who) = {} THEN {} ELSE GroupsEnforcing(privilege)
    IN /\ account_privileges' = [account_privileges EXCEPT ![who] = Held(who) \ privilege]
       /\ group_members' = [g \in GroupIds |->
             group_members[g] \ (IF g \in groups THEN {who} ELSE {})]
       /\ UNCHANGED <<group_privileges, group_id, group_count>>

\* what promote of a group asks of an account
MayJoin(who, privilege, members) ==
    /\ HasPrivilege(who, privilege)
    /\ who \notin members
    /\ Cardinality(members) < MaxMember

(* create promotes member by member.  When one is refused the others stay, *)
(* with the group and the count; only the last id is not written, so that  *)
(* the next create takes the same id and starts over.                      *)
CreateGroup(list, privilege) ==
    LET id == group_id + 1
        joined(n) == {list[i] : i \in 1..n}
        refused == {n \in DOMAIN list : ~MayJoin(list[n], privilege, joined(n - 1))}
        members == IF refused = {} THEN joined(Len(list))
                   ELSE joined((CHOOSE n \in refused : \A m \in refused : n <= m) - 1)
    IN /\ group_count < MaxGroup
       /\ id \in GroupIds
       /\ group_count' = group_count + 1
       /\ group_privileges' = [group_privileges EXCEPT ![id] = privilege]
       /\ group_members' = [group_members EXCEPT ![id] = members]
       /\ group_id' = IF refused = {} THEN id ELSE group_id
       /\ UNCHANGED account_privileges

(* delete does not look for the group.  With a count of zero the           *)
(* subtraction overflows, which panics or wraps; no such call is modelled. *)
DeleteGroup(g) ==
    /\ group_count > 0
    /\ group_count' = group_count - 1
    /\ group_privileges' = [group_privileges EXCEPT ![g] = NoEntry]
    /\ group_members' = [group_members EXCEPT ![g] = {}]
    /\ UNCHANGED <<account_privileges, group_id>>

PromoteInGroup(g, who) ==
    /\ group_privileges[g] # NoEntry
    /\ MayJoin(who, group_privileges[g], group_members[g])
    /\ group_members' = [group_members EXCEPT ![g] = @ \cup {who}]
    /\ UNCHANGED <<account_privileges, group_privileges, group_id, group_count>>

RevokeFromGroup(g, who) ==
    /\ who \in group_members[g]
    /\ group_members' = [group_members EXCEPT ![g] = @ \ {who}]
    /\ UNCHANGED <<account_privileges, group_privileges, group_id, group_count>>

PrivilegeInit ==
    /\ account_privileges = [who \in Users |-> NoEntry]
    /\ group_privileges = [g \in GroupIds |-> NoEntry]
    /\ group_members = [g \in GroupIds |-> {}]
    /\ group_id = 0
    /\ group_count = 0

PrivilegeNext ==
    \/ \E who \in Users, p \in Privileges : Promote(who, p) \/ RevokePrivilege(who, p)
    \/ \E list \in GroupInputs, p \in Privileges : CreateGroup(list, p)
    \/ \E g \in GroupIds : DeleteGroup(g)
    \/ \E g \in GroupIds, who \in Users :
          PromoteInGroup(g, who) \/ RevokeFromGroup(g, who)

PrivilegeSpec == PrivilegeInit /\ [][PrivilegeNext]_privilegeVars

-----------------------------------------------------------------------------

(* "every user within the group has the given privilege" (create of        *)
(* MutatePrivilegeGroup), whatever is granted and revoked later, and also  *)
(* in a group whose creation failed half way and whose id was taken again. *)
(* revoke finds the groups that enforce all of what it takes: with a       *)
(* second flag, a revocation of both would leave a member of a group of    *)
(* one of them, hence the assumption on PrivilegeFlags.                    *)
MembersPrivileged ==
    \A g \in GroupIds : \A who \in group_members[g] :
       group_privileges[g] # NoEntry /\ HasPrivilege(who, group_privileges[g])
=============================================================================
