--------------------------- MODULE RegistryProofs ---------------------------
(***************************************************************************)
(* Proofs about AssetsRegistry, Privilege and Assets (with CurrencyFactory *)
(* and GovernanceRegistry), for every set of accounts, assets and groups.  *)
(***************************************************************************)
EXTENDS AssetsRegistry, Privilege, Assets, WellFoundedInduction, TLAPS

-----------------------------------------------------------------------------
(* assets-registry.                                                        *)

Roles == {"local", "foreign"}

RegistryTypeOK ==
    /\ local_to_foreign \in [LocalAssets -> ForeignAssets \cup {NotMapped}]
    /\ foreign_to_local \in [ForeignAssets -> LocalAssets \cup {NotMapped}]
    /\ candidates \in [LocalAssets \X ForeignAssets -> Roles \cup {NoStatus}]
    /\ described \subseteq LocalAssets

(* A pending candidate carries the approval its status stands for.         *)
CandidatesApproved ==
    \A a \in LocalAssets, f \in ForeignAssets, role \in Roles :
       candidates[<<a, f>>] = role => <<role, a, f>> \in approvals

RegistryInv == RegistryTypeOK /\ CandidatesApproved /\ MappingApproved

LEMMA GenesisMapping == RegistryGenesis => RegistryInv
<1> SUFFICES ASSUME RegistryGenesis PROVE RegistryInv
  OBVIOUS
<1>1. \A a \in LocalAssets :
        \/ local_to_foreign[a] = NotMapped /\ ~ \E p \in GenesisPairs : p[1] = a
        \/ \E p \in GenesisPairs : p[1] = a /\ local_to_foreign[a] = p[2]
  BY DEF RegistryGenesis
<1>2. \A f \in ForeignAssets :
        \/ foreign_to_local[f] = NotMapped /\ ~ \E p \in GenesisPairs : p[2] = f
        \/ \E p \in GenesisPairs : p[2] = f /\ foreign_to_local[f] = p[1]
  BY DEF RegistryGenesis
<1>3. \A p \in GenesisPairs :
        p[1] \in LocalAssets /\ p[2] \in ForeignAssets /\ p = <<p[1], p[2]>>
  BY AssetsRegistryTypes
<1>4. RegistryTypeOK
  <2>1. DOMAIN local_to_foreign = LocalAssets /\ DOMAIN foreign_to_local = ForeignAssets
    BY DEF RegistryGenesis
  <2>2. /\ local_to_foreign = [a \in LocalAssets |-> local_to_foreign[a]]
        /\ foreign_to_local = [f \in ForeignAssets |-> foreign_to_local[f]]
    BY DEF RegistryGenesis
  <2>3. local_to_foreign \in [LocalAssets -> ForeignAssets \cup {NotMapped}]
    BY <1>1, <1>3, <2>2
  <2>4. foreign_to_local \in [ForeignAssets -> LocalAssets \cup {NotMapped}]
    BY <1>2, <1>3, <2>2
  <2> QED
    BY <2>3, <2>4 DEF RegistryGenesis, RegistryTypeOK
<1>5. CandidatesApproved
  BY AssetsRegistryTypes DEF RegistryGenesis, CandidatesApproved, Roles
<1>6. \A a \in LocalAssets, f \in ForeignAssets :
         local_to_foreign[a] = f <=> foreign_to_local[f] = a
  <2> SUFFICES ASSUME NEW a \in LocalAssets, NEW f \in ForeignAssets
               PROVE  local_to_foreign[a] = f <=> foreign_to_local[f] = a
    OBVIOUS
  <2>1. ASSUME local_to_foreign[a] = f PROVE foreign_to_local[f] = a
    <3>1. PICK p \in GenesisPairs : p[1] = a /\ p[2] = f
      BY <1>1, <2>1, AssetsRegistryTypes
    <3>2. PICK q \in GenesisPairs : q[2] = f /\ foreign_to_local[f] = q[1]
      BY <1>2, <3>1
    <3> QED
      BY <3>1, <3>2, AssetsRegistryTypes
  <2>2. ASSUME foreign_to_local[f] = a PROVE local_to_foreign[a] = f
    <3>1. PICK p \in GenesisPairs : p[1] = a /\ p[2] = f
      BY <1>2, <2>2, AssetsRegistryTypes
    <3>2. PICK q \in GenesisPairs : q[1] = a /\ local_to_foreign[a] = q[2]
      BY <1>1, <3>1
    <3> QED
      BY <3>1, <3>2, AssetsRegistryTypes
  <2> QED
    BY <2>1, <2>2
<1>7. \A a \in LocalAssets :
         local_to_foreign[a] # NotMapped => <<a, local_to_foreign[a]>> \in GenesisPairs
  BY <1>1, <1>3
<1>8. described = {}
  BY DEF RegistryGenesis
<1> QED
  BY <1>4, <1>5, <1>6, <1>7, <1>8 DEF RegistryInv, MappingApproved

LEMMA ApprovePreserves ==
    ASSUME RegistryInv, NEW who \in Users, NEW local \in LocalAssets,
           NEW foreign \in ForeignAssets,
           ApproveAssetsMappingCandidate(who, local, foreign)
    PROVE  RegistryInv'
<1> DEFINE pair == <<local, foreign>>
           mapped == SetsLocation(local, foreign)
           status == candidates[pair]
           first == IF who = local_admin THEN "local" ELSE "foreign"
           second == \/ status = "local" /\ who = foreign_admin
                     \/ status = "foreign" /\ who = local_admin
           mine == {<<role, local, foreign>> : role \in RolesOf(who)}
<1>1. /\ IsAdmin(who)
      /\ Unused(local, foreign)
      /\ approvals' = approvals \cup mine
      /\ described' = described
      /\ \/ /\ status = NoStatus
            /\ candidates' = [candidates EXCEPT ![pair] = first]
            /\ UNCHANGED <<local_to_foreign, foreign_to_local>>
         \/ /\ second
            /\ mapped
            /\ candidates' = [candidates EXCEPT ![pair] = NoStatus]
         \/ UNCHANGED <<candidates, local_to_foreign, foreign_to_local>>
  BY DEF ApproveAssetsMappingCandidate
<1>2. RegistryTypeOK /\ CandidatesApproved /\ MappingApproved
  BY DEF RegistryInv
<1>3. /\ candidates \in [LocalAssets \X ForeignAssets -> Roles \cup {NoStatus}]
      /\ pair \in LocalAssets \X ForeignAssets
  BY <1>2 DEF RegistryTypeOK
<1>4. /\ who = local_admin => <<"local", local, foreign>> \in mine
      /\ who = foreign_admin => <<"foreign", local, foreign>> \in mine
  BY DEF RolesOf
<1>5. <<first, local, foreign>> \in approvals'
  BY <1>1, <1>4 DEF IsAdmin
<1>6. approvals \subseteq approvals'
  BY <1>1
<1>7. RegistryTypeOK'
  BY <1>1, <1>2 DEF RegistryTypeOK, SetsLocation, Roles
<1>8. CandidatesApproved'
  <2> SUFFICES ASSUME NEW a \in LocalAssets, NEW f \in ForeignAssets, NEW role \in Roles,
                      candidates'[<<a, f>>] = role
               PROVE  <<role, a, f>> \in approvals'
    BY DEF CandidatesApproved
  <2>1. CASE candidates[<<a, f>>] = role
    BY <1>2, <1>6, <2>1 DEF CandidatesApproved
  <2>2. CASE candidates[<<a, f>>] # role
    <3>1. <<a, f>> = pair /\ role = first
      BY <1>1, <1>3, <2>2, AssetsRegistryTypes DEF Roles
    <3> QED
      BY <1>5, <3>1
  <2> QED
    BY <2>1, <2>2
<1>9. CASE UNCHANGED <<local_to_foreign, foreign_to_local>>
  <2>1. MappingApproved'
    BY <1>1, <1>2, <1>6, <1>9 DEF MappingApproved
  <2> QED
    BY <1>7, <1>8, <2>1 DEF RegistryInv
<1>10. CASE second /\ mapped
  <2>1. {<<"local", local, foreign>>, <<"foreign", local, foreign>>} \subseteq approvals'
    <3>1. status \in Roles => <<status, local, foreign>> \in approvals
      BY <1>2 DEF CandidatesApproved
    <3> QED
      BY <1>1, <1>4, <1>10, <3>1 DEF Roles
  <2>2. /\ local_to_foreign[local] = NotMapped /\ foreign_to_local[foreign] = NotMapped
        /\ local_to_foreign' = [local_to_foreign EXCEPT ![local] = foreign]
        /\ foreign_to_local' = [foreign_to_local EXCEPT ![foreign] = local]
    BY <1>1, <1>10 DEF Unused, SetsLocation
  <2>3. \A a \in LocalAssets, f \in ForeignAssets :
           local_to_foreign'[a] = f <=> foreign_to_local'[f] = a
    BY <1>2, <2>2, AssetsRegistryTypes DEF MappingApproved, RegistryTypeOK
  <2>4. \A a \in LocalAssets \ {local} : local_to_foreign'[a] = local_to_foreign[a]
    BY <1>2, <2>2 DEF RegistryTypeOK
  <2>5. local_to_foreign'[local] = foreign /\ foreign # NotMapped
    BY <1>2, <2>2, AssetsRegistryTypes DEF RegistryTypeOK
  <2>6. ASSUME NEW a \in LocalAssets,
               local_to_foreign'[a] # NotMapped,
               <<a, local_to_foreign'[a]>> \notin GenesisPairs
        PROVE  {<<"local", a, local_to_foreign'[a]>>, <<"foreign", a, local_to_foreign'[a]>>}
                  \subseteq approvals'
    <3>1. CASE a = local
      BY <2>1, <2>5, <3>1
    <3>2. CASE a # local
      <4>1. {<<"local", a, local_to_foreign[a]>>, <<"foreign", a, local_to_foreign[a]>>}
               \subseteq approvals
        BY <1>2, <2>4, <2>6, <3>2 DEF MappingApproved
      <4> QED
        BY <1>6, <2>4, <3>2, <4>1
    <3> QED
      BY <3>1, <3>2
  <2>7. \A a \in described' : local_to_foreign'[a] # NotMapped
    BY <1>1, <1>2, <2>4, <2>5 DEF MappingApproved, RegistryTypeOK
  <2>8. MappingApproved'
    BY <2>3, <2>6, <2>7 DEF MappingApproved
  <2> QED
    BY <1>7, <1>8, <2>8 DEF RegistryInv
<1> QED
  BY <1>1, <1>9, <1>10

LEMMA RegistryStep == RegistryInv /\ [AssetsRegistryNext]_registryVars => RegistryInv'
<1> SUFFICES ASSUME RegistryInv, [AssetsRegistryNext]_registryVars PROVE RegistryInv'
  OBVIOUS
<1>1. ASSUME NEW who \in Users, SetLocalAdmin(who) \/ SetForeignAdmin(who)
      PROVE  RegistryInv'
  BY <1>1 DEF RegistryInv, RegistryTypeOK, CandidatesApproved, MappingApproved,
              SetLocalAdmin, SetForeignAdmin
<1>2. ASSUME NEW who \in Users, NEW a \in LocalAssets, NEW f \in ForeignAssets,
             ApproveAssetsMappingCandidate(who, a, f)
      PROVE  RegistryInv'
  BY <1>2, ApprovePreserves
<1>3. ASSUME NEW who \in Users, NEW a \in LocalAssets, SetMetadata(who, a)
      PROVE  RegistryInv'
  BY <1>3 DEF RegistryInv, RegistryTypeOK, CandidatesApproved, MappingApproved,
              SetMetadata
<1>4. CASE UNCHANGED registryVars
  BY <1>4 DEF RegistryInv, RegistryTypeOK, CandidatesApproved, MappingApproved,
              registryVars
<1> QED
  BY <1>1, <1>2, <1>3, <1>4 DEF AssetsRegistryNext

(* However the administrators change and in whatever order candidates are  *)
(* approved, the two maps of assets-registry stay inverse to each other,   *)
(* every mapping was approved in both roles, and only mapped assets are    *)
(* described.                                                              *)
THEOREM RegistryMapsApproved == AssetsRegistrySpec => []MappingApproved
<1>1. RegistryInv => MappingApproved
  BY DEF RegistryInv
<1> QED
  BY GenesisMapping, RegistryStep, <1>1, PTL DEF AssetsRegistrySpec

-----------------------------------------------------------------------------
(* privilege.                                                              *)

PrivilegeTypeOK ==
    /\ account_privileges \in [Users -> Privileges \cup {NoEntry}]
    /\ group_privileges \in [GroupIds -> Privileges \cup {NoEntry}]
    /\ group_members \in [GroupIds -> SUBSET Users]

PrivilegeInv == PrivilegeTypeOK /\ MembersPrivileged

LEMMA LeastPosition ==
    ASSUME NEW T, T \subseteq Nat, T # {}
    PROVE  \E x \in T : \A y \in T : x <= y
<1>1. PICK x \in T : \A y \in T : ~(<<y, x>> \in OpToRel(<, Nat))
  BY WFMin, NatLessThanWellFounded
<1>2. \A y \in T : ~(y < x)
  BY <1>1 DEF OpToRel
<1> QED
  BY <1>2

(* A privilege that was granted is kept, and gives nothing to others.      *)
LEMMA PromotePreserves ==
    ASSUME PrivilegeInv, NEW who \in Users, NEW p \in Privileges, Promote(who, p)
    PROVE  PrivilegeInv'
<1>1. PrivilegeTypeOK /\ MembersPrivileged
  BY DEF PrivilegeInv
<1>2. Held(who) \in Privileges
  BY <1>1 DEF PrivilegeTypeOK, Held, Privileges
<1>3. /\ account_privileges' = [account_privileges EXCEPT ![who] = Held(who) \cup p]
      /\ group_privileges' = group_privileges /\ group_members' = group_members
  BY DEF Promote
<1>4. Held(who) \cup p \in Privileges
  BY <1>2 DEF Privileges
<1>5. PrivilegeTypeOK'
  BY <1>1, <1>3, <1>4 DEF PrivilegeTypeOK
<1>6. \A u \in Users : \A q : HasPrivilege(u, q) => HasPrivilege(u, q)'
  BY <1>1, <1>3, <1>4, PrivilegeTypes DEF PrivilegeTypeOK, HasPrivilege, Held
<1>7. MembersPrivileged'
  BY <1>1, <1>3, <1>6 DEF MembersPrivileged, PrivilegeTypeOK, HasPrivilege
<1> QED
  BY <1>5, <1>7 DEF PrivilegeInv

(* With a single flag, the groups that enforce all of what is revoked are  *)
(* all the groups that enforce any of it.                                  *)
LEMMA RevokePreserves ==
    ASSUME PrivilegeInv, NEW who \in Users, NEW p \in Privileges, RevokePrivilege(who, p)
    PROVE  PrivilegeInv'
<1> DEFINE groups == IF Held(who) = {} THEN {} ELSE GroupsEnforcing(p)
<1>1. PrivilegeTypeOK /\ MembersPrivileged
  BY DEF PrivilegeInv
<1>2. Held(who) \in Privileges /\ Held(who) \ p \in Privileges
  BY <1>1 DEF PrivilegeTypeOK, Held, Privileges
<1>3. /\ account_privileges' = [account_privileges EXCEPT ![who] = Held(who) \ p]
      /\ group_members' = [g \in GroupIds |->
            group_members[g] \ (IF g \in groups THEN {who} ELSE {})]
      /\ group_privileges' = group_privileges
  BY DEF RevokePrivilege
<1>4. PrivilegeTypeOK'
  BY <1>1, <1>2, <1>3 DEF PrivilegeTypeOK
<1>5. ASSUME NEW g \in GroupIds, NEW u \in group_members'[g]
      PROVE  group_privileges'[g] # NoEntry /\ HasPrivilege(u, group_privileges[g])'
  <2>1. u \in group_members[g] /\ (u = who => g \notin groups)
    BY <1>3, <1>5
  <2>2. u \in Users
    BY <1>1, <2>1 DEF PrivilegeTypeOK
  <2>3. group_privileges[g] # NoEntry /\ HasPrivilege(u, group_privileges[g])
    BY <1>1, <2>1 DEF MembersPrivileged
  <2>4. group_privileges[g] \in Privileges
    BY <1>1, <2>3 DEF PrivilegeTypeOK
  <2>5. CASE u # who
    BY <1>1, <1>3, <2>2, <2>3, <2>5 DEF HasPrivilege, PrivilegeTypeOK
  <2>6. CASE u = who
    <3>1. group_privileges[g] \subseteq Held(who) \ p
      <4>1. group_privileges[g] \subseteq Held(who)
        BY <2>3, <2>6 DEF HasPrivilege, Held
      <4>2. PICK flag : PrivilegeFlags = {flag}
        BY PrivilegeTypes
      <4>3. \A q \in Privileges : q = {} \/ q = {flag}
        BY <4>2 DEF Privileges
      <4>4. CASE Held(who) = {}
        BY <4>1, <4>4
      <4>5. CASE Held(who) # {}
        <5>1. ~(p \subseteq group_privileges[g])
          BY <2>1, <2>3, <2>6, <4>5 DEF GroupsEnforcing
        <5> QED
          BY <2>4, <4>1, <4>3, <5>1
      <4> QED
        BY <4>4, <4>5
    <3>2. account_privileges'[who] = Held(who) \ p
      BY <1>1, <1>3 DEF PrivilegeTypeOK
    <3>3. account_privileges'[who] # NoEntry
      BY <1>2, <3>2, PrivilegeTypes
    <3> QED
      BY <1>3, <2>3, <2>6, <3>1, <3>2, <3>3 DEF HasPrivilege
  <2> QED
    BY <2>5, <2>6
<1> QED
  BY <1>4, <1>5 DEF PrivilegeInv, MembersPrivileged

(* Whoever was let in before the first refusal holds the privilege.        *)
LEMMA CreatePreserves ==
    ASSUME PrivilegeInv, NEW list \in GroupInputs, NEW p \in Privileges,
           CreateGroup(list, p)
    PROVE  PrivilegeInv'
<1> DEFINE id == group_id + 1
           joined(n) == {list[i] : i \in 1..n}
           refused == {n \in DOMAIN list : ~MayJoin(list[n], p, joined(n - 1))}
           first == CHOOSE n \in refused : \A m \in refused : n <= m
           members == IF refused = {} THEN joined(Len(list)) ELSE joined(first - 1)
<1>1. PrivilegeTypeOK /\ MembersPrivileged
  BY DEF PrivilegeInv
<1>2. /\ id \in GroupIds
      /\ group_privileges' = [group_privileges EXCEPT ![id] = p]
      /\ group_members' = [group_members EXCEPT ![id] = members]
      /\ account_privileges' = account_privileges
  BY DEF CreateGroup
<1>3. list \in Seq(Users) /\ DOMAIN list = 1..Len(list) /\ Len(list) \in Nat
  BY PrivilegeTypes
<1>4. \A u \in members : u \in Users /\ HasPrivilege(u, p)
  <2>1. CASE refused = {}
    <3> SUFFICES ASSUME NEW i \in 1..Len(list)
                 PROVE  list[i] \in Users /\ HasPrivilege(list[i], p)
      BY <2>1
    <3>1. MayJoin(list[i], p, joined(i - 1))
      BY <1>3, <2>1
    <3> QED
      BY <1>3, <3>1 DEF MayJoin
  <2>2. CASE refused # {}
    <3>1. refused \subseteq Nat
      BY <1>3
    <3>2. first \in refused /\ \A m \in refused : first <= m
      BY <2>2, <3>1, LeastPosition
    <3> SUFFICES ASSUME NEW i \in 1..(first - 1)
                 PROVE  list[i] \in Users /\ HasPrivilege(list[i], p)
      BY <2>2
    <3>3. first \in 1..Len(list)
      BY <1>3, <3>2
    <3>4. i \in DOMAIN list /\ i \notin refused
      <4> HIDE DEF first, refused
      <4> QED
        BY <1>3, <3>2, <3>3
    <3>5. MayJoin(list[i], p, joined(i - 1))
      BY <3>4
    <3> QED
      BY <1>3, <3>4, <3>5 DEF MayJoin
  <2> QED
    BY <2>1, <2>2
<1> HIDE DEF members
<1>5. PrivilegeTypeOK'
  BY <1>1, <1>2, <1>4 DEF PrivilegeTypeOK
<1>6. MembersPrivileged'
  BY <1>1, <1>2, <1>4, PrivilegeTypes
     DEF MembersPrivileged, PrivilegeTypeOK, HasPrivilege
<1> QED
  BY <1>5, <1>6 DEF PrivilegeInv

LEMMA PrivilegeStep == PrivilegeInv /\ [PrivilegeNext]_privilegeVars => PrivilegeInv'
<1> SUFFICES ASSUME PrivilegeInv, [PrivilegeNext]_privilegeVars PROVE PrivilegeInv'
  OBVIOUS
<1>1. ASSUME NEW who \in Users, NEW p \in Privileges,
             Promote(who, p) \/ RevokePrivilege(who, p)
      PROVE  PrivilegeInv'
  BY <1>1, PromotePreserves, RevokePreserves
<1>2. ASSUME NEW list \in GroupInputs, NEW p \in Privileges, CreateGroup(list, p)
      PROVE  PrivilegeInv'
  BY <1>2, CreatePreserves
<1>3. ASSUME NEW g \in GroupIds, DeleteGroup(g)
      PROVE  PrivilegeInv'
  BY <1>3 DEF PrivilegeInv, PrivilegeTypeOK, MembersPrivileged, HasPrivilege, DeleteGroup
<1>4. ASSUME NEW g \in GroupIds, NEW who \in Users, PromoteInGroup(g, who)
      PROVE  PrivilegeInv'
  BY <1>4 DEF PrivilegeInv, PrivilegeTypeOK, MembersPrivileged, HasPrivilege, MayJoin,
              PromoteInGroup
<1>5. ASSUME NEW g \in GroupIds, NEW who \in Users, RevokeFromGroup(g, who)
      PROVE  PrivilegeInv'
  BY <1>5 DEF PrivilegeInv, PrivilegeTypeOK, MembersPrivileged, HasPrivilege,
              RevokeFromGroup
<1>6. CASE UNCHANGED privilegeVars
  BY <1>6 DEF PrivilegeInv, PrivilegeTypeOK, MembersPrivileged, HasPrivilege, privilegeVars
<1> QED
  BY <1>1, <1>2, <1>3, <1>4, <1>5, <1>6 DEF PrivilegeNext

(* Every member of a privilege group holds the group's privilege, however  *)
(* privileges are granted and revoked later and although a creation that   *)
(* fails half way leaves the members it had let in.                        *)
THEOREM GroupsPrivileged == PrivilegeSpec => []MembersPrivileged
<1>1. PrivilegeInit => PrivilegeInv
  BY DEF PrivilegeInit, PrivilegeInv, PrivilegeTypeOK, MembersPrivileged
<1>2. PrivilegeInv => MembersPrivileged
  BY DEF PrivilegeInv
<1> QED
  BY <1>1, <1>2, PrivilegeStep, PTL DEF PrivilegeSpec
-----------------------------------------------------------------------------
(* assets: what no call touches.  A call on one currency leaves the        *)
(* holdings in the others as they are.                                     *)

IsLedger(l) == l = [a \in AssetIds |-> l[a]]

(* l with another book of the asset c.                                     *)
OnlyChanges(l, m, c) == \E book : m = [l EXCEPT ![c] = book]

LEMMA ChangesKeepShadow ==
    ASSUME NEW l, IsLedger(l), NEW c, c # Shadow, NEW m, OnlyChanges(l, m, c)
    PROVE  IsLedger(m) /\ m[Shadow] = l[Shadow]
<1>1. PICK book : m = [l EXCEPT ![c] = book]
  BY DEF OnlyChanges
<1>2. Shadow \in AssetIds
  BY AssetsTypes
<1> QED
  BY <1>1, <1>2 DEF IsLedger

Shielded(l, m) == IsLedger(m) /\ m[Shadow] = l[Shadow]

LEMMA EntryChange ==
    ASSUME NEW l, IsLedger(l), NEW c, c # Shadow, NEW who, NEW e, NEW m,
           m = [l EXCEPT ![c] = [l[c] EXCEPT ![who] = e]]
    PROVE  Shielded(l, m)
<1>1. OnlyChanges(l, m, c)
  BY DEF OnlyChanges
<1> QED
  BY <1>1, ChangesKeepShadow DEF Shielded

(* One step for each operation of the currencies.                          *)
LEMMA CallsKeepShadow ==
    ASSUME NEW l, IsLedger(l), NEW c, c # Shadow, NEW who, NEW n
    PROVE  /\ Shielded(l, Deposit(l, c, who, n))
           /\ Shielded(l, Withdraw(l, c, who, n))
           /\ Shielded(l, SetLock(l, c, who, n))
           /\ Shielded(l, ReserveFunds(l, c, who, n))
           /\ Shielded(l, UnreserveFunds(l, c, who, n))
           /\ Shielded(l, SlashFunds(l, c, who, n))
           /\ Shielded(l, SlashReserved(l, c, who, n))
           /\ Shielded(l, SetTotal(l, c, who, n))
<1>1. Shielded(l, Deposit(l, c, who, n))
  BY EntryChange DEF Deposit
<1>2. Shielded(l, Withdraw(l, c, who, n))
  BY EntryChange DEF Withdraw
<1>3. Shielded(l, SetLock(l, c, who, n))
  BY EntryChange DEF SetLock
<1>4. Shielded(l, ReserveFunds(l, c, who, n))
  BY EntryChange DEF ReserveFunds
<1>5. Shielded(l, UnreserveFunds(l, c, who, n))
  BY EntryChange DEF UnreserveFunds
<1>6. Shielded(l, SlashFunds(l, c, who, n))
  BY EntryChange DEF SlashFunds
<1>7. Shielded(l, SlashReserved(l, c, who, n))
  BY EntryChange DEF SlashReserved
<1>8. Shielded(l, SetTotal(l, c, who, n))
  BY EntryChange DEF SetTotal
<1> QED
  BY <1>1, <1>2, <1>3, <1>4, <1>5, <1>6, <1>7, <1>8

LEMMA ShieldedTwice ==
    ASSUME NEW l, NEW k, NEW m, Shielded(l, k), Shielded(k, m)
    PROVE  Shielded(l, m)
BY DEF Shielded

LEMMA MovesKeepShadow ==
    ASSUME NEW l, IsLedger(l), NEW c, c # Shadow, NEW who, NEW to, NEW n, NEW held
    PROVE  /\ Shielded(l, l)
           /\ Shielded(l, Transfer(l, c, who, to, n))
           /\ Shielded(l, Mint(l, c, who, n))
           /\ Shielded(l, Burn(l, c, who, n))
           /\ Shielded(l, Repatriate(l, c, who, to, n, held))
<1>1. Shielded(l, l)
  BY DEF Shielded
<1>2. Shielded(l, Transfer(l, c, who, to, n))
  <2> DEFINE k == Withdraw(l, c, who, n)
  <2>1. Shielded(l, k) /\ IsLedger(k)
    BY CallsKeepShadow DEF Shielded
  <2> HIDE DEF k
  <2>2. Shielded(k, Deposit(k, c, to, n))
    BY <2>1, CallsKeepShadow
  <2>3. Shielded(l, Deposit(k, c, to, n))
    BY <2>1, <2>2, ShieldedTwice
  <2> QED
    BY <1>1, <2>3 DEF Transfer, k
<1>3. Shielded(l, Mint(l, c, who, n))
  BY CallsKeepShadow DEF Mint
<1>4. Shielded(l, Burn(l, c, who, n))
  BY <1>1, CallsKeepShadow DEF Burn
<1>5. Shielded(l, Repatriate(l, c, who, to, n, held))
  <2> DEFINE moved == LesserOf(n, l[c][who].reserved)
             k == [l EXCEPT ![c][who].reserved = @ - moved]
             m == [k EXCEPT ![c][to].reserved = @ + moved]
  <2> HIDE DEF moved
  <2>1. Shielded(l, k)
    BY EntryChange
  <2>2. IsLedger(k)
    BY <2>1 DEF Shielded
  <2> HIDE DEF k
  <2>3. Shielded(k, m)
    BY <2>2, EntryChange
  <2>4. Shielded(k, Deposit(k, c, to, moved))
    BY <2>2, CallsKeepShadow
  <2>5. Repatriate(l, c, who, to, n, held) = IF held THEN m ELSE Deposit(k, c, to, moved)
    BY DEF Repatriate, k, moved
  <2> HIDE DEF m
  <2> QED
    BY <2>1, <2>3, <2>4, <2>5, ShieldedTwice
<1> QED
  BY <1>1, <1>2, <1>3, <1>4, <1>5

(* The currency chosen for an asset that a call may name.                  *)
Named == (AssetIds \cup Nat) \ {Shadow}

LEMMA NeverShadow ==
    ASSUME NEW a \in Named
    PROVE  CurrencyOf(a) # Shadow
BY AssetsTypes DEF CurrencyOf, InTokens, Named

-----------------------------------------------------------------------------
(* currency-factory: the ids that are still to be handed out.              *)

FactoryTypeOK ==
    /\ asset_id_ranges \in Seq(RangeType)
    /\ createdIds \in Seq(Nat)

(* Ranges do not overlap, and the later one starts behind the earlier.     *)
RangesApart ==
    /\ \A i \in DOMAIN asset_id_ranges :
          asset_id_ranges[i].current <= asset_id_ranges[i].end
    /\ \A i, j \in DOMAIN asset_id_ranges :
          i < j => asset_id_ranges[i].end < asset_id_ranges[j].current

(* An id that was handed out is in no range any more, nor in one that will *)
(* be appended.                                                            *)
HandedOut ==
    \A k \in DOMAIN createdIds :
        /\ asset_id_ranges # <<>>
        /\ createdIds[k] <= asset_id_ranges[Len(asset_id_ranges)].end
        /\ \A i \in DOMAIN asset_id_ranges :
              \/ createdIds[k] < asset_id_ranges[i].current
              \/ asset_id_ranges[i].end < createdIds[k]

FactoryInv == FactoryTypeOK /\ RangesApart /\ HandedOut /\ IdsUnique

LEMMA RangeFields ==
    ASSUME NEW s \in Seq(RangeType), NEW i \in DOMAIN s
    PROVE  s[i].current \in Nat /\ s[i].end \in Nat
<1>1. s[i] \in RangeType
  OBVIOUS
<1> QED
  BY <1>1 DEF RangeType

LEMMA FactoryStart == FactoryInit => FactoryInv
BY CurrencyFactoryTypes
   DEF FactoryInit, FactoryInv, FactoryTypeOK, RangesApart, HandedOut, IdsUnique

LEMMA RangeAdded ==
    ASSUME FactoryInv, NEW length \in RangeLengths, AddRange(length)
    PROVE  FactoryInv'
<1> DEFINE start == LastEnd + 1
           range == [current |-> start, end |-> start + length]
           s == asset_id_ranges
           t == Append(s, range)
<1>1. s \in Seq(RangeType) /\ createdIds \in Seq(Nat) /\ length \in Nat
  BY CurrencyFactoryTypes DEF FactoryInv, FactoryTypeOK
<1>2. \A i \in DOMAIN s : s[i].current \in Nat /\ s[i].end \in Nat
  BY <1>1, RangeFields
<1>3. /\ LastEnd \in Nat
      /\ s # <<>> => Len(s) \in DOMAIN s /\ LastEnd = s[Len(s)].end
  BY <1>1, <1>2 DEF LastEnd
<1>4. range \in RangeType /\ range.current = LastEnd + 1 /\ range.end = start + length
  BY <1>1, <1>3 DEF RangeType
<1>5. s' = t /\ createdIds' = createdIds
  BY DEF AddRange
<1> HIDE DEF range
<1>6. /\ t \in Seq(RangeType) /\ Len(t) = Len(s) + 1 /\ DOMAIN t = DOMAIN s \cup {Len(s) + 1}
      /\ t[Len(s) + 1] = range /\ \A i \in DOMAIN s : t[i] = s[i] /\ i < Len(s) + 1
  BY <1>1, <1>4
<1> HIDE DEF t
<1>7. \A i \in DOMAIN s : s[i].end <= LastEnd
  <2> SUFFICES ASSUME NEW i \in DOMAIN s PROVE s[i].end <= LastEnd
    OBVIOUS
  <2>1. s # <<>> /\ i \in 1..Len(s)
    BY <1>1
  <2>2. CASE i = Len(s)
    BY <1>2, <1>3, <2>1, <2>2
  <2>3. CASE i < Len(s)
    <3>1. s[i].end < s[Len(s)].current /\ s[Len(s)].current <= s[Len(s)].end
      BY <1>3, <2>1, <2>3 DEF FactoryInv, RangesApart
    <3> QED
      BY <1>2, <1>3, <2>1, <3>1
  <2> QED
    BY <1>1, <2>1, <2>2, <2>3
<1>8. FactoryTypeOK'
  BY <1>1, <1>5, <1>6 DEF FactoryTypeOK
<1>9. RangesApart'
  <2>1. \A i \in DOMAIN t : t[i].current <= t[i].end
    BY <1>1, <1>3, <1>4, <1>6 DEF FactoryInv, RangesApart
  <2>2. \A i, j \in DOMAIN t : i < j => t[i].end < t[j].current
    <3> SUFFICES ASSUME NEW i \in DOMAIN t, NEW j \in DOMAIN t, i < j
                 PROVE  t[i].end < t[j].current
      OBVIOUS
    <3>1. i \in DOMAIN s
      BY <1>1, <1>6
    <3>2. CASE j \in DOMAIN s
      BY <1>6, <3>1, <3>2 DEF FactoryInv, RangesApart
    <3>3. CASE j = Len(s) + 1
      BY <1>2, <1>3, <1>4, <1>6, <1>7, <3>1, <3>3
    <3> QED
      BY <1>6, <3>2, <3>3
  <2> QED
    BY <1>5, <2>1, <2>2 DEF RangesApart
<1>10. HandedOut'
  <2> SUFFICES ASSUME NEW k \in DOMAIN createdIds
               PROVE  /\ t # <<>> /\ createdIds[k] <= t[Len(t)].end
                      /\ \A i \in DOMAIN t :
                            createdIds[k] < t[i].current \/ t[i].end < createdIds[k]
    BY <1>5 DEF HandedOut
  <2>1. createdIds[k] \in Nat /\ s # <<>> /\ createdIds[k] <= LastEnd
    BY <1>1, <1>3 DEF FactoryInv, HandedOut
  <2>2. t # <<>>
    BY <1>1, <1>6
  <2>3. createdIds[k] <= t[Len(t)].end /\ createdIds[k] < range.current
    BY <1>1, <1>3, <1>4, <1>6, <2>1
  <2>4. \A i \in DOMAIN s : createdIds[k] < s[i].current \/ s[i].end < createdIds[k]
    BY DEF FactoryInv, HandedOut
  <2> QED
    BY <1>6, <2>2, <2>3, <2>4
<1>11. IdsUnique'
  BY <1>5 DEF FactoryInv, IdsUnique
<1> QED
  BY <1>8, <1>9, <1>10, <1>11 DEF FactoryInv

LEMMA IdCreated ==
    ASSUME FactoryInv, NEW r \in {LP_TOKENS, TOKENS}, CreatesId(r)
    PROVE  FactoryInv' /\ NewId(r) \in Nat
<1> DEFINE s == asset_id_ranges
           id == s[r].current
           range == [s[r] EXCEPT !.current = @ + 1]
           t == [s EXCEPT ![r] = range]
           c == createdIds
           d == Append(c, id)
<1>1. s \in Seq(RangeType) /\ c \in Seq(Nat) /\ r \in DOMAIN s /\ s[r] \in RangeType
  BY DEF FactoryInv, FactoryTypeOK, CreatesId, CanCreate
<1>2. \A i \in DOMAIN s : s[i].current \in Nat /\ s[i].end \in Nat
  BY <1>1, RangeFields
<1>3. /\ range \in RangeType /\ range.current = id + 1 /\ range.end = s[r].end
      /\ id \in Nat /\ id # s[r].end /\ id <= s[r].end /\ id < s[r].end
  <2>1. id # s[r].end
    BY DEF CreatesId, CanCreate
  <2>2. id <= s[r].end
    BY <1>1 DEF FactoryInv, RangesApart
  <2>3. range \in RangeType /\ range.current = id + 1 /\ range.end = s[r].end
    BY <1>1, <1>2 DEF RangeType
  <2> QED
    BY <1>1, <1>2, <2>1, <2>2, <2>3
<1>4. s' = t /\ c' = d
  BY DEF CreatesId, NewId
<1> HIDE DEF range, id
<1>5. /\ t \in Seq(RangeType) /\ Len(t) = Len(s) /\ DOMAIN t = DOMAIN s
      /\ t[r] = range /\ \A i \in DOMAIN s : i # r => t[i] = s[i]
  BY <1>1, <1>3
<1> HIDE DEF t
<1>6. /\ d \in Seq(Nat) /\ DOMAIN d = DOMAIN c \cup {Len(c) + 1}
      /\ d[Len(c) + 1] = id /\ \A k \in DOMAIN c : d[k] = c[k] /\ k < Len(c) + 1
  BY <1>1, <1>3
<1> HIDE DEF d
<1>7. \A i \in DOMAIN s : t[i].end = s[i].end /\ t[i].end \in Nat /\ t[i].current \in Nat
                          /\ s[i].current <= t[i].current
  <2> SUFFICES ASSUME NEW i \in DOMAIN s
               PROVE  t[i].end = s[i].end /\ t[i].end \in Nat /\ t[i].current \in Nat
                      /\ s[i].current <= t[i].current
    OBVIOUS
  <2>1. CASE i = r
    <3>1. s[i].current = id
      BY <2>1 DEF id
    <3> QED
      BY <1>2, <1>3, <1>5, <2>1, <3>1
  <2>2. CASE i # r
    BY <1>2, <1>5, <2>2
  <2> QED
    BY <2>1, <2>2
<1>8. FactoryTypeOK'
  BY <1>4, <1>5, <1>6 DEF FactoryTypeOK
<1>9. RangesApart'
  <2>1. \A i \in DOMAIN t : t[i].current <= t[i].end
    <3> SUFFICES ASSUME NEW i \in DOMAIN s PROVE t[i].current <= t[i].end
      BY <1>5
    <3>1. CASE i = r
      BY <1>2, <1>3, <1>5, <3>1
    <3>2. CASE i # r
      BY <1>5, <3>2 DEF FactoryInv, RangesApart
    <3> QED
      BY <3>1, <3>2
  <2>2. \A i, j \in DOMAIN t : i < j => t[i].end < t[j].current
    <3> SUFFICES ASSUME NEW i \in DOMAIN s, NEW j \in DOMAIN s, i < j
                 PROVE  t[i].end < t[j].current
      BY <1>5
    <3>1. s[i].end < s[j].current
      BY DEF FactoryInv, RangesApart
    <3> QED
      BY <1>2, <1>7, <3>1
  <2> QED
    BY <1>4, <2>1, <2>2 DEF RangesApart
<1>10. s # <<>> /\ Len(s) \in DOMAIN s /\ r \in 1..Len(s)
  BY <1>1
<1>11. id <= s[Len(s)].end
  <2>1. CASE r = Len(s)
    BY <1>3, <2>1
  <2>2. CASE r < Len(s)
    <3>1. s[r].end < s[Len(s)].current /\ s[Len(s)].current <= s[Len(s)].end
      BY <1>1, <1>10, <2>2 DEF FactoryInv, RangesApart
    <3> QED
      BY <1>1, <1>2, <1>3, <1>10, <3>1
  <2> QED
    BY <1>1, <1>10, <2>1, <2>2
<1>12. \A i \in DOMAIN s : id < t[i].current \/ t[i].end < id
  <2> SUFFICES ASSUME NEW i \in DOMAIN s PROVE id < t[i].current \/ t[i].end < id
    OBVIOUS
  <2>1. CASE i = r
    BY <1>3, <1>5, <2>1
  <2>2. CASE i < r
    BY <1>1, <1>5, <2>2 DEF FactoryInv, RangesApart, id
  <2>3. CASE r < i
    <3>1. s[r].end < s[i].current
      BY <1>1, <2>3 DEF FactoryInv, RangesApart
    <3> QED
      BY <1>1, <1>2, <1>3, <1>5, <2>3, <3>1
  <2> QED
    BY <1>1, <1>10, <2>1, <2>2, <2>3
<1>13. \A k \in DOMAIN c :
         /\ c[k] \in Nat /\ c[k] <= s[Len(s)].end /\ c[k] # id
         /\ \A i \in DOMAIN s : c[k] < t[i].current \/ t[i].end < c[k]
  <2> SUFFICES ASSUME NEW k \in DOMAIN c
               PROVE  /\ c[k] \in Nat /\ c[k] <= s[Len(s)].end /\ c[k] # id
                      /\ \A i \in DOMAIN s : c[k] < t[i].current \/ t[i].end < c[k]
    OBVIOUS
  <2>1. /\ c[k] \in Nat /\ c[k] <= s[Len(s)].end
        /\ \A i \in DOMAIN s : c[k] < s[i].current \/ s[i].end < c[k]
    BY <1>1 DEF FactoryInv, HandedOut
  <2>2. c[k] # id
    <3>1. c[k] < s[r].current \/ s[r].end < c[k]
      BY <1>1, <2>1
    <3>2. s[r].current = id
      BY DEF id
    <3> QED
      BY <1>1, <1>2, <1>3, <2>1, <3>1, <3>2
  <2>3. \A i \in DOMAIN s : c[k] < t[i].current \/ t[i].end < c[k]
    BY <1>2, <1>7, <2>1
  <2> QED
    BY <2>1, <2>2, <2>3
<1>14. HandedOut'
  <2>1. t # <<>> /\ t[Len(t)].end = s[Len(s)].end
    BY <1>1, <1>5, <1>7, <1>10
  <2> SUFFICES ASSUME NEW k \in DOMAIN d
               PROVE  /\ d[k] <= t[Len(t)].end
                      /\ \A i \in DOMAIN t : d[k] < t[i].current \/ t[i].end < d[k]
    BY <1>4, <2>1 DEF HandedOut
  <2>2. CASE k \in DOMAIN c
    BY <1>5, <1>6, <1>13, <2>1, <2>2
  <2>3. CASE k = Len(c) + 1
    BY <1>5, <1>6, <1>11, <1>12, <2>1, <2>3
  <2> QED
    BY <1>6, <2>2, <2>3
<1>15. IdsUnique'
  <2> SUFFICES ASSUME NEW i \in DOMAIN d, NEW j \in DOMAIN d, d[i] = d[j]
               PROVE  i = j
    BY <1>4 DEF IdsUnique
  <2>1. CASE i \in DOMAIN c /\ j \in DOMAIN c
    BY <1>6, <2>1 DEF FactoryInv, IdsUnique
  <2>2. CASE ~(i \in DOMAIN c /\ j \in DOMAIN c)
    BY <1>6, <1>13, <2>2
  <2> QED
    BY <2>1, <2>2
<1> QED
  BY <1>3, <1>8, <1>9, <1>14, <1>15 DEF FactoryInv, NewId, id

-----------------------------------------------------------------------------
(* The two currencies stay apart.                                          *)

AssetsInv ==
    /\ IsLedger(ledger)
    /\ FactoryInv
    /\ \A who \in Accounts : ledger[Shadow][who] = NoFunds

LEMMA InUseNamed ==
    ASSUME FactoryInv
    PROVE  AssetsInUse \subseteq Named /\ HeldAssets \cup {NativeAsset} \subseteq Named
<1>1. ToSet(createdIds) \subseteq Nat
  BY DEF FactoryInv, FactoryTypeOK, ToSet
<1> QED
  BY <1>1, AssetsTypes, ChainTypes DEF AssetsInUse, Named

LEMMA MintKeepsShadow ==
    ASSUME IsLedger(ledger), NEW a \in Named, NEW to, NEW n, MintOrFail(a, to, n)
    PROVE  Shielded(ledger, ledger')
BY NeverShadow, MovesKeepShadow DEF MintOrFail, AssetsMint

(* What the traits may leave of a ledger.                                  *)
LEMMA TraitsKeepShadow ==
    ASSUME IsLedger(ledger), NEW c, c # Shadow, NEW who, NEW to, NEW n
    PROVE  /\ \A l \in ReserveCalls(ledger, c, who, to, n) : Shielded(ledger, l)
           /\ \A l \in Balances(ledger, c, who, n) : Shielded(ledger, l)
           /\ Shielded(ledger, SlashFunds(ledger, c, who, n))
           /\ \A m : Shielded(ledger, SetLock(ledger, c, who, m))
<1>1. /\ Shielded(ledger, Repatriate(ledger, c, who, to, n, FALSE))
      /\ Shielded(ledger, Repatriate(ledger, c, who, to, n, TRUE))
  BY MovesKeepShadow
<1>2. \A l \in ReserveCalls(ledger, c, who, to, n) : Shielded(ledger, l)
  BY <1>1, CallsKeepShadow DEF ReserveCalls, OnlyIf
<1>3. \A l \in Balances(ledger, c, who, n) : Shielded(ledger, l)
  BY CallsKeepShadow DEF Balances
<1> QED
  BY <1>2, <1>3, CallsKeepShadow

LEMMA NativeCallKeepsShadow ==
    ASSUME IsLedger(ledger), NEW who, NEW to, NEW n, UseNative(who, to, n)
    PROVE  Shielded(ledger, ledger')
<1>1. NativeAsset # Shadow
  BY AssetsTypes
<1>2. \A l \in NativeCurrencyCalls(ledger, who, to, n) : Shielded(ledger, l)
  BY <1>1, CallsKeepShadow, MovesKeepShadow DEF NativeCurrencyCalls, OnlyIf
<1>3. \A l \in NativeMutations(ledger, who, to, n) : Shielded(ledger, l)
  BY <1>1, TraitsKeepShadow, MovesKeepShadow DEF NativeMutations, OnlyIf
<1>4. /\ \A l \in NativeReserves(ledger, who, to, n) : Shielded(ledger, l)
      /\ \A l \in NativeHolds(ledger, who, to, n) : Shielded(ledger, l)
  BY <1>1, TraitsKeepShadow DEF NativeReserves, NativeHolds
<1> QED
  BY <1>2, <1>3, <1>4 DEF UseNative

LEMMA AssetCallKeepsShadow ==
    ASSUME IsLedger(ledger), NEW a \in Named, NEW who, NEW to, NEW n, UseAsset(a, who, to, n)
    PROVE  Shielded(ledger, ledger')
<1>1. CurrencyOf(a) # Shadow
  BY NeverShadow
<1>2. \A l \in Repatriations(ledger, a, who, to, n) : Shielded(ledger, l)
  BY <1>1, TraitsKeepShadow DEF Repatriations
<1>3. \A l \in UnbalancedCalls(ledger, a, who, n) : Shielded(ledger, l)
  BY <1>1, TraitsKeepShadow DEF UnbalancedCalls
<1>4. Shielded(ledger, AssetsSlash(ledger, a, who, n))
  BY <1>1, CallsKeepShadow DEF AssetsSlash
<1>5. \A l \in Locks(ledger, a, who, n) : Shielded(ledger, l)
  BY <1>1, CallsKeepShadow DEF Locks
<1> QED
  BY <1>2, <1>3, <1>4, <1>5 DEF UseAsset

LEMMA TransferKeepsShadow ==
    ASSUME IsLedger(ledger), NEW a \in Named, NEW from, NEW to, NEW n, NEW keep,
           TransferAsset(from, a, to, n, keep) \/ TransferAll(from, a, to, keep)
    PROVE  Shielded(ledger, ledger') /\ UNCHANGED factoryVars
BY NeverShadow, MovesKeepShadow DEF TransferAsset, TransferAll, AssetsTransfer, AssetsFrame

LEMMA AssetsStep ==
    ASSUME AssetsInv, AssetsNext \/ TraitsNext
    PROVE  Shielded(ledger, ledger') /\ FactoryInv'
<1> USE DEF AssetsInv
<1>1. IsLedger(ledger) /\ AssetsInUse \subseteq Named /\ HeldAssets \cup {NativeAsset} \subseteq Named
  BY InUseNamed
<1>2. NativeAsset # Shadow /\ Shielded(ledger, ledger)
  BY AssetsTypes DEF Shielded
<1>3. ASSUME UNCHANGED factoryVars PROVE FactoryInv'
  BY <1>3 DEF factoryVars, FactoryInv, FactoryTypeOK, RangesApart, HandedOut, IdsUnique
<1>4. ASSUME NEW from \in Users, NEW to \in Users, NEW a \in AssetsInUse,
             NEW n \in AssetAmounts, NEW keep \in BOOLEAN, TransferAsset(from, a, to, n, keep)
      PROVE  Shielded(ledger, ledger') /\ FactoryInv'
  BY <1>1, <1>3, <1>4, TransferKeepsShadow
<1>5. ASSUME NEW from \in Users, NEW to \in Users, NEW n \in AssetAmounts,
             NEW keep \in BOOLEAN, TransferNative(from, to, n, keep)
      PROVE  Shielded(ledger, ledger') /\ FactoryInv'
  BY <1>1, <1>2, <1>3, <1>5, MovesKeepShadow DEF TransferNative, AssetsFrame
<1>6. ASSUME NEW from \in Users, NEW to \in Users, NEW a \in AssetsInUse,
             NEW keep \in BOOLEAN, TransferAll(from, a, to, keep)
      PROVE  Shielded(ledger, ledger') /\ FactoryInv'
  <2>1. Shielded(ledger, ledger') /\ UNCHANGED factoryVars
    BY <1>1, <1>6, TransferKeepsShadow
  <2> QED
    BY <1>3, <2>1
<1>7. ASSUME NEW n \in AssetAmounts, NEW to \in Users, MintInitialize(n, to)
      PROVE  Shielded(ledger, ledger') /\ FactoryInv'
  <2>1. FactoryInv' /\ NewId(TOKENS) \in Nat
    BY <1>7, IdCreated DEF MintInitialize
  <2>2. NewId(TOKENS) \in Named
    BY <2>1, AssetsTypes DEF Named
  <2> QED
    BY <1>1, <1>7, <2>1, <2>2, MintKeepsShadow DEF MintInitialize
<1>8. ASSUME NEW n \in AssetAmounts, NEW governor \in Users, NEW to \in Users,
             MintInitializeWithGovernance(n, governor, to)
      PROVE  Shielded(ledger, ledger') /\ FactoryInv'
  <2>1. FactoryInv' /\ NewId(TOKENS) \in Nat
    BY <1>8, IdCreated DEF MintInitializeWithGovernance
  <2>2. NewId(TOKENS) \in Named
    BY <2>1, AssetsTypes DEF Named
  <2> QED
    BY <1>1, <1>8, <2>1, <2>2, MintKeepsShadow DEF MintInitializeWithGovernance
<1>9. ASSUME NEW caller \in Callers, NEW a \in AssetsInUse, NEW to \in Users,
             NEW n \in AssetAmounts, MintInto(caller, a, to, n) \/ BurnFrom(caller, a, to, n)
      PROVE  Shielded(ledger, ledger') /\ FactoryInv'
  <2>1. CurrencyOf(a) # Shadow
    BY <1>1, NeverShadow
  <2>2. Shielded(ledger, ledger') /\ UNCHANGED factoryVars
    BY <1>1, <1>9, <2>1, MovesKeepShadow
       DEF MintInto, BurnFrom, AssetsMint, AssetsBurn, AssetsFrame
  <2> QED
    BY <1>3, <2>2
<1>10. ASSUME NEW who \in Users, NEW a \in HeldAssets, NEW n \in AssetAmounts,
              HoldAsset(who, a, n) \/ ReleaseAsset(who, a, n)
       PROVE  Shielded(ledger, ledger') /\ FactoryInv'
  <2>1. CurrencyOf(a) # Shadow
    BY <1>1, NeverShadow
  <2>2. Shielded(ledger, ledger') /\ UNCHANGED factoryVars
    BY <1>1, <1>10, <2>1, CallsKeepShadow
       DEF HoldAsset, ReleaseAsset, Hold, Release, AssetsFrame
  <2> QED
    BY <1>3, <2>2
<1>11. ASSUME NEW length \in RangeLengths, AddRange(length), UNCHANGED ledger
       PROVE  Shielded(ledger, ledger') /\ FactoryInv'
  BY <1>2, <1>11, RangeAdded
<1>12. ASSUME UNCHANGED <<ledger, factoryVars>>
       PROVE  Shielded(ledger, ledger') /\ FactoryInv'
  BY <1>2, <1>3, <1>12
<1>13. ASSUME NEW who \in Users, NEW to \in Users, NEW n \in AssetAmounts, UseNative(who, to, n)
       PROVE  Shielded(ledger, ledger') /\ FactoryInv'
  <2>1. UNCHANGED factoryVars
    BY <1>13 DEF UseNative, AssetsFrame
  <2> QED
    BY <1>1, <1>3, <1>13, <2>1, NativeCallKeepsShadow
<1>14. ASSUME NEW who \in Users, NEW to \in Users, NEW n \in AssetAmounts,
              NEW a \in HeldAssets \cup {NativeAsset}, UseAsset(a, who, to, n)
       PROVE  Shielded(ledger, ledger') /\ FactoryInv'
  <2>1. UNCHANGED factoryVars
    BY <1>14 DEF UseAsset, AssetsFrame
  <2> QED
    BY <1>1, <1>3, <1>14, <2>1, AssetCallKeepsShadow
<1>15. ASSUME NEW who \in Users, NEW to \in Users, NEW n \in AssetAmounts,
              NEW a \in HeldAssets \cup {NativeAsset}, TransferAsset(who, a, to, n, FALSE)
       PROVE  Shielded(ledger, ledger') /\ FactoryInv'
  <2>1. Shielded(ledger, ledger') /\ UNCHANGED factoryVars
    BY <1>1, <1>15, TransferKeepsShadow
  <2> QED
    BY <1>3, <2>1
<1>16. CASE AssetsNext
  BY <1>4, <1>5, <1>6, <1>7, <1>8, <1>9, <1>10, <1>11, <1>12, <1>16 DEF AssetsNext
<1>17. CASE TraitsNext
  BY <1>13, <1>14, <1>15, <1>17 DEF TraitsNext
<1> QED
  BY <1>16, <1>17

(* No native funds are ever kept by orml-tokens and no id is handed out    *)
(* twice (assets: the match on NativeAssetId in every trait;               *)
(* currency-factory: Ranges), for every choice of accounts, assets, ranges *)
(* and amounts, however the calls of this pallet, of its traits and of the *)
(* administrators alternate.                                               *)
THEOREM CurrenciesStayApart == AssetsSpec => []BalancesApart
<1>1. AssetsInit => AssetsInv
  <2> SUFFICES ASSUME AssetsInit PROVE AssetsInv
    OBVIOUS
  <2>1. IsLedger(ledger)
    BY DEF AssetsInit, ChainInit, IsLedger
  <2> QED
    BY <2>1, FactoryStart DEF AssetsInit, AssetsInv
<1>2. ASSUME AssetsInv,
             [AssetsNext \/ TraitsNext]_<<now, ledger, factoryVars, origins_by_asset_id>>
      PROVE  AssetsInv'
  <2>1. CASE AssetsNext \/ TraitsNext
    <3>1. Shielded(ledger, ledger') /\ FactoryInv'
      BY <1>2, <2>1, AssetsStep
    <3> QED
      BY <1>2, <3>1 DEF AssetsInv, Shielded, IsLedger
  <2>2. CASE UNCHANGED <<now, ledger, factoryVars, origins_by_asset_id>>
    BY <1>2, <2>2
       DEF AssetsInv, IsLedger, factoryVars, FactoryInv, FactoryTypeOK, RangesApart, HandedOut,
           IdsUnique
  <2> QED
    BY <1>2, <2>1, <2>2
<1>3. AssetsInv => BalancesApart
  BY DEF AssetsInv, FactoryInv, BalancesApart
<1> QED
  BY <1>1, <1>2, <1>3, PTL DEF AssetsSpec
=============================================================================
