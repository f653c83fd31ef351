---------------------------- MODULE MosaicProofs ----------------------------
(***************************************************************************)
(* Proofs about Mosaic, for every value of its constants.                  *)
(***************************************************************************)
EXTENDS Mosaic, TLAPS

(* saturating_sub and saturating_add stay in range.                         *)
LEMMA MonusNat ==
    ASSUME NEW x \in Nat, NEW y \in Nat
    PROVE  /\ Monus(x, y) \in Nat
           /\ Monus(x, y) <= x
           /\ x <= Monus(x, y) + y
BY DEF Monus

LEMMA SaturatingAddNat ==
    ASSUME NEW x \in Nat, NEW y \in Nat
    PROVE  /\ SaturatingAdd(x, y) \in Nat
           /\ SaturatingAdd(x, y) <= x + y
           /\ SaturatingAdd(x, y) <= MaxBalance
           /\ x + y <= MaxBalance => SaturatingAdd(x, y) = x + y
BY ParameterTypes DEF SaturatingAdd

(* rejig returns a relayer configuration.                                   *)
LEMMA RejigType ==
    ASSUME NEW c \in RelayerConfig, NEW now \in Nat
    PROVE  Rejig(c, now) \in RelayerConfig
BY DEF Rejig, RelayerConfig, Schedule

LEMMA DecayedNat ==
    ASSUME NEW info \in AssetInfo, NEW now \in Nat
    PROVE  Decayed(info, now) \in Nat
<1> DEFINE red == Monus(now, info.last_mint_block) * info.factor
<1>a. info.penalty \in Nat /\ info.factor \in Nat
       /\ Monus(now, info.last_mint_block) \in Nat
  BY MonusNat DEF AssetInfo
<1>1. info.penalty \in Nat /\ red \in Nat
  BY <1>a
<1>2. Monus(info.penalty, red) \in Nat
  BY <1>1, MonusNat
<1> QED
  BY <1>2 DEF Decayed

(* The decayed penalty is a balance, no larger than the penalty, and the    *)
(* decay forgives at most factor per block.                                 *)
LEMMA DecayedBounds ==
    ASSUME NEW info \in AssetInfo, NEW now \in Nat,
           info.last_mint_block <= now, info.penalty <= MaxBalance
    PROVE  /\ Decayed(info, now) \in Nat
           /\ Decayed(info, now) <= info.penalty
           /\ info.penalty <= Decayed(info, now)
                                + info.factor * (now - info.last_mint_block)
<1> DEFINE d == now - info.last_mint_block
           red == Monus(now, info.last_mint_block) * info.factor
<1>1. info.penalty \in Nat /\ info.factor \in Nat /\ info.last_mint_block \in Nat
  BY DEF AssetInfo
<1>2. d \in Nat /\ Monus(now, info.last_mint_block) = d
  BY <1>1 DEF Monus
<1>3. red \in Nat /\ red = info.factor * (now - info.last_mint_block)
  BY <1>1, <1>2
<1> HIDE DEF red, d
<1>4. Decayed(info, now) = IF red > MaxBalance THEN 0 ELSE Monus(info.penalty, red)
  BY DEF Decayed, red
<1>5. Monus(info.penalty, red) \in Nat
      /\ Monus(info.penalty, red) <= info.penalty
      /\ info.penalty <= Monus(info.penalty, red) + red
  BY <1>1, <1>3, MonusNat
<1>6. /\ Decayed(info, now) \in Nat
      /\ Decayed(info, now) <= info.penalty
      /\ info.penalty <= Decayed(info, now) + red
  BY <1>1, <1>3, <1>4, <1>5, ParameterTypes
<1> QED
  BY <1>3, <1>6, Zenon

-----------------------------------------------------------------------------
(* Type correctness.                                                        *)

(* The two relayer calls of Next never change the type of the relayer.      *)
LEMMA RelayerTypeInv ==
    ASSUME TypeOK, NEW caller \in Accounts, NEW new \in Accounts, NEW ttl \in TTLs,
           RotateRelayer(caller, new, ttl)
    PROVE  relayer' \in RelayerConfig
<1>1. relayer \in RelayerConfig /\ block + ttl \in Nat
  BY ParameterTypes DEF TypeOK, RotateRelayer, EnsureRelayer
<1>2. Rejig(relayer, block) \in RelayerConfig
  BY <1>1, RejigType DEF TypeOK
<1>3. [ttl |-> block + ttl, account |-> new] \in Schedule
  BY <1>1 DEF Schedule
<1> QED
  BY <1>2, <1>3 DEF RotateRelayer, RelayerConfig

LEMMA ControlTypes ==
    ASSUME TypeOK, ControlCall
    PROVE  TypeOK'
<1> USE ParameterTypes DEF config, funds, budgets, relaying
<1>1. ASSUME NEW account \in Accounts, SetRelayer(account)
      PROVE  TypeOK'
  BY <1>1 DEF TypeOK, SetRelayer, RelayerConfig
<1>2. ASSUME NEW period \in Periods, SetTimelockDuration(period)
      PROVE  TypeOK'
  BY <1>2 DEF TypeOK, SetTimelockDuration
<1>3. ASSUME NEW a \in Assets, NEW amount \in Budgets, NEW f \in Factors,
             SetBudget(a, amount, f)
      PROVE  TypeOK'
  <2>1. BudgetedInfo(assetsInfo[a], amount, f) \in AssetInfo
    <3>1. CASE assetsInfo[a] = NULL
      BY <3>1 DEF TypeOK, BudgetedInfo, AssetInfo
    <3>2. CASE assetsInfo[a] # NULL
      <4>1. assetsInfo[a] \in AssetInfo
        BY <3>2 DEF TypeOK
      <4>2. amount \in Nat /\ f \in Nat
        OBVIOUS
      <4> QED
        BY <3>2, <4>1, <4>2 DEF BudgetedInfo, AssetInfo
    <3> QED
      BY <3>1, <3>2
  <2>2. /\ BudgetedInfo(assetsInfo[a], amount, f).penalty \in Nat
        /\ BudgetedInfo(assetsInfo[a], amount, f).last_mint_block \in Nat
    BY <2>1 DEF AssetInfo
  <2> QED
    BY <1>3, <2>1, <2>2 DEF TypeOK, SetBudget
<1>4. ASSUME NEW a \in Assets, NEW n \in Networks, DeleteMapping(a, n)
      PROVE  TypeOK'
  BY <1>4 DEF TypeOK, DeleteMapping, MappingFrame
<1>5. ASSUME NEW a \in Assets, NEW n \in Networks, NEW r \in RemoteAssets,
             CreateMapping(a, n, r)
      PROVE  TypeOK'
  BY <1>5 DEF TypeOK, CreateMapping, MappingFrame
<1>6. ASSUME NEW a \in Assets, NEW n \in Networks, NEW r \in RemoteAssets,
             UpdateMapping(a, n, r)
      PROVE  TypeOK'
  BY <1>6 DEF TypeOK, UpdateMapping, MappingFrame
<1> QED
  BY <1>1, <1>2, <1>3, <1>4, <1>5, <1>6 DEF ControlCall

LEMMA RelayerTypes ==
    ASSUME TypeOK, NEW caller \in Accounts, RelayerCall(caller)
    PROVE  TypeOK'
<1> USE ParameterTypes DEF config, funds, budgets, relaying
<1>1. ASSUME NEW new \in Accounts, NEW ttl \in TTLs, RotateRelayer(caller, new, ttl)
      PROVE  TypeOK'
  BY <1>1, RelayerTypeInv DEF TypeOK, RotateRelayer
<1>2. ASSUME NEW n \in Networks, NEW on \in BOOLEAN, NEW size \in TransferSizes,
             SetNetwork(caller, n, [enabled |-> on, max_transfer_size |-> size])
      PROVE  TypeOK'
  <2>1. [enabled |-> on, max_transfer_size |-> size] \in NetworkInfo
    BY DEF NetworkInfo
  <2> QED
    BY <1>2, <2>1 DEF TypeOK, SetNetwork
<1>3. ASSUME NEW n \in Networks, NEW r \in RemoteAssets, NEW u \in Accounts,
             NEW amount \in Amounts, AcceptTransfer(caller, u, n, r, amount)
      PROVE  TypeOK'
  <2> DEFINE slot == <<u, remoteToLocal[<<r, n>>]>>
  <2>1. slot \in Slots
    BY <1>3 DEF TypeOK, AcceptTransfer, Slots
  <2>2. outgoing[slot] \in Tx /\ amount \in Nat /\ amount <= outgoing[slot].amount
        /\ amount <= outEscrow[slot] /\ outEscrow[slot] \in Nat
    BY <1>3, <2>1 DEF TypeOK, AcceptTransfer
  <2>3. Remainder(outgoing[slot], amount) \in Tx \cup {NULL}
    BY <2>2 DEF Remainder, Tx
  <2> QED
    BY <1>3, <2>1, <2>2, <2>3 DEF TypeOK, AcceptTransfer
<1>4. ASSUME NEW n \in Networks, NEW r \in RemoteAssets, NEW u \in Accounts,
             NEW amount \in Amounts, RescindTimelockedMint(caller, n, r, u, amount)
      PROVE  TypeOK'
  <2> DEFINE slot == <<u, remoteToLocal[<<r, n>>]>>
  <2>1. slot \in Slots
    BY <1>4 DEF TypeOK, RescindTimelockedMint, Slots
  <2>2. incoming[slot] \in Tx /\ amount \in Nat
        /\ amount <= inEscrow[slot] /\ inEscrow[slot] \in Nat
    BY <1>4, <2>1 DEF TypeOK, RescindTimelockedMint
  <2>3. [incoming[slot] EXCEPT !.amount = Monus(@, amount)] \in Tx
    BY <2>2, MonusNat DEF Tx
  <2> QED
    BY <1>4, <2>1, <2>2, <2>3 DEF TypeOK, RescindTimelockedMint
<1>5. ASSUME NEW n \in Networks, NEW r \in RemoteAssets, NEW u \in Accounts,
             NEW amount \in Amounts, NEW lock_time \in LockTimes,
             TimelockedMint(caller, n, r, u, amount, lock_time)
      PROVE  TypeOK'
  <2> DEFINE a == remoteToLocal[<<r, n>>]
             slot == <<u, a>>
             credited == CreditedAmount(incoming[slot], amount)
             penalty == Decayed(assetsInfo[a], block)
  <2>1. a \in Assets /\ slot \in Slots
    BY <1>5 DEF TypeOK, TimelockedMint, Slots
  <2>2. /\ assetsInfo[a] \in AssetInfo
        /\ amount \in Nat /\ block + lock_time \in Nat
        /\ incoming[slot] \in Tx \cup {NULL}
    BY <1>5, <2>1 DEF TypeOK, TimelockedMint
  <2>3. credited \in Nat
    BY <2>2, SaturatingAddNat DEF CreditedAmount, Tx
  <2>4. penalty \in Nat
    BY <2>2, DecayedNat DEF TypeOK
  <2>5. SaturatingAdd(penalty, amount) \in Nat
    BY <2>2, <2>4, SaturatingAddNat
  <2>6. [assetsInfo[a] EXCEPT !.last_mint_block = block,
                              !.penalty = SaturatingAdd(penalty, amount)] \in AssetInfo
    BY <2>2, <2>5 DEF TypeOK, AssetInfo
  <2>7. [amount |-> credited, lock |-> block + lock_time] \in Tx
    BY <2>2, <2>3 DEF Tx
  <2> HIDE DEF credited, penalty
  <2>8. incoming' \in [Slots -> Tx \cup {NULL}]
    BY <1>5, <2>1, <2>7 DEF TypeOK, TimelockedMint, credited
  <2>9. assetsInfo' \in [Assets -> AssetInfo \cup {NULL}]
    BY <1>5, <2>1, <2>6 DEF TypeOK, TimelockedMint, penalty
  <2>10. window' \in [Assets -> [minted : Nat, penalty : Nat, since : Nat]]
    <3>1. window' = [window EXCEPT ![a].minted = @ + amount]
      BY <1>5 DEF TimelockedMint
    <3>2. window[a] \in [minted : Nat, penalty : Nat, since : Nat]
      BY <2>1 DEF TypeOK
    <3>3. [window[a] EXCEPT !.minted = @ + amount]
             \in [minted : Nat, penalty : Nat, since : Nat]
      BY <2>2, <3>2
    <3> QED
      BY <2>1, <3>1, <3>3 DEF TypeOK
  <2>11. promised' \in [Slots -> Nat]
    <3>1. promised' = [promised EXCEPT ![slot] =
                         IF @ > block + lock_time THEN @ ELSE block + lock_time]
      BY <1>5 DEF TimelockedMint
    <3> QED
      BY <2>1, <2>2, <3>1 DEF TypeOK
  <2>12. inEscrow' \in [Slots -> Nat]
    <3>1. inEscrow' = [inEscrow EXCEPT ![slot] = @ + amount]
      BY <1>5 DEF TimelockedMint
    <3> QED
      BY <2>1, <2>2, <3>1 DEF TypeOK
  <2> QED
    BY <1>5, <2>8, <2>9, <2>10, <2>11, <2>12 DEF TypeOK, TimelockedMint
<1> QED
  BY <1>1, <1>2, <1>3, <1>4, <1>5 DEF RelayerCall

LEMMA UserTypes ==
    ASSUME TypeOK, NEW u \in Accounts, UserCall(u)
    PROVE  TypeOK'
<1> USE ParameterTypes DEF config, funds, budgets, relaying
<1>1. ASSUME NEW n \in Networks, NEW a \in Assets, NEW amount \in Amounts,
             TransferTo(u, n, a, amount)
      PROVE  TypeOK'
  <2>1. <<u, a>> \in Slots
    BY DEF Slots
  <2>2. Pending(outgoing[<<u, a>>]) \in Nat /\ amount \in Nat
    BY <2>1 DEF TypeOK, Pending, Tx
  <2>3. [amount |-> Pending(outgoing[<<u, a>>]) + amount,
         lock |-> block + timeLockPeriod] \in Tx
    BY <2>2 DEF TypeOK, Tx
  <2>4. outgoing' = [outgoing EXCEPT ![<<u, a>>] =
                       [amount |-> Pending(outgoing[<<u, a>>]) + amount,
                        lock |-> block + timeLockPeriod]]
    BY <1>1 DEF TransferTo, Pending
  <2>5. outgoing' \in [Slots -> Tx \cup {NULL}]
    BY <2>1, <2>3, <2>4 DEF TypeOK
  <2> QED
    BY <1>1, <2>1, <2>2, <2>5 DEF TypeOK, TransferTo
<1>2. ASSUME NEW a \in Assets, NEW to \in Accounts, ClaimStaleTo(u, a, to)
      PROVE  TypeOK'
  <2>1. <<u, a>> \in Slots /\ <<to, a>> \in Slots
    BY DEF Slots
  <2>2. outgoing[<<u, a>>] \in Tx /\ outgoing[<<u, a>>].amount \in Nat
    BY <1>2, <2>1 DEF TypeOK, ClaimStaleTo, Tx
  <2> QED
    BY <1>2, <2>1, <2>2 DEF TypeOK, ClaimStaleTo
<1>3. ASSUME NEW a \in Assets, NEW to \in Accounts, ClaimTo(u, a, to)
      PROVE  TypeOK'
  <2>1. <<u, a>> \in Slots /\ <<to, a>> \in Slots
    BY DEF Slots
  <2>2. incoming[<<u, a>>] \in Tx /\ incoming[<<u, a>>].amount \in Nat
    BY <1>3, <2>1 DEF TypeOK, ClaimTo, Tx
  <2> QED
    BY <1>3, <2>1, <2>2 DEF TypeOK, ClaimTo
<1>4. ASSUME NEW v \in Accounts, NEW a \in Assets, NEW amount \in Donations,
             DonateOut(u, v, a, amount) \/ DonateIn(u, v, a, amount)
      PROVE  TypeOK'
  <2>1. <<u, a>> \in Slots /\ <<v, a>> \in Slots /\ amount \in Nat
    BY DEF Slots
  <2>2. CASE DonateOut(u, v, a, amount)
    BY <2>1, <2>2 DEF TypeOK, DonateOut
  <2>3. CASE DonateIn(u, v, a, amount)
    BY <2>1, <2>3 DEF TypeOK, DonateIn
  <2> QED
    BY <1>4, <2>2, <2>3
<1> QED
  BY <1>1, <1>2, <1>3, <1>4 DEF UserCall

(* Type correctness of the pallet: the saturating and checked arithmetic of *)
(* the code keeps every amount, balance, penalty and lock a natural number. *)
THEOREM TypeCorrect == Spec => []TypeOK
<1>1. Init => TypeOK
  BY ParameterTypes DEF Init, TypeOK
<1>2. TypeOK /\ [Next]_vars => TypeOK'
  <2> SUFFICES ASSUME TypeOK, [Next]_vars PROVE TypeOK'
    OBVIOUS
  <2>1. CASE NewBlock
    BY <2>1 DEF TypeOK, NewBlock, config, funds, budgets, relaying
  <2>2. CASE UNCHANGED vars
    BY <2>2 DEF TypeOK, vars
  <2> QED
    BY <2>1, <2>2, ControlTypes, RelayerTypes, UserTypes DEF Next
<1> QED
  BY <1>1, <1>2, PTL DEF Spec

-----------------------------------------------------------------------------
(* The asset mapping.                                                       *)

(* Only the three cases of update_asset_mapping write the mapping.          *)
LEMMA MappingFramed ==
    ASSUME [Next]_vars
    PROVE  \/ \E a \in Assets, n \in Networks : DeleteMapping(a, n)
           \/ \E a \in Assets, n \in Networks, r \in RemoteAssets : CreateMapping(a, n, r)
           \/ \E a \in Assets, n \in Networks, r \in RemoteAssets : UpdateMapping(a, n, r)
           \/ UNCHANGED <<localToRemote, remoteToLocal>>
<1> USE DEF config, funds, budgets, relaying
<1> DEFINE same == UNCHANGED <<localToRemote, remoteToLocal>>
<1>1. NewBlock => same
  BY DEF NewBlock
<1>2. \A account \in Accounts : SetRelayer(account) => same
  BY DEF SetRelayer
<1>3. \A period \in Periods : SetTimelockDuration(period) => same
  BY DEF SetTimelockDuration
<1>4. \A a \in Assets, amount \in Budgets, f \in Factors : SetBudget(a, amount, f) => same
  BY DEF SetBudget
<1>5. ASSUME NEW c \in Accounts, RelayerCall(c)
      PROVE  same
  <2>1. \A new \in Accounts, ttl \in TTLs : RotateRelayer(c, new, ttl) => same
    BY DEF RotateRelayer
  <2>2. \A n \in Networks, on \in BOOLEAN, size \in TransferSizes :
          SetNetwork(c, n, [enabled |-> on, max_transfer_size |-> size]) => same
    BY DEF SetNetwork
  <2>3. \A n \in Networks, r \in RemoteAssets, u \in Accounts, amount \in Amounts :
          AcceptTransfer(c, u, n, r, amount) \/ RescindTimelockedMint(c, n, r, u, amount)
            => same
    BY DEF AcceptTransfer, RescindTimelockedMint
  <2>4. \A n \in Networks, r \in RemoteAssets, u \in Accounts, amount \in Amounts,
           lock_time \in LockTimes :
          TimelockedMint(c, n, r, u, amount, lock_time) => same
    BY DEF TimelockedMint
  <2> HIDE DEF same
  <2> QED
    BY <1>5, <2>1, <2>2, <2>3, <2>4 DEF RelayerCall
<1>6. ASSUME NEW u \in Accounts, UserCall(u)
      PROVE  same
  BY <1>6 DEF UserCall, TransferTo, ClaimStaleTo, ClaimTo, DonateOut, DonateIn
<1>7. UNCHANGED vars => same
  BY DEF vars
<1> HIDE DEF same
<1> QED
  BY <1>1, <1>2, <1>3, <1>4, <1>5, <1>6, <1>7 DEF Next, ControlCall, same

(* A remote id never resolves to a local asset that is mapped elsewhere:    *)
(* update_asset_mapping keeps the two maps in step for any number of        *)
(* assets, networks and remote ids.                                         *)
THEOREM MappingSound == Spec => []RemoteMappingSound
<1>1. Init => RemoteMappingSound
  BY DEF Init, RemoteMappingSound
<1>2. TypeOK /\ RemoteMappingSound /\ [Next]_vars => RemoteMappingSound'
  <2> SUFFICES ASSUME TypeOK, RemoteMappingSound, [Next]_vars
               PROVE  RemoteMappingSound'
    OBVIOUS
  <2> USE NullIsNoValue
  <2>1. ASSUME NEW a \in Assets, NEW n \in Networks, DeleteMapping(a, n)
        PROVE  RemoteMappingSound'
    BY <2>1 DEF TypeOK, RemoteMappingSound, DeleteMapping
  <2>2. ASSUME NEW a \in Assets, NEW n \in Networks, NEW r \in RemoteAssets,
               CreateMapping(a, n, r)
        PROVE  RemoteMappingSound'
    BY <2>2 DEF TypeOK, RemoteMappingSound, CreateMapping
  <2>3. ASSUME NEW a \in Assets, NEW n \in Networks, NEW r \in RemoteAssets,
               UpdateMapping(a, n, r)
        PROVE  RemoteMappingSound'
    <3> DEFINE old == localToRemote[<<a, n>>]
    <3>1. old \in RemoteAssets
      BY <2>3 DEF TypeOK, UpdateMapping
    <3>2. \A p \in RemoteAssets \X Networks :
             remoteToLocal'[p] = IF p = <<r, n>> THEN a
                                 ELSE IF p = <<old, n>> THEN NULL ELSE remoteToLocal[p]
      BY <2>3, <3>1 DEF TypeOK, UpdateMapping
    <3>3. \A p \in Assets \X Networks :
             localToRemote'[p] = IF p = <<a, n>> THEN r ELSE localToRemote[p]
      BY <2>3 DEF TypeOK, UpdateMapping
    <3> QED
      BY <3>1, <3>2, <3>3 DEF TypeOK, RemoteMappingSound
  <2>4. CASE UNCHANGED <<localToRemote, remoteToLocal>>
    BY <2>4 DEF RemoteMappingSound
  <2> QED
    BY <2>1, <2>2, <2>3, <2>4, MappingFramed
<1> QED
  BY <1>1, <1>2, TypeCorrect, PTL DEF Spec

-----------------------------------------------------------------------------
(* The escrow accounts.                                                     *)

EscrowVars == <<outgoing, incoming, outEscrow, inEscrow, donatedOut, donatedIn>>

(* The calls and steps that leave pending entries and escrows alone.        *)
LEMMA EscrowFramed ==
    \/ NewBlock
    \/ ControlCall
    \/ \E c, new \in Accounts, ttl \in TTLs : RotateRelayer(c, new, ttl)
    \/ \E c \in Accounts, n \in Networks, on \in BOOLEAN, size \in TransferSizes :
          SetNetwork(c, n, [enabled |-> on, max_transfer_size |-> size])
    \/ UNCHANGED vars
    => UNCHANGED EscrowVars
BY DEF NewBlock, ControlCall, SetRelayer, SetTimelockDuration, SetBudget,
       DeleteMapping, CreateMapping, UpdateMapping, MappingFrame, RotateRelayer,
       SetNetwork, vars, EscrowVars, config, funds, budgets, relaying

(* It is enough to look at the one slot a call touches.                     *)
LEMMA OutgoingSlot ==
    ASSUME EscrowBacksPending, NEW slot \in Slots,
           \A s \in Slots \ {slot} : /\ outgoing'[s] = outgoing[s]
                                     /\ outEscrow'[s] = outEscrow[s]
                                     /\ donatedOut'[s] = donatedOut[s],
           Pending(outgoing'[slot]) <= outEscrow'[slot],
           outEscrow'[slot] <= Pending(outgoing'[slot]) + donatedOut'[slot],
           UNCHANGED <<incoming, inEscrow, donatedIn>>
    PROVE  EscrowBacksPending'
BY DEF EscrowBacksPending

LEMMA IncomingSlot ==
    ASSUME EscrowBacksPending, NEW slot \in Slots,
           \A s \in Slots \ {slot} : /\ incoming'[s] = incoming[s]
                                     /\ inEscrow'[s] = inEscrow[s]
                                     /\ donatedIn'[s] = donatedIn[s],
           Pending(incoming'[slot]) <= inEscrow'[slot],
           inEscrow'[slot] <= Pending(incoming'[slot]) + donatedIn'[slot],
           UNCHANGED <<outgoing, outEscrow, donatedOut>>
    PROVE  EscrowBacksPending'
BY DEF EscrowBacksPending

(* What the invariant says of one slot, with the types it needs.            *)
LEMMA SlotFacts ==
    ASSUME TypeOK, EscrowBacksPending, NEW s \in Slots
    PROVE  /\ Pending(outgoing[s]) \in Nat /\ Pending(incoming[s]) \in Nat
           /\ outEscrow[s] \in Nat /\ inEscrow[s] \in Nat
           /\ donatedOut[s] \in Nat /\ donatedIn[s] \in Nat
           /\ Pending(outgoing[s]) <= outEscrow[s]
           /\ outEscrow[s] <= Pending(outgoing[s]) + donatedOut[s]
           /\ Pending(incoming[s]) <= inEscrow[s]
           /\ inEscrow[s] <= Pending(incoming[s]) + donatedIn[s]
<1>1. outgoing[s] \in Tx \cup {NULL} /\ incoming[s] \in Tx \cup {NULL}
  BY DEF TypeOK
<1>2. Pending(outgoing[s]) \in Nat /\ Pending(incoming[s]) \in Nat
  BY <1>1 DEF Pending, Tx
<1> QED
  BY <1>2 DEF TypeOK, EscrowBacksPending

(* The relayer's three money calls keep each escrow in step with its entry. *)
LEMMA EscrowRelayer ==
    ASSUME TypeOK, EscrowBacksPending, NEW c \in Accounts, NEW n \in Networks,
           NEW r \in RemoteAssets, NEW u \in Accounts, NEW amount \in Amounts,
           \/ AcceptTransfer(c, u, n, r, amount)
           \/ RescindTimelockedMint(c, n, r, u, amount)
           \/ \E lock_time \in LockTimes : TimelockedMint(c, n, r, u, amount, lock_time)
    PROVE  EscrowBacksPending'
<1> DEFINE a == remoteToLocal[<<r, n>>]
           slot == <<u, a>>
<1> USE NullIsNoValue DEF config, budgets, relaying
<1>1. amount \in Nat
  BY ParameterTypes
<1>2. slot \in Slots
  BY DEF TypeOK, Slots, AcceptTransfer, RescindTimelockedMint, TimelockedMint
<1>3. CASE AcceptTransfer(c, u, n, r, amount)
  <2>1. /\ outgoing[slot] \in Tx /\ amount <= outgoing[slot].amount
        /\ outgoing' = [outgoing EXCEPT ![slot] = Remainder(outgoing[slot], amount)]
        /\ outEscrow' = [outEscrow EXCEPT ![slot] = @ - amount]
        /\ UNCHANGED <<incoming, inEscrow, donatedOut, donatedIn>>
    BY <1>2, <1>3 DEF AcceptTransfer, TypeOK
  <2>2. Pending(outgoing[slot]) = outgoing[slot].amount /\ outgoing[slot].amount \in Nat
    BY <2>1 DEF Pending, Tx
  <2>3. Pending(Remainder(outgoing[slot], amount)) = Pending(outgoing[slot]) - amount
    BY <1>1, <2>1, <2>2 DEF Pending, Remainder, Tx
  <2> HIDE DEF slot
  <2>4. /\ Pending(outgoing'[slot]) = Pending(outgoing[slot]) - amount
        /\ outEscrow'[slot] = outEscrow[slot] - amount
        /\ \A s \in Slots \ {slot} : outgoing'[s] = outgoing[s]
                                     /\ outEscrow'[s] = outEscrow[s]
    BY <1>2, <2>1, <2>3 DEF TypeOK
  <2>5. /\ Pending(outgoing'[slot]) <= outEscrow'[slot]
        /\ outEscrow'[slot] <= Pending(outgoing'[slot]) + donatedOut'[slot]
    BY <1>1, <1>2, <2>1, <2>4, SlotFacts
  <2> QED
    BY <1>2, <2>1, <2>4, <2>5, OutgoingSlot
<1>4. CASE RescindTimelockedMint(c, n, r, u, amount)
  <2> DEFINE tx == incoming[slot]
             new == IF tx.amount = amount THEN NULL
                    ELSE [tx EXCEPT !.amount = Monus(@, amount)]
  <2>1. /\ tx \in Tx /\ amount <= inEscrow[slot]
        /\ incoming' = [incoming EXCEPT ![slot] = new]
        /\ inEscrow' = [inEscrow EXCEPT ![slot] = @ - amount]
        /\ UNCHANGED <<outgoing, outEscrow, donatedOut, donatedIn>>
    BY <1>2, <1>4 DEF RescindTimelockedMint, TypeOK
  <2>2. Pending(tx) = tx.amount /\ tx.amount \in Nat
    BY <2>1 DEF Pending, Tx
  <2>3. Pending(new) = Monus(Pending(tx), amount)
    <3>1. CASE tx.amount = amount
      BY <1>1, <2>2, <3>1 DEF Pending, Monus
    <3>2. CASE tx.amount # amount
      <4>1. new \in Tx /\ new.amount = Monus(tx.amount, amount)
        BY <1>1, <2>1, <2>2, <3>2, MonusNat DEF Tx
      <4> QED
        BY <2>2, <4>1 DEF Pending
    <3> QED
      BY <3>1, <3>2
  <2> HIDE DEF new, tx
  <2>4. Pending(incoming'[slot]) = Monus(Pending(tx), amount)
        /\ inEscrow'[slot] = inEscrow[slot] - amount
        /\ \A s \in Slots : s # slot => incoming'[s] = incoming[s]
                                        /\ inEscrow'[s] = inEscrow[s]
    BY <1>2, <2>1, <2>3 DEF TypeOK
  <2>5. Pending(tx) <= inEscrow[slot] /\ inEscrow[slot] <= Pending(tx) + donatedIn[slot]
        /\ inEscrow[slot] \in Nat /\ donatedIn[slot] \in Nat
    BY <1>2 DEF EscrowBacksPending, TypeOK, tx
  <2>6. /\ Pending(incoming'[slot]) <= inEscrow'[slot]
        /\ inEscrow'[slot] <= Pending(incoming'[slot]) + donatedIn'[slot]
    BY <1>1, <2>1, <2>2, <2>4, <2>5 DEF Monus
  <2> QED
    BY <2>1, <2>4, <2>6 DEF EscrowBacksPending
<1>5. ASSUME NEW lock_time \in LockTimes, TimelockedMint(c, n, r, u, amount, lock_time)
      PROVE  EscrowBacksPending'
  <2> DEFINE tx == incoming[slot]
             new == [amount |-> CreditedAmount(tx, amount), lock |-> block + lock_time]
  <2>1. /\ inEscrow[slot] + amount <= MaxBalance
        /\ incoming' = [incoming EXCEPT ![slot] = new]
        /\ inEscrow' = [inEscrow EXCEPT ![slot] = @ + amount]
        /\ UNCHANGED <<outgoing, outEscrow, donatedOut, donatedIn>>
    BY <1>5 DEF TimelockedMint, CanDeposit
  <2>2. Pending(tx) <= inEscrow[slot] /\ inEscrow[slot] <= Pending(tx) + donatedIn[slot]
        /\ inEscrow[slot] \in Nat /\ donatedIn[slot] \in Nat /\ tx \in Tx \cup {NULL}
    BY <1>2 DEF EscrowBacksPending, TypeOK
  <2>3. Pending(tx) \in Nat
    BY <2>2 DEF Pending, Tx
  <2>4. CreditedAmount(tx, amount) = Pending(tx) + amount
    BY <1>1, <2>1, <2>2, <2>3, ParameterTypes DEF CreditedAmount, Pending, SaturatingAdd
  <2>5. new \in Tx /\ new.amount = Pending(tx) + amount
    BY <1>1, <2>3, <2>4, ParameterTypes DEF Tx, TypeOK
  <2>6. Pending(new) = Pending(tx) + amount
    BY <2>5 DEF Pending
  <2> HIDE DEF new, tx
  <2>7. Pending(incoming'[slot]) = Pending(tx) + amount
        /\ inEscrow'[slot] = inEscrow[slot] + amount
        /\ \A s \in Slots : s # slot => incoming'[s] = incoming[s]
                                        /\ inEscrow'[s] = inEscrow[s]
    BY <1>2, <2>1, <2>6 DEF TypeOK
  <2>8. /\ Pending(incoming'[slot]) <= inEscrow'[slot]
        /\ inEscrow'[slot] <= Pending(incoming'[slot]) + donatedIn'[slot]
    BY <1>1, <2>1, <2>2, <2>3, <2>7
  <2> QED
    BY <2>1, <2>7, <2>8 DEF EscrowBacksPending
<1> QED
  BY <1>3, <1>4, <1>5

(* The users' calls, and transfers from outside, do too.                    *)
LEMMA EscrowUser ==
    ASSUME TypeOK, EscrowBacksPending, NEW u \in Accounts, UserCall(u)
    PROVE  EscrowBacksPending'
<1> USE NullIsNoValue DEF config, budgets, relaying
<1>1. ASSUME NEW n \in Networks, NEW a \in Assets, NEW amount \in Amounts,
             TransferTo(u, n, a, amount)
      PROVE  EscrowBacksPending'
  <2> DEFINE slot == <<u, a>>
             new == [amount |-> Pending(outgoing[slot]) + amount,
                     lock |-> block + timeLockPeriod]
  <2>1. slot \in Slots /\ amount \in Nat
    BY ParameterTypes DEF Slots
  <2>2. Pending(outgoing[slot]) \in Nat
    BY <2>1 DEF TypeOK, Pending, Tx
  <2>3. /\ outgoing' = [outgoing EXCEPT ![slot] = new]
        /\ outEscrow' = [outEscrow EXCEPT ![slot] = @ + amount]
        /\ UNCHANGED <<incoming, inEscrow, donatedOut, donatedIn>>
    BY <1>1 DEF TransferTo, Pending
  <2>4. new \in Tx /\ new.amount = Pending(outgoing[slot]) + amount
    BY <2>1, <2>2 DEF Tx, TypeOK
  <2>5. Pending(new) = Pending(outgoing[slot]) + amount
    BY <2>4 DEF Pending
  <2> HIDE DEF new, slot
  <2>6. /\ Pending(outgoing'[slot]) = Pending(outgoing[slot]) + amount
        /\ outEscrow'[slot] = outEscrow[slot] + amount
        /\ \A s \in Slots \ {slot} : outgoing'[s] = outgoing[s]
                                     /\ outEscrow'[s] = outEscrow[s]
    BY <2>1, <2>3, <2>5 DEF TypeOK
  <2>7. /\ Pending(outgoing'[slot]) <= outEscrow'[slot]
        /\ outEscrow'[slot] <= Pending(outgoing'[slot]) + donatedOut'[slot]
    BY <2>1, <2>3, <2>6, SlotFacts
  <2> QED
    BY <2>1, <2>3, <2>6, <2>7, OutgoingSlot
<1>2. ASSUME NEW a \in Assets, NEW to \in Accounts, ClaimStaleTo(u, a, to)
      PROVE  EscrowBacksPending'
  <2> DEFINE slot == <<u, a>>
  <2>1. slot \in Slots
    BY DEF Slots
  <2>2. outgoing[slot] \in Tx /\ Pending(outgoing[slot]) = outgoing[slot].amount
        /\ outgoing[slot].amount \in Nat /\ Pending(NULL) = 0
    BY <1>2, <2>1 DEF ClaimStaleTo, TypeOK, Pending, Tx
  <2>3. /\ outgoing' = [outgoing EXCEPT ![slot] = NULL]
        /\ outEscrow' = [outEscrow EXCEPT ![slot] = @ - outgoing[slot].amount]
        /\ UNCHANGED <<incoming, inEscrow, donatedOut, donatedIn>>
    BY <1>2 DEF ClaimStaleTo
  <2> HIDE DEF slot
  <2>4. /\ Pending(outgoing'[slot]) = 0
        /\ outEscrow'[slot] = outEscrow[slot] - Pending(outgoing[slot])
        /\ \A s \in Slots \ {slot} : outgoing'[s] = outgoing[s]
                                     /\ outEscrow'[s] = outEscrow[s]
    BY <2>1, <2>2, <2>3 DEF TypeOK
  <2>5. /\ Pending(outgoing'[slot]) <= outEscrow'[slot]
        /\ outEscrow'[slot] <= Pending(outgoing'[slot]) + donatedOut'[slot]
    BY <2>1, <2>3, <2>4, SlotFacts
  <2> QED
    BY <2>1, <2>3, <2>4, <2>5, OutgoingSlot
<1>3. ASSUME NEW a \in Assets, NEW to \in Accounts, ClaimTo(u, a, to)
      PROVE  EscrowBacksPending'
  <2> DEFINE slot == <<u, a>>
  <2>1. slot \in Slots
    BY DEF Slots
  <2>2. incoming[slot] \in Tx /\ Pending(incoming[slot]) = incoming[slot].amount
        /\ incoming[slot].amount \in Nat /\ Pending(NULL) = 0
    BY <1>3, <2>1 DEF ClaimTo, TypeOK, Pending, Tx
  <2>3. /\ incoming' = [incoming EXCEPT ![slot] = NULL]
        /\ inEscrow' = [inEscrow EXCEPT ![slot] = @ - incoming[slot].amount]
        /\ UNCHANGED <<outgoing, outEscrow, donatedOut, donatedIn>>
    BY <1>3 DEF ClaimTo
  <2> HIDE DEF slot
  <2>4. /\ Pending(incoming'[slot]) = 0
        /\ inEscrow'[slot] = inEscrow[slot] - Pending(incoming[slot])
        /\ \A s \in Slots \ {slot} : incoming'[s] = incoming[s]
                                     /\ inEscrow'[s] = inEscrow[s]
    BY <2>1, <2>2, <2>3 DEF TypeOK
  <2>5. /\ Pending(incoming'[slot]) <= inEscrow'[slot]
        /\ inEscrow'[slot] <= Pending(incoming'[slot]) + donatedIn'[slot]
    BY <2>1, <2>3, <2>4, SlotFacts
  <2> QED
    BY <2>1, <2>3, <2>4, <2>5, IncomingSlot
<1>4. ASSUME NEW v \in Accounts, NEW a \in Assets, NEW amount \in Donations,
             DonateOut(u, v, a, amount) \/ DonateIn(u, v, a, amount)
      PROVE  EscrowBacksPending'
  <2> DEFINE slot == <<v, a>>
  <2>1. slot \in Slots /\ amount \in Nat
    BY ParameterTypes DEF Slots
  <2> HIDE DEF slot
  <2>2. CASE DonateOut(u, v, a, amount)
    <3>1. /\ outEscrow' = [outEscrow EXCEPT ![slot] = @ + amount]
          /\ donatedOut' = [donatedOut EXCEPT ![slot] = @ + amount]
          /\ UNCHANGED <<outgoing, incoming, inEscrow, donatedIn>>
      BY <2>2 DEF DonateOut, slot
    <3>2. /\ outEscrow'[slot] = outEscrow[slot] + amount
          /\ donatedOut'[slot] = donatedOut[slot] + amount
          /\ \A s \in Slots \ {slot} : outEscrow'[s] = outEscrow[s] /\ donatedOut'[s] = donatedOut[s]
      BY <2>1, <3>1 DEF TypeOK
    <3>3. /\ Pending(outgoing'[slot]) <= outEscrow'[slot]
          /\ outEscrow'[slot] <= Pending(outgoing'[slot]) + donatedOut'[slot]
      BY <2>1, <3>1, <3>2, SlotFacts
    <3> QED
      BY <2>1, <3>1, <3>2, <3>3, OutgoingSlot
  <2>3. CASE DonateIn(u, v, a, amount)
    <3>1. /\ inEscrow' = [inEscrow EXCEPT ![slot] = @ + amount]
          /\ donatedIn' = [donatedIn EXCEPT ![slot] = @ + amount]
          /\ UNCHANGED <<outgoing, incoming, outEscrow, donatedOut>>
      BY <2>3 DEF DonateIn, slot
    <3>2. /\ inEscrow'[slot] = inEscrow[slot] + amount
          /\ donatedIn'[slot] = donatedIn[slot] + amount
          /\ \A s \in Slots \ {slot} : inEscrow'[s] = inEscrow[s] /\ donatedIn'[s] = donatedIn[s]
      BY <2>1, <3>1 DEF TypeOK
    <3>3. /\ Pending(incoming'[slot]) <= inEscrow'[slot]
          /\ inEscrow'[slot] <= Pending(incoming'[slot]) + donatedIn'[slot]
      BY <2>1, <3>1, <3>2, SlotFacts
    <3> QED
      BY <2>1, <3>1, <3>2, <3>3, IncomingSlot
  <2> QED
    BY <1>4, <2>2, <2>3
<1> QED
  BY <1>1, <1>2, <1>3, <1>4 DEF UserCall

(* Every escrow account holds what its entry promises and, strangers'       *)
(* gifts aside, nothing else, whatever the users and the relayer do.        *)
THEOREM EscrowSound == Spec => []EscrowBacksPending
<1>1. Init => EscrowBacksPending
  BY DEF Init, EscrowBacksPending, Pending
<1>2. TypeOK /\ EscrowBacksPending /\ [Next]_vars => EscrowBacksPending'
  <2> SUFFICES ASSUME TypeOK, EscrowBacksPending, [Next]_vars
               PROVE  EscrowBacksPending'
    OBVIOUS
  <2>1. CASE UNCHANGED EscrowVars
    BY <2>1 DEF EscrowVars, EscrowBacksPending, Pending
  <2>2. ASSUME NEW c \in Accounts, RelayerCall(c)
        PROVE  EscrowBacksPending'
    BY <2>1, <2>2, EscrowFramed, EscrowRelayer DEF RelayerCall
  <2> QED
    BY <2>1, <2>2, EscrowFramed, EscrowUser DEF Next
<1> QED
  BY <1>1, <1>2, TypeCorrect, PTL DEF Spec

-----------------------------------------------------------------------------
(* The relayer's window on outgoing transfers.                              *)

LEMMA WindowFramed ==
    \/ NewBlock
    \/ \E account \in Accounts : SetRelayer(account)
    \/ \E a \in Assets, amount \in Budgets, f \in Factors : SetBudget(a, amount, f)
    \/ \E a \in Assets, n \in Networks :
          \/ DeleteMapping(a, n)
          \/ \E r \in RemoteAssets : CreateMapping(a, n, r) \/ UpdateMapping(a, n, r)
    \/ UNCHANGED vars
    => UNCHANGED <<timeLockPeriod, outgoing, sentAt>>
BY DEF NewBlock, SetRelayer, SetBudget, DeleteMapping, CreateMapping, UpdateMapping,
       MappingFrame, vars, config, funds, budgets, relaying

LEMMA WindowInv ==
    ASSUME TypeOK, LocksSpanPeriod, [Next]_vars
    PROVE  LocksSpanPeriod'
<1> USE ParameterTypes, NullIsNoValue DEF config, funds, budgets, relaying
<1>1. CASE UNCHANGED <<timeLockPeriod, outgoing, sentAt>>
  BY <1>1 DEF LocksSpanPeriod
<1>2. ASSUME NEW period \in Periods, SetTimelockDuration(period)
      PROVE  LocksSpanPeriod'
  <2>1. timeLockPeriod' > MinimumTimeLockPeriod /\ timeLockPeriod' \in Nat
        /\ UNCHANGED <<outgoing, sentAt>>
    BY <1>2 DEF SetTimelockDuration
  <2>2. timeLockPeriod' >= MinimumTimeLockPeriod
    BY <2>1
  <2> QED
    BY <2>1, <2>2, Zenon DEF LocksSpanPeriod
<1>3. ASSUME NEW c \in Accounts, RelayerCall(c)
      PROVE  LocksSpanPeriod'
  <2>1. ASSUME NEW new \in Accounts, NEW ttl \in TTLs, RotateRelayer(c, new, ttl)
        PROVE  LocksSpanPeriod'
    BY <1>1, <2>1 DEF RotateRelayer
  <2>2. ASSUME NEW n \in Networks, NEW on \in BOOLEAN, NEW size \in TransferSizes,
               SetNetwork(c, n, [enabled |-> on, max_transfer_size |-> size])
        PROVE  LocksSpanPeriod'
    BY <1>1, <2>2 DEF SetNetwork
  <2>3. ASSUME NEW n \in Networks, NEW r \in RemoteAssets, NEW u \in Accounts,
               NEW amount \in Amounts, RescindTimelockedMint(c, n, r, u, amount)
        PROVE  LocksSpanPeriod'
    BY <1>1, <2>3 DEF RescindTimelockedMint
  <2>4. ASSUME NEW n \in Networks, NEW r \in RemoteAssets, NEW u \in Accounts,
               NEW amount \in Amounts, NEW lock_time \in LockTimes,
               TimelockedMint(c, n, r, u, amount, lock_time)
        PROVE  LocksSpanPeriod'
    BY <1>1, <2>4 DEF TimelockedMint
  <2>5. ASSUME NEW n \in Networks, NEW r \in RemoteAssets, NEW u \in Accounts,
               NEW amount \in Amounts, AcceptTransfer(c, u, n, r, amount)
        PROVE  LocksSpanPeriod'
    <3> DEFINE slot == <<u, remoteToLocal[<<r, n>>]>>
    <3>1. slot \in Slots /\ outgoing[slot] # NULL
          /\ outgoing' = [outgoing EXCEPT ![slot] = Remainder(outgoing[slot], amount)]
          /\ UNCHANGED <<timeLockPeriod, sentAt>>
      BY <2>5 DEF AcceptTransfer, TypeOK, Slots
    <3> HIDE DEF slot
    <3>2. outgoing[slot] \in Tx
      BY <3>1 DEF TypeOK
    <3>3. Remainder(outgoing[slot], amount) = NULL
          \/ Remainder(outgoing[slot], amount).lock = outgoing[slot].lock
      BY <3>2 DEF Remainder, Tx
    <3> QED
      BY <3>1, <3>3 DEF LocksSpanPeriod, TypeOK
  <2> QED
    BY <1>3, <2>1, <2>2, <2>3, <2>4, <2>5 DEF RelayerCall
<1>4. ASSUME NEW u \in Accounts, UserCall(u)
      PROVE  LocksSpanPeriod'
  <2>1. ASSUME NEW n \in Networks, NEW a \in Assets, NEW amount \in Amounts,
               TransferTo(u, n, a, amount)
        PROVE  LocksSpanPeriod'
    <3> DEFINE slot == <<u, a>>
               new == [amount |-> Pending(outgoing[slot]) + amount,
                       lock |-> block + timeLockPeriod]
    <3>1. slot \in Slots
          /\ outgoing' = [outgoing EXCEPT ![slot] = new]
          /\ sentAt' = [sentAt EXCEPT ![slot] = block]
          /\ UNCHANGED timeLockPeriod
      BY <2>1 DEF TransferTo, Slots, Pending
    <3>2. new.lock = block + timeLockPeriod
      OBVIOUS
    <3> HIDE DEF new, slot
    <3>3. /\ outgoing'[slot].lock >= sentAt'[slot] + MinimumTimeLockPeriod
          /\ \A s \in Slots \ {slot} : outgoing'[s] = outgoing[s] /\ sentAt'[s] = sentAt[s]
      BY <3>1, <3>2 DEF LocksSpanPeriod, TypeOK
    <3> QED
      BY <3>1, <3>3 DEF LocksSpanPeriod
  <2>2. ASSUME NEW a \in Assets, NEW to \in Accounts, ClaimStaleTo(u, a, to)
        PROVE  LocksSpanPeriod'
    BY <2>2 DEF LocksSpanPeriod, TypeOK, ClaimStaleTo, Slots
  <2>3. ASSUME NEW a \in Assets, NEW to \in Accounts, ClaimTo(u, a, to)
        PROVE  LocksSpanPeriod'
    BY <1>1, <2>3 DEF ClaimTo
  <2>4. ASSUME NEW v \in Accounts, NEW a \in Assets, NEW amount \in Donations,
               DonateOut(u, v, a, amount) \/ DonateIn(u, v, a, amount)
        PROVE  LocksSpanPeriod'
    BY <1>1, <2>4 DEF DonateOut, DonateIn
  <2> QED
    BY <1>4, <2>1, <2>2, <2>3, <2>4 DEF UserCall
<1> QED
  BY <1>1, <1>2, <1>3, <1>4, WindowFramed DEF Next, ControlCall

(* A user takes an outgoing transfer back only after the minimum period     *)
(* since the latest transfer, so the relayer always has that long.          *)
THEOREM WindowKept == Spec => RelayerHasItsWindow
<1>1. Init => LocksSpanPeriod
  BY ParameterTypes DEF Init, LocksSpanPeriod
<1>2. TypeOK /\ LocksSpanPeriod =>
        \A u \in Accounts, a \in Assets, to \in Accounts :
          ClaimStaleTo(u, a, to) => block - sentAt[<<u, a>>] > MinimumTimeLockPeriod
  <2> SUFFICES ASSUME TypeOK, LocksSpanPeriod, NEW u \in Accounts, NEW a \in Assets,
                      NEW to \in Accounts, ClaimStaleTo(u, a, to)
               PROVE  block - sentAt[<<u, a>>] > MinimumTimeLockPeriod
    OBVIOUS
  <2> DEFINE slot == <<u, a>>
  <2>1. slot \in Slots /\ outgoing[slot] # NULL /\ outgoing[slot].lock < block
    BY DEF ClaimStaleTo, LockExpired, Slots
  <2>2. outgoing[slot].lock \in Nat /\ sentAt[slot] \in Nat /\ block \in Nat
    BY <2>1 DEF TypeOK, Tx
  <2> QED
    BY <2>1, <2>2, ParameterTypes DEF LocksSpanPeriod
<1> QED
  BY <1>1, <1>2, WindowInv, TypeCorrect, PTL DEF Spec, RelayerHasItsWindow

-----------------------------------------------------------------------------
(* The handover of the relayer account.                                     *)

LEMMA RelayerFramed ==
    ASSUME [Next]_vars
    PROVE  \/ NewBlock
           \/ \E account \in Accounts : SetRelayer(account)
           \/ \E c, new \in Accounts, ttl \in TTLs : RotateRelayer(c, new, ttl)
           \/ UNCHANGED <<block, relayer, announcedAt>>
<1> USE DEF config, funds, budgets, relaying
<1> DEFINE same == UNCHANGED <<block, relayer, announcedAt>>
<1>1. \A period \in Periods : SetTimelockDuration(period) => same
  BY DEF SetTimelockDuration
<1>2. \A a \in Assets, amount \in Budgets, f \in Factors : SetBudget(a, amount, f) => same
  BY DEF SetBudget
<1>3. \A a \in Assets, n \in Networks : DeleteMapping(a, n) => same
  BY DEF DeleteMapping, MappingFrame
<1>4. \A a \in Assets, n \in Networks, r \in RemoteAssets :
        CreateMapping(a, n, r) \/ UpdateMapping(a, n, r) => same
  BY DEF CreateMapping, UpdateMapping, MappingFrame
<1>5. ASSUME NEW c \in Accounts, RelayerCall(c)
      PROVE  same \/ \E new \in Accounts, ttl \in TTLs : RotateRelayer(c, new, ttl)
  <2>1. \A n \in Networks, on \in BOOLEAN, size \in TransferSizes :
          SetNetwork(c, n, [enabled |-> on, max_transfer_size |-> size]) => same
    BY DEF SetNetwork
  <2>2. \A n \in Networks, r \in RemoteAssets, u \in Accounts, amount \in Amounts :
          AcceptTransfer(c, u, n, r, amount) \/ RescindTimelockedMint(c, n, r, u, amount)
            => same
    BY DEF AcceptTransfer, RescindTimelockedMint
  <2>3. \A n \in Networks, r \in RemoteAssets, u \in Accounts, amount \in Amounts,
           lock_time \in LockTimes :
          TimelockedMint(c, n, r, u, amount, lock_time) => same
    BY DEF TimelockedMint
  <2> HIDE DEF same
  <2> QED
    BY <1>5, <2>1, <2>2, <2>3 DEF RelayerCall
<1>6. ASSUME NEW u \in Accounts, UserCall(u)
      PROVE  same
  BY <1>6 DEF UserCall, TransferTo, ClaimStaleTo, ClaimTo, DonateOut, DonateIn
<1>7. UNCHANGED vars => same
  BY DEF vars
<1> HIDE DEF same
<1> QED
  BY <1>1, <1>2, <1>3, <1>4, <1>5, <1>6, <1>7 DEF Next, ControlCall, same

(* What rotate_relayer writes: the effective relayer now, the new successor *)
(* at a block past the minimum notice.                                      *)
LEMMA RotationWrites ==
    ASSUME TypeOK, NEW c \in Accounts, NEW new \in Accounts, NEW ttl \in TTLs,
           RotateRelayer(c, new, ttl)
    PROVE  /\ relayer' = [current |-> Rejig(relayer, block).current,
                          next |-> [ttl |-> block + ttl, account |-> new]]
           /\ relayer # NULL /\ relayer'.next.ttl = block + ttl
           /\ ttl > MinimumTTL /\ ttl \in Nat
           /\ announcedAt' = block /\ block' = block
<1>1. relayer \in RelayerConfig /\ block \in Nat /\ ttl \in Nat
  BY ParameterTypes DEF TypeOK, RotateRelayer, EnsureRelayer
<1>2. Rejig(relayer, block) \in RelayerConfig
  BY <1>1, RejigType
<1> QED
  BY <1>1, <1>2, NullIsNoValue DEF RotateRelayer, RelayerConfig

LEMMA AnnouncementInv ==
    ASSUME TypeOK, SuccessorAnnounced, [Next]_vars
    PROVE  SuccessorAnnounced'
<1>1. CASE UNCHANGED <<relayer, announcedAt>>
  BY <1>1 DEF SuccessorAnnounced
<1>2. CASE NewBlock
  BY <1>1, <1>2 DEF NewBlock, relaying
<1>3. CASE \E account \in Accounts : SetRelayer(account)
  BY <1>3 DEF SetRelayer, SuccessorAnnounced
<1>4. ASSUME NEW c \in Accounts, NEW new \in Accounts, NEW ttl \in TTLs,
             RotateRelayer(c, new, ttl)
      PROVE  SuccessorAnnounced'
  BY <1>4, RotationWrites, ParameterTypes DEF TypeOK, SuccessorAnnounced
<1> QED
  BY <1>1, <1>2, <1>3, <1>4, RelayerFramed

(* The relayer account changes hands only by the control origin's word or   *)
(* in the block that the relayer itself announced in time.                  *)
THEOREM HandoverSound == Spec => HandoverAnnounced
<1> USE ParameterTypes, NullIsNoValue
<1>1. Init => SuccessorAnnounced
  BY DEF Init, SuccessorAnnounced
<1>2. TypeOK /\ SuccessorAnnounced /\ [Next]_vars =>
        [EffectiveRelayer' # EffectiveRelayer =>
          \/ \E account \in Accounts : SetRelayer(account)
          \/ /\ NewBlock
             /\ relayer.next # NULL
             /\ relayer.next.ttl = block'
             /\ EffectiveRelayer' = relayer.next.account
             /\ block' - announcedAt > MinimumTTL]_vars
  <2> SUFFICES ASSUME TypeOK, SuccessorAnnounced, [Next]_vars,
                      EffectiveRelayer' # EffectiveRelayer,
                      ~ \E account \in Accounts : SetRelayer(account)
               PROVE  /\ NewBlock
                      /\ relayer.next # NULL
                      /\ relayer.next.ttl = block'
                      /\ EffectiveRelayer' = relayer.next.account
                      /\ block' - announcedAt > MinimumTTL
    OBVIOUS
  <2>1. CASE UNCHANGED <<block, relayer, announcedAt>>
    BY <2>1 DEF EffectiveRelayer, Rejig
  <2>2. ASSUME NEW c \in Accounts, NEW new \in Accounts, NEW ttl \in TTLs,
               RotateRelayer(c, new, ttl)
        PROVE  FALSE
    <3>1. relayer' # NULL /\ EffectiveRelayer = Rejig(relayer, block).current
      <4>1. relayer' # NULL
        BY <2>2, RelayerTypeInv
      <4>2. relayer # NULL
        BY <2>2, RotationWrites
      <4> QED
        BY <4>1, <4>2 DEF EffectiveRelayer
    <3>2. Rejig(relayer', block').current = Rejig(relayer, block).current
      BY <2>2, RotationWrites DEF TypeOK, Rejig
    <3>3. EffectiveRelayer' = Rejig(relayer', block').current
      BY <3>1 DEF EffectiveRelayer, Rejig
    <3> QED
      BY <3>1, <3>2, <3>3
  <2>3. CASE NewBlock
    <3>1. /\ block' = block + 1 /\ block \in Nat /\ announcedAt \in Nat
          /\ relayer' = relayer
      BY <2>3 DEF NewBlock, relaying, TypeOK
    <3>2. relayer # NULL
      BY <3>1 DEF EffectiveRelayer
    <3>3. relayer \in RelayerConfig
      BY <3>2 DEF TypeOK
    <3>4. relayer.next # NULL => relayer.next.ttl \in Nat
      BY <3>3 DEF RelayerConfig, Schedule
    <3>5. EffectiveRelayer = Rejig(relayer, block).current
          /\ EffectiveRelayer' = Rejig(relayer, block + 1).current
      BY <3>1, <3>2 DEF EffectiveRelayer, Rejig
    <3>6. relayer.next # NULL /\ relayer.next.ttl <= block + 1 /\ ~(relayer.next.ttl <= block)
      BY <3>1, <3>4, <3>5 DEF Rejig
    <3>7. EffectiveRelayer' = relayer.next.account
      BY <3>5, <3>6 DEF Rejig
    <3> QED
      BY <2>3, <3>1, <3>2, <3>4, <3>6, <3>7 DEF SuccessorAnnounced
  <2> QED
    BY <2>1, <2>2, <2>3, RelayerFramed
<1> QED
  BY <1>1, <1>2, AnnouncementInv, TypeCorrect, PTL DEF Spec, HandoverAnnounced

-----------------------------------------------------------------------------
(* The mint budget.                                                         *)

LEMMA BudgetFramed ==
    ASSUME [Next]_vars
    PROVE  \/ NewBlock
           \/ \E a \in Assets, amount \in Budgets, f \in Factors : SetBudget(a, amount, f)
           \/ \E c \in Accounts, n \in Networks, r \in RemoteAssets, u \in Accounts,
                 amount \in Amounts, lock_time \in LockTimes :
                 TimelockedMint(c, n, r, u, amount, lock_time)
           \/ UNCHANGED <<block, assetsInfo, window>>
<1> USE DEF config, funds, budgets, relaying
<1> DEFINE same == UNCHANGED <<block, assetsInfo, window>>
           mint(c) == \E n \in Networks, r \in RemoteAssets, u \in Accounts,
                         amount \in Amounts, lock_time \in LockTimes :
                           TimelockedMint(c, n, r, u, amount, lock_time)
<1>1. \A account \in Accounts : SetRelayer(account) => same
  BY DEF SetRelayer
<1>2. \A period \in Periods : SetTimelockDuration(period) => same
  BY DEF SetTimelockDuration
<1>3. \A a \in Assets, n \in Networks : DeleteMapping(a, n) => same
  BY DEF DeleteMapping, MappingFrame
<1>4. \A a \in Assets, n \in Networks, r \in RemoteAssets :
        CreateMapping(a, n, r) \/ UpdateMapping(a, n, r) => same
  BY DEF CreateMapping, UpdateMapping, MappingFrame
<1>5. ASSUME NEW c \in Accounts, RelayerCall(c)
      PROVE  same \/ mint(c)
  <2>1. \A n \in Networks, on \in BOOLEAN, size \in TransferSizes :
          SetNetwork(c, n, [enabled |-> on, max_transfer_size |-> size]) => same
    BY DEF SetNetwork
  <2>2. \A n \in Networks, r \in RemoteAssets, u \in Accounts, amount \in Amounts :
          AcceptTransfer(c, u, n, r, amount) \/ RescindTimelockedMint(c, n, r, u, amount)
            => same
    BY DEF AcceptTransfer, RescindTimelockedMint
  <2>3. \A new \in Accounts, ttl \in TTLs : RotateRelayer(c, new, ttl) => same
    BY DEF RotateRelayer
  <2> HIDE DEF same
  <2> QED
    BY <1>5, <2>1, <2>2, <2>3 DEF RelayerCall
<1>6. ASSUME NEW u \in Accounts, UserCall(u)
      PROVE  same
  BY <1>6 DEF UserCall, TransferTo, ClaimStaleTo, ClaimTo, DonateOut, DonateIn
<1>7. UNCHANGED vars => same
  BY DEF vars
<1> HIDE DEF same
<1> QED
  BY <1>1, <1>2, <1>3, <1>4, <1>5, <1>6, <1>7 DEF Next, ControlCall, same

(* The arithmetic of one mint: m minted and p0 penalty at the window's      *)
(* start, penalty p decayed to d over e blocks, then an amount minted.      *)
LEMMA MintArithmetic ==
    ASSUME NEW m \in Nat, NEW p0 \in Nat, NEW p \in Nat, NEW d \in Nat, NEW f \in Nat,
           NEW s \in Nat, NEW l \in Nat, NEW b \in Nat, NEW x \in Nat,
           s <= l, l <= b,
           m + p0 <= p + f * (l - s),
           p <= d + f * (b - l)
    PROVE  m + x + p0 <= d + x + f * (b - s)
<1>1. f * (b - s) = f * (b - l) + f * (l - s)
  OBVIOUS
<1>2. f * (l - s) \in Int /\ f * (b - l) \in Int /\ f * (b - s) \in Int
  OBVIOUS
<1> DEFINE q == f * (l - s)
           t == f * (b - l)
           v == f * (b - s)
<1>3. q \in Int /\ t \in Int /\ v = t + q /\ m + p0 <= p + q /\ p <= d + t
  BY <1>1, <1>2
<1> HIDE DEF q, t, v
<1>4. m + x + p0 <= d + x + v
  BY <1>3
<1> QED
  BY <1>4 DEF v

LEMMA PenaltyInv ==
    ASSUME TypeOK, PenaltyCoversMints, [Next]_vars
    PROVE  PenaltyCoversMints'
<1> USE ParameterTypes, NullIsNoValue
<1>1. CASE UNCHANGED <<block, assetsInfo, window>>
  BY <1>1 DEF PenaltyCoversMints, PenaltyAccounts
<1>2. CASE NewBlock
  <2>1. block' = block + 1 /\ UNCHANGED <<assetsInfo, window>>
    BY <1>2 DEF NewBlock, budgets
  <2> SUFFICES ASSUME NEW a \in Assets, assetsInfo[a] # NULL
               PROVE  PenaltyAccounts(assetsInfo[a], window[a])'
    BY <2>1 DEF PenaltyCoversMints
  <2>2. PenaltyAccounts(assetsInfo[a], window[a])
    BY DEF PenaltyCoversMints
  <2>3. assetsInfo[a].last_mint_block \in Nat /\ block \in Nat
    BY DEF TypeOK, AssetInfo
  <2>4. assetsInfo[a].last_mint_block <= block + 1
    BY <2>2, <2>3 DEF PenaltyAccounts
  <2> QED
    BY <2>1, <2>2, <2>4, Zenon DEF PenaltyAccounts
<1>3. ASSUME NEW a \in Assets, NEW amount \in Budgets, NEW f \in Factors,
             SetBudget(a, amount, f)
      PROVE  PenaltyCoversMints'
  <2> DEFINE new == BudgetedInfo(assetsInfo[a], amount, f)
             w == [minted |-> 0, penalty |-> new.penalty, since |-> new.last_mint_block]
  <2>1. /\ assetsInfo' = [assetsInfo EXCEPT ![a] = new]
        /\ window' = [window EXCEPT ![a] = w]
        /\ block' = block
    BY <1>3 DEF SetBudget
  <2>2. amount \in Nat /\ f \in Nat /\ amount <= MaxBalance /\ block \in Nat
    BY DEF TypeOK
  <2>3. /\ new.budget = amount /\ new.factor = f
        /\ new.penalty \in Nat /\ new.penalty <= MaxBalance
        /\ new.last_mint_block \in Nat /\ new.last_mint_block <= block
    <3>1. CASE assetsInfo[a] = NULL
      BY <2>2, <3>1 DEF BudgetedInfo
    <3>2. CASE assetsInfo[a] # NULL
      <4>1. assetsInfo[a] \in AssetInfo /\ PenaltyAccounts(assetsInfo[a], window[a])
        BY <3>2 DEF TypeOK, PenaltyCoversMints
      <4> QED
        BY <3>2, <4>1 DEF BudgetedInfo, AssetInfo, PenaltyAccounts
    <3> QED
      BY <3>1, <3>2
  <2>4. w.minted = 0 /\ w.penalty = new.penalty /\ w.since = new.last_mint_block
    OBVIOUS
  <2>5. PenaltyAccounts(new, w)
    <3> HIDE DEF new, w
    <3>1. new.factor * (new.last_mint_block - w.since) = 0
      BY <2>2, <2>3, <2>4
    <3> QED
      BY <2>2, <2>3, <2>4, <3>1 DEF PenaltyAccounts
  <2> HIDE DEF new, w
  <2>6. \A x \in Assets \ {a} : assetsInfo'[x] = assetsInfo[x] /\ window'[x] = window[x]
    BY <2>1 DEF TypeOK
  <2>7. assetsInfo'[a] = new /\ window'[a] = w
    BY <2>1 DEF TypeOK
  <2> QED
    BY <2>1, <2>5, <2>6, <2>7 DEF PenaltyCoversMints, PenaltyAccounts
<1>4. ASSUME NEW c \in Accounts, NEW n \in Networks, NEW r \in RemoteAssets,
             NEW u \in Accounts, NEW amount \in Amounts, NEW lock_time \in LockTimes,
             TimelockedMint(c, n, r, u, amount, lock_time)
      PROVE  PenaltyCoversMints'
  <2> DEFINE a == remoteToLocal[<<r, n>>]
             info == assetsInfo[a]
             w == window[a]
             d == Decayed(info, block)
             sum == SaturatingAdd(d, amount)
             new == [info EXCEPT !.last_mint_block = block, !.penalty = sum]
             neww == [w EXCEPT !.minted = @ + amount]
  <2>1. a \in Assets /\ info # NULL /\ amount <= Monus(info.budget, d)
        /\ assetsInfo' = [assetsInfo EXCEPT ![a] = new]
        /\ window' = [window EXCEPT ![a].minted = @ + amount]
        /\ block' = block /\ amount \in Nat /\ amount <= MaxBalance
    BY <1>4 DEF TimelockedMint, TypeOK
  <2> HIDE DEF a
  <2>2. /\ info \in AssetInfo /\ PenaltyAccounts(info, w) /\ block \in Nat
        /\ w \in [minted : Nat, penalty : Nat, since : Nat]
    BY <2>1 DEF TypeOK, PenaltyCoversMints
  <2> HIDE DEF info, w
  <2>3. /\ info.budget \in Nat /\ info.penalty \in Nat /\ info.factor \in Nat
        /\ info.last_mint_block \in Nat
        /\ w.minted \in Nat /\ w.penalty \in Nat /\ w.since \in Nat
    BY <2>2 DEF AssetInfo
  <2>4. /\ d \in Nat /\ d <= info.penalty
        /\ info.penalty <= d + info.factor * (block - info.last_mint_block)
    BY <2>2, DecayedBounds DEF PenaltyAccounts
  <2> HIDE DEF d
  <2>5. sum = d + amount /\ sum \in Nat /\ sum <= MaxBalance
        /\ (sum <= info.budget \/ sum <= w.penalty)
    BY <2>1, <2>2, <2>3, <2>4, SaturatingAddNat DEF PenaltyAccounts, Monus
  <2> HIDE DEF sum
  <2>6. /\ new.last_mint_block = block /\ new.penalty = sum
        /\ new.budget = info.budget /\ new.factor = info.factor
        /\ neww.minted = w.minted + amount /\ neww.penalty = w.penalty
        /\ neww.since = w.since
    BY <2>2 DEF AssetInfo
  <2> HIDE DEF new, neww
  <2>7. w.minted + amount + w.penalty
          <= d + amount + info.factor * (block - w.since)
    <3>1. w.since <= info.last_mint_block /\ info.last_mint_block <= block
          /\ w.minted + w.penalty
                <= info.penalty + info.factor * (info.last_mint_block - w.since)
      BY <2>2 DEF PenaltyAccounts
    <3> QED
      BY <2>1, <2>2, <2>3, <2>4, <3>1, MintArithmetic
  <2>8. PenaltyAccounts(new, neww)
    <3>1. neww.minted + neww.penalty
            <= new.penalty + new.factor * (new.last_mint_block - neww.since)
      <4>1. neww.minted + neww.penalty = w.minted + amount + w.penalty
            /\ new.penalty = d + amount
            /\ new.factor * (new.last_mint_block - neww.since)
                 = info.factor * (block - w.since)
        BY <2>1, <2>3, <2>5, <2>6
      <4> QED
        BY <2>7, <4>1, Zenon
    <3>2. /\ new.budget <= MaxBalance /\ new.penalty <= MaxBalance
          /\ neww.since <= new.last_mint_block /\ new.last_mint_block <= block
          /\ new.penalty <= new.budget \/ new.penalty <= neww.penalty
      BY <2>2, <2>3, <2>5, <2>6 DEF PenaltyAccounts
    <3> QED
      BY <3>1, <3>2 DEF PenaltyAccounts
  <2>9. \A x \in Assets \ {a} : assetsInfo'[x] = assetsInfo[x] /\ window'[x] = window[x]
    BY <2>1 DEF TypeOK
  <2>10. assetsInfo'[a] = new /\ window'[a] = neww
    BY <2>1 DEF TypeOK, neww, w
  <2> QED
    BY <2>1, <2>8, <2>9, <2>10 DEF PenaltyCoversMints, PenaltyAccounts
<1> QED
  BY <1>1, <1>2, <1>3, <1>4, BudgetFramed

(* The relayer cannot mint past the budget and its decay, in any number of  *)
(* mints, for any budget and factor.                                        *)
THEOREM MintLimited == Spec => []MintRateLimited
<1>1. Init => PenaltyCoversMints
  BY DEF Init, PenaltyCoversMints
<1>2. TypeOK /\ PenaltyCoversMints => MintRateLimited
  <2> SUFFICES ASSUME TypeOK, PenaltyCoversMints, NEW a \in Assets, assetsInfo[a] # NULL
               PROVE  window[a].minted
                        <= Monus(assetsInfo[a].budget, window[a].penalty)
                           + assetsInfo[a].factor
                               * (assetsInfo[a].last_mint_block - window[a].since)
    BY DEF MintRateLimited
  <2> DEFINE info == assetsInfo[a]
             w == window[a]
             decay == info.factor * (info.last_mint_block - w.since)
  <2>1. /\ info.budget \in Nat /\ info.penalty \in Nat /\ info.factor \in Nat
        /\ info.last_mint_block \in Nat
        /\ w.minted \in Nat /\ w.penalty \in Nat /\ w.since \in Nat
    BY DEF TypeOK, AssetInfo
  <2>2. PenaltyAccounts(info, w)
    BY DEF PenaltyCoversMints
  <2> HIDE DEF info, w
  <2>3. decay \in Int
    BY <2>1
  <2>4. w.minted + w.penalty <= info.penalty + decay
        /\ (info.penalty <= info.budget \/ info.penalty <= w.penalty)
    BY <2>2 DEF PenaltyAccounts
  <2> HIDE DEF decay
  <2>5. w.minted <= Monus(info.budget, w.penalty) + decay
    BY <2>1, <2>3, <2>4 DEF Monus
  <2> QED
    BY <2>5 DEF decay, info, w
<1> QED
  BY <1>1, <1>2, PenaltyInv, TypeCorrect, PTL DEF Spec
=============================================================================
