------------------------------- MODULE Mosaic -------------------------------
(***************************************************************************)
(* The Mosaic bridge pallet (frame/mosaic): users lock funds for a relayer *)
(* to carry to another network, the relayer mints funds that came from     *)
(* there, and both kinds of funds wait in per-user escrow accounts behind  *)
(* a time lock.                                                            *)
(*                                                                         *)
(* An extrinsic either takes effect or leaves the state alone: the calls   *)
(* that write before their last check are #[transactional], the others     *)
(* check first.  A refused call is therefore a stuttering step, and each   *)
(* action below is the accepted call, guarded by all the code's checks.    *)
(*                                                                         *)
(* Left out: events, weights, the event identifier and its nonce, and the  *)
(* existential deposit (zero for every token of the runtime but the native *)
(* one, so keep_alive has no effect).                                      *)
(***************************************************************************)
EXTENDS Integers, FiniteSetsExt

CONSTANTS
    Accounts,               \* users and relayers
    Assets,                 \* local asset ids
    Networks,               \* NetworkId
    RemoteAssets,           \* RemoteAssetId
    NULL,                   \* Rust's None
    MinimumTTL,             \* Config::MinimumTTL
    MinimumTimeLockPeriod,  \* Config::MinimumTimeLockPeriod
    MaxBalance,             \* Balance::MAX (u128 in the runtime)
    MaxBlock,               \* bound: the last block produced
    InitialBalance,         \* each user's wallet at genesis
    Amounts,                \* inputs: amounts moved, minted, burned
    Donations,              \* inputs: amounts sent straight to an escrow
    TTLs,                   \* inputs: ttl of rotate_relayer
    LockTimes,              \* inputs: lock_time of timelocked_mint
    Periods,                \* inputs: period of set_timelock_duration
    Budgets,                \* inputs: amount of set_budget
    Factors,                \* inputs: factor of the linear decayer
    TransferSizes           \* inputs: max_transfer_size of set_network

Slots == Accounts \X Assets          \* keys of the transaction maps
Tx == [amount : Nat, lock : Nat]     \* (Balance, BlockNumber)
Schedule == [ttl : Nat, account : Accounts]
RelayerConfig == [current : Accounts, next : Schedule \cup {NULL}]
AssetInfo == [last_mint_block : Nat, budget : Nat, penalty : Nat, factor : Nat]
NetworkInfo == [enabled : BOOLEAN, max_transfer_size : Nat]

ASSUME ParameterTypes ==
    /\ MinimumTTL \in Nat /\ MinimumTimeLockPeriod \in Nat
    /\ MaxBalance \in Nat /\ MaxBlock \in Nat
    /\ InitialBalance \in 0..MaxBalance
    /\ Amounts \subseteq 0..MaxBalance /\ Donations \subseteq 0..MaxBalance
    /\ TTLs \subseteq Nat /\ LockTimes \subseteq Nat /\ Periods \subseteq Nat
    /\ Budgets \subseteq 0..MaxBalance /\ Factors \subseteq 0..MaxBalance
    /\ TransferSizes \subseteq 0..MaxBalance

ASSUME NullIsNoValue ==
    /\ NULL \notin Tx /\ NULL \notin Schedule /\ NULL \notin RelayerConfig
    /\ NULL \notin AssetInfo /\ NULL \notin NetworkInfo
    /\ NULL \notin Assets /\ NULL \notin RemoteAssets /\ NULL \notin Accounts

VARIABLES
    block,              \* frame_system's block number
    relayer,            \* Relayer
    assetsInfo,         \* AssetsInfo
    networkInfos,       \* NetworkInfos
    timeLockPeriod,     \* TimeLockPeriod
    outgoing,           \* OutgoingTransactions
    incoming,           \* IncomingTransactions
    localToRemote,      \* LocalToRemoteAsset
    remoteToLocal,      \* RemoteToLocalAsset
    wallet,             \* T::Assets: the users' own balances
    outEscrow,          \* T::Assets: balances of the outgoing sub-accounts
    inEscrow,           \* T::Assets: balances of the incoming sub-accounts
    \* History variables: no guard reads them.
    donatedOut,         \* ever sent straight to an outgoing sub-account
    donatedIn,          \* ever sent straight to an incoming sub-account
    sentAt,             \* block of the last transfer_to of a slot
    promised,           \* latest unlock block promised to a mint still pending
    window,             \* per asset: minted since the last set_budget, and
                        \* penalty and last_mint_block at that call
    announcedAt         \* block of the last rotate_relayer

config == <<networkInfos, timeLockPeriod, localToRemote, remoteToLocal>>
funds == <<outgoing, incoming, wallet, outEscrow, inEscrow, donatedOut,
           donatedIn, sentAt, promised>>
budgets == <<assetsInfo, window>>
relaying == <<relayer, announcedAt>>
vars == <<block, relayer, assetsInfo, networkInfos, timeLockPeriod, outgoing,
          incoming, localToRemote, remoteToLocal, wallet, outEscrow, inEscrow,
          donatedOut, donatedIn, sentAt, promised, window, announcedAt>>

-----------------------------------------------------------------------------
(* Arithmetic of the runtime's Balance and BlockNumber.  Definitions        *)
(* commented as mutants are plausible wrong versions of the one that        *)
(* follows; they are used only to see that a property notices them.         *)

WrappingSub(x, y) == x - y                \* mutant: not saturating

Monus(x, y) == IF x > y THEN x - y ELSE 0
SaturatingAdd(x, y) == IF x + y > MaxBalance THEN MaxBalance ELSE x + y

(* The currency behind T::Assets.  can_deposit refuses an amount that       *)
(* would overflow the account or the total issuance.                        *)
Issuance(a) ==
    MapThenSumSet(LAMBDA u : wallet[<<u, a>>] + outEscrow[<<u, a>>]
                                + inEscrow[<<u, a>>], Accounts)
CanDeposit(balance, a, amount) ==
    /\ balance + amount <= MaxBalance
    /\ Issuance(a) + amount <= MaxBalance

-----------------------------------------------------------------------------
(* Relayer rotation: a scheduled successor takes over, lazily, once the     *)
(* block number has reached its ttl.                                        *)

Rejig(config_, now) ==
    IF config_.next # NULL /\ config_.next.ttl <= now
    THEN [current |-> config_.next.account, next |-> NULL]
    ELSE config_

EffectiveRelayer ==
    IF relayer = NULL THEN NULL ELSE Rejig(relayer, block).current

EnsureRelayer(caller) == relayer # NULL /\ caller = Rejig(relayer, block).current

SetRelayer(account) ==
    /\ relayer' = [current |-> account, next |-> NULL]
    /\ UNCHANGED <<block, announcedAt, config, funds, budgets>>

RotateStaleRelayer(caller, new, ttl) ==   \* mutant: stores over the raw config
    /\ ttl > MinimumTTL
    /\ EnsureRelayer(caller)
    /\ relayer' = [relayer EXCEPT !.next = [ttl |-> block + ttl, account |-> new]]
    /\ announcedAt' = block
    /\ UNCHANGED <<block, config, funds, budgets>>

RotateRelayer(caller, new, ttl) ==
    /\ ttl > MinimumTTL
    /\ EnsureRelayer(caller)
    /\ relayer' = [Rejig(relayer, block) EXCEPT
                      !.next = [ttl |-> block + ttl, account |-> new]]
    /\ announcedAt' = block
    /\ UNCHANGED <<block, config, funds, budgets>>

-----------------------------------------------------------------------------
(* Configuration of networks, time lock and asset mappings.                 *)

SetNetwork(caller, n, info) ==
    /\ EnsureRelayer(caller)
    /\ networkInfos' = [networkInfos EXCEPT ![n] = info]
    /\ UNCHANGED <<block, timeLockPeriod, localToRemote, remoteToLocal,
                   relaying, funds, budgets>>

SetAnyTimelockDuration(period) ==         \* mutant: no minimum
    /\ timeLockPeriod' = period
    /\ UNCHANGED <<block, networkInfos, localToRemote, remoteToLocal,
                   relaying, funds, budgets>>

SetTimelockDuration(period) ==
    /\ period > MinimumTimeLockPeriod
    /\ timeLockPeriod' = period
    /\ UNCHANGED <<block, networkInfos, localToRemote, remoteToLocal,
                   relaying, funds, budgets>>

MappingFrame(n) ==
    /\ networkInfos[n] # NULL
    /\ UNCHANGED <<block, networkInfos, timeLockPeriod, relaying, funds, budgets>>

(* update_asset_mapping, by whether an entry exists and one is asked for.   *)
(* Removing an entry that does not exist changes nothing.                   *)
CreateMapping(a, n, r) ==
    /\ MappingFrame(n)
    /\ localToRemote[<<a, n>>] = NULL
    /\ localToRemote' = [localToRemote EXCEPT ![<<a, n>>] = r]
    /\ remoteToLocal' = [remoteToLocal EXCEPT ![<<r, n>>] = a]

DeleteMapping(a, n) ==
    /\ MappingFrame(n)
    /\ localToRemote[<<a, n>>] # NULL
    /\ localToRemote' = [localToRemote EXCEPT ![<<a, n>>] = NULL]
    /\ remoteToLocal' = [remoteToLocal EXCEPT ![<<localToRemote[<<a, n>>], n>>] = NULL]

UpdateKeepingOld(a, n, r) ==              \* mutant: the old reverse entry stays
    /\ MappingFrame(n)
    /\ localToRemote[<<a, n>>] # NULL
    /\ localToRemote' = [localToRemote EXCEPT ![<<a, n>>] = r]
    /\ remoteToLocal' = [remoteToLocal EXCEPT ![<<r, n>>] = a]

UpdateMapping(a, n, r) ==
    /\ MappingFrame(n)
    /\ localToRemote[<<a, n>>] # NULL
    /\ localToRemote' = [localToRemote EXCEPT ![<<a, n>>] = r]
    /\ remoteToLocal' = [remoteToLocal EXCEPT
                            ![<<localToRemote[<<a, n>>], n>>] = NULL,
                            ![<<r, n>>] = a]

-----------------------------------------------------------------------------
(* Outgoing transfers.                                                      *)

TransferTo(u, n, a, amount) ==
    LET slot == <<u, a>>
        held == IF outgoing[slot] = NULL THEN 0 ELSE outgoing[slot].amount
    IN  /\ assetsInfo[a] # NULL
        /\ localToRemote[<<a, n>>] # NULL
        /\ networkInfos[n] # NULL
        /\ networkInfos[n].enabled
        /\ networkInfos[n].max_transfer_size >= amount
        /\ wallet[slot] >= amount
        /\ outEscrow[slot] + amount <= MaxBalance
        /\ held + amount <= MaxBalance
        /\ wallet' = [wallet EXCEPT ![slot] = @ - amount]
        /\ outEscrow' = [outEscrow EXCEPT ![slot] = @ + amount]
        /\ outgoing' = [outgoing EXCEPT ![slot] =
                          [amount |-> held + amount, lock |-> block + timeLockPeriod]]
        /\ sentAt' = [sentAt EXCEPT ![slot] = block]
        /\ UNCHANGED <<block, incoming, inEscrow, donatedOut, donatedIn,
                       promised, config, budgets, relaying>>

RemainderWipingEntry(tx, amount) == NULL  \* mutant: partial accept drops the rest

Remainder(tx, amount) ==
    IF amount = tx.amount THEN NULL ELSE [tx EXCEPT !.amount = @ - amount]

AcceptTransfer(caller, from, n, r, amount) ==
    LET a == remoteToLocal[<<r, n>>]
        slot == <<from, a>>
    IN  /\ EnsureRelayer(caller)
        /\ a # NULL
        /\ outgoing[slot] # NULL
        /\ amount <= outgoing[slot].amount
        /\ amount <= outEscrow[slot]
        /\ outEscrow' = [outEscrow EXCEPT ![slot] = @ - amount]
        /\ outgoing' = [outgoing EXCEPT ![slot] = Remainder(outgoing[slot], amount)]
        /\ UNCHANGED <<block, incoming, wallet, inEscrow, donatedOut, donatedIn,
                       sentAt, promised, config, budgets, relaying>>

NeverExpired(tx, now) == tx.lock > now    \* mutant: comparison reversed

LockExpired(tx, now) == tx.lock < now

ClaimStaleTo(u, a, to) ==
    LET slot == <<u, a>>
    IN  /\ outgoing[slot] # NULL
        /\ LockExpired(outgoing[slot], block)
        /\ outgoing[slot].amount <= outEscrow[slot]
        /\ wallet[<<to, a>>] + outgoing[slot].amount <= MaxBalance
        /\ outEscrow' = [outEscrow EXCEPT ![slot] = @ - outgoing[slot].amount]
        /\ wallet' = [wallet EXCEPT ![<<to, a>>] = @ + outgoing[slot].amount]
        /\ outgoing' = [outgoing EXCEPT ![slot] = NULL]
        /\ UNCHANGED <<block, incoming, inEscrow, donatedOut, donatedIn, sentAt,
                       promised, config, budgets, relaying>>

-----------------------------------------------------------------------------
(* Incoming transfers.                                                      *)

(* The info stored by set_budget: penalty and last_mint_block are kept.     *)
BudgetedInfo(old, amount, factor) ==
    IF old = NULL
    THEN [last_mint_block |-> block, budget |-> amount, penalty |-> 0,
          factor |-> factor]
    ELSE [old EXCEPT !.budget = amount, !.factor = factor]

SetBudget(a, amount, factor) ==
    LET new == BudgetedInfo(assetsInfo[a], amount, factor)
    IN  /\ assetsInfo' = [assetsInfo EXCEPT ![a] = new]
        /\ window' = [window EXCEPT ![a] =
                         [minted |-> 0, penalty |-> new.penalty,
                          since |-> new.last_mint_block]]
        /\ UNCHANGED <<block, config, funds, relaying>>

DecayToNothing(info, now) ==              \* mutant: any elapsed block forgives all
    IF now > info.last_mint_block THEN 0 ELSE info.penalty

(* A product that overflows Balance makes checked_decay None, read as 0.    *)
Decayed(info, now) ==
    LET reduction == Monus(now, info.last_mint_block) * info.factor
    IN  IF reduction > MaxBalance THEN 0 ELSE Monus(info.penalty, reduction)

CreditedAmount(tx, amount) ==
    IF tx = NULL THEN amount ELSE SaturatingAdd(tx.amount, amount)

TimelockedMint(caller, n, r, to, amount, lock_time) ==
    LET a == remoteToLocal[<<r, n>>]
        slot == <<to, a>>
        info == assetsInfo[a]
        penalty == Decayed(info, block)
        lock_at == block + lock_time
    IN  /\ EnsureRelayer(caller)
        /\ a # NULL
        /\ info # NULL
        /\ amount <= Monus(info.budget, penalty)
        /\ CanDeposit(inEscrow[slot], a, amount)
        /\ inEscrow' = [inEscrow EXCEPT ![slot] = @ + amount]
        /\ incoming' = [incoming EXCEPT ![slot] =
              [amount |-> CreditedAmount(incoming[slot], amount), lock |-> lock_at]]
        /\ assetsInfo' = [assetsInfo EXCEPT ![a] =
              [info EXCEPT !.last_mint_block = block,
                           !.penalty = SaturatingAdd(penalty, amount)]]
        /\ window' = [window EXCEPT ![a].minted = @ + amount]
        /\ promised' = [promised EXCEPT ![slot] = IF @ > lock_at THEN @ ELSE lock_at]
        /\ UNCHANGED <<block, outgoing, wallet, outEscrow, donatedOut, donatedIn,
                       sentAt, config, relaying>>

RescindTimelockedMint(caller, n, r, account, untrusted_amount) ==
    LET a == remoteToLocal[<<r, n>>]
        slot == <<account, a>>
        tx == incoming[slot]
        wiped == tx.amount = untrusted_amount
    IN  /\ EnsureRelayer(caller)
        /\ a # NULL
        /\ tx # NULL
        /\ untrusted_amount <= inEscrow[slot]
        /\ inEscrow' = [inEscrow EXCEPT ![slot] = @ - untrusted_amount]
        /\ incoming' = [incoming EXCEPT ![slot] =
              IF wiped THEN NULL
              ELSE [tx EXCEPT !.amount = Monus(@, untrusted_amount)]]
        /\ promised' = [promised EXCEPT ![slot] = IF wiped THEN 0 ELSE @]
        /\ UNCHANGED <<block, outgoing, wallet, outEscrow, donatedOut, donatedIn,
                       sentAt, config, budgets, relaying>>

ClaimTo(u, a, to) ==
    LET slot == <<u, a>>
    IN  /\ incoming[slot] # NULL
        /\ LockExpired(incoming[slot], block)
        /\ incoming[slot].amount <= inEscrow[slot]
        /\ wallet[<<to, a>>] + incoming[slot].amount <= MaxBalance
        /\ inEscrow' = [inEscrow EXCEPT ![slot] = @ - incoming[slot].amount]
        /\ wallet' = [wallet EXCEPT ![<<to, a>>] = @ + incoming[slot].amount]
        /\ incoming' = [incoming EXCEPT ![slot] = NULL]
        /\ promised' = [promised EXCEPT ![slot] = 0]
        /\ UNCHANGED <<block, outgoing, outEscrow, donatedOut, donatedIn, sentAt,
                       config, budgets, relaying>>

-----------------------------------------------------------------------------
(* The environment: blocks pass, and anybody may send tokens straight to a  *)
(* sub-account, whose address is public.                                    *)

NewBlock ==
    /\ block < MaxBlock
    /\ block' = block + 1
    /\ UNCHANGED <<config, funds, budgets, relaying>>

DonateOut(u, v, a, amount) ==
    /\ wallet[<<u, a>>] >= amount
    /\ outEscrow[<<v, a>>] + amount <= MaxBalance
    /\ wallet' = [wallet EXCEPT ![<<u, a>>] = @ - amount]
    /\ outEscrow' = [outEscrow EXCEPT ![<<v, a>>] = @ + amount]
    /\ donatedOut' = [donatedOut EXCEPT ![<<v, a>>] = @ + amount]
    /\ UNCHANGED <<block, outgoing, incoming, inEscrow, donatedIn, sentAt,
                   promised, config, budgets, relaying>>

DonateIn(u, v, a, amount) ==
    /\ wallet[<<u, a>>] >= amount
    /\ inEscrow[<<v, a>>] + amount <= MaxBalance
    /\ wallet' = [wallet EXCEPT ![<<u, a>>] = @ - amount]
    /\ inEscrow' = [inEscrow EXCEPT ![<<v, a>>] = @ + amount]
    /\ donatedIn' = [donatedIn EXCEPT ![<<v, a>>] = @ + amount]
    /\ UNCHANGED <<block, outgoing, incoming, outEscrow, donatedOut, sentAt,
                   promised, config, budgets, relaying>>

-----------------------------------------------------------------------------

(* Genesis: the pallet has no GenesisConfig, so its storage is empty.       *)
Init ==
    /\ block = 0
    /\ relayer = NULL
    /\ assetsInfo = [a \in Assets |-> NULL]
    /\ networkInfos = [n \in Networks |-> NULL]
    /\ timeLockPeriod = MinimumTimeLockPeriod
    /\ outgoing = [s \in Slots |-> NULL]
    /\ incoming = [s \in Slots |-> NULL]
    /\ localToRemote = [p \in Assets \X Networks |-> NULL]
    /\ remoteToLocal = [p \in RemoteAssets \X Networks |-> NULL]
    /\ wallet = [s \in Slots |-> InitialBalance]
    /\ outEscrow = [s \in Slots |-> 0]
    /\ inEscrow = [s \in Slots |-> 0]
    /\ donatedOut = [s \in Slots |-> 0]
    /\ donatedIn = [s \in Slots |-> 0]
    /\ sentAt = [s \in Slots |-> 0]
    /\ promised = [s \in Slots |-> 0]
    /\ window = [a \in Assets |-> [minted |-> 0, penalty |-> 0, since |-> 0]]
    /\ announcedAt = 0

ControlCall ==
    \/ \E account \in Accounts : SetRelayer(account)
    \/ \E period \in Periods : SetTimelockDuration(period)
    \/ \E a \in Assets, amount \in Budgets, f \in Factors : SetBudget(a, amount, f)
    \/ \E a \in Assets, n \in Networks :
          \/ DeleteMapping(a, n)
          \/ \E r \in RemoteAssets : CreateMapping(a, n, r) \/ UpdateMapping(a, n, r)

RelayerCall(caller) ==
    \/ \E new \in Accounts, ttl \in TTLs : RotateRelayer(caller, new, ttl)
    \/ \E n \in Networks, on \in BOOLEAN, size \in TransferSizes :
          SetNetwork(caller, n, [enabled |-> on, max_transfer_size |-> size])
    \/ \E n \in Networks, r \in RemoteAssets, u \in Accounts, amount \in Amounts :
          \/ AcceptTransfer(caller, u, n, r, amount)
          \/ RescindTimelockedMint(caller, n, r, u, amount)
          \/ \E lock_time \in LockTimes :
                TimelockedMint(caller, n, r, u, amount, lock_time)

UserCall(u) ==
    \/ \E n \in Networks, a \in Assets, amount \in Amounts : TransferTo(u, n, a, amount)
    \/ \E a \in Assets, to \in Accounts : ClaimStaleTo(u, a, to) \/ ClaimTo(u, a, to)
    \/ \E v \in Accounts, a \in Assets, amount \in Donations :
          DonateOut(u, v, a, amount) \/ DonateIn(u, v, a, amount)

Next ==
    \/ NewBlock
    \/ ControlCall
    \/ \E u \in Accounts : RelayerCall(u) \/ UserCall(u)

Spec == Init /\ [][Next]_vars

(* Blocks are produced for ever, and a user whose lock has expired keeps    *)
(* submitting the claim until it is included; nothing is assumed of the     *)
(* relayer or of the control origin.                                        *)
Fairness ==
    /\ WF_vars(NewBlock)
    /\ \A u \in Accounts, a \in Assets :
          /\ WF_vars(\E to \in Accounts : ClaimStaleTo(u, a, to))
          /\ WF_vars(\E to \in Accounts : ClaimTo(u, a, to))

FairSpec == Spec /\ Fairness

-----------------------------------------------------------------------------
(* Properties.                                                              *)

(* Every storage item keeps its type; in particular amounts, balances and   *)
(* penalties stay natural numbers, so no subtraction of the code wraps.     *)
TypeOK ==
    /\ block \in Nat
    /\ relayer \in RelayerConfig \cup {NULL}
    /\ assetsInfo \in [Assets -> AssetInfo \cup {NULL}]
    /\ networkInfos \in [Networks -> NetworkInfo \cup {NULL}]
    /\ timeLockPeriod \in Nat
    /\ outgoing \in [Slots -> Tx \cup {NULL}]
    /\ incoming \in [Slots -> Tx \cup {NULL}]
    /\ localToRemote \in [Assets \X Networks -> RemoteAssets \cup {NULL}]
    /\ remoteToLocal \in [RemoteAssets \X Networks -> Assets \cup {NULL}]
    /\ wallet \in [Slots -> Nat]
    /\ outEscrow \in [Slots -> Nat]
    /\ inEscrow \in [Slots -> Nat]
    /\ donatedOut \in [Slots -> Nat]
    /\ donatedIn \in [Slots -> Nat]
    /\ sentAt \in [Slots -> Nat]
    /\ promised \in [Slots -> Nat]
    /\ window \in [Assets -> [minted : Nat, penalty : Nat, since : Nat]]
    /\ announcedAt \in Nat

Pending(tx) == IF tx = NULL THEN 0 ELSE tx.amount

(* Each escrow account holds what its pending entry promises, so a claim    *)
(* or an accept never fails for lack of funds, and nothing more than what   *)
(* strangers sent there: no partial accept, rescind or second transfer      *)
(* leaves user funds behind without an entry to claim them by.              *)
EscrowBacksPending ==
    \A s \in Slots :
        /\ Pending(outgoing[s]) <= outEscrow[s]
        /\ outEscrow[s] <= Pending(outgoing[s]) + donatedOut[s]
        /\ Pending(incoming[s]) <= inEscrow[s]
        /\ inEscrow[s] <= Pending(incoming[s]) + donatedIn[s]

(* The relayer names assets by their remote id: whatever local asset that   *)
(* id resolves to is itself mapped to that id, after any series of          *)
(* create, update and delete calls, two assets claiming one id included.    *)
RemoteMappingSound ==
    \A r \in RemoteAssets, n \in Networks :
        remoteToLocal[<<r, n>>] # NULL
            => localToRemote[<<remoteToLocal[<<r, n>>], n>>] = r

(* The budget limits the relayer: whatever the sequence of mints since the  *)
(* control origin last set the budget, their sum is at most the budget left *)
(* then plus what decayed in the meantime.                                  *)
MintRateLimited ==
    \A a \in Assets :
        LET info == assetsInfo[a]
            w == window[a]
        IN  info # NULL =>
              w.minted <= Monus(info.budget, w.penalty)
                            + info.factor * (info.last_mint_block - w.since)

(* The relayer account changes hands only when the control origin says so,  *)
(* or in the very block announced by a rotation that the then relayer made  *)
(* more than MinimumTTL blocks before, whatever rotations came in between.  *)
HandoverAnnounced ==
    [][EffectiveRelayer' # EffectiveRelayer =>
          \/ \E account \in Accounts : SetRelayer(account)
          \/ /\ NewBlock
             /\ relayer.next # NULL
             /\ relayer.next.ttl = block'
             /\ EffectiveRelayer' = relayer.next.account
             /\ block' - announcedAt > MinimumTTL]_vars

(* claim_stale_to: the relayer has more than the minimum period, counted    *)
(* from the user's latest transfer of the asset, before the user can take   *)
(* funds back, however often the period is changed in between.              *)
RelayerHasItsWindow ==
    [][\A u \in Accounts, a \in Assets, to \in Accounts :
          ClaimStaleTo(u, a, to) => block - sentAt[<<u, a>>] > MinimumTimeLockPeriod]_vars

(* A mint waits out its lock: timelocked_mint says the funds are "ready for *)
(* the user to be picked up after `lock_time` blocks have expired".         *)
MintLocksHonoured ==
    [][\A u \in Accounts, a \in Assets, to \in Accounts :
          ClaimTo(u, a, to) => block > promised[<<u, a>>]]_vars

(* Funds sent out do not stay locked: an entry whose lock expires within    *)
(* the horizon leaves, by accept or by claim, unless the user locks it      *)
(* again past the horizon.                                                  *)
OutgoingResolves ==
    \A s \in Slots :
        (outgoing[s] # NULL /\ outgoing[s].lock < MaxBlock)
            ~> (outgoing[s] = NULL \/ outgoing[s].lock >= MaxBlock)

(* The same for minted funds waiting for their owner.                       *)
IncomingResolves ==
    \A s \in Slots :
        (incoming[s] # NULL /\ incoming[s].lock < MaxBlock)
            ~> (incoming[s] = NULL \/ incoming[s].lock >= MaxBlock)

-----------------------------------------------------------------------------
(* Strengthenings that make the properties above inductive.                 *)

(* RelayerHasItsWindow: a pending entry is locked for the minimum period    *)
(* from the user's latest transfer at least.                                *)
LocksSpanPeriod ==
    /\ timeLockPeriod >= MinimumTimeLockPeriod
    /\ \A s \in Slots :
          outgoing[s] # NULL => outgoing[s].lock >= sentAt[s] + MinimumTimeLockPeriod

(* HandoverAnnounced: a scheduled successor was announced in time.          *)
SuccessorAnnounced ==
    (relayer # NULL /\ relayer.next # NULL)
        => relayer.next.ttl > announcedAt + MinimumTTL

(* MintRateLimited: what was minted in the window is in the penalty, but    *)
(* for what decayed, and the penalty never grows past the budget.           *)
PenaltyAccounts(info, w) ==
    /\ info.budget <= MaxBalance /\ info.penalty <= MaxBalance
    /\ w.since <= info.last_mint_block /\ info.last_mint_block <= block
    /\ w.minted + w.penalty
          <= info.penalty + info.factor * (info.last_mint_block - w.since)
    /\ info.penalty <= info.budget \/ info.penalty <= w.penalty

PenaltyCoversMints ==
    \A a \in Assets : assetsInfo[a] # NULL => PenaltyAccounts(assetsInfo[a], window[a])
=============================================================================
