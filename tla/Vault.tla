------------------------------- MODULE Vault --------------------------------
(***************************************************************************)
(* frame/vault: users deposit an asset and hold shares (LP tokens) of it;  *)
(* strategies borrow the vault's funds and return them.  A vault that has  *)
(* not paid the existential deposit pays rent, is tombstoned when the rent *)
(* runs out, and may be deleted some time later.                           *)
(*                                                                         *)
(* Percentages are parts of One.  LpTokens stands for the ids that         *)
(* currency-factory hands out (CurrencyFactory, IdsUnique).  The lifetime  *)
(* totals of a strategy are written and never read, and are left out.      *)
(***************************************************************************)
EXTENDS Chain, Functions

CONSTANTS
    MaxVaults,        \* bound: the vaults ever created
    LpTokens,         \* vault id -> its share token
    One,              \* Perquintill::one()
    MaxStrategies,
    CreationDeposit,
    VaultExistentialDeposit,
    TombstoneDuration,
    RentPerBlock,
    MinimumDeposit,
    MinimumWithdrawal,
    Strategists,      \* accounts that may be strategies
    VaultConfigs,     \* the vaults users may ask for
    VaultDeposits,    \* native amounts paid for them
    VaultAmounts,     \* amounts deposited, withdrawn, drawn and returned
    Reports,          \* balances strategies may report
    NoVault,
    NoStrategy,
    Existential       \* Deposit::Existential

VaultIds == 1..MaxVaults

VaultAccount(id) == <<"vault", id>>
RentAccount(id) == <<"rent_account____", id>>
DeletionAccount(id) == <<"deletion_account", id>>

DepositType == [amount: Nat, at: Nat] \cup {Existential}
Flags == {"TOMBSTONED", "STOPPED", "WITHDRAWALS_STOPPED", "DEPOSITS_STOPPED"}
VaultInfo == [asset_id: AssetIds, lp_token_id: AssetIds, manager: Accounts,
              deposit: DepositType, capabilities: SUBSET Flags]
StrategyOverview == [allocation: 0..One, balance: Nat]

(* Share tokens are made by currency-factory and are never the native      *)
(* asset.  A rent account is derived from the pallet's id, signs nothing   *)
(* and so calls as no strategy.  The last lines say that the absence of a  *)
(* record is not a record.                                                 *)
ASSUME VaultTypes ==
    /\ MaxVaults \in Nat
    /\ IsFiniteSet(Accounts)
    /\ LpTokens \in [VaultIds -> AssetIds \ {NativeAsset}]
    /\ \A i, j \in VaultIds : LpTokens[i] = LpTokens[j] => i = j
    /\ One \in Nat \ {0}
    /\ {MaxStrategies, CreationDeposit, VaultExistentialDeposit, TombstoneDuration,
        RentPerBlock, MinimumDeposit, MinimumWithdrawal} \subseteq Nat
    /\ Strategists \subseteq Accounts
    /\ VaultDeposits \cup VaultAmounts \cup Reports \subseteq Nat
    /\ \A config \in VaultConfigs :
          /\ config.asset_id \in AssetIds /\ config.manager \in Accounts
          /\ config.strategies \in [DOMAIN config.strategies -> Nat]
          /\ DOMAIN config.strategies \subseteq Strategists
          /\ config.reserved \in Nat
    /\ \A id \in VaultIds :
          /\ {VaultAccount(id), RentAccount(id), DeletionAccount(id)} \subseteq SubAccounts
          /\ RentAccount(id) \notin Strategists
    /\ NoVault \notin VaultInfo
    /\ NoStrategy \notin StrategyOverview
    /\ Existential \notin [amount: Nat, at: Nat]

VARIABLES
    vault_count,
    vaults,              \* id -> NoVault or VaultInfo
    lp_tokens_to_vaults, \* asset -> NoVault or id
    capital_structure,   \* id -> account -> NoStrategy or StrategyOverview
    tombstonedAt         \* history: id -> block of the last tombstoning

vaultVars == <<vault_count, vaults, lp_tokens_to_vaults, capital_structure, tombstonedAt>>
vaultBooks == <<vault_count, lp_tokens_to_vaults, capital_structure>>

-----------------------------------------------------------------------------
(* Capabilities.                                                           *)

Exists(id) == id \in VaultIds /\ vaults[id] # NoVault
Tombstoned(v) == "TOMBSTONED" \in v.capabilities
Stopped(v) == "STOPPED" \in v.capabilities
WithdrawalsAllowed(v) == ~Stopped(v) /\ "WITHDRAWALS_STOPPED" \notin v.capabilities
DepositsAllowed(v) ==
    ~Stopped(v) /\ ~Tombstoned(v) /\ "DEPOSITS_STOPPED" \notin v.capabilities

-----------------------------------------------------------------------------
(* Shares.                                                                 *)

Issuance(l, a) == SumFunction([who \in Accounts |-> TotalBalance(l, a, who)])

StrategyBalance(cs, id, s) ==
    IF cs[id][s] = NoStrategy THEN 0 ELSE cs[id][s].balance

Aum(l, cs, id) ==
    TotalBalance(l, vaults[id].asset_id, VaultAccount(id))
        + SumFunction([s \in Strategists |-> StrategyBalance(cs, id, s)])

(* mutant: the quotient is rounded up                                      *)
MulDivUp(a, b, c) == (a * b + GreaterOf(c, 1) - 1) \div GreaterOf(c, 1)

(* multiply_by_rational of sp_runtime takes a divisor of 0 for 1.          *)
MulDiv(a, b, c) == (a * b) \div GreaterOf(c, 1)

LpShareValue(l, cs, id, lp) ==
    MulDiv(lp, Aum(l, cs, id), Issuance(l, vaults[id].lp_token_id))

(* Without assets the first depositor sets the rate, whether or not there  *)
(* are shares already.                                                     *)
LpForDeposit(l, cs, id, n) ==
    LET aum == Aum(l, cs, id)
    IN IF aum = 0 THEN n
       ELSE MulDiv(n, Issuance(l, vaults[id].lp_token_id), aum)

DepositVault(who, id, n) ==
    LET v  == vaults[id]
        lp == LpForDeposit(ledger, capital_structure, id, n)
        moved == Transfer(ledger, v.asset_id, who, VaultAccount(id), n)
    IN /\ n > MinimumDeposit
       /\ Exists(id)
       /\ DepositsAllowed(v)
       /\ lp > 0
       /\ CanDeposit(ledger, v.lp_token_id, who, lp)
       /\ CanTransfer(ledger, v.asset_id, who, VaultAccount(id), n, TRUE)
       /\ ledger' = Mint(moved, v.lp_token_id, who, lp)
       /\ UNCHANGED <<now, vaultVars>>

(* Not transactional: when the transfer would take the vault's account     *)
(* below the minimum balance, the shares are burnt and nothing is paid.    *)
WithdrawVault(who, id, lp) ==
    LET v     == vaults[id]
        acc   == VaultAccount(id)
        value == LpShareValue(ledger, capital_structure, id, lp)
        burnt == Burn(ledger, v.lp_token_id, who, lp)
    IN /\ lp > MinimumWithdrawal
       /\ Exists(id)
       /\ WithdrawalsAllowed(v)
       /\ value <= TotalBalance(ledger, v.asset_id, acc)
       /\ CanWithdraw(ledger, v.lp_token_id, who, lp, FALSE)
       /\ CanWithdraw(ledger, v.asset_id, acc, value, FALSE)
       /\ ledger' = IF CanTransfer(burnt, v.asset_id, acc, who, value, TRUE)
                    THEN Transfer(burnt, v.asset_id, acc, who, value)
                    ELSE burnt
       /\ UNCHANGED <<now, vaultVars>>

-----------------------------------------------------------------------------
(* Rent.                                                                   *)

DepositFromBalance(n) ==
    IF n > VaultExistentialDeposit THEN Existential ELSE [amount |-> n, at |-> now]

RentDue(d) == RentPerBlock * (now - d.at)

ChargeDue(d) == d # Existential /\ now > d.at
EvictDue(d) == ChargeDue(d) /\ RentDue(d) >= d.amount

(* do_create_vault, for the vault with the next id; deposit as given.      *)
CanCreateVault(config) ==
    /\ vault_count < MaxVaults
    /\ Cardinality(DOMAIN config.strategies) <= MaxStrategies
    /\ config.reserved + SumFunction(config.strategies) = One

CreatesVault(config, deposit) ==
    LET id == vault_count + 1 IN
    /\ vault_count' = id
    /\ vaults' = [vaults EXCEPT ![id] =
          [asset_id |-> config.asset_id, lp_token_id |-> LpTokens[id],
           manager |-> config.manager, deposit |-> deposit, capabilities |-> {}]]
    /\ lp_tokens_to_vaults' = [lp_tokens_to_vaults EXCEPT ![LpTokens[id]] = id]
    /\ capital_structure' = [capital_structure EXCEPT ![id] =
          [s \in Strategists |->
              IF s \in DOMAIN config.strategies
              THEN [allocation |-> config.strategies[s], balance |-> 0]
              ELSE @[s]]]
    /\ UNCHANGED tombstonedAt

CreateVault(from, config, n) ==
    LET id     == vault_count + 1
        reward == Transfer(ledger, NativeAsset, from, DeletionAccount(id), CreationDeposit)
    IN /\ n >= CreationDeposit
       /\ CanCreateVault(config)
       /\ CanTransfer(ledger, NativeAsset, from, DeletionAccount(id), CreationDeposit, TRUE)
       /\ CanTransfer(reward, NativeAsset, from, RentAccount(id), n - CreationDeposit, TRUE)
       /\ ledger' = Transfer(reward, NativeAsset, from, RentAccount(id), n - CreationDeposit)
       /\ CreatesVault(config, DepositFromBalance(n - CreationDeposit))
       /\ UNCHANGED now

(* mutant: the deposit is not reduced by the rent                          *)
ChargeOnly(id, to) ==
    LET d == vaults[id].deposit IN
    /\ Exists(id) /\ ChargeDue(d) /\ ~EvictDue(d)
    /\ CanTransfer(ledger, NativeAsset, RentAccount(id), to, RentDue(d), TRUE)
    /\ ledger' = Transfer(ledger, NativeAsset, RentAccount(id), to, RentDue(d))
    /\ vaults' = [vaults EXCEPT ![id].deposit.at = now]
    /\ UNCHANGED <<now, vaultBooks, tombstonedAt>>

(* claim_surcharge, Verdict::Charge.                                       *)
ChargeRent(id, to) ==
    LET d == vaults[id].deposit IN
    /\ Exists(id) /\ ChargeDue(d) /\ ~EvictDue(d)
    /\ CanTransfer(ledger, NativeAsset, RentAccount(id), to, RentDue(d), TRUE)
    /\ ledger' = Transfer(ledger, NativeAsset, RentAccount(id), to, RentDue(d))
    /\ vaults' = [vaults EXCEPT ![id].deposit =
                    [amount |-> d.amount - RentDue(d), at |-> now]]
    /\ UNCHANGED <<now, vaultBooks, tombstonedAt>>

(* mutant: the block of the eviction is not noted                          *)
EvictSince(id, to) ==
    LET d == vaults[id].deposit
        left == Reducible(ledger, NativeAsset, RentAccount(id), FALSE)
    IN /\ Exists(id) /\ EvictDue(d)
       /\ CanTransfer(ledger, NativeAsset, RentAccount(id), to, left, FALSE)
       /\ ledger' = Transfer(ledger, NativeAsset, RentAccount(id), to, left)
       /\ vaults' = [vaults EXCEPT ![id].deposit.amount = 0,
                                   ![id].capabilities = @ \cup {"TOMBSTONED"}]
       /\ tombstonedAt' = [tombstonedAt EXCEPT ![id] =
                             IF Tombstoned(vaults[id]) THEN @ ELSE now]
       /\ UNCHANGED <<now, vaultBooks>>

(* claim_surcharge, Verdict::Evict: of a tombstoned vault as well, whose   *)
(* wait begins again.                                                      *)
Evict(id, to) ==
    LET d == vaults[id].deposit
        left == Reducible(ledger, NativeAsset, RentAccount(id), FALSE)
    IN /\ Exists(id) /\ EvictDue(d)
       /\ CanTransfer(ledger, NativeAsset, RentAccount(id), to, left, FALSE)
       /\ ledger' = Transfer(ledger, NativeAsset, RentAccount(id), to, left)
       /\ vaults' = [vaults EXCEPT ![id].deposit = [amount |-> 0, at |-> now],
                                   ![id].capabilities = @ \cup {"TOMBSTONED"}]
       /\ tombstonedAt' = [tombstonedAt EXCEPT ![id] =
                             IF Tombstoned(vaults[id]) THEN @ ELSE now]
       /\ UNCHANGED <<now, vaultBooks>>

AddSurcharge(who, id, n) ==
    LET d == vaults[id].deposit IN
    /\ n >= CreationDeposit
    /\ Exists(id) /\ d # Existential
    /\ CanTransfer(ledger, NativeAsset, who, RentAccount(id), n, FALSE)
    /\ ledger' = Transfer(ledger, NativeAsset, who, RentAccount(id), n)
    /\ vaults' = [vaults EXCEPT ![id].deposit = DepositFromBalance(n + d.amount),
                                ![id].capabilities = @ \ {"TOMBSTONED"}]
    /\ UNCHANGED <<now, vaultBooks, tombstonedAt>>

(* The entry removed from lp_tokens_to_vaults is that of the vault's       *)
(* asset, and its strategies stay.                                         *)
DeleteTombstoned(id, to) ==
    LET v == vaults[id]
        reward == Reducible(ledger, NativeAsset, DeletionAccount(id), FALSE)
    IN /\ Exists(id) /\ Tombstoned(v)
       /\ v.deposit # Existential
       /\ now - v.deposit.at >= TombstoneDuration
       /\ CanTransfer(ledger, NativeAsset, DeletionAccount(id), to, reward, FALSE)
       /\ ledger' = Transfer(ledger, NativeAsset, DeletionAccount(id), to, reward)
       /\ lp_tokens_to_vaults' = [lp_tokens_to_vaults EXCEPT ![v.asset_id] = NoVault]
       /\ vaults' = [vaults EXCEPT ![id] = NoVault]
       /\ UNCHANGED <<now, vault_count, capital_structure, tombstonedAt>>

-----------------------------------------------------------------------------
(* Root and the manager.                                                   *)

EmergencyShutdown(id) ==
    /\ Exists(id) /\ ~Tombstoned(vaults[id])
    /\ vaults' = [vaults EXCEPT ![id].capabilities = @ \cup {"STOPPED"}]
    /\ UNCHANGED <<now, ledger, vaultBooks, tombstonedAt>>

StartVault(id) ==
    /\ Exists(id) /\ ~Tombstoned(vaults[id])
    /\ vaults' = [vaults EXCEPT ![id].capabilities = @ \ {"STOPPED"}]
    /\ UNCHANGED <<now, ledger, vaultBooks, tombstonedAt>>

(* What the strategy owes is forgotten with the strategy.                  *)
LiquidateStrategy(from, id, s) ==
    /\ Exists(id) /\ vaults[id].manager = from
    /\ capital_structure[id][s] # NoStrategy
    /\ capital_structure' = [capital_structure EXCEPT ![id][s] = NoStrategy]
    /\ UNCHANGED <<now, ledger, vault_count, vaults, lp_tokens_to_vaults, tombstonedAt>>

-----------------------------------------------------------------------------
(* StrategicVault: the interface the strategies call, as operators on the  *)
(* ledger l and the capital structure cs.                                  *)

Overview(cs, id, s) ==
    IF cs[id][s] = NoStrategy THEN [allocation |-> 0, balance |-> 0] ELSE cs[id][s]

(* available_funds: how much a strategy may draw (positive) or should      *)
(* return (negative), if it must not return everything.                    *)
MustLiquidate(cs, id, s) ==
    \/ ~Exists(id)
    \/ cs[id][s] = NoStrategy
    \/ Stopped(vaults[id])
    \/ Tombstoned(vaults[id])

FundsAvailable(l, cs, id, s) ==
    (cs[id][s].allocation * Aum(l, cs, id)) \div One - cs[id][s].balance

CanStrategyWithdraw(l, id, s, n) ==
    Exists(id) /\ CanTransfer(l, vaults[id].asset_id, VaultAccount(id), s, n, TRUE)
StrategyWithdraw(l, id, s, n) ==
    Transfer(l, vaults[id].asset_id, VaultAccount(id), s, n)
WithdrawnStructure(cs, id, s, n) ==
    LET o == Overview(cs, id, s) IN
    [cs EXCEPT ![id][s] = [o EXCEPT !.balance = o.balance + n]]

CanStrategyDeposit(l, id, s, n) ==
    Exists(id) /\ CanTransfer(l, vaults[id].asset_id, s, VaultAccount(id), n, TRUE)
StrategyDeposit(l, id, s, n) ==
    Transfer(l, vaults[id].asset_id, s, VaultAccount(id), n)
DepositedStructure(cs, id, s, n) ==
    LET o == Overview(cs, id, s) IN
    [cs EXCEPT ![id][s] = [o EXCEPT !.balance = SatSub(o.balance, n)]]

(* A strategy that follows available_funds.                                *)
StrategyDraws(id, s, n) ==
    /\ ~MustLiquidate(capital_structure, id, s)
    /\ n <= FundsAvailable(ledger, capital_structure, id, s)
    /\ CanStrategyWithdraw(ledger, id, s, n)
    /\ ledger' = StrategyWithdraw(ledger, id, s, n)
    /\ capital_structure' = WithdrawnStructure(capital_structure, id, s, n)
    /\ UNCHANGED <<now, vault_count, vaults, lp_tokens_to_vaults, tombstonedAt>>

StrategyReturns(id, s, n) ==
    /\ CanStrategyDeposit(ledger, id, s, n)
    /\ ledger' = StrategyDeposit(ledger, id, s, n)
    /\ capital_structure' = DepositedStructure(capital_structure, id, s, n)
    /\ UNCHANGED <<now, vault_count, vaults, lp_tokens_to_vaults, tombstonedAt>>

(* update_strategy_report: profits and losses.                             *)
UpdateStrategyReport(id, s, n) ==
    /\ capital_structure' = [capital_structure EXCEPT ![id][s] =
                               [Overview(capital_structure, id, s) EXCEPT !.balance = n]]
    /\ UNCHANGED <<now, ledger, vault_count, vaults, lp_tokens_to_vaults, tombstonedAt>>

VaultBlock == NextBlock /\ UNCHANGED <<ledger, vaultVars>>

VaultInit ==
    /\ vault_count = 0
    /\ vaults = [id \in VaultIds |-> NoVault]
    /\ lp_tokens_to_vaults = [a \in AssetIds |-> NoVault]
    /\ capital_structure = [id \in VaultIds |-> [s \in Strategists |-> NoStrategy]]
    /\ tombstonedAt = [id \in VaultIds |-> 0]

VaultNext ==
    \/ \E from \in Users, config \in VaultConfigs, n \in VaultDeposits :
          CreateVault(from, config, n)
    \/ \E id \in VaultIds, who \in Users :
          \/ ChargeRent(id, who)
          \/ Evict(id, who)
          \/ DeleteTombstoned(id, who)
          \/ \E n \in VaultDeposits : AddSurcharge(who, id, n)
          \/ \E n \in VaultAmounts : DepositVault(who, id, n) \/ WithdrawVault(who, id, n)
          \/ \E s \in Strategists : LiquidateStrategy(who, id, s)
    \/ \E id \in VaultIds : EmergencyShutdown(id) \/ StartVault(id)
    \/ \E id \in VaultIds, s \in Strategists :
          /\ capital_structure[id][s] # NoStrategy
          /\ \/ \E n \in VaultAmounts : StrategyDraws(id, s, n) \/ StrategyReturns(id, s, n)
             \/ \E n \in Reports : UpdateStrategyReport(id, s, n)
    \/ VaultBlock

VaultSpec == ChainInit /\ VaultInit /\ [][VaultNext]_<<now, ledger, vaultVars>>

-----------------------------------------------------------------------------
(* Properties.                                                             *)

VaultTypeOK ==
    /\ vault_count \in 0..MaxVaults
    /\ vaults \in [VaultIds -> VaultInfo \cup {NoVault}]
    /\ lp_tokens_to_vaults \in [AssetIds -> VaultIds \cup {NoVault}]
    /\ capital_structure \in
          [VaultIds -> [Strategists -> StrategyOverview \cup {NoStrategy}]]

(* The deposit a vault lives on is in its rent account, whatever rents     *)
(* were charged, topped up and evicted (claim_surcharge: "this ensures     *)
(* that the deposit accurately reflects the account balance").             *)
RentBacked ==
    \A id \in VaultIds :
        Exists(id) /\ vaults[id].deposit # Existential
            => vaults[id].deposit.amount <= ledger[NativeAsset][RentAccount(id)].free

(* A step that mints or burns shares never lowers what the shares of the   *)
(* other holders are worth, after any profits and losses, and whichever    *)
(* way do_deposit and do_withdraw round.                                   *)
ShareValueKept ==
    [][\A id \in VaultIds :
          LET before == Issuance(ledger, LpTokens[id])
              after  == Issuance(ledger', LpTokens[id])
          IN Exists(id) /\ before # after
                => Aum(ledger', capital_structure', id) * before
                      >= Aum(ledger, capital_structure, id) * after]_<<ledger, capital_structure>>

(* Depositors have TombstoneDuration blocks from the tombstoning to take   *)
(* their funds out before delete_tombstoned can remove the vault, however  *)
(* claims and surcharges alternate before.                                 *)
NotDeletedEarly ==
    [][\A id \in VaultIds :
          Exists(id) /\ vaults'[id] = NoVault
              => now >= tombstonedAt[id] + TombstoneDuration]_vaults
=============================================================================
