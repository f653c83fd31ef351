-------------------------- MODULE CurrencyFactory ---------------------------
(***************************************************************************)
(* frame/currency-factory: asset ids are taken from ranges (LP tokens,     *)
(* tokens, foreign assets, then those an administrator appends).  Other    *)
(* pallets take an id as part of a call of theirs, see CreatesId.          *)
(***************************************************************************)
EXTENDS Integers, Sequences

CONSTANTS
    InitialRanges,   \* Ranges::new(), with the literals scaled down
    MaxRanges,
    MaxId,           \* the largest AssetId
    MinRangeSum,     \* the bound Range::new tests
    RangeLengths     \* lengths an administrator may ask for

RangeType == [current: Nat, end: Nat]

ASSUME CurrencyFactoryTypes ==
    /\ InitialRanges \in Seq(RangeType)
    /\ \A i, j \in DOMAIN InitialRanges :
          i < j => InitialRanges[i].end < InitialRanges[j].current
    /\ \A i \in DOMAIN InitialRanges :
          InitialRanges[i].current <= InitialRanges[i].end
    /\ MaxRanges \in Nat
    /\ MaxId \in Nat
    /\ MinRangeSum \in Nat
    /\ RangeLengths \subseteq Nat

VARIABLES
    asset_id_ranges,
    createdIds       \* history: the ids handed out, in order

factoryVars == <<asset_id_ranges, createdIds>>

\* RangeId::LP_TOKENS and RangeId::TOKENS, as positions
LP_TOKENS == 1
TOKENS == 2

LastEnd == IF asset_id_ranges = <<>> THEN 0
           ELSE asset_id_ranges[Len(asset_id_ranges)].end

(* add_range: Ranges::append, Range::new and Ranges::add.                  *)
AddRange(length) ==
    LET start == LastEnd + 1
        range == [current |-> start, end |-> start + length]
    IN /\ start <= MaxId
       /\ range.end <= MaxId
       /\ start + range.end >= MinRangeSum
       /\ asset_id_ranges # <<>> => LastEnd < range.current
       /\ Len(asset_id_ranges) < MaxRanges
       /\ asset_id_ranges' = Append(asset_id_ranges, range)
       /\ UNCHANGED createdIds

(* Range::increment: the id at the end of a range is never handed out.     *)
CanCreate(rangeId) ==
    /\ rangeId \in DOMAIN asset_id_ranges
    /\ asset_id_ranges[rangeId].current # asset_id_ranges[rangeId].end

NewId(rangeId) == asset_id_ranges[rangeId].current

(* create, as a conjunct of the action of the pallet that asks for an id.  *)
CreatesId(rangeId) ==
    /\ CanCreate(rangeId)
    /\ asset_id_ranges' = [asset_id_ranges EXCEPT ![rangeId].current = @ + 1]
    /\ createdIds' = Append(createdIds, NewId(rangeId))

FactoryInit ==
    /\ asset_id_ranges = InitialRanges
    /\ createdIds = <<>>

-----------------------------------------------------------------------------
(* Whatever ranges are appended between creations, no id is handed out     *)
(* twice, in the same range or in two (CurrencyFactory: "the implementor   *)
(* should ensure that a new CurrencyId is created and collisions are       *)
(* avoided").                                                              *)
IdsUnique ==
    \A i, j \in DOMAIN createdIds : createdIds[i] = createdIds[j] => i = j
=============================================================================
