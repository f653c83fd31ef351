--------------------------- MODULE MCDutchAuction ---------------------------
(***************************************************************************)
(* Instances of DutchAuction for TLC.                                      *)
(***************************************************************************)
EXTENDS DutchAuction, TLC

CONSTANTS base, quote       \* the two assets

OnePair == {<<base, quote>>}
BothPairs == {<<base, quote>>, <<quote, base>>}
Linear == {[kind |-> "linear", span |-> 2]}
LinearAndBroken == Linear \cup {[kind |-> "stairstep", span |-> 0]}

AccountSymmetry == Permutations(Accounts)
=============================================================================
