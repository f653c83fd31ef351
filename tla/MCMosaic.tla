------------------------------ MODULE MCMosaic ------------------------------
(***************************************************************************)
(* Instances of Mosaic for TLC: model values for ids, and their symmetry   *)
(* for the runs that check safety properties only.                         *)
(***************************************************************************)
EXTENDS Mosaic, TLC

AccountSymmetry == Permutations(Accounts)

MappingSymmetry ==
    Permutations(Accounts) \cup Permutations(Assets) \cup Permutations(RemoteAssets)
=============================================================================
