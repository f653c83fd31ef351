------------------------------ MODULE MCOracle ------------------------------
(***************************************************************************)
(* Instances of Oracle for TLC.                                            *)
(***************************************************************************)
EXTENDS Oracle

Info(min, max) == [threshold |-> 80, min_answers |-> min, max_answers |-> max,
                   block_interval |-> StalePrice + 1, reward |-> 1, slash |-> 2]

OneAnswer == {Info(1, 1)}
TwoAnswers == {Info(2, 2)}
ThreeOrTwo == {Info(3, 3), Info(2, 2)}

AccountSymmetry == Permutations(Accounts)
=============================================================================
