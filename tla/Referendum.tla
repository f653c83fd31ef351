----------------------------- MODULE Referendum ------------------------------
(***************************************************************************)
(* What the democracy pallet promises of a referendum, without votes,      *)
(* queues, preimages or a scheduler: it is opened once, in the order of    *)
(* the indices, it leaves the vote once, and it is executed at most once   *)
(* and only from the vote or from the queue of enactments.  Nothing that   *)
(* is closed or executed comes back.                                       *)
(***************************************************************************)
EXTENDS Naturals

CONSTANT Referenda  \* an initial segment of Nat

VARIABLE stage

Stages == {"unopened", "open", "queued", "closed", "executed"}

Moves == {<<"unopened", "open">>,
          <<"open", "queued">>, <<"open", "closed">>, <<"open", "executed">>,
          <<"queued", "closed">>, <<"queued", "executed">>}

ReferendumInit == stage = [r \in Referenda |-> "unopened"]

(* A block may move any number of referenda, each by one move.             *)
ReferendumNext ==
    /\ stage' \in [Referenda -> Stages]
    /\ \A r \in Referenda : stage'[r] = stage[r] \/ <<stage[r], stage'[r]>> \in Moves
    /\ \A r, q \in Referenda :
          q < r /\ stage'[r] # "unopened" => stage'[q] # "unopened"

ReferendumSpec == ReferendumInit /\ [][ReferendumNext]_stage
=============================================================================
