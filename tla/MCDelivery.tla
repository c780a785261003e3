----------------------------- MODULE MCDelivery ------------------------------
(***************************************************************************)
(* Instances of Delivery: a transaction owned by k1, and another key.      *)
(* DNS answers with an address next to a reserved block, with that and one *)
(* inside the block, or with nothing.                                      *)
(***************************************************************************)
EXTENDS Delivery, TLC

CONSTANT k1

MCOwner     == [t \in Txs |-> k1]
MCEndpoints == 1..2
MCAnswers   == {{}, {<<172, 32>>}, {<<172, 32>>, <<172, 31>>}}
MCSymmetry  == Permutations(Pollers) \cup Permutations(Hooks) \cup Permutations(Requests)
=============================================================================
