----------------------------- MODULE MCAccount ------------------------------
(***************************************************************************)
(* Small instances of Account: a plan has room for MaxLimit attestations,  *)
(* the free tier for none.                                                 *)
(***************************************************************************)
EXTENDS Account, TLC

CONSTANT MaxLimit

MCLimit == [t \in Plans \cup {"free"} |-> IF t = "free" THEN 0 ELSE MaxLimit]
MCSymmetry == Permutations(Handlers) \cup Permutations(Keys) \cup Permutations(Subs)
=============================================================================
