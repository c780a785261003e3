------------------------------- MODULE MCX402 -------------------------------
(***************************************************************************)
(* Small instances of X402Service.  Payload p1 and p2 are signed for the   *)
(* same invoice, as after a payer signs again; p3, of the larger instance, *)
(* is for another one.  p4 pays too little and p5 names an unknown asset.  *)
(***************************************************************************)
EXTENDS X402Service, TLC

CONSTANTS i1, i2, p1, p2, p3, p4, p5

MCClaimOf == [p \in Payloads |-> IF p = p3 THEN i2 ELSE i1]
MCAssetOf == [p \in Payloads |-> IF p = p5 THEN "EUR" ELSE "XRP"]
MCAssets  == {"XRP", "EUR"}
MCAccepts == {"XRP"}
MCMatching == Payloads \ {p4}
\* Nothing tells the requests, the transactions, or p1 and p2, apart.
MCSymmetry == Permutations(Requests) \cup Permutations(Txs) \cup Permutations({p1, p2})
=============================================================================
