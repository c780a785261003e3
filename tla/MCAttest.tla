------------------------------ MODULE MCAttest -------------------------------
(***************************************************************************)
(* Small instances of AttestService: one or two callers, a key k1 inside a *)
(* limit of one or two, and an invoice i1 quoted for t1.                   *)
(***************************************************************************)
EXTENDS AttestService, TLC

CONSTANTS t1, k1, MaxLimit

MCQuotedFor == [i \in Invoices |-> t1]
MCLimit == [k \in Keys |-> MaxLimit]
CallerSymmetry == Permutations(Callers) \cup Permutations(Pollers)
=============================================================================
