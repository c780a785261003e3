------------------------------ MODULE MCPgStore ------------------------------
(* Instances of PgStore for TLC. *)
EXTENDS PgStore, TLC

CONSTANTS k1, k2, month, epoch

\* "YYYY-MM" has seven characters, a period start in seconds has ten.
MCWidth == month :> 7 @@ epoch :> 10

MCSymmetry == Permutations(Clients)
=============================================================================
