------------------------------- MODULE Totals -------------------------------
(***************************************************************************)
(* The total of a function to the naturals, counted: a token for each unit *)
(* of each value.  Sums of usage counters are totals.                      *)
(***************************************************************************)
EXTENDS Naturals, FiniteSets

Tokens(f) == UNION {{x} \X (1..f[x]) : x \in DOMAIN f}
Total(f)  == Cardinality(Tokens(f))
=============================================================================
