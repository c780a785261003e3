------------------------------ MODULE MCPricing ------------------------------
(* Instances of Pricing for TLC. *)
EXTENDS Pricing, TLC

MCRates == {-1, 3}

MCSymmetry == Permutations(Requests)

\* The cap is a multiple of the step, then not; then the settings are refused;
\* then entries stay fresh beyond their maximum age.
MCConfigs == {
    [floor |-> 5, cap |-> 20, step |-> 4, markup |-> 3, buffer |-> 1, refresh |-> 1, maxAge |-> 1],
    [floor |-> 6, cap |-> 13, step |-> 5, markup |-> 1, buffer |-> 10, refresh |-> 1, maxAge |-> 1],
    [floor |-> 6, cap |-> 5, step |-> 1, markup |-> 1, buffer |-> 0, refresh |-> 1, maxAge |-> 1],
    [floor |-> 5, cap |-> 20, step |-> 4, markup |-> 3, buffer |-> 1, refresh |-> 3, maxAge |-> 1]}
=============================================================================
