----------------------------- MODULE MCGateway ------------------------------
(***************************************************************************)
(* Instances of Gateway: every environment is checked, and requests are    *)
(* explored in one of production and one of development.                   *)
(***************************************************************************)
EXTENDS Gateway, TLC

CONSTANTS e1, Tight, Wide

MCEnvs == Env

Sound(profile) ==
    [nodeEnv |-> profile, fly |-> FALSE, secret |-> "own", network |-> "flare",
     networkKey |-> TRUE, plainKey |-> FALSE, networkVerifier |-> "good",
     plainVerifier |-> "unset", stripe |-> TRUE, stripeWebhook |-> TRUE,
     x402 |-> TRUE, payTo |-> "good"]

MCExplored == {Sound("production"), Sound("other")}

\* RL_VERIFY_KEY may be set to 0.
MCLimits ==
    [p \in Profiles |-> [kind \in BucketKinds |->
        CASE p = "production" /\ kind = "verify-key" -> 0
          [] p = "production" /\ kind # "verify-key" -> Tight
          [] OTHER -> Wide]]

MCTierLimits == [t \in {"free", "paid"} |-> IF t = "free" THEN 1 ELSE 2]
MCSymmetry   == Permutations(Ips)
=============================================================================
