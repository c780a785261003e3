------------------------------ MODULE Gateway -------------------------------
(***************************************************************************)
(* What stands before the handlers: the environment checked at start       *)
(* (env-validation.ts, config.ts, index.ts), the limits on requests        *)
(* (rate-limit.ts, middleware.ts, the routes and the MCP tool that use     *)
(* them), and the tokens that reset a password (auth.ts).                  *)
(*                                                                         *)
(* Time is relative: a window keeps the ticks it has left, a token and an  *)
(* admitted request their age.  The buckets of different routes share      *)
(* nothing, so a behaviour exercises the routes of one traffic.            *)
(***************************************************************************)
EXTENDS Naturals, FiniteSets, FiniteSetsExt, Totals

CONSTANTS
    Envs,               \* environments the operator may set
    Ips, Keys, Emails, NoKey, NoEmail,
    User,               \* the address the account is registered with
    Limits,             \* LIMITS, in production and otherwise
    TierLimits,         \* config.rateLimits without pro, which has none
    Minute, Hour,       \* in ticks
    Traffics,           \* kinds of request explored
    Explored,           \* environments whose requests are explored
    MaxTokens,          \* bound on reset tokens
    MaxCrashes,         \* bound on process crashes
    MaxDiskErrors       \* bound on writes that throw

Profiles == {"production", "other"}
IpKinds  == {"verify-ip", "signup", "login", "reset-ip", "contact-ip", "receipt-xrpl"}
EmailKinds == {"reset-email", "contact-email"}
BucketKinds == IpKinds \cup EmailKinds \cup {"verify-key"}
Buckets == (IpKinds \X Ips) \cup (EmailKinds \X Emails) \cup ({"verify-key"} \X Keys)

ASSUME GatewayAssumption ==
    /\ NoKey \notin Keys /\ NoEmail \notin Emails /\ User \in Emails
    /\ Limits \in [Profiles -> [BucketKinds -> Nat]]
    /\ TierLimits \in [{"free", "paid"} -> Nat]
    /\ Minute \in Nat \ {0} /\ Hour \in Nat /\ Hour >= Minute
    /\ Explored \subseteq Envs
    /\ Traffics \subseteq {"verify", "signup", "login", "reset", "contact", "receipt", "status"}
    /\ MaxTokens \in Nat /\ MaxCrashes \in Nat /\ MaxDiskErrors \in Nat

VARIABLES
    env,            \* process.env, as far as it is looked at
    proc,           \* starting, exited, ready (checked, not listening) or up
    conf,           \* what the modules keep of the environment
    traffic,
    windows,        \* the fixed windows of rate-limit.ts
    calendar,       \* rateLimitWindows of middleware.ts, this minute's
    timers,         \* its timers, and whether they are for this minute
    phase,          \* ticks since the minute of the clock began
    user, disk,     \* the reset token of the account: 0 is none
    tokens,         \* how many tokens were generated
    age,            \* age of each token
    sent,           \* tokens that were mailed
    spent,          \* tokens whose use was answered ok
    recent,         \* requests let through in a window's length, by age
    counted,        \* requests of each key let through in this minute
    crashes, diskErrors

startVars  == <<env, proc, conf, traffic>>
tokenVars  == <<user, disk, tokens, age, sent, spent, diskErrors>>
minuteVars == <<calendar, timers, counted>>
vars == <<startVars, windows, minuteVars, phase, tokenVars, recent, crashes>>

-----------------------------------------------------------------------------
(***************************************************************************)
(* The environment.  NODE_ENV and FLY_APP_NAME or FLY_REGION tell where    *)
(* the process runs; keys and addresses have a name per network, where     *)
(* every network but flare has coston2's, and a plain one.  FLARE_NETWORK  *)
(* is any string.  A set but malformed address is "bad", or the string     *)
(* "undefined", which the checker has a branch for.                        *)
(***************************************************************************)
Networks  == {"flare", "coston2", "other"}
Addresses == {"unset", "bad", "good"}
Verifiers == Addresses \cup {"undefined"}
Env == [nodeEnv : Profiles, fly : BOOLEAN, secret : {"default", "own"}, network : Networks,
        networkKey : BOOLEAN, plainKey : BOOLEAN,
        networkVerifier : Verifiers, plainVerifier : Verifiers,
        stripe : BOOLEAN, stripeWebhook : BOOLEAN, x402 : BOOLEAN, payTo : Addresses]

ASSUME EnvsAssumption == Envs \subseteq Env

\* Mutant: a machine of Fly is production only if NODE_ENV says so.
IsProduction_NodeEnvOnly(e) == e.nodeEnv = "production"

IsProduction(e) == e.nodeEnv = "production" \/ e.fly

HasKey(e) == e.networkKey \/ e.plainKey

EffectivelyUnset(address) == address \in {"unset", "undefined"}

VerifierOf(e) == IF e.networkVerifier # "unset" THEN e.networkVerifier ELSE e.plainVerifier

EnvErrors(e) ==
    {err \in {"SESSION_SECRET", "FLARE_NETWORK", "PAYMENT_VERIFIER_ADDRESS",
              "STRIPE_WEBHOOK_SECRET", "X402_PAY_TO_ADDRESS"} :
        \/ err = "SESSION_SECRET" /\ e.secret = "default" /\ IsProduction(e)
        \/ err = "FLARE_NETWORK" /\ e.nodeEnv = "production" /\ e.network # "flare"
        \/ err = "PAYMENT_VERIFIER_ADDRESS" /\ VerifierOf(e) = "bad"
        \/ err = "STRIPE_WEBHOOK_SECRET" /\ e.stripe /\ ~e.stripeWebhook /\ IsProduction(e)
        \/ err = "X402_PAY_TO_ADDRESS" /\ e.x402 /\ e.payTo = "bad"}

\* The warnings about a feature that will not work.
EnvWarnings(e) ==
    {w \in {"PRIVATE_KEY", "PAYMENT_VERIFIER_ADDRESS", "X402_PAY_TO_ADDRESS"} :
        \/ w = "PRIVATE_KEY" /\ ~HasKey(e)
        \/ w = "PAYMENT_VERIFIER_ADDRESS" /\ EffectivelyUnset(VerifierOf(e))
        \/ w = "X402_PAY_TO_ADDRESS" /\ e.x402 /\ e.payTo = "unset"}

Conf == [profile : Profiles, network : Networks, key : BOOLEAN, verifier : Verifiers]

\* config.ts takes the keys and addresses of the network alone, and what it
\* finds there as it is: "undefined" is an address like any other.
Config(e) == [profile |-> e.nodeEnv, network |-> e.network, key |-> e.networkKey,
              verifier |-> e.networkVerifier]

\* isX402Configured: the address has to look like one.
OffersX402(e) == e.x402 /\ e.payTo = "good"

-----------------------------------------------------------------------------
Window    == [count : Nat, left : 0..Hour]
NoWindow  == [count |-> 0, left |-> 0]
NoRequest == [b \in Buckets |-> [n \in 0..(Hour - 1) |-> 0]]
Forgotten == [b \in Buckets |-> NoWindow]

Init ==
    /\ env \in Envs
    /\ proc = "starting"
    /\ conf = Config(env)
    /\ traffic = "none"
    /\ windows = Forgotten
    /\ calendar = [k \in Keys |-> 0]
    /\ timers = [k \in Keys |-> {}]
    /\ counted = [k \in Keys |-> 0]
    /\ phase = 0
    /\ user = 0 /\ disk = 0 /\ tokens = 0
    /\ age = [t \in 1..MaxTokens |-> 0]
    /\ sent = {} /\ spent = {}
    /\ recent = NoRequest
    /\ crashes = 0 /\ diskErrors = 0

\* requireValidEnv.
PassCheck ==
    /\ proc = "starting"
    /\ EnvErrors(env) = {} \/ ~IsProduction(env)
    /\ proc' = "ready"
    /\ UNCHANGED <<env, conf, traffic, windows, minuteVars, phase, tokenVars, recent, crashes>>

RefuseToStart ==
    /\ proc = "starting"
    /\ EnvErrors(env) # {} /\ IsProduction(env)
    /\ proc' = "exited"
    /\ UNCHANGED <<env, conf, traffic, windows, minuteVars, phase, tokenVars, recent, crashes>>

\* The platform starts it again, with the same environment.
StartAgain ==
    /\ proc = "exited"
    /\ proc' = "starting"
    /\ UNCHANGED <<env, conf, traffic, windows, minuteVars, phase, tokenVars, recent, crashes>>

Listen ==
    /\ proc = "ready"
    /\ proc' = "up"
    /\ IF env \in Explored /\ traffic = "none" THEN traffic' \in Traffics ELSE UNCHANGED traffic
    /\ UNCHANGED <<env, conf, windows, minuteVars, phase, tokenVars, recent, crashes>>

-----------------------------------------------------------------------------
(***************************************************************************)
(* rate-limit.ts                                                           *)
(***************************************************************************)
Serves(kind) == proc = "up" /\ traffic = kind

Limit(b) == Limits[conf.profile][b[1]]

\* Sign-up, login, reset and contact count by the hour in production.
Length(b) ==
    IF b[1] \in {"verify-ip", "verify-key", "receipt-xrpl"} \/ conf.profile = "other"
    THEN Minute ELSE Hour

Exhausted(b) == windows[b].left > 0 /\ windows[b].count >= Limit(b)

\* A window begins with the first request after the last one ended, which
\* is let through whatever the limit.
Spend(bs) ==
    windows' = [b \in Buckets |->
                   IF b \notin bs THEN windows[b]
                   ELSE IF windows[b].left = 0 THEN [count |-> 1, left |-> Length(b)]
                   ELSE [windows[b] EXCEPT !.count = @ + 1]]

\* Who sent a request that was let through.
LetThrough(bs) ==
    recent' = [b \in Buckets |-> IF b \in bs THEN [recent[b] EXCEPT ![0] = @ + 1] ELSE recent[b]]

\* Two buckets in turn, the second one if the request names it: what the
\* first spent is not given back when the second refuses.
PassBoth(first, second) ==
    /\ \A b \in {first} \cup second : ~Exhausted(b)
    /\ Spend({first} \cup second)
    /\ LetThrough({first} \cup second)

RefusedByFirst(first) == Exhausted(first) /\ UNCHANGED <<windows, recent>>

RefusedBySecond(first, second) ==
    /\ ~Exhausted(first) /\ \E b \in second : Exhausted(b)
    /\ Spend({first})
    /\ UNCHANGED recent

Ip(kind, ip)       == <<kind, ip>>
KeyOf(k)           == IF k = NoKey THEN {} ELSE {<<"verify-key", k>>}
EmailOf(kind, e)   == IF e = NoEmail THEN {} ELSE {<<kind, e>>}

\* Mutant: a request with a key is not counted by its address.
CheckVerifyRateLimit_KeyOnly(ip, k) ==
    IF k = NoKey
    THEN \/ PassBoth(Ip("verify-ip", ip), {})
         \/ RefusedByFirst(Ip("verify-ip", ip))
    ELSE \/ /\ \A b \in KeyOf(k) : ~Exhausted(b)
            /\ Spend(KeyOf(k))
            /\ LetThrough({Ip("verify-ip", ip)} \cup KeyOf(k))
         \/ RefusedByFirst(<<"verify-key", k>>)

\* The key is the one the caller names, whether it exists or not.
CheckVerifyRateLimit(ip, k) ==
    \/ PassBoth(Ip("verify-ip", ip), KeyOf(k))
    \/ RefusedByFirst(Ip("verify-ip", ip))
    \/ RefusedBySecond(Ip("verify-ip", ip), KeyOf(k))

\* POST /api/v1/verify/xrp-payment, the dashboard's (which names no key) and
\* the tool verify_xrp_payment over HTTP; stdio is not limited.
Verify(ip, k) ==
    /\ Serves("verify")
    /\ CheckVerifyRateLimit(ip, k)
    /\ UNCHANGED <<startVars, minuteVars, phase, tokenVars, crashes>>

\* A route with one limit by address.
RateLimited(kind, ip) ==
    \/ PassBoth(Ip(kind, ip), {})
    \/ RefusedByFirst(Ip(kind, ip))

SignUpOrLogin(kind, ip) ==
    /\ Serves(kind)
    /\ RateLimited(kind, ip)
    /\ UNCHANGED <<startVars, minuteVars, phase, tokenVars, crashes>>

\* handleReceipt: what the store has is answered from there; html wants an
\* attestation that did not fail.  Else the XRP Ledger is asked.
Receipt(ip, known, json) ==
    /\ Serves("receipt")
    /\ IF known = "active" \/ (known = "failed" /\ json)
       THEN UNCHANGED <<windows, recent>>
       ELSE RateLimited("receipt-xrpl", ip)
    /\ UNCHANGED <<startVars, minuteVars, phase, tokenVars, crashes>>

Contact(ip, e) ==
    /\ Serves("contact")
    /\ \/ PassBoth(Ip("contact-ip", ip), EmailOf("contact-email", e))
       \/ RefusedByFirst(Ip("contact-ip", ip))
       \/ RefusedBySecond(Ip("contact-ip", ip), EmailOf("contact-email", e))
    /\ UNCHANGED <<startVars, minuteVars, phase, tokenVars, crashes>>

-----------------------------------------------------------------------------
(***************************************************************************)
(* Password reset                                                          *)
(***************************************************************************)
CountWrite(ok) ==
    /\ ok \/ diskErrors < MaxDiskErrors
    /\ diskErrors' = IF ok THEN diskErrors ELSE diskErrors + 1

\* userStore.update; a token takes the place of the last one.
SetToken(t, ok) ==
    /\ CountWrite(ok)
    /\ user' = t
    /\ disk' = IF ok THEN t ELSE disk

\* An unknown address is answered alike, and nothing is stored.
RequestReset(ip, e, ok) ==
    /\ Serves("reset")
    /\ tokens < MaxTokens
    /\ PassBoth(Ip("reset-ip", ip), EmailOf("reset-email", e))
    /\ IF e = User
       THEN /\ SetToken(tokens + 1, ok)
            /\ tokens' = tokens + 1
            /\ sent' = IF ok THEN sent \cup {tokens + 1} ELSE sent
            /\ UNCHANGED <<age, spent>>
       ELSE ok /\ UNCHANGED tokenVars
    /\ UNCHANGED <<startVars, minuteVars, phase, crashes>>

RefuseReset(ip, e) ==
    /\ Serves("reset")
    /\ \/ RefusedByFirst(Ip("reset-ip", ip))
       \/ RefusedBySecond(Ip("reset-ip", ip), EmailOf("reset-email", e))
    /\ UNCHANGED <<startVars, minuteVars, phase, tokenVars, crashes>>

\* RESET_TOKEN_TTL_MS is an hour; at the end of it the token is still good.
Good(held, t) == held = t /\ age[t] <= Hour

\* Mutant: the token stays with the user.
ResetPassword_KeepsToken(t, ok) ==
    /\ Serves("reset")
    /\ t \in sent /\ Good(user, t)
    /\ SetToken(t, ok)
    /\ spent' = IF ok THEN spent \cup {t} ELSE spent
    /\ UNCHANGED <<startVars, windows, minuteVars, phase, tokens, age, sent, recent, crashes>>

\* The new password and the end of the token are one write; sessions are
\* in Account.  A token that is not good changes nothing.
ResetPassword(t, ok) ==
    /\ Serves("reset")
    /\ t \in sent /\ Good(user, t)
    /\ SetToken(0, ok)
    /\ spent' = IF ok THEN spent \cup {t} ELSE spent
    /\ UNCHANGED <<startVars, windows, minuteVars, phase, tokens, age, sent, recent, crashes>>

-----------------------------------------------------------------------------
(***************************************************************************)
(* requireApiKey: minutes of the clock, cleaned up by timers.              *)
(***************************************************************************)
\* Mutant: timers run half as long.
RequireApiKey_HalfMinute(k, tier) ==
    /\ Serves("status")
    /\ calendar[k] < TierLimits[tier]
    /\ calendar' = [calendar EXCEPT ![k] = @ + 1]
    /\ timers' = [timers EXCEPT ![k] = @ \cup {[now |-> TRUE, left |-> Minute \div 2]}]
    /\ counted' = [counted EXCEPT ![k] = @ + 1]
    /\ UNCHANGED <<startVars, windows, phase, tokenVars, recent, crashes>>

\* A tier may change between any two requests (Account).  Each request let
\* through starts a timer that removes the whole window.
RequireApiKey(k, tier) ==
    /\ Serves("status")
    /\ calendar[k] < TierLimits[tier]
    /\ calendar' = [calendar EXCEPT ![k] = @ + 1]
    /\ timers' = [timers EXCEPT ![k] = @ \cup {[now |-> TRUE, left |-> Minute]}]
    /\ counted' = [counted EXCEPT ![k] = @ + 1]
    /\ UNCHANGED <<startVars, windows, phase, tokenVars, recent, crashes>>

KeyRefused(k, tier) ==
    /\ Serves("status")
    /\ calendar[k] >= TierLimits[tier]
    /\ UNCHANGED vars

\* A timer fires when its time is over, or some time later.
FireTimer(k, timer) ==
    /\ timer \in timers[k] /\ timer.left = 0
    /\ timers' = [timers EXCEPT ![k] = @ \ {timer}]
    /\ calendar' = IF timer.now THEN [calendar EXCEPT ![k] = 0] ELSE calendar
    /\ UNCHANGED <<startVars, windows, counted, phase, tokenVars, recent, crashes>>

-----------------------------------------------------------------------------
Minus1(n) == IF n = 0 THEN 0 ELSE n - 1

Tick ==
    /\ proc = "up"
    /\ phase' = (phase + 1) % Minute
    /\ windows' = [b \in Buckets |->
                      IF windows[b].left <= 1 THEN NoWindow ELSE [windows[b] EXCEPT !.left = @ - 1]]
    /\ recent' = [b \in Buckets |-> [n \in 0..(Hour - 1) |->
                      IF n \in 1..(Length(b) - 1) THEN recent[b][n - 1] ELSE 0]]
    /\ age' = [t \in 1..MaxTokens |-> IF t <= tokens /\ age[t] <= Hour THEN age[t] + 1 ELSE age[t]]
    /\ LET newMinute == phase' = 0
       IN  /\ calendar' = IF newMinute THEN [k \in Keys |-> 0] ELSE calendar
           /\ counted' = IF newMinute THEN [k \in Keys |-> 0] ELSE counted
           /\ timers' = [k \in Keys |-> {[now |-> tm.now /\ ~newMinute, left |-> Minus1(tm.left)] :
                                            tm \in timers[k]}]
    /\ UNCHANGED <<startVars, user, disk, tokens, sent, spent, diskErrors, crashes>>

\* The windows are lost, users.json is read again.
Crash ==
    /\ proc = "up"
    /\ crashes < MaxCrashes
    /\ crashes' = crashes + 1
    /\ proc' = "starting"
    /\ windows' = Forgotten
    /\ calendar' = [k \in Keys |-> 0]
    /\ timers' = [k \in Keys |-> {}]
    /\ user' = disk
    /\ UNCHANGED <<env, conf, traffic, counted, phase, disk, tokens, age, sent, spent, recent, diskErrors>>

Start == PassCheck \/ RefuseToStart \/ StartAgain \/ Listen

Limited ==
    \E ip \in Ips :
        \/ \E k \in Keys \cup {NoKey} : Verify(ip, k)
        \/ \E kind \in {"signup", "login"} : SignUpOrLogin(kind, ip)
        \/ \E known \in {"none", "active", "failed"}, json \in BOOLEAN : Receipt(ip, known, json)
        \/ \E e \in Emails \cup {NoEmail} :
               \/ Contact(ip, e) \/ RefuseReset(ip, e)
               \/ \E ok \in BOOLEAN : RequestReset(ip, e, ok)

Keyed ==
    \E k \in Keys :
        \/ \E tier \in {"free", "paid"} : RequireApiKey(k, tier) \/ KeyRefused(k, tier)
        \/ \E timer \in timers[k] : FireTimer(k, timer)

Next ==
    \/ Start \/ Limited \/ Keyed \/ Tick \/ Crash
    \/ \E t \in 1..MaxTokens, ok \in BOOLEAN : ResetPassword(t, ok)

Spec == Init /\ [][Next]_vars

-----------------------------------------------------------------------------
(***************************************************************************)
(* Properties                                                              *)
(***************************************************************************)
\* Every variable has its type; a window is never over its limit.
TypeOK ==
    /\ env \in Env /\ conf \in Conf
    /\ proc \in {"starting", "exited", "ready", "up"}
    /\ traffic \in Traffics \cup {"none"}
    /\ windows \in [Buckets -> Window]
    /\ \A b \in Buckets : windows[b].count <= Limit(b) \/ windows[b].count = 1
    /\ calendar \in [Keys -> Nat] /\ counted \in [Keys -> Nat]
    /\ timers \in [Keys -> SUBSET [now : BOOLEAN, left : 0..Minute]]
    /\ phase \in 0..(Minute - 1)
    /\ user \in 0..MaxTokens /\ disk \in 0..MaxTokens /\ tokens \in 0..MaxTokens
    /\ age \in [1..MaxTokens -> 0..(Hour + 1)]
    /\ sent \subseteq 1..MaxTokens /\ spent \subseteq 1..MaxTokens
    /\ recent \in [Buckets -> [0..(Hour - 1) -> Nat]]
    /\ crashes \in 0..MaxCrashes /\ diskErrors \in 0..MaxDiskErrors

\* Whatever marks the machine as production, a process that gets through the
\* check signs sessions with a secret of its own, can tell Stripe's events
\* from forged ones, uses a malformed contract address only where it reported
\* that none is set, and, where NODE_ENV says production, attests on the main
\* network.
StartedSound ==
    proc \in {"ready", "up"} /\ (env.fly \/ env.nodeEnv = "production") =>
        /\ env.secret = "own"
        /\ env.stripe => env.stripeWebhook
        /\ conf.verifier \in {"bad", "undefined"} => "PAYMENT_VERIFIER_ADDRESS" \in EnvWarnings(env)
        /\ conf.profile = "production" => conf.network = "flare"

\* Whether attest.ts calls a contract, and the checker said it would not.
SaidDisabled == "PAYMENT_VERIFIER_ADDRESS" \in EnvWarnings(env)
CallsContract == conf.verifier # "unset"

\* What is not reported at start works, and what is reported does not: the
\* checker and the modules that read the environment themselves agree, but
\* for the plain names, which only the checker accepts.  "Disabled" is the
\* truth about the contract but for the string "undefined": the checker
\* says so and every proof is nevertheless sent to that address.
ReportTrue ==
    proc = "up" /\ ~env.plainKey /\ env.plainVerifier = "unset" =>
        /\ conf.key <=> "PRIVATE_KEY" \notin EnvWarnings(env)
        /\ conf.verifier = "good" <=>
              "PAYMENT_VERIFIER_ADDRESS" \notin EnvWarnings(env) \cup EnvErrors(env)
        /\ SaidDisabled /\ CallsContract <=> conf.verifier = "undefined"
        /\ env.x402 =>
              (OffersX402(env) <=> "X402_PAY_TO_ADDRESS" \notin EnvWarnings(env) \cup EnvErrors(env))

\* The check at start lets through what is sound, and reports it truly.
StartIsSound == StartedSound /\ ReportTrue

\* However the requests of an address, key or email are spread over routes,
\* MCP and the edges of windows, no span of one window's length lets more
\* of them through than two windows, and one more for each restart.
SpanBounded ==
    \A b \in Buckets :
        LET limit == Max({1, Limit(b)})
        IN  Total(recent[b]) <= (2 + crashes) * limit

\* A timer never gives a key new room within the minute: only a restart
\* does, once.
MinuteBounded ==
    \A k \in Keys : counted[k] <= (1 + crashes) * Max({TierLimits["free"], TierLimits["paid"]})

\* A reset token is good once, for an hour, and only the newest one that was
\* mailed: also over failed writes and in what a restart reads.
TokenGoodOnce ==
    \A t \in sent : Good(user, t) \/ Good(disk, t) =>
        /\ t \notin spent
        /\ \A later \in sent : later <= t
=============================================================================
